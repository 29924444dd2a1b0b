CONSTANTS
  PtEntries = 8
  PdtEntries = 4
  KernelIdx = 2
  BootPages = 4
  StrayIdx = 5
  StrayEntry = 3
  MaxFrames = 30
  MaxProcesses = 4
  HeapPages = 2
  HeapObjects = 5
SPECIFICATION Spec
INVARIANTS TypeOK TmpRestored NoDanglingFrame Isolated ProcessBuilt KernelStackReachable NoLeak HarmOnlyOutOfFrames
