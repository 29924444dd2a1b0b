CONSTANTS
  Elements = {1, 2, 3, 4}
  MaxSwitches = 5
SPECIFICATION Spec
INVARIANTS TypeOK Chain PidsUnique NoStarvation
PROPERTY QueueSpec
