CONSTANTS
  Elements = {1, 2}
  MaxSwitches = 3
SPECIFICATION Spec
INVARIANT NoneRunnable
