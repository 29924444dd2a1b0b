CONSTANTS
  TTY_NUM_ROWS = 2
  TTY_NUM_COLS = 2
  Byte = 3
  Text = {"0"}
  Numbers = {0, 2}
  Base <- Bases
  HexWidth = 2
  Reversed = 3
  Strings <- KeyStrings
  Announcement <- Line
  MaxBytes = 4
  MaxKeys = 2
SPECIFICATION Spec
INVARIANTS TypeOK NoFarWrite CursorOnScreen ScreenShowsOutput HardwareCursorRecovers DeadOnlyIfEarly
CHECK_DEADLOCK FALSE
