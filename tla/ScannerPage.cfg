CONSTANTS
  Calls = {1, 2}
  MaxJobs = 2
  MaxClicks = 4
SPECIFICATION LiveSpec
INVARIANTS ScannerPageTypeOK
PROPERTIES ScreenFollows
CHECK_DEADLOCK FALSE
