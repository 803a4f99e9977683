SPECIFICATION Spec
CONSTANTS
  Leftovers <- SmallLeftovers
  MaxAttaches = 2
  Clicks <- SmallClicks
  Frames <- SmallFrames
  Attempts = 2
  ShiftMax = 2
  DoubleClick = 2
  Client <- SmallClient
  Pictures <- SmallPictures
  PatchHalf = 2
  Scripts <- SmallScripts
  NetLines <- SmallNet
  LogTail = 2
  MaxMatches = 2
  MaxRuns = 2
CHECK_DEADLOCK FALSE
INVARIANTS
  ClicksOnce
  
  EveryClickLands
  
  PickBeforeClose
  
  DryRunPredicts
PROPERTIES
  SyncedIsMatched
  
  InvokeAnswered
