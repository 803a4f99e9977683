SPECIFICATION FairSpec
CONSTANTS
  Rects = {"window"}
  Listeners = {"mouse"}
  PatchSupport = {TRUE}
  QueueMax = 1
  MaxFrames = 1
  MaxCalls = 2
  MaxSignals = 1
  MaxErrors = 1
CHECK_DEADLOCK FALSE
INVARIANTS
  TypeOK
  InputAfterTrigger
  PatchOfPress
  PatchAccounted
  CrashIsReal
  ManifestLast
PROPERTIES
  StopEnds
