SPECIFICATION Spec
CONSTANTS
  Rects = {"window"}
  Listeners = {"mouse"}
  PatchSupport = {TRUE}
  QueueMax = 1
  MaxFrames = 1
  MaxCalls = 2
  MaxSignals = 1
  MaxErrors = 0
CHECK_DEADLOCK FALSE
INVARIANTS
  DrainedBeforeClose
