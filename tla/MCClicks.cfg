SPECIFICATION Spec
CONSTANTS
  Recorded <- SmallRecorded
  Game <- SmallGame
  Offset <- SmallOffset
  Correction <- SmallCorrection
  Screen <- SmallScreen
  ShiftHistoryMax = 2
  DoubleTime = 2
  Windows <- SmallWindows
  Buttons = {"L"}
  Places <- SmallPlaces
  Pictures <- SmallPictures
  PatchHalf = 2
  Gaps = {2, 3}
  MaxEvents = 4
  MaxWindowMoves = 1
CHECK_DEADLOCK FALSE
INVARIANTS
  DoublesArePairs
PROPERTIES
  ReleaseMeetsPress
  FallbackIsMedian
  FirstClickFresh
