SPECIFICATION Spec
CONSTANTS
  KeepAlive = TRUE
  Flows = {"login", "s2c", "c2s"}
  FlowPort <- ThreeFlows
  FlowDir <- FlowDirs
  MaxCipherBuf = 64
  Lines <- SmallLines
  Mine <- OurIp
  SwapNames <- NoSwap
  ClientScript <- SmallScript
  SegmentSize <- SmallSegments
  Faulty = {}
  MaxFaults <- NoFault
CHECK_DEADLOCK FALSE
INVARIANT EchoNamesActor
