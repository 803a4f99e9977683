SPECIFICATION Spec
CONSTANTS
  KeepAlive = TRUE
  Flows = {"login", "s2c", "c2s"}
  FlowPort <- ThreeFlows
  FlowDir <- FlowDirs
  MaxCipherBuf = 64
  Lines <- SmallLines
  Mine <- OurIp
  SwapNames <- SomeSwaps
  ClientScript <- SmallScript
  SegmentSize <- SmallSegments
  Faulty = {"s2c"}
  MaxFaults <- FaultUnswapped
CHECK_DEADLOCK FALSE
INVARIANTS
  FramesRecorded
  StaysInWorld
  EchoOfMove
  MovesAnswered
  NoProdAddress
  SwapConsistent
PROPERTIES
  WireDecodes
