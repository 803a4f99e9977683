SPECIFICATION FairSpec
CONSTANTS
  Recording <- MixedRecording
  StartFrom = "first_input"
  LoginPorts = {"1818", "1819"}
  WorldPorts = {"18123", "18124"}
  PlaintextPorts = {"1818", "1819", "18124"}
  SpawnPort = "18123"
  Opcodes = {"login", "list", "keepalive"}
  KEEPALIVE_OP = "keepalive"
  Replayers = {"r1"}
  LoginConns = {"a"}
  WorldConns = {"w"}
  PortOf <- Mixed
  Lookahead = 2
  CtrlSync = TRUE
  StopAtSeq = 99
  MaxDrops = 0
  MaxSigints = 0
CHECK_DEADLOCK FALSE
INVARIANTS
  SendsInOrder
PROPERTIES
  ReplayEnds
  
