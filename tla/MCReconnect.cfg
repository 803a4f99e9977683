SPECIFICATION Spec
CONSTANTS
  Recording <- ShortRecording
  StartFrom = "first_input"
  LoginPorts = {"1818", "1819"}
  WorldPorts = {"18123", "18124"}
  PlaintextPorts = {"1818", "1819", "18124"}
  SpawnPort = "18123"
  Opcodes = {"login", "list", "keepalive"}
  KEEPALIVE_OP = "keepalive"
  Replayers = {"r1", "r2"}
  LoginConns = {"a", "b"}
  WorldConns = {}
  PortOf <- SameLogin
  Lookahead = 2
  CtrlSync = TRUE
  StopAtSeq = 99
  MaxDrops = 0
  MaxSigints = 0
CHECK_DEADLOCK FALSE
INVARIANTS
  InLockstep
