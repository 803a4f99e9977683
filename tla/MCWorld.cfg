SPECIFICATION Spec
CONSTANTS
  Recording <- WorldRecording
  StartFrom = "first_input"
  LoginPorts = {"1818", "1819"}
  WorldPorts = {"18123", "18124"}
  PlaintextPorts = {"1818", "1819", "18124"}
  SpawnPort = "18123"
  Opcodes = {"login", "list", "keepalive"}
  KEEPALIVE_OP = "keepalive"
  Replayers = {"r1"}
  LoginConns = {}
  WorldConns = {"v", "w"}
  PortOf <- TwoWorlds
  Lookahead = 1
  CtrlSync = TRUE
  StopAtSeq = 4
  MaxDrops = 0
  MaxSigints = 1
CHECK_DEADLOCK FALSE
INVARIANTS
  TypeOK
  HandoffAfterPush
  LeadBound
  AtMostOneLate
