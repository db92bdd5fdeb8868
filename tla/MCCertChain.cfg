SPECIFICATION Spec
CONSTANTS
  Cert = {"L", "I", "R"}
  Subject = {"s", "t"}
  MaxChain = 3
  Pki <- MCPki
CHECK_DEADLOCK FALSE
INVARIANTS
  TypeOK
  AcceptedIsPath
  UnambiguousIsComplete
PROPERTIES
  ChainIsSound
  WalkEnds
