SPECIFICATION CommandSpec
CONSTANTS
  Name = {"a", "b", "mimetype"}
  HashName = {}
  ReservedName = {"mimetype"}
  Content = {"x", "big"}
  Size <- MCSize
  BareType = {"t"}
  Cert = {"C", "D"}
  Order <- MCOrder
  CommandLine <- MCCommandLine
  Key = {"e", "k", "l"}
  SignerKey = {"k", "l"}
  GenTime = {2, 3, 4}
  PolicyBound <- MCPolicyBound
  MaxZip = 9
  MetaSize = 1
CHECK_DEADLOCK FALSE
INVARIANT ReportedIsOnDisk
