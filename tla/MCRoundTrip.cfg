SPECIFICATION Spec
CONSTANTS
  Name = {"a", "b", "#c"}
  HashName = {"#c"}
  ReservedName = {}
  Content = {"x", "y", "big"}
  Size <- MCSize
  BareType = {"t", "u"}
  Cert = {"C", "D", "E"}
  Journeys <- MCJourneys
  SigningTimes = {1, 2}
  Trusted <- MCTrusted
  MaxEntry = 4
  MaxTotal = 9
  MetaSize = 1
  GenTime = {0, 1, 2, 3, 4, 5}
  PolicyBound <- MCPolicyBound
  MaxZip = 20
  Certificate <- MCCertificate
CHECK_DEADLOCK FALSE
INVARIANTS
  AcceptedIsWhatWasSigned
  ReportedTimeIsStamped
  UntouchedVerdict
  AcceptedBeforeRevocation
  FetchedFirst
