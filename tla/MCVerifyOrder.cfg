SPECIFICATION Spec
CONSTANTS
  Name <- MCName
  HashName <- MCHash
  ReservedName = {}
  Content <- MCContent
  Size <- MCSize
  BareType = {"t", "u"}
  Cert <- MCCert
  Input <- OrderInput
  Trusted <- MCTrusted
  MaxEntry = 4
  MaxTotal = 14
  MetaSize = 1
CHECK_DEADLOCK FALSE
INVARIANT ReportInContainerOrder
