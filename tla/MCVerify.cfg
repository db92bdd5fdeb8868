SPECIFICATION Spec
CONSTANTS
  Name <- MCName
  HashName <- MCHash
  ReservedName = {}
  Content <- MCContent
  Size <- MCSize
  BareType = {"t", "u"}
  Cert <- MCCert
  Input <- MCInput
  Trusted <- MCTrusted
  MaxEntry = 4
  MaxTotal = 8
  MetaSize = 1
CHECK_DEADLOCK FALSE
INVARIANTS
  TypeOK
  
  ReportedTime
  ReportCoversDocuments
PROPERTIES
  
  VerdictReached
