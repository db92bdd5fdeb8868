SPECIFICATION Spec
CONSTANTS
  Cert <- MCCert
  Name = {"i", "r", "x"}
  KeyId = {"kI", "kJ", "kR", "kS", "kX", "ski"}
  NoKeyId = "none"
  Unparsable = "bad"
  Query <- MCQuery
CHECK_DEADLOCK FALSE
INVARIANT
  EmbeddedHasUsage
