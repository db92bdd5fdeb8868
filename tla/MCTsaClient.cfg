SPECIFICATION Spec
CONSTANTS
  NoNonce = NoNonce
  AnyPolicy = AnyPolicy
  N0 = N0
  N1 = N1
  N2 = N2
  Call <- MCCall
  RandomNonce <- MCRandomNonce
  Timeout = 2
  RetryWait = 1
  MaxAge = 3
  MaxSkew = 1
  Authority <- MCAuthority
  OldStamp <- MCOldStamp
  Stamping <- MCStamping
  Made <- MCMade
  Bodies <- MCBodies
CHECK_DEADLOCK FALSE
INVARIANTS
  TypeOK
  StampedForThisCall
  HonestStampKept
  StoredStampChecks
  WithinBudget
PROPERTIES
  CancelStops
  Returns
