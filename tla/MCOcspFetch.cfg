SPECIFICATION Spec
CONSTANTS
  Input <- MCInput
  Certificate <- MCCertificate
  Answers <- MCAnswers
CHECK_DEADLOCK FALSE
INVARIANTS
  TypeOK
  StoredIsServed
  WithinBudget
  
PROPERTY Returns
