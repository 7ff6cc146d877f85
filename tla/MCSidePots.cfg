CONSTANTS
  N = 3
  MAX_BET = 5
  UNIT = 6
SPECIFICATION Spec
INVARIANTS
  PaysEveryMatchedChip
  NobodyIsOverpaid
  FairToTheChip
