CONSTANTS
  N = 3
  SMALL_BLIND = 2
  BIG_BLIND = 3
  INITIAL_CHIPS = 5
  RAISE_AMOUNTS = {1, 2}
  MAX_HANDS = 2
SPECIFICATION Spec
INVARIANT PotIsPaidOut
