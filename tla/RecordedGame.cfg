CONSTANTS
  N = 3
  SMALL_BLIND = 1
  BIG_BLIND = 2
  INITIAL_CHIPS = 2
  RAISE_AMOUNTS = {1}
  MAX_HANDS = 2
SPECIFICATION RecordedSpec
INVARIANTS
  PotTrail
  PastHandsAreOnRecord
  FoldedCardsStayHidden
  WinningsMatchPot
  StatsNeverOvercount
