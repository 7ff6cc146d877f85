CONSTANTS
  N = 3
  SMALL_BLIND = 2
  BIG_BLIND = 3
  INITIAL_CHIPS = 5
  RAISE_AMOUNTS = {0, 1, 2}
  MAX_HANDS = 2
SPECIFICATION FairSpec
INVARIANTS
  TypeOK
  StackAccounting
  PotIsSumOfBets
  CurrentBetIsHighest
  ClosedRoundIsSettled
  NobodyIsSkipped
  NobodyIsAskedTwice
  FullBoardAtShowdown
  OfferedIsAccepted
  LostChipsWereFolded
PROPERTIES
  HandEnds
  ImplementsLedger
