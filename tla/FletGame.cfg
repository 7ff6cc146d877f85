CONSTANTS
  N = 2
  SMALL_BLIND = 1
  BIG_BLIND = 2
  INITIAL_CHIPS = 3
  HUMAN = 0
  RAISE_AMOUNTS = {1}
  ACTION_LIMIT = 4
  MAX_HANDS = 2
  DOUBLE_CLICKS = TRUE
SPECIFICATION FairSpec
INVARIANTS
  ChipsSurviveClicks
  LoopKnowsWhoActs
  HumanCanAct
PROPERTIES
  EveryHandIsLeft
