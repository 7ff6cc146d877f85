SPECIFICATION Spec
CONSTANTS
  LOOPS = {1, 2}
  AGENT_GAMES = {1}
  WAIT_LIMIT = 1
  REQUEST_TIMEOUT = 2
  MAX_DECISIONS = 2
  MAX_HANDS = 2
INVARIANTS
  OneLoopUnlessCrowded
  PageReadsForward
  AgentIsExplained
  RequestsDoNotOverlap
CHECK_DEADLOCK FALSE
PROPERTIES
  EveryDecisionComes
  ViewerCatchesUp
