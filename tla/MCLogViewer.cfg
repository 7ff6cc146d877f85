SPECIFICATION Spec
CONSTANTS
  FILES = {live, old}
  LIVE = live
  AGENTS = {"Agent1"}
  WRITTEN = {"hand", "prompt", "action"}
  OLD_LOG <- MCOldLog
  MAX_RECORDS = 2
  MAX_LOADS = 2
  MAX_STARTS = 2
CONSTRAINT
  Followed
INVARIANTS
  NoLineListedThrice
  NothingIsMissed
  PanelIsOfOneHand
  HiddenOnlyByRace
  WatchedUnlessRaced
CHECK_DEADLOCK FALSE
PROPERTY
  EveryLineIsListed
