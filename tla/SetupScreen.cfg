SPECIFICATION Spec
CONSTANTS
  AGENTS = {"a", "b"}
  CPUS = 1
  MAX_REFRESHES = 1
  MAX_HANDLERS = 1
  MAX_TESTS = 1
INVARIANT OnlyListedAgentsPlay
PROPERTY ButtonComesBack
