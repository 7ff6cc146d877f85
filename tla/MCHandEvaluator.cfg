SPECIFICATION Spec
INVARIANTS BestHandIsFound ComparisonsAgree
CHECK_DEADLOCK FALSE
