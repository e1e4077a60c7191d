\* Two callers of any kinds; two attempts stand for three.
CONSTANTS
  c1 = c1
  c2 = c2
  Callers = {c1, c2}
  MaxAttempts = 2
  Parts = 2
  Oversize = TRUE
SPECIFICATION CallSpec
INVARIANTS
  BillsAreRight
  LearnedOnlyIfRefused
PROPERTIES
  EveryRequestEnds
\* Every caller handles one request.
CHECK_DEADLOCK FALSE
