\* Two requests of any kinds, overlapping or not, and one restart; the
\* workspace needs services.
CONSTANTS
  q1 = q1
  q2 = q2
  e0 = e0
  Requests = {q1, q2}
  Enrolled = e0
  Deliverables = 2
  Dependencies = TRUE
SPECIFICATION Spec
INVARIANTS
  RowsAreSound
  ComeBackToLatest
PROPERTIES
  WorkIsKept
  PassIsSeen
\* A learner may be done.
CHECK_DEADLOCK FALSE
