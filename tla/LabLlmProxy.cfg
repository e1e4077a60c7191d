\* Two submissions, two threads; one process or two as deployed.
CONSTANTS
  s1 = s1
  s2 = s2
  t1 = t1
  t2 = t2
  Submissions = {s1, s2}
  Threads = {t1, t2}
  GlobalCap = 1
  Budget = 1
  MaxUse = 1
  MaxBilled = 3
SPECIFICATION Spec
INVARIANTS
  BooksBalance
  OvershootBounded
  NothingOutlivesSubmission
PROPERTIES
  GradingNeverBlocked
\* Every submission is graded once, and then the system is done.
CHECK_DEADLOCK FALSE
