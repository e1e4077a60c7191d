\* Three requests of any kinds, overlapping or not, and one restart.
CONSTANTS
  q1 = q1
  q2 = q2
  q3 = q3
  r0 = r0
  Requests = {q1, q2, q3}
  Legacy = r0
  Files = 2
SPECIFICATION Spec
INVARIANTS
  PublishedHadEvidence
  LogIsSound
  RecordedBundleIsWhole
PROPERTIES
  PublishedIsFinal
SYMMETRY Symmetric
\* The requests end.
CHECK_DEADLOCK FALSE
