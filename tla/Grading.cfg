\* All bundles of a few scenario files, and submissions to what is published.
CONSTANTS
  Specs <- MCSpecs
  Candidates <- MCCandidates
  MaxFiles = 4
  LlmSetups <- MCLlmSetups
  Services <- MCServices
  SampleSize = 2
  Bars = {"b"}
  MaxAttempts = 1
  MaxRepairs = 1
  MaxCauses = 2
SPECIFICATION GradingSpec
INVARIANTS
  GateIsSound
  GoldIsSound
  GradeIsSound
\* A course may be blocked.
CHECK_DEADLOCK FALSE
