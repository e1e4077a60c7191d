\* Three requests for two calls and for tokens that suffice for some of them.
CONSTANTS
  r1 = r1
  r2 = r2
  r3 = r3
  Requests = {r1, r2, r3}
  Tiers = {"haiku", "sonnet"}
  Sizes = {0, 1, 2}
  Names = {"run", "other"}
  AllowedTiers = {"haiku"}
  MaxCallsPerSubmission = 2
  MaxTokensPerCall = 2
  MaxInputTokensPerCall = 1
  MaxTokensPerSubmission = 5
  FixedSubmissionToken = "run"
  Overrun = 1
SPECIFICATION Spec
INVARIANTS
  BooksAreExact
SYMMETRY Symmetric
\* Every request is answered, and then the run is over.
CHECK_DEADLOCK FALSE
