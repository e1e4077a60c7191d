\* The budgets are those of langgraph_outcome_graph.py.
CONSTANTS
  MaxStarterAttempts = 3
  MaxGraderAttempts = 3
  MaxIterations = 50
  MaxFaults = 2
SPECIFICATION Spec
INVARIANTS
  ReviewedStarterBoots
  PublishedOracleValidated
PROPERTIES
  ImplementsGateFlow
  ExecutionSettles
\* A published, blocked or abandoned run really stops.
CHECK_DEADLOCK FALSE
