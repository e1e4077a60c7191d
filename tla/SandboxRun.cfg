\* Two executions of any kind and two ports: both may find the same one free.
CONSTANTS
  r1 = r1
  r2 = r2
  Runs = {r1, r2}
  Ports = {1, 2}
  Deliverables = 2
SPECIFICATION SandboxSpec
INVARIANTS
  ReturnIsSound
PROPERTIES
  OwnAppAnswered
  EveryRunReturns
\* Every execution returns once.
CHECK_DEADLOCK FALSE
