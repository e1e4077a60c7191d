\* Two workers, whose requests overlap or do not.
CONSTANTS
  w1 = w1
  w2 = w2
  Workers = {w1, w2}
  KickOffWorker = w1
  MaxSnapshots = 2
  MaxRestarts = 2
SPECIFICATION Spec
INVARIANTS
  RowIsSound
  PublishedGraphIsPackaged
PROPERTIES
  SerialStateSurvives
  ImplementsGateFlow
