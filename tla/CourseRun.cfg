\* A request and two jobs, one inside the other or all at once.
CONSTANTS
  w1 = w1
  j1 = j1
  j2 = j2
  Workers = {w1}
  Jobs = {j1, j2}
  MaxSnapshots = 2
  MaxRestarts = 1
SPECIFICATION Spec
INVARIANTS
  SnapshotsAreSound
  PublishedIsPackaged
PROPERTIES
  SerialPublicationStays
  OperationEnds
