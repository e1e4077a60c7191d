\* A course and two revisions of it; four snapshots, of which three are looked at,
\* and a catalogue that sees three course runs.
CONSTANTS
  c1 = c1
  c2 = c2
  c3 = c3
  l1 = l1
  Runs = {c1, c2, c3}
  First = c1
  Learners = {l1}
  Window = 3
  ListWindow = 2
  CourseWindow = 3
  MaxSnapshots = 4
  MaxRows = 5
SPECIFICATION Spec
INVARIANTS
  CatalogueOffersNewest
  VersionsAreSound
PROPERTIES
  RevisionEnds
