SPECIFICATION BundleSpec
CONSTANTS
  Goals <- MCGoals
  Titles <- MCTitles
  Setups <- MCSetups
  MaxPlanned = 2
  OldCourses <- MCOldCourses
  Workspaces <- MCWorkspaces
  MaxEdits = 2
INVARIANTS
  DesignIsSound
  PackageIsSound
  GradesComeHome
CHECK_DEADLOCK FALSE
