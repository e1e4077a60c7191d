---------------------------- MODULE MCCourseRun ----------------------------
(***************************************************************************)
(* CourseRun with a few threads, for TLC.                                  *)
(***************************************************************************)
EXTENDS CourseRun

============================================================================
