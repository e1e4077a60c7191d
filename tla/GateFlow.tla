------------------------------ MODULE GateFlow ------------------------------
(***************************************************************************)
(* What the outcome pipeline promises to the people who review a course: a *)
(* run is drafted, pauses at gate 1, 2 and 3 in that order, goes on from a *)
(* gate only after a human approved it there, and is published only past   *)
(* gate 3.  An execution that fails blocks the run; one that dies (an      *)
(* exception, a restart of the server) leaves it where it was.             *)
(*                                                                         *)
(* OutcomeGraph and OutcomeRun are shown to implement this specification.  *)
(***************************************************************************)
EXTENDS Naturals

VARIABLES
  phase,    \* 0 drafting, g paused at gate g, Published after gate 3
  running,  \* an execution of the graph is under way
  blocked   \* the run ended without being published

flowVars == <<phase, running, blocked>>

\* The members of HILGate.
Gates == 1..3

Published == 4

FlowTypeOK ==
  /\ phase \in 0..Published
  /\ running \in BOOLEAN
  /\ blocked \in BOOLEAN

\* The run is created with its first execution under way.
FlowInit ==
  /\ phase = 0
  /\ running = TRUE
  /\ blocked = FALSE

Paused == phase \in Gates /\ ~running /\ ~blocked

\* A human approves the gate the run is paused at: its execution starts.
Approve ==
  /\ Paused
  /\ running' = TRUE
  /\ UNCHANGED <<phase, blocked>>

\* A human rejects the gate the run is paused at: the run is over.
Reject ==
  /\ Paused
  /\ blocked' = TRUE
  /\ UNCHANGED <<phase, running>>

\* The execution reaches the next pause, or publishes past the last gate.
Advance ==
  /\ running
  /\ phase' = phase + 1
  /\ running' = FALSE
  /\ UNCHANGED blocked

\* The execution ends in a blocked run.
Fail ==
  /\ running
  /\ blocked' = TRUE
  /\ running' = FALSE
  /\ UNCHANGED phase

\* The execution dies; what was saved before it started still stands.
Abandon ==
  /\ running
  /\ running' = FALSE
  /\ UNCHANGED <<phase, blocked>>

FlowNext == Approve \/ Reject \/ Advance \/ Fail \/ Abandon

FlowSpec == FlowInit /\ [][FlowNext]_flowVars

-----------------------------------------------------------------------------

\* Every execution that is started ends: the reviewer is never left with a
\* run that is being worked on for ever.
ExecutionEnds == running ~> ~running

=============================================================================
