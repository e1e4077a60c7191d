---------------------------- MODULE OutcomeGraph ----------------------------
(***************************************************************************)
(* The outcome course-generation graph of                                  *)
(* services/langgraph_outcome_graph.py: OutcomeWorkflowGraph.execute walks *)
(* an in-memory OutcomeWorkflowState through the spec, starter and grader  *)
(* lanes until it pauses at a human gate, blocks or publishes; the caller  *)
(* then writes the state back to the course run.  An exception out of a    *)
(* collaborator, or the death of the process, discards the in-memory state *)
(* but not what the nodes already wrote to the workspace on disk.          *)
(*                                                                         *)
(* One execution at a time; OutcomeRun models what overlapping requests do *)
(* to the saved row.  A bundle of files (the starter, the oracle's         *)
(* scenarios with their reference implementation) is a version number; 0   *)
(* stands for no bundle or a partly written one.                           *)
(***************************************************************************)
EXTENDS Naturals

CONSTANTS
  MaxStarterAttempts,  \* MAX_STARTER_ATTEMPTS
  MaxGraderAttempts,   \* MAX_GRADER_ATTEMPTS
  MaxIterations,       \* max_iterations of execute
  MaxFaults            \* bound on the executions that die

ASSUME BudgetAssumption ==
  /\ MaxStarterAttempts \in Nat \ {0}
  /\ MaxGraderAttempts \in Nat
  /\ MaxIterations \in Nat
  /\ MaxFaults \in Nat

\* The longest walk of one execution is the grader lane's: author, then run,
\* validate and judge once for the first bundle and once for every repair.
\* The starter lane's is author, then verify and judge for every attempt.
ASSUME IterationAssumption ==
  /\ MaxIterations >= 1 + 2 * MaxStarterAttempts
  /\ MaxIterations >= 1 + 3 * (MaxGraderAttempts + 1)

VARIABLES
  saved,      \* the state in payload_json["outcome_state"]
  mem,        \* the state execute walks; equal to saved between executions
  executing,  \* a request is between execute and the write-back
  iteration,  \* the steps this execution has taken
  disk,       \* the bundle versions in the workspace directory
  authored,   \* how many bundles the authors have produced
  approvals,  \* history: the gates a human approved
  faults      \* how many executions have died

vars == <<saved, mem, executing, iteration, disk, authored, approvals, faults>>

-----------------------------------------------------------------------------
(* The state *)

\* OracleSource, and the value before the spec is authored.
OracleSources == {"reference_run", "curated", "hybrid"}

NoSource == "none"

GateStages == {"awaiting_gate_1", "awaiting_gate_2", "awaiting_gate_3"}

StarterLane == {"starter_authoring", "starter_verify", "starter_review"}

ValidationStages == {"oracle_validation", "oracle_curated_validation"}

GraderLane == {"oracle_authoring", "oracle_pass"} \cup ValidationStages

\* The stages a state is left at between two dispatches.  (spec_review,
\* starter_repair, grader_repair and publishing are overwritten before the
\* node or the dispatcher returns.)
Stages ==
  {"initialized", "spec_authoring", "published"}
    \cup GateStages \cup StarterLane \cup GraderLane

Statuses == {"running", "awaiting_human", "blocked", "published"}

\* What a verifier or validator said, and of which versions it said it.
Verdicts == {"absent", "good", "bad"}

NoBoot == [verdict |-> "absent", of |-> 0]

NoReport == [verdict |-> "absent", scenarios |-> 0, outputs |-> 0]

Boots == [verdict : Verdicts, of : Nat]

Reports == [verdict : Verdicts, scenarios : Nat, outputs : Nat]

States ==
  [stage : Stages, status : Statuses,
   source : OracleSources \cup {NoSource},
   starter : Nat, starterAttempt : Nat, boot : Boots,
   oracle : Nat, graderAttempt : Nat, passOf : Nat,
   runReport : Reports, curatedReport : Reports]

InitialState ==
  [stage |-> "initialized", status |-> "running", source |-> NoSource,
   starter |-> 0, starterAttempt |-> 0, boot |-> NoBoot,
   oracle |-> 0, graderAttempt |-> 0, passOf |-> 0,
   runReport |-> NoReport, curatedReport |-> NoReport]

\* HILGate to the stage that waits for it (gate_stage_map).
GateStage(g) ==
  CASE g = 1 -> "awaiting_gate_1"
    [] g = 2 -> "awaiting_gate_2"
    [] g = 3 -> "awaiting_gate_3"

\* The kick-off creates the run and starts its first execution.
Init ==
  /\ saved = InitialState
  /\ mem = InitialState
  /\ executing = TRUE
  /\ iteration = 0
  /\ disk = [starter |-> 0, oracle |-> 0]
  /\ authored = 0
  /\ approvals = {}
  /\ faults = 0

-----------------------------------------------------------------------------
(* One dispatch of execute: the loop's checks, then _step *)

\* The loop body runs: the state is still running, the cap is not reached
\* and _step dispatches on the stage.
\* (A state that reaches the cap is blocked, and so is
\* one at a stage _step does not know.  No state gets there: CapNeverHit.)
Dispatch(stages) ==
  /\ executing
  /\ mem.status = "running"
  /\ iteration < MaxIterations
  /\ mem.stage \in stages
  /\ iteration' = iteration + 1
  /\ UNCHANGED <<saved, executing, approvals, faults>>

NoFiles == UNCHANGED <<disk, authored>>

\* node_spec_authoring: the planner fails or crashes.
SpecAuthoringFails ==
  /\ Dispatch({"initialized"})
  /\ mem' = [mem EXCEPT !.stage = "spec_authoring", !.status = "blocked"]
  /\ NoFiles

\* node_spec_authoring then node_spec_review, in one step: whatever the
\* coherence judge says, the run pauses at gate 1.
AuthorAndReviewSpec ==
  /\ Dispatch({"initialized"})
  /\ \E source \in OracleSources :
       mem' = [mem EXCEPT !.source = source, !.stage = "awaiting_gate_1",
                          !.status = "awaiting_human"]
  /\ NoFiles

\* node_starter_authoring, entered by the approval of gate 1.
AuthorStarter ==
  /\ Dispatch({"awaiting_gate_1"})
  /\ authored' = authored + 1
  /\ mem' = [mem EXCEPT !.stage = "starter_authoring", !.starter = authored',
                        !.starterAttempt = @ + 1]
  /\ UNCHANGED disk

\* A slip: the verifier boots what an earlier attempt left on disk.
VerifyStaleStarter ==
  /\ Dispatch({"starter_authoring"})
  /\ \E verdict \in {"good", "bad"} :
       mem' = [mem EXCEPT !.stage = "starter_verify",
                          !.boot = [verdict |-> verdict, of |-> disk.starter]]
  /\ NoFiles

\* node_starter_verify: the files replace the starter directory, and the
\* verifier boots what is there.
VerifyStarter ==
  /\ Dispatch({"starter_authoring"})
  /\ disk' = [disk EXCEPT !.starter = mem.starter]
  /\ \E verdict \in {"good", "bad"} :
       mem' = [mem EXCEPT !.stage = "starter_verify",
                          !.boot = [verdict |-> verdict, of |-> disk'.starter]]
  /\ UNCHANGED authored

\* The starter did not boot and its budget is spent.
ExhaustStarter ==
  /\ Dispatch({"starter_verify"})
  /\ mem.boot.verdict = "bad"
  /\ mem.starterAttempt >= MaxStarterAttempts
  /\ mem' = [mem EXCEPT !.stage = "starter_review", !.status = "blocked"]
  /\ NoFiles

\* node_starter_repair: a new bundle, back to verification.
RepairStarter ==
  /\ Dispatch({"starter_verify"})
  /\ mem.boot.verdict = "bad"
  /\ mem.starterAttempt < MaxStarterAttempts
  /\ authored' = authored + 1
  /\ mem' = [mem EXCEPT !.stage = "starter_authoring", !.starter = authored',
                        !.starterAttempt = @ + 1, !.boot = NoBoot]
  /\ UNCHANGED disk

\* A slip: the gate does not pause the run.
PassGate2 ==
  /\ Dispatch({"starter_verify"})
  /\ mem.boot.verdict # "bad"
  /\ mem' = [mem EXCEPT !.stage = "awaiting_gate_2"]
  /\ NoFiles

\* The starter boots: pause at gate 2.
PauseAtGate2 ==
  /\ Dispatch({"starter_verify"})
  /\ mem.boot.verdict # "bad"
  /\ mem' = [mem EXCEPT !.stage = "awaiting_gate_2", !.status = "awaiting_human"]
  /\ NoFiles

\* The author writes a new oracle bundle over the one on disk.
WriteOracle ==
  /\ authored' = authored + 1
  /\ disk' = [disk EXCEPT !.oracle = authored']

\* node_oracle_authoring, entered by the approval of gate 2.
AuthorOracle ==
  /\ Dispatch({"awaiting_gate_2"})
  /\ WriteOracle
  /\ mem' = [mem EXCEPT !.stage = "oracle_authoring", !.oracle = authored']

\* node_oracle_pass: the reference implementation on disk answers every
\* scenario on disk.  Curated courses skip it.
RunOraclePass ==
  /\ Dispatch({"oracle_authoring"})
  /\ mem.source # "curated"
  /\ mem' = [mem EXCEPT !.stage = "oracle_pass", !.passOf = disk.oracle]
  /\ NoFiles

\* What validate_curated_gold reports of the scenarios on disk.
CuratedReport(verdict) ==
  [verdict |-> verdict, scenarios |-> disk.oracle, outputs |-> 0]

\* node_oracle_curated_validation, straight after authoring.
ValidateCurated ==
  /\ Dispatch({"oracle_authoring"})
  /\ mem.source = "curated"
  /\ \E verdict \in {"good", "bad"} :
       mem' = [mem EXCEPT !.stage = "oracle_curated_validation",
                          !.curatedReport = CuratedReport(verdict)]
  /\ NoFiles

\* What validate_oracle reports of the scenarios on disk and the outputs in
\* memory.
RunReport(verdict) ==
  [verdict |-> verdict, scenarios |-> disk.oracle, outputs |-> mem.passOf]

\* node_oracle_validation, and the curated validator too in hybrid mode.
ValidateOracle ==
  /\ Dispatch({"oracle_pass"})
  /\ \E verdict \in {"good", "bad"} :
       \/ /\ mem.source # "hybrid"
          /\ mem' = [mem EXCEPT !.stage = "oracle_validation",
                                !.runReport = RunReport(verdict)]
       \/ /\ mem.source = "hybrid"
          /\ \E curated \in {"good", "bad"} :
               mem' = [mem EXCEPT !.stage = "oracle_curated_validation",
                                  !.runReport = RunReport(verdict),
                                  !.curatedReport = CuratedReport(curated)]
  /\ NoFiles

\* A slip: hybrid mode forgets the curated report.
RunReportBlocks(s) == s.runReport.verdict = "bad"

\* A report that is there and not publishable.
ReportBlocks(s) ==
  \/ s.runReport.verdict = "bad"
  \/ s.curatedReport.verdict = "bad"

ExhaustGrader ==
  /\ Dispatch(ValidationStages)
  /\ ReportBlocks(mem)
  /\ mem.graderAttempt >= MaxGraderAttempts
  /\ mem' = [mem EXCEPT !.status = "blocked"]
  /\ NoFiles

\* A slip: a repair that is not counted.
RepairGraderForFree ==
  /\ Dispatch(ValidationStages)
  /\ ReportBlocks(mem)
  /\ WriteOracle
  /\ mem' = [mem EXCEPT !.stage = "oracle_authoring", !.oracle = authored',
                        !.passOf = 0,
                        !.runReport = NoReport, !.curatedReport = NoReport]

\* A slip: the stage the node enters is never left.
RepairGraderAndStay ==
  /\ Dispatch(ValidationStages)
  /\ ReportBlocks(mem)
  /\ mem.graderAttempt < MaxGraderAttempts
  /\ WriteOracle
  /\ mem' = [mem EXCEPT !.stage = "grader_repair", !.oracle = authored',
                        !.graderAttempt = @ + 1]

\* node_grader_repair: a new oracle bundle, and the results about the old
\* one are cleared.
RepairGrader ==
  /\ Dispatch(ValidationStages)
  /\ ReportBlocks(mem)
  /\ mem.graderAttempt < MaxGraderAttempts
  /\ WriteOracle
  /\ mem' = [mem EXCEPT !.stage = "oracle_authoring", !.oracle = authored',
                        !.graderAttempt = @ + 1, !.passOf = 0,
                        !.runReport = NoReport, !.curatedReport = NoReport]

PauseAtGate3 ==
  /\ Dispatch(ValidationStages)
  /\ ~ReportBlocks(mem)
  /\ mem' = [mem EXCEPT !.stage = "awaiting_gate_3", !.status = "awaiting_human"]
  /\ NoFiles

\* node_publish, entered by the approval of gate 3.
Publish ==
  /\ Dispatch({"awaiting_gate_3"})
  /\ mem' = [mem EXCEPT !.stage = "published", !.status = "published"]
  /\ NoFiles

Step ==
  \/ SpecAuthoringFails \/ AuthorAndReviewSpec
  \/ AuthorStarter \/ VerifyStarter \/ ExhaustStarter \/ RepairStarter
  \/ PauseAtGate2
  \/ AuthorOracle \/ RunOraclePass \/ ValidateCurated \/ ValidateOracle
  \/ ExhaustGrader \/ RepairGrader \/ PauseAtGate3
  \/ Publish

-----------------------------------------------------------------------------
(* The caller of execute *)

\* The request is over; the state in memory is dropped.
EndExecution(s) ==
  /\ saved' = s
  /\ mem' = s
  /\ executing' = FALSE
  /\ iteration' = 0
  /\ UNCHANGED approvals

\* execute returned: _persist_outcome_state (or the kick-off's save) writes
\* the state back.  For a published state the snapshot the learners get is
\* synthesised first; when that fails the saved status becomes blocked.
Persist ==
  /\ executing
  /\ mem.status # "running"
  /\ \/ EndExecution(mem)
     \/ /\ mem.status = "published"
        /\ EndExecution([mem EXCEPT !.status = "blocked"])
  /\ UNCHANGED <<disk, authored, faults>>

\* A slip: the dying request saves the state it was walking.
DieAndSave ==
  /\ executing
  /\ faults < MaxFaults
  /\ faults' = faults + 1
  /\ EndExecution(mem)
  /\ NoFiles

\* The execution dies before the write-back: a node raises (repo author,
\* oracle author, oracle pass, a write to disk) or the server restarts.  A
\* node that was replacing files may have written them partly or wholly.
Die ==
  /\ executing
  /\ faults < MaxFaults
  /\ faults' = faults + 1
  /\ EndExecution(saved)
  /\ \/ NoFiles
     \/ /\ mem.status = "running"
        /\ mem.stage = "starter_authoring"
        /\ \E v \in {0, mem.starter} : disk' = [disk EXCEPT !.starter = v]
        /\ UNCHANGED authored
     \/ /\ mem.status = "running"
        /\ \/ mem.stage = "awaiting_gate_2"
           \/ /\ mem.stage \in ValidationStages
              /\ ReportBlocks(mem)
              /\ mem.graderAttempt < MaxGraderAttempts
        /\ authored' = authored + 1
        /\ \E v \in {0, authored'} : disk' = [disk EXCEPT !.oracle = v]

\* A slip: the decision is not compared with the stage.
ApproveAnyGate(g) ==
  /\ ~executing
  /\ saved.stage \in GateStages
  /\ saved.status = "awaiting_human"
  /\ mem' = [saved EXCEPT !.status = "running"]
  /\ executing' = TRUE
  /\ approvals' = approvals \cup {g}
  /\ UNCHANGED <<saved, iteration, disk, authored, faults>>

\* A slip: a run that was blocked at the gate can be approved after all.
ApproveBlocked(g) ==
  /\ ~executing
  /\ saved.stage = GateStage(g)
  /\ mem' = [saved EXCEPT !.status = "running"]
  /\ executing' = TRUE
  /\ approvals' = approvals \cup {g}
  /\ UNCHANGED <<saved, iteration, disk, authored, faults>>

\* resume_outcome_workflow_after_gate with decision approve: a no-op unless
\* the saved state is paused at this very gate.
ApproveGate(g) ==
  /\ ~executing
  /\ saved.stage = GateStage(g)
  /\ saved.status = "awaiting_human"
  /\ mem' = [saved EXCEPT !.status = "running"]
  /\ executing' = TRUE
  /\ approvals' = approvals \cup {g}
  /\ UNCHANGED <<saved, iteration, disk, authored, faults>>

\* The same with decision reject: the blocked state is written back at once.
RejectGate(g) ==
  /\ ~executing
  /\ saved.stage = GateStage(g)
  /\ saved.status = "awaiting_human"
  /\ saved' = [saved EXCEPT !.status = "blocked"]
  /\ mem' = saved'
  /\ UNCHANGED <<executing, iteration, disk, authored, approvals, faults>>

Decide == \E g \in 1..3 : ApproveGate(g) \/ RejectGate(g)

Next == Step \/ Persist \/ Die \/ Decide

\* A collaborator call returns or raises (they run under timeouts), so an
\* execution keeps moving; nobody has to decide a gate.
Spec == Init /\ [][Next]_vars /\ WF_vars(Step) /\ WF_vars(Persist)

-----------------------------------------------------------------------------
(* Properties *)

\* The types of all variables.
TypeOK ==
  /\ saved \in States
  /\ mem \in States
  /\ executing \in BOOLEAN
  /\ iteration \in Nat
  /\ disk \in [starter : Nat, oracle : Nat]
  /\ authored \in Nat
  /\ approvals \subseteq 1..3
  /\ faults \in Nat

PastGate1 == StarterLane \cup {"awaiting_gate_2"}

PastGate2 == GraderLane \cup {"awaiting_gate_3"}

\* The starter a reviewer sees at gate 2, and that every later stage and the
\* published snapshot take from disk, is the one in the state, and it booted
\* in the sandbox, whatever executions died in between.
StarterBooted(s) ==
  s.stage \in {"awaiting_gate_2", "published"} \cup PastGate2
    => /\ s.boot = [verdict |-> "good", of |-> s.starter]
       /\ s.starter = disk.starter

ReviewedStarterBoots == StarterBooted(saved)

\* The reports the spec's oracle source calls for.
ReportsComplete(s) ==
  /\ s.source # "curated" => s.runReport.verdict = "good"
  /\ s.source # "reference_run" => s.curatedReport.verdict = "good"

\* No report speaks of another bundle than the one on disk, and none is bad.
ReportsCurrent(s) ==
  /\ s.oracle = disk.oracle
  /\ s.runReport.verdict # "absent" =>
       /\ s.runReport.scenarios = disk.oracle
       /\ s.runReport.outputs = disk.oracle
  /\ s.curatedReport.verdict # "absent" => s.curatedReport.scenarios = disk.oracle

\* At gate 3, and in a published course, every validation the oracle source
\* calls for was passed by the bundle that is on disk now, repairs and dead
\* executions notwithstanding.
GraderValidated(s) ==
  s.stage \in {"awaiting_gate_3", "published"}
    => ReportsComplete(s) /\ ReportsCurrent(s)

PublishedOracleValidated == GraderValidated(saved)

\* A run that went past a gate was approved at that gate, and at every gate
\* before it (the guard of resume_outcome_workflow_after_gate).
ApprovedSoFar(s) ==
  /\ s.stage \in PastGate1 => 1 \in approvals
  /\ s.stage \in PastGate2 => {1, 2} \subseteq approvals
  /\ s.stage = "published" => {1, 2, 3} \subseteq approvals

EveryGateApproved == ApprovedSoFar(saved) /\ ApprovedSoFar(mem)

\* "Defensive: should never hit": the repair budgets stop an execution before
\* the iteration cap does, and it never meets a stage _step does not know.
CapNeverHit ==
  executing /\ mem.status = "running" =>
    /\ iteration < MaxIterations
    /\ mem.stage \in {"initialized"} \cup GateStages \cup GraderLane
                      \cup {"starter_authoring", "starter_verify"}

\* A run that was blocked (rejected, out of budget, or not packaged) or
\* published is never touched again.
TerminalIsFinal ==
  [][saved.status \in {"blocked", "published"} => saved' = saved]_saved

\* An execution that dies costs nothing: the run is still paused at the gate
\* it was approved at and the same gate can be approved again.  So an
\* execution always ends, and never in a state that still claims to run.
ExecutionSettles ==
  executing ~> ~executing /\ (saved.status # "running" \/ saved.stage = "initialized")

-----------------------------------------------------------------------------
(* The abstract specification *)

\* How far the saved state is: the gate it is paused at, or the last gate it
\* was approved at.
PhaseOf(s) ==
  CASE s.stage \in {"initialized", "spec_authoring"} -> 0
    [] s.stage = "awaiting_gate_1" \/ s.stage \in StarterLane -> 1
    [] s.stage = "awaiting_gate_2" \/ s.stage \in GraderLane -> 2
    [] s.stage = "awaiting_gate_3" -> 3
    [] s.stage = "published" -> IF s.status = "published" THEN 4 ELSE 3

Flow == INSTANCE GateFlow WITH
  phase <- PhaseOf(saved),
  running <- executing,
  blocked <- saved.status = "blocked"

\* The graph implements the gate flow promised to reviewers.
ImplementsGateFlow == Flow!FlowSpec

=============================================================================
