------------------------- MODULE OutcomeGraphProofs -------------------------
(***************************************************************************)
(* Proofs about OutcomeGraph, for every value of the repair budgets and of *)
(* the iteration cap that BudgetAssumption and IterationAssumption allow,  *)
(* and about Grading, which is what its oracle lane and the submissions to *)
(* what it publishes do in detail, for all specs, bundles, services and    *)
(* benchmarks that GradingAssumption allows.                               *)
(***************************************************************************)
EXTENDS OutcomeGraph, Grading, TLAPS

-----------------------------------------------------------------------------
(* The inductive invariant *)

\* Between executions the state in memory is the saved one.
IdleMem == ~executing => mem = saved /\ iteration = 0

\* Which stages an execution can have reached from the gate it started at,
\* once that gate was approved; what is saved meanwhile is still that gate.
Reach ==
  executing =>
    \/ /\ saved = InitialState
       /\ \/ mem.stage = "initialized"
          \/ mem.stage = "spec_authoring" /\ mem.status = "blocked"
          \/ mem.stage = "awaiting_gate_1" /\ mem.status = "awaiting_human"
    \/ /\ saved.stage = "awaiting_gate_1" /\ saved.status = "awaiting_human"
       /\ 1 \in approvals
       /\ \/ mem.stage \in {"awaiting_gate_1"} \cup StarterLane
          \/ mem.stage = "awaiting_gate_2" /\ mem.status = "awaiting_human"
    \/ /\ saved.stage = "awaiting_gate_2" /\ saved.status = "awaiting_human"
       /\ {1, 2} \subseteq approvals
       /\ \/ mem.stage \in {"awaiting_gate_2"} \cup GraderLane
          \/ mem.stage = "awaiting_gate_3" /\ mem.status = "awaiting_human"
    \/ /\ saved.stage = "awaiting_gate_3" /\ saved.status = "awaiting_human"
       /\ {1, 2, 3} \subseteq approvals
       /\ \/ mem.stage = "awaiting_gate_3"
          \/ mem.stage = "published" /\ mem.status = "published"

\* Which statuses go with a stage.
StageStatus(s) ==
  /\ s.status = "running" =>
       s.stage \in {"initialized"} \cup GateStages \cup GraderLane
                     \cup {"starter_authoring", "starter_verify"}
  /\ s.status = "awaiting_human" => s.stage \in GateStages
  /\ s.status = "published" => s.stage = "published"
  /\ s.stage = "spec_authoring" => s.status = "blocked"

\* No bundle is attempted before its lane, and no lane exceeds its budget.
Attempts(s) ==
  /\ s.stage \in {"initialized", "spec_authoring", "awaiting_gate_1"}
       => s.starterAttempt = 0
  /\ s.stage \in {"initialized", "spec_authoring", "awaiting_gate_1"}
                   \cup PastGate1
       => s.graderAttempt = 0
  /\ s.stage \in {"starter_authoring", "starter_verify"}
       => s.starterAttempt \in 1..MaxStarterAttempts
  /\ s.stage \in GraderLane => s.graderAttempt \in 0..MaxGraderAttempts

\* How many steps an execution has taken when it is about to dispatch.
Rank ==
  executing /\ mem.status = "running" =>
    /\ mem.stage \in {"initialized"} \cup GateStages => iteration = 0
    /\ mem.stage = "starter_authoring" => iteration = 2 * mem.starterAttempt - 1
    /\ mem.stage = "starter_verify" => iteration = 2 * mem.starterAttempt
    /\ mem.stage = "oracle_authoring" => iteration <= 1 + 3 * mem.graderAttempt
    /\ mem.stage = "oracle_pass" => iteration <= 2 + 3 * mem.graderAttempt
    /\ mem.stage \in ValidationStages => iteration <= 3 + 3 * mem.graderAttempt

\* A state about to be judged carries the verdict of the boot of its starter.
BootJudged(s) ==
  s.stage = "starter_verify" =>
    /\ s.starter = disk.starter
    /\ s.boot.of = s.starter
    /\ s.boot.verdict # "absent"

\* In the grader lane the bundle of the state is the one on disk, and what
\* the oracle pass and the validators have said is about that bundle.
OracleJudged(s) ==
  /\ s.stage \in GraderLane => ReportsCurrent(s) /\ s.source \in OracleSources
  /\ s.stage = "oracle_pass" => s.source # "curated" /\ s.passOf = disk.oracle
  /\ s.stage \in ValidationStages =>
       /\ s.source # "curated" => s.runReport.verdict # "absent"
       /\ s.source # "reference_run" => s.curatedReport.verdict # "absent"

\* Before the grader lane there is no report that could be mistaken for one
\* of the bundle to come.
NoEarlyReport(s) ==
  s.stage \in {"initialized", "spec_authoring", "awaiting_gate_1", "awaiting_gate_2"}
                \cup StarterLane
    => s.runReport = NoReport /\ s.curatedReport = NoReport

SourceKnown(s) ==
  s.stage \notin {"initialized", "spec_authoring"} => s.source \in OracleSources

Graph(s) ==
  /\ StageStatus(s)
  /\ Attempts(s)
  /\ NoEarlyReport(s)
  /\ SourceKnown(s)

Judged(s) ==
  /\ StarterBooted(s)
  /\ GraderValidated(s)
  /\ ApprovedSoFar(s)

\* Both states are judged against the disk as it is: the saved one too while
\* an execution replaces files, since it is then still at the gate before the
\* stage that vouches for them.
Inv ==
  /\ TypeOK
  /\ IdleMem
  /\ Reach
  /\ Rank
  /\ Graph(saved) /\ Graph(mem)
  /\ Judged(saved) /\ Judged(mem)
  /\ BootJudged(mem)
  /\ OracleJudged(mem)

-----------------------------------------------------------------------------
(* Type correctness *)

LEMMA StateNames ==
  /\ Stages = {"initialized", "spec_authoring", "awaiting_gate_1",
               "starter_authoring", "starter_verify", "starter_review",
               "awaiting_gate_2", "oracle_authoring", "oracle_pass",
               "oracle_validation", "oracle_curated_validation",
               "awaiting_gate_3", "published"}
  /\ Statuses = {"running", "awaiting_human", "blocked", "published"}
  /\ NoBoot \in Boots
  /\ NoReport \in Reports
  /\ \A v \in Verdicts, n \in Nat : [verdict |-> v, of |-> n] \in Boots
  /\ \A v \in Verdicts, n, o \in Nat :
       [verdict |-> v, scenarios |-> n, outputs |-> o] \in Reports
  /\ "good" \in Verdicts /\ "bad" \in Verdicts
  BY DEF Stages, GateStages, StarterLane, GraderLane, ValidationStages, Statuses,
     NoBoot, NoReport, Boots, Reports, Verdicts

LEMMA FieldTypes ==
  ASSUME NEW s \in States
  PROVE  /\ s.stage \in Stages /\ s.status \in Statuses
         /\ s.starter \in Nat /\ s.starterAttempt \in Nat /\ s.boot \in Boots
         /\ s.oracle \in Nat /\ s.graderAttempt \in Nat /\ s.passOf \in Nat
         /\ s.runReport \in Reports /\ s.curatedReport \in Reports
  BY DEF States

LEMMA InitialStateType == InitialState \in States
  BY StateNames DEF InitialState, States, NoSource

\* The state in memory stays well-typed: one dispatch at a time.
LEMMA StepMemType ==
  ASSUME TypeOK, Step
  PROVE  mem' \in States
<1> USE DEF TypeOK
<1>1. CASE SpecAuthoringFails
  BY <1>1, StateNames DEF SpecAuthoringFails, States
<1>2. CASE AuthorAndReviewSpec
  BY <1>2, StateNames DEF AuthorAndReviewSpec, States
<1>3. CASE AuthorStarter
  <2>1. authored' \in Nat /\ mem.starterAttempt + 1 \in Nat
    BY <1>3, FieldTypes DEF AuthorStarter
  <2>2. QED
    BY <1>3, <2>1, StateNames DEF AuthorStarter, States
<1>4. CASE VerifyStarter
  <2>1. PICK v \in Verdicts :
          mem' = [mem EXCEPT !.stage = "starter_verify",
                             !.boot = [verdict |-> v, of |-> disk'.starter]]
    BY <1>4, StateNames DEF VerifyStarter
  <2>2. disk'.starter = mem.starter
    BY <1>4 DEF VerifyStarter
  <2>3. [verdict |-> v, of |-> disk'.starter] \in Boots
    BY <2>2, StateNames, FieldTypes
  <2>4. QED
    BY <2>1, <2>3, StateNames DEF States
<1>5. CASE ExhaustStarter
  BY <1>5, StateNames DEF ExhaustStarter, States
<1>6. CASE RepairStarter
  <2>1. authored' \in Nat /\ mem.starterAttempt + 1 \in Nat
    BY <1>6, FieldTypes DEF RepairStarter
  <2>2. QED
    BY <1>6, <2>1, StateNames DEF RepairStarter, States
<1>7. CASE PauseAtGate2
  BY <1>7, StateNames DEF PauseAtGate2, States
<1>8. CASE AuthorOracle
  <2>1. authored' \in Nat
    BY <1>8 DEF AuthorOracle, WriteOracle
  <2>2. QED
    BY <1>8, <2>1, StateNames DEF AuthorOracle, States
<1>9. CASE RunOraclePass
  BY <1>9, StateNames DEF RunOraclePass, States
<1>10. CASE ValidateCurated
  <2>1. PICK v \in Verdicts :
          mem' = [mem EXCEPT !.stage = "oracle_curated_validation",
                             !.curatedReport = CuratedReport(v)]
    BY <1>10, StateNames DEF ValidateCurated
  <2>2. CuratedReport(v) \in Reports
    BY StateNames DEF CuratedReport
  <2>3. QED
    BY <2>1, <2>2, StateNames DEF States
<1>11. CASE ValidateOracle
  <2>1. \A v \in Verdicts : CuratedReport(v) \in Reports
    BY StateNames DEF CuratedReport
  <2>2. \A v \in Verdicts : RunReport(v) \in Reports
    BY StateNames, FieldTypes DEF RunReport
  <2>3. PICK v \in Verdicts, w \in Verdicts :
          \/ mem' = [mem EXCEPT !.stage = "oracle_validation",
                                !.runReport = RunReport(v)]
          \/ mem' = [mem EXCEPT !.stage = "oracle_curated_validation",
                                !.runReport = RunReport(v),
                                !.curatedReport = CuratedReport(w)]
    BY <1>11, StateNames DEF ValidateOracle
  <2>4. QED
    BY <2>1, <2>2, <2>3, StateNames DEF States
<1>12. CASE ExhaustGrader
  BY <1>12, StateNames DEF ExhaustGrader, States
<1>13. CASE RepairGrader
  <2>1. authored' \in Nat /\ mem.graderAttempt + 1 \in Nat
    BY <1>13, FieldTypes DEF RepairGrader, WriteOracle
  <2>2. QED
    BY <1>13, <2>1, StateNames DEF RepairGrader, States
<1>14. CASE PauseAtGate3
  BY <1>14, StateNames DEF PauseAtGate3, States
<1>15. CASE Publish
  BY <1>15, StateNames DEF Publish, States
<1>16. QED
  BY <1>1, <1>2, <1>3, <1>4, <1>5, <1>6, <1>7, <1>8, <1>9, <1>10, <1>11, <1>12,
     <1>13, <1>14, <1>15 DEF Step

\* What every dispatch leaves alone.
LEMMA StepFrame ==
  ASSUME Step
  PROVE  /\ executing /\ mem.status = "running" /\ iteration < MaxIterations
         /\ iteration' = iteration + 1
         /\ UNCHANGED <<saved, executing, approvals, faults>>
  BY Zenon
     DEF Step, SpecAuthoringFails, AuthorAndReviewSpec, AuthorStarter,
         VerifyStarter, ExhaustStarter, RepairStarter, PauseAtGate2, AuthorOracle,
         RunOraclePass, ValidateCurated, ValidateOracle, ExhaustGrader, RepairGrader,
         PauseAtGate3, Publish, Dispatch

\* What a dispatch does to the workspace.
LEMMA StepDisk ==
  ASSUME Step
  PROVE  \/ UNCHANGED <<disk, authored>>
         \/ authored' = authored + 1 /\ disk' = disk
         \/ /\ mem.stage \in {"starter_authoring"}
            /\ disk' = [disk EXCEPT !.starter = mem.starter] /\ authored' = authored
         \/ /\ mem.stage \in {"awaiting_gate_2"} \/ mem.stage \in ValidationStages
            /\ authored' = authored + 1 /\ disk' = [disk EXCEPT !.oracle = authored']
  BY Zenon
     DEF Step, SpecAuthoringFails, AuthorAndReviewSpec, AuthorStarter,
         VerifyStarter, ExhaustStarter, RepairStarter, PauseAtGate2, AuthorOracle,
         RunOraclePass, ValidateCurated, ValidateOracle, ExhaustGrader, RepairGrader,
         PauseAtGate3, Publish, WriteOracle, NoFiles, Dispatch

LEMMA CallerType ==
  ASSUME TypeOK, Persist \/ Die \/ Decide
  PROVE  TypeOK'
<1> USE DEF TypeOK
<1>1. CASE Persist
  <2>1. [mem EXCEPT !.status = "blocked"] \in States
    BY StateNames DEF States
  <2>2. saved' \in States /\ mem' \in States
    BY <1>1, <2>1 DEF Persist, EndExecution
  <2>3. executing' = FALSE /\ iteration' = 0
    BY <1>1 DEF Persist, EndExecution
  <2>4. UNCHANGED <<disk, authored, faults, approvals>>
    BY <1>1 DEF Persist, EndExecution
  <2>5. QED
    BY <2>2, <2>3, <2>4
<1>2. CASE Die
  <2>1. disk' \in [starter : Nat, oracle : Nat] /\ authored' \in Nat
    BY <1>2, FieldTypes DEF Die, NoFiles
  <2>2. saved' \in States /\ mem' \in States /\ iteration' \in Nat /\ faults' \in Nat
    BY <1>2 DEF Die, EndExecution
  <2>3. executing' = FALSE /\ UNCHANGED approvals
    BY <1>2 DEF Die, EndExecution
  <2>4. QED
    BY <2>1, <2>2, <2>3
<1>3. ASSUME NEW g \in 1..3, ApproveGate(g)
      PROVE  TypeOK'
  <2>1. mem' \in States
    BY <1>3, StateNames DEF ApproveGate, States
  <2>2. QED
    BY <1>3, <2>1 DEF ApproveGate
<1>4. ASSUME NEW g \in 1..3, RejectGate(g)
      PROVE  TypeOK'
  <2>1. saved' \in States
    BY <1>4, StateNames DEF RejectGate, States
  <2>2. QED
    BY <1>4, <2>1 DEF RejectGate
<1>5. QED
  BY <1>1, <1>2, <1>3, <1>4 DEF Decide

LEMMA TypeStep == TypeOK /\ [Next]_vars => TypeOK'
<1> SUFFICES ASSUME TypeOK, [Next]_vars PROVE TypeOK'
  OBVIOUS
<1>1. CASE Step
  <2>1. mem' \in States /\ UNCHANGED <<saved, executing, approvals, faults>>
    BY <1>1, StepMemType, StepFrame
  <2>2. iteration' \in Nat
    BY <1>1, StepFrame DEF TypeOK
  <2>3. disk' \in [starter : Nat, oracle : Nat] /\ authored' \in Nat
    BY <1>1, StepDisk, FieldTypes DEF TypeOK
  <2>4. QED
    BY <2>1, <2>2, <2>3 DEF TypeOK
<1>2. CASE Persist \/ Die \/ Decide
  BY <1>2, CallerType
<1>3. CASE UNCHANGED vars
  BY <1>3 DEF vars, TypeOK
<1>4. QED
  BY <1>1, <1>2, <1>3 DEF Next

\* Every variable keeps its type: the fields of OutcomeWorkflowState in
\* memory and in the row, the loop counter of execute, the bundle versions.
THEOREM TypeCorrect == Spec => []TypeOK
<1>1. Init => TypeOK
  BY InitialStateType DEF Init, TypeOK
<1>2. QED
  BY <1>1, TypeStep, PTL DEF Spec

-----------------------------------------------------------------------------
(* The inductive step *)

\* The fields of the starter lane, and of the grader lane, that a dispatch
\* of the other lanes does not touch.
SameStarter(s, t) ==
  t.starter = s.starter /\ t.starterAttempt = s.starterAttempt /\ t.boot = s.boot

SameOracle(s, t) ==
  /\ t.oracle = s.oracle /\ t.graderAttempt = s.graderAttempt
  /\ t.passOf = s.passOf
  /\ t.runReport = s.runReport /\ t.curatedReport = s.curatedReport

\* Only the bundle of its own lane is replaced on disk, so what is saved
\* stays judged while an execution runs.
LEMMA SavedStep ==
  ASSUME Inv, Step
  PROVE  Graph(saved)' /\ Judged(saved)'
<1>1. UNCHANGED <<saved, executing, approvals>> /\ executing
  BY StepFrame
<1>2. Graph(saved)'
  BY <1>1 DEF Inv, Graph, StageStatus, Attempts, NoEarlyReport, SourceKnown
<1>3. disk \in [starter : Nat, oracle : Nat]
  BY DEF Inv, TypeOK
<1>4. disk'.starter = disk.starter \/ mem.stage \in {"starter_authoring"}
  BY <1>3, StepDisk
<1>5. \/ disk'.oracle = disk.oracle
      \/ mem.stage \in {"awaiting_gate_2"} \/ mem.stage \in ValidationStages
  BY <1>3, StepDisk
<1>6. StarterBooted(saved)'
  <2>1. CASE disk'.starter = disk.starter
    BY <2>1, <1>1 DEF Inv, Judged, StarterBooted
  <2>2. CASE mem.stage \in {"starter_authoring"}
    BY <2>2, <1>1 DEF Inv, Reach, StarterBooted, PastGate1, PastGate2, GraderLane,
       ValidationStages, StarterLane
  <2>3. QED
    BY <1>4, <2>1, <2>2
<1>7. GraderValidated(saved)'
  <2>1. CASE disk'.oracle = disk.oracle
    BY <2>1, <1>1 DEF Inv, Judged, GraderValidated, ReportsComplete, ReportsCurrent
  <2>2. CASE mem.stage \in {"awaiting_gate_2"} \/ mem.stage \in ValidationStages
    BY <2>2, <1>1 DEF Inv, Reach, GraderValidated, PastGate1, PastGate2, GraderLane,
       ValidationStages, StarterLane
  <2>3. QED
    BY <1>5, <2>1, <2>2
<1>8. ApprovedSoFar(saved)'
  BY <1>1 DEF Inv, Judged, ApprovedSoFar
<1>9. QED
  BY <1>2, <1>6, <1>7, <1>8 DEF Judged

\* The state in memory through one dispatch: the lane invariants.
LEMMA MemStep ==
  ASSUME Inv, Step
  PROVE  /\ Graph(mem)' /\ Judged(mem)'
         /\ BootJudged(mem)' /\ OracleJudged(mem)'
         /\ Reach' /\ Rank'
<1>1. mem \in States /\ disk \in [starter : Nat, oracle : Nat]
  BY DEF Inv, TypeOK
<1>2. /\ executing /\ mem.status = "running" /\ iteration < MaxIterations
      /\ iteration' = iteration + 1
      /\ UNCHANGED <<saved, executing, approvals, faults>>
  BY StepFrame
<1>3. mem.starterAttempt \in Nat /\ mem.graderAttempt \in Nat /\ iteration \in Nat
  BY <1>1, FieldTypes DEF Inv, TypeOK
<1>4. /\ mem.boot \in Boots
      /\ mem.runReport.verdict \in Verdicts /\ mem.curatedReport.verdict \in Verdicts
  BY <1>1, FieldTypes DEF Reports
<1> USE DEF SameStarter, SameOracle
<1>5. CASE SpecAuthoringFails
  <2>1. /\ mem.stage = "initialized" /\ disk' = disk
        /\ mem'.stage = "spec_authoring" /\ mem'.status = "blocked"
        /\ mem'.source = mem.source
        /\ SameStarter(mem, mem') /\ SameOracle(mem, mem')
    BY <1>5, <1>1 DEF SpecAuthoringFails, Dispatch, NoFiles, States
  <2>2. Graph(mem)'
    BY <2>1, <1>2, <1>3, BudgetAssumption DEF Inv, Graph, StageStatus, Attempts, NoEarlyReport,
       SourceKnown, GateStages, StarterLane, GraderLane, ValidationStages, PastGate1, PastGate2
  <2>3. Judged(mem)'
    BY <2>1, <1>2, <1>4 DEF Inv, Graph, Reach, Judged, StarterBooted, GraderValidated,
       ReportsComplete, ReportsCurrent, ApprovedSoFar, BootJudged, OracleJudged,
       Boots, Verdicts, GateStages, StarterLane, GraderLane, ValidationStages, PastGate1, PastGate2
  <2>4. BootJudged(mem)' /\ OracleJudged(mem)'
    BY <2>1, <1>2 DEF Inv, Graph, NoEarlyReport, SourceKnown, BootJudged,
       OracleJudged, OracleSources, ReportsCurrent, NoReport, GateStages, StarterLane, GraderLane, ValidationStages, PastGate1, PastGate2
  <2>5. Reach'
    BY <2>1, <1>2 DEF Inv, Reach, GateStages, StarterLane, GraderLane, ValidationStages, PastGate1, PastGate2
  <2>6. Rank'
    BY <2>1, <1>2, <1>3, BudgetAssumption DEF Inv, Graph, Attempts, Rank, GateStages, StarterLane, GraderLane, ValidationStages, PastGate1, PastGate2
  <2>7. QED
    BY <2>2, <2>3, <2>4, <2>5, <2>6
<1>6. CASE AuthorAndReviewSpec
  <2>1. /\ mem.stage = "initialized" /\ disk' = disk
        /\ mem'.stage = "awaiting_gate_1" /\ mem'.status = "awaiting_human"
        /\ mem'.source \in OracleSources
        /\ SameStarter(mem, mem') /\ SameOracle(mem, mem')
    BY <1>6, <1>1 DEF AuthorAndReviewSpec, Dispatch, NoFiles, States
  <2>2. Graph(mem)'
    BY <2>1, <1>2, <1>3, BudgetAssumption DEF Inv, Graph, StageStatus, Attempts, NoEarlyReport,
       SourceKnown, GateStages, StarterLane, GraderLane, ValidationStages, PastGate1, PastGate2
  <2>3. Judged(mem)'
    BY <2>1, <1>2, <1>4 DEF Inv, Graph, Reach, Judged, StarterBooted, GraderValidated,
       ReportsComplete, ReportsCurrent, ApprovedSoFar, BootJudged, OracleJudged,
       Boots, Verdicts, GateStages, StarterLane, GraderLane, ValidationStages, PastGate1, PastGate2
  <2>4. BootJudged(mem)' /\ OracleJudged(mem)'
    BY <2>1, <1>2 DEF Inv, Graph, NoEarlyReport, SourceKnown, BootJudged,
       OracleJudged, OracleSources, ReportsCurrent, NoReport, GateStages, StarterLane, GraderLane, ValidationStages, PastGate1, PastGate2
  <2>5. Reach'
    BY <2>1, <1>2 DEF Inv, Reach, GateStages, StarterLane, GraderLane, ValidationStages, PastGate1, PastGate2
  <2>6. Rank'
    BY <2>1, <1>2, <1>3, BudgetAssumption DEF Inv, Graph, Attempts, Rank, GateStages, StarterLane, GraderLane, ValidationStages, PastGate1, PastGate2
  <2>7. QED
    BY <2>2, <2>3, <2>4, <2>5, <2>6
<1>7. CASE AuthorStarter
  <2>1. /\ mem.stage = "awaiting_gate_1" /\ disk' = disk
        /\ mem'.stage = "starter_authoring" /\ mem'.status = mem.status
        /\ mem'.source = mem.source /\ mem'.starterAttempt = mem.starterAttempt + 1
        /\ SameOracle(mem, mem')
    BY <1>7, <1>1 DEF AuthorStarter, Dispatch, NoFiles, States
  <2>2. Graph(mem)'
    BY <2>1, <1>2, <1>3, BudgetAssumption DEF Inv, Graph, StageStatus, Attempts, NoEarlyReport,
       SourceKnown, GateStages, StarterLane, GraderLane, ValidationStages, PastGate1, PastGate2
  <2>3. Judged(mem)'
    BY <2>1, <1>2, <1>4 DEF Inv, Graph, Reach, Judged, StarterBooted, GraderValidated,
       ReportsComplete, ReportsCurrent, ApprovedSoFar, BootJudged, OracleJudged,
       Boots, Verdicts, GateStages, StarterLane, GraderLane, ValidationStages, PastGate1, PastGate2
  <2>4. BootJudged(mem)' /\ OracleJudged(mem)'
    BY <2>1, <1>2 DEF Inv, Graph, NoEarlyReport, SourceKnown, BootJudged,
       OracleJudged, OracleSources, ReportsCurrent, NoReport, GateStages, StarterLane, GraderLane, ValidationStages, PastGate1, PastGate2
  <2>5. Reach'
    BY <2>1, <1>2 DEF Inv, Reach, GateStages, StarterLane, GraderLane, ValidationStages, PastGate1, PastGate2
  <2>6. Rank'
    BY <2>1, <1>2, <1>3, BudgetAssumption DEF Inv, Graph, Attempts, Rank, GateStages, StarterLane, GraderLane, ValidationStages, PastGate1, PastGate2
  <2>7. QED
    BY <2>2, <2>3, <2>4, <2>5, <2>6
<1>8. CASE VerifyStarter
  <2>1. /\ mem.stage = "starter_authoring" /\ disk'.starter = mem.starter
        /\ disk'.oracle = disk.oracle
        /\ mem'.stage = "starter_verify" /\ mem'.status = mem.status
        /\ mem'.source = mem.source /\ mem'.starter = mem.starter
        /\ mem'.starterAttempt = mem.starterAttempt
        /\ mem'.boot.of = mem.starter /\ mem'.boot.verdict \in {"good", "bad"}
        /\ SameOracle(mem, mem')
    BY <1>8, <1>1 DEF VerifyStarter, Dispatch, NoFiles, States
  <2>2. Graph(mem)'
    BY <2>1, <1>2, <1>3, BudgetAssumption DEF Inv, Graph, StageStatus, Attempts, NoEarlyReport,
       SourceKnown, GateStages, StarterLane, GraderLane, ValidationStages, PastGate1, PastGate2
  <2>3. Judged(mem)'
    BY <2>1, <1>2, <1>4 DEF Inv, Graph, Reach, Judged, StarterBooted, GraderValidated,
       ReportsComplete, ReportsCurrent, ApprovedSoFar, BootJudged, OracleJudged,
       Boots, Verdicts, GateStages, StarterLane, GraderLane, ValidationStages, PastGate1, PastGate2
  <2>4. BootJudged(mem)' /\ OracleJudged(mem)'
    BY <2>1, <1>2 DEF Inv, Graph, NoEarlyReport, SourceKnown, BootJudged,
       OracleJudged, OracleSources, ReportsCurrent, NoReport, GateStages, StarterLane, GraderLane, ValidationStages, PastGate1, PastGate2
  <2>5. Reach'
    BY <2>1, <1>2 DEF Inv, Reach, GateStages, StarterLane, GraderLane, ValidationStages, PastGate1, PastGate2
  <2>6. Rank'
    BY <2>1, <1>2, <1>3, BudgetAssumption DEF Inv, Graph, Attempts, Rank, GateStages, StarterLane, GraderLane, ValidationStages, PastGate1, PastGate2
  <2>7. QED
    BY <2>2, <2>3, <2>4, <2>5, <2>6
<1>9. CASE ExhaustStarter
  <2>1. /\ mem.stage = "starter_verify" /\ disk' = disk
        /\ mem'.stage = "starter_review" /\ mem'.status = "blocked"
        /\ mem'.source = mem.source
        /\ SameStarter(mem, mem') /\ SameOracle(mem, mem')
    BY <1>9, <1>1 DEF ExhaustStarter, Dispatch, NoFiles, States
  <2>2. Graph(mem)'
    BY <2>1, <1>2, <1>3, BudgetAssumption DEF Inv, Graph, StageStatus, Attempts, NoEarlyReport,
       SourceKnown, GateStages, StarterLane, GraderLane, ValidationStages, PastGate1, PastGate2
  <2>3. Judged(mem)'
    BY <2>1, <1>2, <1>4 DEF Inv, Graph, Reach, Judged, StarterBooted, GraderValidated,
       ReportsComplete, ReportsCurrent, ApprovedSoFar, BootJudged, OracleJudged,
       Boots, Verdicts, GateStages, StarterLane, GraderLane, ValidationStages, PastGate1, PastGate2
  <2>4. BootJudged(mem)' /\ OracleJudged(mem)'
    BY <2>1, <1>2 DEF Inv, Graph, NoEarlyReport, SourceKnown, BootJudged,
       OracleJudged, OracleSources, ReportsCurrent, NoReport, GateStages, StarterLane, GraderLane, ValidationStages, PastGate1, PastGate2
  <2>5. Reach'
    BY <2>1, <1>2 DEF Inv, Reach, GateStages, StarterLane, GraderLane, ValidationStages, PastGate1, PastGate2
  <2>6. Rank'
    BY <2>1, <1>2, <1>3, BudgetAssumption DEF Inv, Graph, Attempts, Rank, GateStages, StarterLane, GraderLane, ValidationStages, PastGate1, PastGate2
  <2>7. QED
    BY <2>2, <2>3, <2>4, <2>5, <2>6
<1>10. CASE RepairStarter
  <2>1. /\ mem.stage = "starter_verify" /\ disk' = disk
        /\ mem.starterAttempt < MaxStarterAttempts
        /\ mem'.stage = "starter_authoring" /\ mem'.status = mem.status
        /\ mem'.source = mem.source /\ mem'.starterAttempt = mem.starterAttempt + 1
        /\ SameOracle(mem, mem')
    BY <1>10, <1>1 DEF RepairStarter, Dispatch, NoFiles, States
  <2>2. Graph(mem)'
    BY <2>1, <1>2, <1>3, BudgetAssumption DEF Inv, Graph, StageStatus, Attempts, NoEarlyReport,
       SourceKnown, GateStages, StarterLane, GraderLane, ValidationStages, PastGate1, PastGate2
  <2>3. Judged(mem)'
    BY <2>1, <1>2, <1>4 DEF Inv, Graph, Reach, Judged, StarterBooted, GraderValidated,
       ReportsComplete, ReportsCurrent, ApprovedSoFar, BootJudged, OracleJudged,
       Boots, Verdicts, GateStages, StarterLane, GraderLane, ValidationStages, PastGate1, PastGate2
  <2>4. BootJudged(mem)' /\ OracleJudged(mem)'
    BY <2>1, <1>2 DEF Inv, Graph, NoEarlyReport, SourceKnown, BootJudged,
       OracleJudged, OracleSources, ReportsCurrent, NoReport, GateStages, StarterLane, GraderLane, ValidationStages, PastGate1, PastGate2
  <2>5. Reach'
    BY <2>1, <1>2 DEF Inv, Reach, GateStages, StarterLane, GraderLane, ValidationStages, PastGate1, PastGate2
  <2>6. Rank'
    BY <2>1, <1>2, <1>3, BudgetAssumption DEF Inv, Graph, Attempts, Rank, GateStages, StarterLane, GraderLane, ValidationStages, PastGate1, PastGate2
  <2>7. QED
    BY <2>2, <2>3, <2>4, <2>5, <2>6
<1>11. CASE PauseAtGate2
  <2>1. /\ mem.stage = "starter_verify" /\ disk' = disk
        /\ mem.boot.verdict # "bad"
        /\ mem'.stage = "awaiting_gate_2" /\ mem'.status = "awaiting_human"
        /\ mem'.source = mem.source
        /\ SameStarter(mem, mem') /\ SameOracle(mem, mem')
    BY <1>11, <1>1 DEF PauseAtGate2, Dispatch, NoFiles, States
  <2>2. Graph(mem)'
    BY <2>1, <1>2, <1>3, BudgetAssumption DEF Inv, Graph, StageStatus, Attempts, NoEarlyReport,
       SourceKnown, GateStages, StarterLane, GraderLane, ValidationStages, PastGate1, PastGate2
  <2>3. Judged(mem)'
    BY <2>1, <1>2, <1>4 DEF Inv, Graph, Reach, Judged, StarterBooted, GraderValidated,
       ReportsComplete, ReportsCurrent, ApprovedSoFar, BootJudged, OracleJudged,
       Boots, Verdicts, GateStages, StarterLane, GraderLane, ValidationStages, PastGate1, PastGate2
  <2>4. BootJudged(mem)' /\ OracleJudged(mem)'
    BY <2>1, <1>2 DEF Inv, Graph, NoEarlyReport, SourceKnown, BootJudged,
       OracleJudged, OracleSources, ReportsCurrent, NoReport, GateStages, StarterLane, GraderLane, ValidationStages, PastGate1, PastGate2
  <2>5. Reach'
    BY <2>1, <1>2 DEF Inv, Reach, GateStages, StarterLane, GraderLane, ValidationStages, PastGate1, PastGate2
  <2>6. Rank'
    BY <2>1, <1>2, <1>3, BudgetAssumption DEF Inv, Graph, Attempts, Rank, GateStages, StarterLane, GraderLane, ValidationStages, PastGate1, PastGate2
  <2>7. QED
    BY <2>2, <2>3, <2>4, <2>5, <2>6
<1>12. CASE AuthorOracle
  <2>1. /\ mem.stage = "awaiting_gate_2" /\ disk'.starter = disk.starter
        /\ disk'.oracle = mem'.oracle
        /\ mem'.stage = "oracle_authoring" /\ mem'.status = mem.status
        /\ mem'.source = mem.source /\ mem'.graderAttempt = mem.graderAttempt
        /\ mem'.runReport = mem.runReport /\ mem'.curatedReport = mem.curatedReport
        /\ SameStarter(mem, mem')
    BY <1>12, <1>1 DEF AuthorOracle, Dispatch, NoFiles, States, WriteOracle
  <2>2. Graph(mem)'
    BY <2>1, <1>2, <1>3, BudgetAssumption DEF Inv, Graph, StageStatus, Attempts, NoEarlyReport,
       SourceKnown, GateStages, StarterLane, GraderLane, ValidationStages, PastGate1, PastGate2
  <2>3. Judged(mem)'
    BY <2>1, <1>2, <1>4 DEF Inv, Graph, Reach, Judged, StarterBooted, GraderValidated,
       ReportsComplete, ReportsCurrent, ApprovedSoFar, BootJudged, OracleJudged,
       Boots, Verdicts, GateStages, StarterLane, GraderLane, ValidationStages, PastGate1, PastGate2
  <2>4. BootJudged(mem)' /\ OracleJudged(mem)'
    BY <2>1, <1>2 DEF Inv, Graph, NoEarlyReport, SourceKnown, BootJudged,
       OracleJudged, OracleSources, ReportsCurrent, NoReport, GateStages, StarterLane, GraderLane, ValidationStages, PastGate1, PastGate2
  <2>5. Reach'
    BY <2>1, <1>2 DEF Inv, Reach, GateStages, StarterLane, GraderLane, ValidationStages, PastGate1, PastGate2
  <2>6. Rank'
    BY <2>1, <1>2, <1>3, BudgetAssumption DEF Inv, Graph, Attempts, Rank, GateStages, StarterLane, GraderLane, ValidationStages, PastGate1, PastGate2
  <2>7. QED
    BY <2>2, <2>3, <2>4, <2>5, <2>6
<1>13. CASE RunOraclePass
  <2>1. /\ mem.stage = "oracle_authoring" /\ disk' = disk
        /\ mem.source # "curated"
        /\ mem'.stage = "oracle_pass" /\ mem'.status = mem.status
        /\ mem'.source = mem.source /\ mem'.oracle = mem.oracle
        /\ mem'.graderAttempt = mem.graderAttempt /\ mem'.passOf = disk.oracle
        /\ mem'.runReport = mem.runReport /\ mem'.curatedReport = mem.curatedReport
        /\ SameStarter(mem, mem')
    BY <1>13, <1>1 DEF RunOraclePass, Dispatch, NoFiles, States
  <2>2. Graph(mem)'
    BY <2>1, <1>2, <1>3, BudgetAssumption DEF Inv, Graph, StageStatus, Attempts, NoEarlyReport,
       SourceKnown, GateStages, StarterLane, GraderLane, ValidationStages, PastGate1, PastGate2
  <2>3. Judged(mem)'
    BY <2>1, <1>2, <1>4 DEF Inv, Graph, Reach, Judged, StarterBooted, GraderValidated,
       ReportsComplete, ReportsCurrent, ApprovedSoFar, BootJudged, OracleJudged,
       Boots, Verdicts, GateStages, StarterLane, GraderLane, ValidationStages, PastGate1, PastGate2
  <2>4. BootJudged(mem)' /\ OracleJudged(mem)'
    BY <2>1, <1>2 DEF Inv, Graph, NoEarlyReport, SourceKnown, BootJudged,
       OracleJudged, OracleSources, ReportsCurrent, NoReport, GateStages, StarterLane, GraderLane, ValidationStages, PastGate1, PastGate2
  <2>5. Reach'
    BY <2>1, <1>2 DEF Inv, Reach, GateStages, StarterLane, GraderLane, ValidationStages, PastGate1, PastGate2
  <2>6. Rank'
    BY <2>1, <1>2, <1>3, BudgetAssumption DEF Inv, Graph, Attempts, Rank, GateStages, StarterLane, GraderLane, ValidationStages, PastGate1, PastGate2
  <2>7. QED
    BY <2>2, <2>3, <2>4, <2>5, <2>6
<1>14. CASE ValidateCurated
  <2>1. /\ mem.stage = "oracle_authoring" /\ disk' = disk
        /\ mem.source = "curated"
        /\ mem'.stage = "oracle_curated_validation" /\ mem'.status = mem.status
        /\ mem'.source = mem.source /\ mem'.oracle = mem.oracle
        /\ mem'.graderAttempt = mem.graderAttempt
        /\ mem'.runReport = mem.runReport
        /\ mem'.curatedReport.verdict \in {"good", "bad"}
        /\ mem'.curatedReport.scenarios = disk.oracle
        /\ SameStarter(mem, mem')
    BY <1>14, <1>1 DEF ValidateCurated, Dispatch, NoFiles, States, CuratedReport
  <2>2. Graph(mem)'
    BY <2>1, <1>2, <1>3, BudgetAssumption DEF Inv, Graph, StageStatus, Attempts, NoEarlyReport,
       SourceKnown, GateStages, StarterLane, GraderLane, ValidationStages, PastGate1, PastGate2
  <2>3. Judged(mem)'
    BY <2>1, <1>2, <1>4 DEF Inv, Graph, Reach, Judged, StarterBooted, GraderValidated,
       ReportsComplete, ReportsCurrent, ApprovedSoFar, BootJudged, OracleJudged,
       Boots, Verdicts, GateStages, StarterLane, GraderLane, ValidationStages, PastGate1, PastGate2
  <2>4. BootJudged(mem)' /\ OracleJudged(mem)'
    BY <2>1, <1>2 DEF Inv, Graph, NoEarlyReport, SourceKnown, BootJudged,
       OracleJudged, OracleSources, ReportsCurrent, NoReport, GateStages, StarterLane, GraderLane, ValidationStages, PastGate1, PastGate2
  <2>5. Reach'
    BY <2>1, <1>2 DEF Inv, Reach, GateStages, StarterLane, GraderLane, ValidationStages, PastGate1, PastGate2
  <2>6. Rank'
    BY <2>1, <1>2, <1>3, BudgetAssumption DEF Inv, Graph, Attempts, Rank, GateStages, StarterLane, GraderLane, ValidationStages, PastGate1, PastGate2
  <2>7. QED
    BY <2>2, <2>3, <2>4, <2>5, <2>6
<1>15. CASE ValidateOracle
  <2> DEFINE Fields ==
        /\ mem'.stage \in ValidationStages /\ mem'.status = mem.status
        /\ mem'.source = mem.source /\ mem'.oracle = mem.oracle
        /\ mem'.graderAttempt = mem.graderAttempt
        /\ mem'.runReport.verdict \in {"good", "bad"}
        /\ mem'.runReport.scenarios = disk.oracle
        /\ mem'.runReport.outputs = mem.passOf
        /\ \/ mem.source # "hybrid" /\ mem'.curatedReport = mem.curatedReport
           \/ /\ mem'.curatedReport.verdict \in {"good", "bad"}
              /\ mem'.curatedReport.scenarios = disk.oracle
        /\ SameStarter(mem, mem')
  <2>1. mem.stage = "oracle_pass" /\ disk' = disk /\ Fields
    <3>1. ASSUME NEW v \in {"good", "bad"}, mem.source # "hybrid",
                 mem' = [mem EXCEPT !.stage = "oracle_validation",
                                    !.runReport = RunReport(v)]
          PROVE  Fields
      BY <3>1, <1>1 DEF RunReport, States, ValidationStages
    <3>2. ASSUME NEW v \in {"good", "bad"}, NEW w \in {"good", "bad"},
                 mem' = [mem EXCEPT !.stage = "oracle_curated_validation",
                                    !.runReport = RunReport(v),
                                    !.curatedReport = CuratedReport(w)]
          PROVE  Fields
      BY <3>2, <1>1 DEF RunReport, CuratedReport, States, ValidationStages
    <3>3. QED
      BY <1>15, <3>1, <3>2 DEF ValidateOracle, Dispatch, NoFiles
  <2>2. Graph(mem)'
    BY <2>1, <1>2, <1>3, BudgetAssumption DEF Inv, Graph, StageStatus, Attempts, NoEarlyReport,
       SourceKnown, GateStages, StarterLane, GraderLane, ValidationStages, PastGate1, PastGate2
  <2>3. Judged(mem)'
    BY <2>1, <1>2, <1>4 DEF Inv, Graph, Reach, Judged, StarterBooted, GraderValidated,
       ReportsComplete, ReportsCurrent, ApprovedSoFar, BootJudged, OracleJudged,
       Boots, Verdicts, GateStages, StarterLane, GraderLane, ValidationStages, PastGate1, PastGate2
  <2>4. BootJudged(mem)' /\ OracleJudged(mem)'
    BY <2>1, <1>2 DEF Inv, Graph, NoEarlyReport, SourceKnown, BootJudged,
       OracleJudged, OracleSources, ReportsCurrent, NoReport, GateStages, StarterLane, GraderLane, ValidationStages, PastGate1, PastGate2
  <2>5. Reach'
    BY <2>1, <1>2 DEF Inv, Reach, GateStages, StarterLane, GraderLane, ValidationStages, PastGate1, PastGate2
  <2>6. Rank'
    BY <2>1, <1>2, <1>3, BudgetAssumption DEF Inv, Graph, Attempts, Rank, GateStages, StarterLane, GraderLane, ValidationStages, PastGate1, PastGate2
  <2>7. QED
    BY <2>2, <2>3, <2>4, <2>5, <2>6
<1>16. CASE ExhaustGrader
  <2>1. /\ mem.stage \in ValidationStages /\ disk' = disk
        /\ mem'.stage = mem.stage /\ mem'.status = "blocked"
        /\ mem'.source = mem.source
        /\ SameStarter(mem, mem') /\ SameOracle(mem, mem')
    BY <1>16, <1>1 DEF ExhaustGrader, Dispatch, NoFiles, States
  <2>2. Graph(mem)'
    BY <2>1, <1>2, <1>3, BudgetAssumption DEF Inv, Graph, StageStatus, Attempts, NoEarlyReport,
       SourceKnown, GateStages, StarterLane, GraderLane, ValidationStages, PastGate1, PastGate2
  <2>3. Judged(mem)'
    BY <2>1, <1>2, <1>4 DEF Inv, Graph, Reach, Judged, StarterBooted, GraderValidated,
       ReportsComplete, ReportsCurrent, ApprovedSoFar, BootJudged, OracleJudged,
       Boots, Verdicts, GateStages, StarterLane, GraderLane, ValidationStages, PastGate1, PastGate2
  <2>4. BootJudged(mem)' /\ OracleJudged(mem)'
    BY <2>1, <1>2 DEF Inv, Graph, NoEarlyReport, SourceKnown, BootJudged,
       OracleJudged, OracleSources, ReportsCurrent, NoReport, GateStages, StarterLane, GraderLane, ValidationStages, PastGate1, PastGate2
  <2>5. Reach'
    BY <2>1, <1>2 DEF Inv, Reach, GateStages, StarterLane, GraderLane, ValidationStages, PastGate1, PastGate2
  <2>6. Rank'
    BY <2>1, <1>2, <1>3, BudgetAssumption DEF Inv, Graph, Attempts, Rank, GateStages, StarterLane, GraderLane, ValidationStages, PastGate1, PastGate2
  <2>7. QED
    BY <2>2, <2>3, <2>4, <2>5, <2>6
<1>17. CASE RepairGrader
  <2>1. /\ mem.stage \in ValidationStages /\ disk'.starter = disk.starter
        /\ disk'.oracle = mem'.oracle /\ mem.graderAttempt < MaxGraderAttempts
        /\ mem'.stage = "oracle_authoring" /\ mem'.status = mem.status
        /\ mem'.source = mem.source /\ mem'.graderAttempt = mem.graderAttempt + 1
        /\ mem'.runReport = NoReport /\ mem'.curatedReport = NoReport
        /\ SameStarter(mem, mem')
    BY <1>17, <1>1 DEF RepairGrader, Dispatch, NoFiles, States, WriteOracle
  <2>2. Graph(mem)'
    BY <2>1, <1>2, <1>3, BudgetAssumption DEF Inv, Graph, StageStatus, Attempts, NoEarlyReport,
       SourceKnown, GateStages, StarterLane, GraderLane, ValidationStages, PastGate1, PastGate2
  <2>3. Judged(mem)'
    BY <2>1, <1>2, <1>4 DEF Inv, Graph, Reach, Judged, StarterBooted, GraderValidated,
       ReportsComplete, ReportsCurrent, ApprovedSoFar, BootJudged, OracleJudged,
       Boots, Verdicts, GateStages, StarterLane, GraderLane, ValidationStages, PastGate1, PastGate2
  <2>4. BootJudged(mem)' /\ OracleJudged(mem)'
    BY <2>1, <1>2 DEF Inv, Graph, NoEarlyReport, SourceKnown, BootJudged,
       OracleJudged, OracleSources, ReportsCurrent, NoReport, GateStages, StarterLane, GraderLane, ValidationStages, PastGate1, PastGate2
  <2>5. Reach'
    BY <2>1, <1>2 DEF Inv, Reach, GateStages, StarterLane, GraderLane, ValidationStages, PastGate1, PastGate2
  <2>6. Rank'
    BY <2>1, <1>2, <1>3, BudgetAssumption DEF Inv, Graph, Attempts, Rank, GateStages, StarterLane, GraderLane, ValidationStages, PastGate1, PastGate2
  <2>7. QED
    BY <2>2, <2>3, <2>4, <2>5, <2>6
<1>18. CASE PauseAtGate3
  <2>1. /\ mem.stage \in ValidationStages /\ disk' = disk
        /\ mem.runReport.verdict # "bad" /\ mem.curatedReport.verdict # "bad"
        /\ mem'.stage = "awaiting_gate_3" /\ mem'.status = "awaiting_human"
        /\ mem'.source = mem.source
        /\ SameStarter(mem, mem') /\ SameOracle(mem, mem')
    BY <1>18, <1>1 DEF PauseAtGate3, Dispatch, NoFiles, States, ReportBlocks
  <2>2. Graph(mem)'
    BY <2>1, <1>2, <1>3, BudgetAssumption DEF Inv, Graph, StageStatus, Attempts, NoEarlyReport,
       SourceKnown, GateStages, StarterLane, GraderLane, ValidationStages, PastGate1, PastGate2
  <2>3. Judged(mem)'
    BY <2>1, <1>2, <1>4 DEF Inv, Graph, Reach, Judged, StarterBooted, GraderValidated,
       ReportsComplete, ReportsCurrent, ApprovedSoFar, BootJudged, OracleJudged,
       Boots, Verdicts, GateStages, StarterLane, GraderLane, ValidationStages, PastGate1, PastGate2
  <2>4. BootJudged(mem)' /\ OracleJudged(mem)'
    BY <2>1, <1>2 DEF Inv, Graph, NoEarlyReport, SourceKnown, BootJudged,
       OracleJudged, OracleSources, ReportsCurrent, NoReport, GateStages, StarterLane, GraderLane, ValidationStages, PastGate1, PastGate2
  <2>5. Reach'
    BY <2>1, <1>2 DEF Inv, Reach, GateStages, StarterLane, GraderLane, ValidationStages, PastGate1, PastGate2
  <2>6. Rank'
    BY <2>1, <1>2, <1>3, BudgetAssumption DEF Inv, Graph, Attempts, Rank, GateStages, StarterLane, GraderLane, ValidationStages, PastGate1, PastGate2
  <2>7. QED
    BY <2>2, <2>3, <2>4, <2>5, <2>6
<1>19. CASE Publish
  <2>1. /\ mem.stage = "awaiting_gate_3" /\ disk' = disk
        /\ mem'.stage = "published" /\ mem'.status = "published"
        /\ mem'.source = mem.source
        /\ SameStarter(mem, mem') /\ SameOracle(mem, mem')
    BY <1>19, <1>1 DEF Publish, Dispatch, NoFiles, States
  <2>2. Graph(mem)'
    BY <2>1, <1>2, <1>3, BudgetAssumption DEF Inv, Graph, StageStatus, Attempts, NoEarlyReport,
       SourceKnown, GateStages, StarterLane, GraderLane, ValidationStages, PastGate1, PastGate2
  <2>3. Judged(mem)'
    BY <2>1, <1>2, <1>4 DEF Inv, Graph, Reach, Judged, StarterBooted, GraderValidated,
       ReportsComplete, ReportsCurrent, ApprovedSoFar, BootJudged, OracleJudged,
       Boots, Verdicts, GateStages, StarterLane, GraderLane, ValidationStages, PastGate1, PastGate2
  <2>4. BootJudged(mem)' /\ OracleJudged(mem)'
    BY <2>1, <1>2 DEF Inv, Graph, NoEarlyReport, SourceKnown, BootJudged,
       OracleJudged, OracleSources, ReportsCurrent, NoReport, GateStages, StarterLane, GraderLane, ValidationStages, PastGate1, PastGate2
  <2>5. Reach'
    BY <2>1, <1>2 DEF Inv, Reach, GateStages, StarterLane, GraderLane, ValidationStages, PastGate1, PastGate2
  <2>6. Rank'
    BY <2>1, <1>2, <1>3, BudgetAssumption DEF Inv, Graph, Attempts, Rank, GateStages, StarterLane, GraderLane, ValidationStages, PastGate1, PastGate2
  <2>7. QED
    BY <2>2, <2>3, <2>4, <2>5, <2>6
<1>20. QED
  BY <1>5, <1>6, <1>7, <1>8, <1>9, <1>10, <1>11, <1>12, <1>13, <1>14, <1>15, <1>16, <1>17, <1>18, <1>19 DEF Step

\* The write-back, a death and a decision of a human.
LEMMA CallerStep ==
  ASSUME Inv, Persist \/ Die \/ Decide
  PROVE  Inv'
<1> USE DEF GateStages, StarterLane, GraderLane, ValidationStages, PastGate1, PastGate2
<1>1. TypeOK'
  BY CallerType DEF Inv
<1>2. mem \in States /\ saved \in States /\ disk \in [starter : Nat, oracle : Nat]
  BY DEF Inv, TypeOK
<1>3. CASE Persist
  <2>1. /\ executing' = FALSE /\ iteration' = 0 /\ mem' = saved'
        /\ UNCHANGED <<disk, approvals>>
    BY <1>3 DEF Persist, EndExecution
  <2>2. CASE saved' = mem
    <3>1. mem' = mem
      BY <2>1, <2>2
    <3>2. QED
      BY <1>1, <2>1, <2>2, <3>1
         DEF Inv, IdleMem, Reach, Rank, Graph, StageStatus, Attempts, NoEarlyReport,
             SourceKnown, Judged, StarterBooted, GraderValidated, ReportsComplete,
             ReportsCurrent, ApprovedSoFar, BootJudged, OracleJudged
  <2>3. CASE /\ mem.status = "published"
             /\ saved' = [mem EXCEPT !.status = "blocked"]
    <3>1. mem.stage = "published"
      BY <2>3 DEF Inv, Graph, StageStatus
    <3>2. /\ saved'.stage = "published" /\ saved'.status = "blocked"
          /\ SameStarter(mem, saved') /\ SameOracle(mem, saved')
          /\ saved'.source = mem.source
      BY <1>2, <2>3, <3>1 DEF States, SameStarter, SameOracle
    <3>3. Graph(saved)' /\ Graph(mem)'
      BY <2>1, <3>1, <3>2
         DEF Inv, Graph, StageStatus, Attempts, NoEarlyReport, SourceKnown
    <3>4. Judged(saved)' /\ Judged(mem)'
      BY <2>1, <3>1, <3>2
         DEF Inv, Judged, StarterBooted, GraderValidated, ReportsComplete,
             ReportsCurrent, ApprovedSoFar, SameStarter, SameOracle
    <3>5. BootJudged(mem)' /\ OracleJudged(mem)'
      BY <2>1, <3>2 DEF BootJudged, OracleJudged
    <3>6. IdleMem' /\ Reach' /\ Rank'
      BY <2>1 DEF IdleMem, Reach, Rank
    <3>7. QED
      BY <1>1, <3>3, <3>4, <3>5, <3>6 DEF Inv
  <2>4. QED
    BY <1>3, <2>2, <2>3 DEF Persist, EndExecution
<1>4. CASE Die
  <2>1. /\ executing' = FALSE /\ iteration' = 0 /\ mem' = saved /\ saved' = saved
        /\ UNCHANGED approvals /\ executing
    BY <1>4 DEF Die, EndExecution
  <2>2. \/ disk'.starter = disk.starter
        \/ mem.status = "running" /\ mem.stage = "starter_authoring"
    BY <1>2, <1>4 DEF Die, NoFiles
  <2>3. \/ disk'.oracle = disk.oracle
        \/ /\ mem.status = "running"
           /\ mem.stage = "awaiting_gate_2" \/ mem.stage \in ValidationStages
    BY <1>2, <1>4 DEF Die, NoFiles
  <2>4. saved.stage \in GateStages \cup {"initialized"}
    BY <2>1 DEF Inv, Reach, InitialState
  <2>5. Graph(saved)' /\ Graph(mem)'
    BY <2>1 DEF Inv, Graph, StageStatus, Attempts, NoEarlyReport, SourceKnown
  <2>6. StarterBooted(saved)'
    BY <2>1, <2>2 DEF Inv, Reach, Judged, StarterBooted
  <2>7. GraderValidated(saved)'
    BY <2>1, <2>3 DEF Inv, Reach, Judged, GraderValidated, ReportsComplete, ReportsCurrent
  <2>8. Judged(saved)' /\ Judged(mem)'
    BY <2>1, <2>6, <2>7
       DEF Inv, Judged, ApprovedSoFar, StarterBooted, GraderValidated, ReportsComplete,
           ReportsCurrent
  <2>9. BootJudged(mem)' /\ OracleJudged(mem)'
    BY <2>1, <2>4 DEF BootJudged, OracleJudged
  <2>10. IdleMem' /\ Reach' /\ Rank'
    BY <2>1 DEF IdleMem, Reach, Rank
  <2>11. QED
    BY <1>1, <2>5, <2>8, <2>9, <2>10 DEF Inv
<1>5. ASSUME NEW g \in 1..3, ApproveGate(g)
      PROVE  Inv'
  <2>1. /\ executing' = TRUE /\ ~executing /\ approvals' = approvals \cup {g}
        /\ saved.stage = GateStage(g) /\ saved.status = "awaiting_human"
        /\ UNCHANGED <<saved, iteration, disk>>
    BY <1>5 DEF ApproveGate
  <2>2. /\ mem'.stage = saved.stage /\ mem'.status = "running"
        /\ SameStarter(saved, mem') /\ SameOracle(saved, mem')
        /\ mem'.source = saved.source
    BY <1>2, <1>5 DEF ApproveGate, States, SameStarter, SameOracle
  <2>3. \/ g = 1 /\ saved.stage = "awaiting_gate_1"
        \/ g = 2 /\ saved.stage = "awaiting_gate_2"
        \/ g = 3 /\ saved.stage = "awaiting_gate_3"
    BY <2>1 DEF GateStage
  <2>4. Graph(saved)' /\ Graph(mem)'
    BY <2>1, <2>2, <2>3
       DEF Inv, Graph, StageStatus, Attempts, NoEarlyReport, SourceKnown, SameStarter,
           SameOracle
  <2>5. Judged(saved)' /\ Judged(mem)'
    BY <2>1, <2>2, <2>3
       DEF Inv, Judged, StarterBooted, GraderValidated, ReportsComplete, ReportsCurrent,
           ApprovedSoFar, SameStarter, SameOracle
  <2>6. BootJudged(mem)' /\ OracleJudged(mem)'
    BY <2>2, <2>3 DEF BootJudged, OracleJudged
  <2>7. IdleMem' /\ Rank'
    BY <2>1, <2>2, <2>3 DEF Inv, IdleMem, Rank
  <2>8. Reach'
    BY <2>1, <2>2, <2>3 DEF Inv, Reach, Judged, ApprovedSoFar
  <2>9. QED
    BY <1>1, <2>4, <2>5, <2>6, <2>7, <2>8 DEF Inv
<1>6. ASSUME NEW g \in 1..3, RejectGate(g)
      PROVE  Inv'
  <2>1. /\ executing' = executing /\ ~executing /\ mem' = saved'
        /\ saved.stage = GateStage(g)
        /\ UNCHANGED <<iteration, disk, approvals>>
    BY <1>6 DEF RejectGate
  <2>2. /\ saved'.stage = saved.stage /\ saved'.status = "blocked"
        /\ SameStarter(saved, saved') /\ SameOracle(saved, saved')
        /\ saved'.source = saved.source
    BY <1>2, <1>6 DEF RejectGate, States, SameStarter, SameOracle
  <2>3. saved.stage \in GateStages
    BY <2>1 DEF GateStage
  <2>4. Graph(saved)' /\ Graph(mem)'
    BY <2>1, <2>2, <2>3
       DEF Inv, Graph, StageStatus, Attempts, NoEarlyReport, SourceKnown, SameStarter,
           SameOracle
  <2>5. Judged(saved)' /\ Judged(mem)'
    BY <2>1, <2>2, <2>3
       DEF Inv, Judged, StarterBooted, GraderValidated, ReportsComplete, ReportsCurrent,
           ApprovedSoFar, SameStarter, SameOracle
  <2>6. BootJudged(mem)' /\ OracleJudged(mem)'
    BY <2>1, <2>2, <2>3 DEF BootJudged, OracleJudged
  <2>7. IdleMem' /\ Reach' /\ Rank'
    BY <2>1 DEF Inv, IdleMem, Reach, Rank
  <2>8. QED
    BY <1>1, <2>4, <2>5, <2>6, <2>7 DEF Inv
<1>7. QED
  BY <1>3, <1>4, <1>5, <1>6 DEF Decide

LEMMA InvInit == Init => Inv
<1> SUFFICES ASSUME Init PROVE Inv
  OBVIOUS
<1>1. TypeOK
  BY InitialStateType DEF Init, TypeOK
<1>2. Graph(InitialState)
  BY DEF Graph, StageStatus, Attempts, NoEarlyReport, SourceKnown, InitialState,
     PastGate1, StarterLane, GraderLane, ValidationStages, GateStages
<1>3. Judged(saved)
  BY DEF Init, Judged, StarterBooted, GraderValidated, ApprovedSoFar, InitialState,
     PastGate1, PastGate2, StarterLane, GraderLane, ValidationStages
<1>4. BootJudged(mem) /\ OracleJudged(mem)
  BY DEF Init, BootJudged, OracleJudged, InitialState, GraderLane, ValidationStages
<1>5. IdleMem /\ Reach /\ Rank
  BY DEF Init, IdleMem, Reach, Rank, InitialState, ValidationStages
<1>6. QED
  BY <1>1, <1>2, <1>3, <1>4, <1>5 DEF Init, Inv

LEMMA InvStep == Inv /\ [Next]_vars => Inv'
<1> SUFFICES ASSUME Inv, [Next]_vars PROVE Inv'
  OBVIOUS
<1>1. TypeOK'
  BY TypeStep DEF Inv
<1>2. CASE Step
  BY <1>1, <1>2, SavedStep, MemStep, StepFrame DEF Inv, IdleMem
<1>3. CASE Persist \/ Die \/ Decide
  BY <1>3, CallerStep
<1>4. CASE UNCHANGED vars
  BY <1>4
     DEF vars, Inv, TypeOK, IdleMem, Reach, Rank, Graph, StageStatus, Attempts,
         NoEarlyReport, SourceKnown, Judged, StarterBooted, GraderValidated,
         ReportsComplete, ReportsCurrent, ApprovedSoFar, BootJudged, OracleJudged
<1>5. QED
  BY <1>2, <1>3, <1>4 DEF Next

LEMMA Invariance == Spec => []Inv
  BY InvInit, InvStep, PTL DEF Spec

-----------------------------------------------------------------------------
(* What holds of every run *)

\* The starter a reviewer approves at gate 2, and the one that is published,
\* is the one on disk and it booted (node_starter_verify).
THEOREM StarterBoots == Spec => []ReviewedStarterBoots
<1>1. Inv => ReviewedStarterBoots
  BY DEF Inv, Judged, ReviewedStarterBoots
<1>2. QED
  BY <1>1, Invariance, PTL

\* Nothing reaches gate 3 or is published unless the oracle bundle that is
\* on disk passed every validation its source calls for.
THEOREM OracleValidated == Spec => []PublishedOracleValidated
<1>1. Inv => PublishedOracleValidated
  BY DEF Inv, Judged, PublishedOracleValidated
<1>2. QED
  BY <1>1, Invariance, PTL

\* No run, saved or in memory, is past a gate nobody approved.
THEOREM GatesApproved == Spec => []EveryGateApproved
<1>1. Inv => EveryGateApproved
  BY DEF Inv, Judged, EveryGateApproved
<1>2. QED
  BY <1>1, Invariance, PTL

\* The defensive ends of execute and _step are dead code for all budgets
\* that leave room for their lanes (IterationAssumption).
THEOREM CapIsDead == Spec => []CapNeverHit
<1>1. Inv => CapNeverHit
  <2> SUFFICES ASSUME Inv, executing, mem.status = "running"
               PROVE  /\ iteration < MaxIterations
                      /\ mem.stage \in {"initialized"} \cup GateStages \cup GraderLane
                                        \cup {"starter_authoring", "starter_verify"}
    BY DEF CapNeverHit
  <2>1. mem.stage \in {"initialized"} \cup GateStages \cup GraderLane
                        \cup {"starter_authoring", "starter_verify"}
    BY DEF Inv, Graph, StageStatus
  <2>2. iteration \in Nat /\ mem.starterAttempt \in Nat /\ mem.graderAttempt \in Nat
    BY FieldTypes DEF Inv, TypeOK
  <2>3. CASE mem.stage \in {"initialized"} \cup GateStages
    BY <2>2, <2>3, BudgetAssumption, IterationAssumption DEF Inv, Rank
  <2>4. CASE mem.stage \in {"starter_authoring", "starter_verify"}
    BY <2>2, <2>4, BudgetAssumption, IterationAssumption DEF Inv, Rank, Graph, Attempts
  <2>5. CASE mem.stage \in GraderLane
    <3>1. mem.graderAttempt <= MaxGraderAttempts
      BY <2>2, <2>5, BudgetAssumption DEF Inv, Graph, Attempts
    <3>2. iteration <= 3 + 3 * mem.graderAttempt
      BY <2>2, <2>5 DEF Inv, Rank, GraderLane, ValidationStages
    <3>3. QED
      BY <2>1, <2>2, <3>1, <3>2, BudgetAssumption, IterationAssumption
  <2>6. QED
    BY <2>1, <2>3, <2>4, <2>5
<1>2. QED
  BY <1>1, Invariance, PTL

\* A blocked or published run stays as it is.
THEOREM TerminalStays == Spec => TerminalIsFinal
<1>1. Inv /\ [Next]_vars
        => [saved.status \in {"blocked", "published"} => saved' = saved]_saved
  <2> SUFFICES ASSUME Inv, [Next]_vars, saved.status \in {"blocked", "published"}
               PROVE  saved' = saved
    OBVIOUS
  <2>1. CASE Step
    BY <2>1, StepFrame
  <2>2. CASE Persist
    <3>1. executing
      BY <2>2 DEF Persist
    <3>2. saved = InitialState \/ saved.status = "awaiting_human"
      BY <3>1 DEF Inv, Reach
    <3>3. QED
      BY <3>2 DEF InitialState
  <2>3. CASE Die \/ Decide
    BY <2>3 DEF Die, EndExecution, Decide, ApproveGate, RejectGate
  <2>4. QED
    BY <2>1, <2>2, <2>3 DEF Next, vars
<1>2. QED
  BY <1>1, Invariance, PTL DEF Spec, TerminalIsFinal

-----------------------------------------------------------------------------
(* The refinement *)

LEMMA PhaseValues ==
  ASSUME NEW s \in States
  PROVE  /\ s.stage \in {"initialized", "spec_authoring"} => PhaseOf(s) = 0
         /\ s.stage = "awaiting_gate_1" \/ s.stage \in StarterLane => PhaseOf(s) = 1
         /\ s.stage = "awaiting_gate_2" \/ s.stage \in GraderLane => PhaseOf(s) = 2
         /\ s.stage = "awaiting_gate_3" => PhaseOf(s) = 3
         /\ s.stage = "published" /\ s.status = "published" => PhaseOf(s) = 4
         /\ s.stage = "published" /\ s.status # "published" => PhaseOf(s) = 3
  BY DEF PhaseOf, StarterLane, GraderLane, ValidationStages

\* A write-back moves the abstract run one phase on, or blocks it, or leaves
\* it at its gate.
LEMMA PersistRefines ==
  ASSUME Inv, Inv', Persist
  PROVE  Flow!Advance \/ Flow!Fail \/ Flow!Abandon
<1> USE DEF Flow!Advance, Flow!Fail, Flow!Abandon
<1>1. /\ executing /\ executing' = FALSE /\ mem.status # "running"
      /\ \/ saved' = mem
         \/ mem.status = "published" /\ saved' = [mem EXCEPT !.status = "blocked"]
  BY DEF Persist, EndExecution
<1>2. saved \in States /\ mem \in States /\ saved' \in States
  BY DEF Inv, TypeOK
<1>3. /\ mem.status \in {"awaiting_human", "blocked", "published"}
      /\ mem.status = "awaiting_human" => mem.stage \in GateStages
      /\ mem.status = "published" => mem.stage = "published"
  BY <1>1, <1>2, FieldTypes DEF Inv, Graph, StageStatus, Statuses
<1>4. \/ saved' = mem
      \/ saved'.stage = mem.stage /\ saved'.status = "blocked" /\ mem.status = "published"
  BY <1>1, <1>2 DEF States
<1>5. CASE saved = InitialState
  <2>1. saved.stage = "initialized" /\ saved.status = "running"
    BY <1>5 DEF InitialState
  <2>2. PhaseOf(saved) = 0
    BY <1>2, <2>1, PhaseValues
  <2>3. \/ mem.stage = "initialized"
        \/ mem.stage = "spec_authoring" /\ mem.status = "blocked"
        \/ mem.stage = "awaiting_gate_1" /\ mem.status = "awaiting_human"
    BY <1>1, <2>1 DEF Inv, Reach
  <2>4. saved' = mem
    BY <1>3, <1>4, <2>3
  <2>5. CASE mem.stage = "awaiting_gate_1" /\ mem.status = "awaiting_human"
    BY <1>1, <1>2, <2>1, <2>2, <2>4, <2>5, PhaseValues
  <2>6. CASE mem.stage \in {"initialized", "spec_authoring"}
    <3>1. mem.status = "blocked"
      BY <1>3, <2>6 DEF GateStages
    <3>2. QED
      BY <1>1, <1>2, <2>1, <2>2, <2>4, <2>6, <3>1, PhaseValues
  <2>7. QED
    BY <2>3, <2>5, <2>6
<1>6. CASE saved.stage = "awaiting_gate_1" /\ saved.status = "awaiting_human"
  <2>1. PhaseOf(saved) = 1
    BY <1>2, <1>6, PhaseValues
  <2>2. \/ mem.stage \in {"awaiting_gate_1"} \cup StarterLane
        \/ mem.stage = "awaiting_gate_2" /\ mem.status = "awaiting_human"
    BY <1>1, <1>6 DEF Inv, Reach, InitialState
  <2>3. saved' = mem
    BY <1>3, <1>4, <2>2 DEF StarterLane
  <2>4. CASE mem.stage = "awaiting_gate_2" /\ mem.status = "awaiting_human"
    BY <1>1, <1>2, <1>6, <2>1, <2>3, <2>4, PhaseValues
  <2>5. CASE mem.stage \in {"awaiting_gate_1"} \cup StarterLane
    <3>1. PhaseOf(saved') = 1 /\ mem.status \in {"blocked", "awaiting_human"}
      BY <1>2, <1>3, <2>3, <2>5, PhaseValues DEF StarterLane
    <3>2. QED
      BY <1>1, <1>6, <2>1, <2>3, <3>1
  <2>6. QED
    BY <2>2, <2>4, <2>5
<1>7. CASE saved.stage = "awaiting_gate_2" /\ saved.status = "awaiting_human"
  <2>1. PhaseOf(saved) = 2
    BY <1>2, <1>7, PhaseValues
  <2>2. \/ mem.stage \in {"awaiting_gate_2"} \cup GraderLane
        \/ mem.stage = "awaiting_gate_3" /\ mem.status = "awaiting_human"
    BY <1>1, <1>7 DEF Inv, Reach, InitialState
  <2>3. saved' = mem
    BY <1>3, <1>4, <2>2 DEF GraderLane, ValidationStages
  <2>4. CASE mem.stage = "awaiting_gate_3" /\ mem.status = "awaiting_human"
    BY <1>1, <1>2, <1>7, <2>1, <2>3, <2>4, PhaseValues
  <2>5. CASE mem.stage \in {"awaiting_gate_2"} \cup GraderLane
    <3>1. PhaseOf(saved') = 2 /\ mem.status \in {"blocked", "awaiting_human"}
      BY <1>2, <1>3, <2>3, <2>5, PhaseValues DEF GraderLane, ValidationStages
    <3>2. QED
      BY <1>1, <1>7, <2>1, <2>3, <3>1
  <2>6. QED
    BY <2>2, <2>4, <2>5
<1>8. CASE saved.stage = "awaiting_gate_3" /\ saved.status = "awaiting_human"
  <2>1. PhaseOf(saved) = 3
    BY <1>2, <1>8, PhaseValues
  <2>2. \/ mem.stage = "awaiting_gate_3"
        \/ mem.stage = "published" /\ mem.status = "published"
    BY <1>1, <1>8 DEF Inv, Reach, InitialState
  <2>3. CASE mem.stage = "awaiting_gate_3"
    <3>1. saved' = mem /\ mem.status \in {"blocked", "awaiting_human"}
      BY <1>3, <1>4, <2>3
    <3>2. QED
      BY <1>1, <1>2, <1>8, <2>1, <2>3, <3>1, PhaseValues
  <2>4. CASE mem.stage = "published" /\ saved' = mem /\ mem.status = "published"
    BY <1>1, <1>2, <1>8, <2>1, <2>4, PhaseValues
  <2>5. CASE saved'.stage = "published" /\ saved'.status = "blocked"
    BY <1>1, <1>2, <1>8, <2>1, <2>5, PhaseValues
  <2>6. QED
    BY <1>4, <2>2, <2>3, <2>4, <2>5
<1>9. QED
  BY <1>1, <1>5, <1>6, <1>7, <1>8 DEF Inv, Reach

\* The graph implements GateFlow: gates in order, nothing past a gate that
\* was not approved there, an execution that dies changes nothing.
THEOREM Refinement == Spec => ImplementsGateFlow
<1>1. Init => Flow!FlowInit
  BY InitialStateType, PhaseValues DEF Init, Flow!FlowInit, InitialState
<1>2. Inv /\ Inv' /\ [Next]_vars => [Flow!FlowNext]_(Flow!flowVars)
  <2> SUFFICES ASSUME Inv, Inv', [Next]_vars
               PROVE  Flow!FlowNext \/ UNCHANGED Flow!flowVars
    OBVIOUS
  <2>1. CASE Step \/ UNCHANGED vars
    BY <2>1, StepFrame DEF vars, Flow!flowVars
  <2>2. CASE Persist
    BY <2>2, PersistRefines DEF Flow!FlowNext
  <2>3. CASE Die
    BY <2>3 DEF Die, EndExecution, Flow!FlowNext, Flow!Abandon
  <2>4. ASSUME NEW g \in 1..3, ApproveGate(g) \/ RejectGate(g)
        PROVE  Flow!FlowNext
    <3>1. saved \in States /\ saved' \in States
      BY DEF Inv, TypeOK
    <3>2. ~executing /\ saved.status = "awaiting_human" /\ saved.stage \in GateStages
      BY <2>4 DEF ApproveGate, RejectGate, GateStage, GateStages
    <3>3. Flow!Paused
      BY <3>1, <3>2, PhaseValues DEF Flow!Paused, Flow!Gates, GateStages
    <3>4. CASE ApproveGate(g)
      BY <3>3, <3>4 DEF ApproveGate, Flow!FlowNext, Flow!Approve
    <3>5. CASE RejectGate(g)
      <4>1. saved'.stage = saved.stage /\ saved'.status = "blocked"
        BY <3>1, <3>5 DEF RejectGate, States
      <4>2. PhaseOf(saved') = PhaseOf(saved)
        BY <3>1, <3>2, <4>1, PhaseValues DEF GateStages
      <4>3. QED
        BY <3>3, <3>5, <4>1, <4>2 DEF RejectGate, Flow!FlowNext, Flow!Reject
    <3>6. QED
      BY <2>4, <3>4, <3>5
  <2>5. QED
    BY <2>1, <2>2, <2>3, <2>4 DEF Next, Decide
<1>3. QED
  BY <1>1, <1>2, Invariance, PTL DEF Spec, ImplementsGateFlow, Flow!FlowSpec

-----------------------------------------------------------------------------
(* Grading: the inductive invariant *)

\* The stages after an author succeeded, and those after the gate.
Drafted ==
  {"written", "oracle_pass", "validation", "blocked", "gate_3", "published",
   "grading", "graded", "refused"}

Released == {"gate_3", "published", "grading", "graded", "refused"}

\* What a run keeps of scenario s: nothing but that it raised, or what every
\* rubric said of what was captured, by the setup data and the router it had.
Kept(s, o, data, judge) ==
  \/ o.aborted /\ o.verdicts = <<>>
  \/ /\ DOMAIN o.verdicts = DOMAIN s.rubrics
     /\ \A i \in DOMAIN s.rubrics :
          /\ o.verdicts[i] \in {"pass", "fail", "abstain"}
          /\ o.verdicts[i] \in
               VerdictsOf(s.rubrics[i],
                          [captures |-> o.captures, setup |-> data, meta |-> Dict(<<>>)],
                          judge)

Overlaps(r) == r.kind = "oracle_set_overlap" /\ Builds(r.kind, Normalized(r))

\* Rubric r compares with a gold set that is not there, or empty.
NoGold(r, data) ==
  LET gold == GoldOf(Normalized(r), data)
  IN gold.t = "missing" \/ (gold.t = "list" /\ gold.v = <<>>)

Placed == stage \in Drafted \cup {"authoring", "died"} /\ spec \in Specs

\* The bundle was accepted under the author's rules, and the scenarios under
\* the gate's.
AuthorAccepted == stage \in Drafted => Accepted(payload)

GateCovered == stage \in Released => Covers

\* Nothing of a run is left when files are replaced.
Blank == stage = "authoring" => outputs = Empty

OutputsKept == \A s \in DOMAIN outputs : Kept(s, outputs[s], setup, router)

\* A run that is judged is complete.
RanAll ==
  \/ stage \in {"validation", "gate_3"} /\ spec.source # "curated"
  \/ stage = "graded"
  => DOMAIN outputs = Loaded

ReferencePassed ==
  stage = "gate_3" /\ spec.source # "curated" =>
    \A s \in DOMAIN outputs : ScenarioPassed(outputs[s])

\* The reference run has shown that the gold sets are there: with one that is
\* not, its rubric would have abstained.
GoldLives ==
  stage \in Released /\ spec.source # "curated" =>
    \A s \in Loaded : \A i \in DOMAIN s.rubrics :
      Overlaps(s.rubrics[i]) => ~NoGold(s.rubrics[i], setup)

GradedByRule == stage = "graded" => grade = GradeOf(outputs)

Routed == stage \in {"grading", "graded"} /\ strict /\ HasJudge => router # "none"

GradingInv ==
  /\ GradingTypeOK /\ Placed /\ Blank
  /\ AuthorAccepted /\ GateCovered
  /\ OutputsKept /\ RanAll /\ ReferencePassed /\ GoldLives
  /\ GradedByRule /\ Routed

-----------------------------------------------------------------------------
(* Grading: what outputs say *)

\* The author asks for whatever the gate asks for.
LEMMA GateAsksNoMore ==
  ASSUME spec \in Specs
  PROVE  GateRequires \subseteq AuthorRequires
<1>1. [f \in DOMAIN spec \ {"benchmark"} |-> spec[f]] \in Requirements
  BY GradingAssumption
<1>2. spec.endpoints \in Nat
  BY <1>1 DEF Requirements
<1>3. spec.endpoints >= 3 => spec.endpoints > 1
  BY <1>2
<1>4. QED
  BY <1>3 DEF GateRequires, AuthorRequires

\* What run_scenario keeps is Kept.
LEMMA RunKeeps ==
  ASSUME NEW s, NEW o, o \in Output(s)
  PROVE  Kept(s, o, setup, router)
<1>1. PICK service \in Services(s) : o \in Outputs(s, service)
  BY DEF Output
<1> DEFINE trace == Trace(s.steps, service, setup, Dict(<<>>))
           says(i) == VerdictsOf(s.rubrics[i], Context(trace.captures), router)
<1>2. CASE trace.raised
  <2>1. o = [aborted |-> TRUE, captures |-> Dict(<<>>), verdicts |-> <<>>]
    BY <1>1, <1>2 DEF Outputs
  <2>2. QED
    BY <2>1 DEF Kept
<1>3. CASE ~trace.raised
  <2>1. PICK v \in [DOMAIN s.rubrics -> {"pass", "fail", "abstain"}] :
          /\ \A i \in DOMAIN v : v[i] \in says(i)
          /\ o = [aborted |-> trace.aborted, captures |-> trace.captures, verdicts |-> v]
    BY <1>1, <1>3 DEF Outputs
  <2>2. o.verdicts = v /\ o.captures = trace.captures
    BY <2>1
  <2>3. DOMAIN v = DOMAIN s.rubrics
    BY <2>1
  <2>4. \A i \in DOMAIN s.rubrics :
          v[i] \in VerdictsOf(s.rubrics[i],
                     [captures |-> o.captures, setup |-> setup, meta |-> Dict(<<>>)], router)
    BY <2>1, <2>2, <2>3 DEF Context
  <2>5. QED
    BY <2>1, <2>2, <2>3, <2>4 DEF Kept
<1>4. QED
  BY <1>2, <1>3

\* What a rubric that could not be built says, and one about a gold set.
LEMMA UnbuiltFails ==
  ASSUME NEW r, NEW ctx, NEW judge, ~Builds(r.kind, Normalized(r))
  PROVE  VerdictsOf(r, ctx, judge) = {"fail"}
  BY DEF VerdictsOf

LEMMA OverlapSays ==
  ASSUME NEW r, NEW ctx, NEW judge, Overlaps(r)
  PROVE  VerdictsOf(r, ctx, judge) = {Overlap(Normalized(r), ctx)}
  BY DEF VerdictsOf, Overlaps, Judges

LEMMA JudgeSays ==
  ASSUME NEW r, NEW ctx, NEW judge, Builds(r.kind, Normalized(r)), r.kind \in Judges
  PROVE  VerdictsOf(r, ctx, judge) =
           Judge(r.kind, Normalized(r), Resolve(ctx.captures, Normalized(r).target), judge)
  BY DEF VerdictsOf, Judges

LEMMA FreeSays ==
  ASSUME NEW r, NEW ctx, NEW judge, Builds(r.kind, Normalized(r)),
         r.kind # "oracle_set_overlap", r.kind \notin Judges
  PROVE  VerdictsOf(r, ctx, judge) =
           {IF /\ Found(Resolve(ctx.captures, Normalized(r).target))
               /\ Free(r.kind, Normalized(r), Resolve(ctx.captures, Normalized(r).target), ctx)
            THEN "pass" ELSE "fail"}
  BY DEF VerdictsOf

\* OracleSetOverlap abstains exactly for want of gold.
LEMMA OverlapAbstains ==
  ASSUME NEW r, NEW ctx, NEW judge, NEW v \in VerdictsOf(r, ctx, judge), Overlaps(r)
  PROVE  v = "abstain" <=> NoGold(r, ctx.setup)
<1>1. v = Overlap(Normalized(r), ctx)
  BY OverlapSays
<1>2. QED
  BY <1>1 DEF Overlap, NoGold

\* A rubric that does not fail was built and, unless it abstained for want of
\* gold, has found what it looks at.
LEMMA NotFailing ==
  ASSUME NEW r, NEW ctx, NEW judge, NEW v \in VerdictsOf(r, ctx, judge), v # "fail"
  PROVE  /\ Builds(r.kind, Normalized(r))
         /\ \/ Found(Resolve(ctx.captures, Normalized(r).target))
            \/ r.kind = "oracle_set_overlap" /\ v = "abstain"
<1> DEFINE c == Normalized(r)
           target == Resolve(ctx.captures, c.target)
<1>1. Builds(r.kind, c)
  BY UnbuiltFails
<1>2. CASE r.kind = "oracle_set_overlap"
  <2>1. v = Overlap(c, ctx)
    BY <1>1, <1>2, OverlapSays DEF Overlaps
  <2>2. v = "abstain" \/ target.t = "list"
    BY <2>1 DEF Overlap
  <2>3. QED
    BY <1>1, <1>2, <2>2 DEF Found
<1>3. CASE r.kind # "oracle_set_overlap" /\ r.kind \in Judges
  <2>1. v \in Judge(r.kind, c, target, judge)
    BY <1>1, <1>3, JudgeSays
  <2>2. Found(target)
    BY <2>1 DEF Judge
  <2>3. QED
    BY <1>1, <2>2
<1>4. CASE r.kind # "oracle_set_overlap" /\ r.kind \notin Judges
  <2>1. v \in {IF Found(target) /\ Free(r.kind, c, target, ctx) THEN "pass" ELSE "fail"}
    BY <1>1, <1>4, FreeSays
  <2>2. QED
    BY <1>1, <2>1
<1>5. QED
  BY <1>2, <1>3, <1>4

\* Whoever passes the gate passes as a learner: the gate is the stricter judge.
LEMMA GateIsStricter ==
  ASSUME NEW o, ScenarioPassed(o)
  PROVE  LearnerPassed(o)
  BY DEF ScenarioPassed, LearnerPassed, Failing, Says

\* A scenario that the reference passed has shown that its gold is there.
LEMMA PassShowsGold ==
  ASSUME NEW s, NEW o, NEW data, NEW judge, Kept(s, o, data, judge), ScenarioPassed(o),
         NEW i \in DOMAIN s.rubrics, Overlaps(s.rubrics[i])
  PROVE  ~NoGold(s.rubrics[i], data)
<1>1. i \in DOMAIN o.verdicts /\ o.verdicts[i] # "abstain"
  BY DEF Kept, ScenarioPassed, Says
<1>2. o.verdicts[i] \in VerdictsOf(s.rubrics[i],
        [captures |-> o.captures, setup |-> data, meta |-> Dict(<<>>)], judge)
  BY DEF Kept, ScenarioPassed
<1>3. QED
  BY <1>1, <1>2, OverlapAbstains

\* What was covered is something.
LEMMA SomethingLoaded ==
  ASSUME Covers
  PROVE  Loaded # {}
  BY DEF Covers, GateRequires, Base, CategoriesOf

-----------------------------------------------------------------------------
(* Grading: the steps *)

\* What does not change with the files and the spec.
LEMMA FilesFrame ==
  ASSUME UNCHANGED <<config, materials>>
  PROVE  /\ UNCHANGED <<spec, strict, setup, payload, scenarios>>
         /\ Loaded' = Loaded
         /\ Covers' <=> Covers
         /\ HasJudge' <=> HasJudge
         /\ Accepted(payload)' <=> Accepted(payload)
<1>1. UNCHANGED <<spec, strict, setup, payload, scenarios>>
  BY DEF config, materials
<1>2. Loaded' = Loaded
  BY <1>1 DEF Loaded
<1>3. GateRequires' = GateRequires /\ AuthorRequires' = AuthorRequires
  BY <1>1 DEF GateRequires, AuthorRequires
<1>4. Covers' <=> Covers
  BY <1>2, <1>3 DEF Covers
<1>5. HasJudge' <=> HasJudge
  BY <1>2 DEF HasJudge
<1>6. Accepted(payload)' <=> Accepted(payload)
  BY <1>1, <1>3 DEF Accepted
<1>7. QED
  BY <1>1, <1>2, <1>4, <1>5, <1>6

LEMMA GradingInitHolds == GradingInit => GradingInv
<1> SUFFICES ASSUME GradingInit
             PROVE  GradingInv
  OBVIOUS
<1> USE DEF GradingInit
<1>1. DOMAIN outputs = {}
  BY DEF Empty
<1>2. GradingTypeOK
  BY <1>1, GradingAssumption DEF GradingTypeOK
<1>3. Placed /\ Blank /\ AuthorAccepted /\ GateCovered
  BY DEF Placed, Blank, AuthorAccepted, GateCovered, Drafted, Released
<1>4. OutputsKept /\ RanAll /\ ReferencePassed /\ GoldLives /\ GradedByRule /\ Routed
  BY <1>1 DEF OutputsKept, RanAll, ReferencePassed, GoldLives, GradedByRule, Routed, Released
<1>5. QED
  BY <1>2, <1>3, <1>4 DEF GradingInv

LEMMA AuthorSucceedsKeeps == GradingInv /\ AuthorSucceeds => GradingInv'
<1> SUFFICES ASSUME GradingInv, AuthorSucceeds
             PROVE  GradingInv'
  OBVIOUS
<1>1. /\ stage = "authoring" /\ stage' = "written" /\ attempt' = 1
      /\ UNCHANGED <<spec, strict, picked, repairs, router, outputs, grade, report>>
  BY DEF AuthorSucceeds, config, run, graded
<1>2. PICK files \in SUBSET Candidates :
        /\ Accepted(files) /\ payload' = files /\ scenarios' \in Written(files)
  BY DEF AuthorSucceeds
<1>3. outputs' = Empty /\ DOMAIN outputs' = {}
  BY <1>1 DEF GradingInv, Blank, Empty
<1>4. GradingTypeOK'
  <2>1. scenarios' \subseteq payload' /\ payload' \subseteq Candidates
    BY <1>2 DEF Written
  <2>2. attempt' \in 1..MaxAttempts
    BY <1>1, GradingAssumption
  <2>3. QED
    BY <1>1, <1>3, <2>1, <2>2 DEF GradingInv, GradingTypeOK
<1>5. Accepted(payload)'
  BY <1>1, <1>2 DEF Accepted, AuthorRequires
<1>6. (Placed /\ Blank /\ AuthorAccepted /\ GateCovered)'
  BY <1>1, <1>3, <1>5
  DEF GradingInv, Placed, Blank, AuthorAccepted, GateCovered, Drafted, Released
<1>7. (OutputsKept /\ RanAll /\ ReferencePassed /\ GoldLives /\ GradedByRule /\ Routed)'
  BY <1>1, <1>3
  DEF OutputsKept, RanAll, ReferencePassed, GoldLives, GradedByRule, Routed, Released
<1>8. QED
  BY <1>4, <1>6, <1>7 DEF GradingInv

\* Steps that only move between the stages before the gate, or end there.
LEMMA AuthorFailsKeeps == GradingInv /\ (AuthorFails \/ BenchmarkFails) => GradingInv'
<1> SUFFICES ASSUME GradingInv, AuthorFails \/ BenchmarkFails
             PROVE  GradingInv'
  OBVIOUS
<1>1. /\ stage = "authoring" /\ stage' \in {"authoring", "died"}
      /\ attempt' \in {attempt} \cup {n \in {attempt + 1} : attempt < MaxAttempts}
      /\ UNCHANGED <<config, repairs, materials, run, graded>>
  BY DEF AuthorFails, BenchmarkFails, authoring
<1>2. UNCHANGED <<repairs, router, outputs, grade, report>>
  BY <1>1 DEF run, graded
<1>3. /\ UNCHANGED <<spec, strict, setup, payload, scenarios>>
      /\ Loaded' = Loaded
  BY <1>1, FilesFrame
<1>4. outputs' = Empty /\ DOMAIN outputs' = {}
  BY <1>1, <1>2 DEF GradingInv, Blank, Empty
<1>5. attempt' \in 1..MaxAttempts
  BY <1>1, GradingAssumption DEF GradingInv, GradingTypeOK
<1>6. GradingTypeOK'
  BY <1>1, <1>2, <1>3, <1>5 DEF GradingInv, GradingTypeOK
<1>7. (Placed /\ Blank /\ AuthorAccepted /\ GateCovered)'
  BY <1>1, <1>3, <1>4
  DEF GradingInv, Placed, Blank, AuthorAccepted, GateCovered, Drafted, Released
<1>8. (OutputsKept /\ RanAll /\ ReferencePassed /\ GoldLives /\ GradedByRule /\ Routed)'
  BY <1>1, <1>4
  DEF OutputsKept, RanAll, ReferencePassed, GoldLives, GradedByRule, Routed, Released
<1>9. QED
  BY <1>6, <1>7, <1>8 DEF GradingInv

LEMMA EnterPassKeeps == GradingInv /\ EnterPass => GradingInv'
<1> SUFFICES ASSUME GradingInv, EnterPass
             PROVE  GradingInv'
  OBVIOUS
<1>1. /\ stage = "written" /\ stage' \in {"died", "validation", "oracle_pass"}
      /\ stage' = "validation" => spec.source = "curated"
      /\ outputs' = Empty
      /\ UNCHANGED <<config, attempt, repairs, materials, grade, report>>
  BY DEF EnterPass, authoring, graded
<1>2. DOMAIN outputs' = {}
  BY <1>1 DEF Empty
<1>3. /\ UNCHANGED <<spec, strict, setup, payload, scenarios>>
      /\ Loaded' = Loaded /\ (Accepted(payload)' <=> Accepted(payload))
  BY <1>1, FilesFrame
<1>4. GradingTypeOK'
  BY <1>1, <1>2, <1>3 DEF GradingInv, GradingTypeOK
<1>5. (Placed /\ Blank /\ AuthorAccepted /\ GateCovered)'
  BY <1>1, <1>3
  DEF GradingInv, Placed, Blank, AuthorAccepted, GateCovered, Drafted, Released
<1>6. (OutputsKept /\ RanAll /\ ReferencePassed /\ GoldLives /\ GradedByRule /\ Routed)'
  BY <1>1, <1>2, <1>3
  DEF OutputsKept, RanAll, ReferencePassed, GoldLives, GradedByRule, Routed, Released
<1>7. QED
  BY <1>4, <1>5, <1>6 DEF GradingInv

LEMMA RunScenarioKeeps == GradingInv /\ RunScenario => GradingInv'
<1> SUFFICES ASSUME GradingInv, RunScenario
             PROVE  GradingInv'
  OBVIOUS
<1>1. /\ stage \in {"oracle_pass", "grading"}
      /\ UNCHANGED <<config, stage, attempt, repairs, materials, router, grade, report>>
  BY DEF RunScenario, Running, authoring, graded
<1>2. /\ UNCHANGED <<spec, strict, setup, payload, scenarios>>
      /\ Loaded' = Loaded /\ (Covers' <=> Covers) /\ (HasJudge' <=> HasJudge)
      /\ (Accepted(payload)' <=> Accepted(payload))
  BY <1>1, FilesFrame
<1>3. PICK s \in Loaded \ DOMAIN outputs : \E o \in Output(s) :
        outputs' = [t \in DOMAIN outputs \cup {s} |-> IF t = s THEN o ELSE outputs[t]]
  <2>1. DOMAIN outputs \subseteq Loaded /\ Loaded # DOMAIN outputs
    BY DEF GradingInv, GradingTypeOK, RunScenario
  <2>2. (CHOOSE s \in Loaded \ DOMAIN outputs : TRUE) \in Loaded \ DOMAIN outputs
    BY <2>1
  <2>3. QED
    BY <2>2 DEF RunScenario
<1>4. PICK o \in Output(s) :
        outputs' = [t \in DOMAIN outputs \cup {s} |-> IF t = s THEN o ELSE outputs[t]]
  BY <1>3
<1>5. DOMAIN outputs' = DOMAIN outputs \cup {s}
  BY <1>4
<1>6. GradingTypeOK'
  BY <1>1, <1>2, <1>3, <1>5 DEF GradingInv, GradingTypeOK
<1>7. OutputsKept'
  <2>1. Kept(s, o, setup, router)
    BY <1>4, RunKeeps
  <2>2. \A t \in DOMAIN outputs' : Kept(t, outputs'[t], setup', router')
    BY <1>1, <1>2, <1>3, <1>4, <1>5, <2>1 DEF GradingInv, OutputsKept
  <2>3. QED
    BY <2>2 DEF OutputsKept
<1>8. (Placed /\ Blank /\ AuthorAccepted /\ GateCovered)'
  BY <1>1, <1>2 DEF GradingInv, Placed, Blank, AuthorAccepted, GateCovered
<1>9. (RanAll /\ ReferencePassed /\ GoldLives /\ GradedByRule /\ Routed)'
  BY <1>1, <1>2 DEF GradingInv, RanAll, ReferencePassed, GoldLives, GradedByRule, Routed
<1>10. QED
  BY <1>6, <1>7, <1>8, <1>9 DEF GradingInv

LEMMA SandboxFailsKeeps == GradingInv /\ SandboxFails => GradingInv'
<1> SUFFICES ASSUME GradingInv, SandboxFails
             PROVE  GradingInv'
  OBVIOUS
<1>1. /\ \/ stage = "oracle_pass" /\ stage' = "died"
         \/ stage = "grading" /\ stage' = "refused"
      /\ outputs' = Empty
      /\ UNCHANGED <<config, attempt, repairs, materials, router, grade, report>>
  BY DEF SandboxFails, Running, authoring, graded
<1>2. DOMAIN outputs' = {}
  BY <1>1 DEF Empty
<1>3. /\ UNCHANGED <<spec, strict, setup, payload, scenarios>>
      /\ Loaded' = Loaded /\ (Covers' <=> Covers)
      /\ (Accepted(payload)' <=> Accepted(payload))
  BY <1>1, FilesFrame
<1>4. GradingTypeOK'
  BY <1>1, <1>2, <1>3 DEF GradingInv, GradingTypeOK
<1>5. (Placed /\ Blank /\ AuthorAccepted /\ GateCovered)'
  BY <1>1, <1>3
  DEF GradingInv, Placed, Blank, AuthorAccepted, GateCovered, Drafted, Released
<1>6. GoldLives'
  BY <1>1, <1>3 DEF GradingInv, GoldLives, Released
<1>7. (OutputsKept /\ RanAll /\ ReferencePassed /\ GradedByRule /\ Routed)'
  BY <1>1, <1>2 DEF OutputsKept, RanAll, ReferencePassed, GradedByRule, Routed
<1>8. QED
  BY <1>4, <1>5, <1>6, <1>7 DEF GradingInv

LEMMA LeavePassKeeps == GradingInv /\ LeavePass => GradingInv'
<1> SUFFICES ASSUME GradingInv, LeavePass
             PROVE  GradingInv'
  OBVIOUS
<1>1. /\ stage = "oracle_pass" /\ stage' = "validation" /\ DOMAIN outputs = Loaded
      /\ UNCHANGED <<config, attempt, repairs, materials, router, outputs, grade, report>>
  BY DEF LeavePass, Complete, authoring, run, graded
<1>2. /\ UNCHANGED <<spec, strict, setup, payload, scenarios>>
      /\ Loaded' = Loaded /\ (Accepted(payload)' <=> Accepted(payload))
  BY <1>1, FilesFrame
<1>3. GradingTypeOK'
  BY <1>1, <1>2 DEF GradingInv, GradingTypeOK
<1>4. (Placed /\ Blank /\ AuthorAccepted /\ GateCovered)'
  BY <1>1, <1>2
  DEF GradingInv, Placed, Blank, AuthorAccepted, GateCovered, Drafted, Released
<1>5. (OutputsKept /\ RanAll)'
  BY <1>1, <1>2 DEF GradingInv, OutputsKept, RanAll
<1>6. (ReferencePassed /\ GoldLives /\ GradedByRule /\ Routed)'
  BY <1>1 DEF ReferencePassed, GoldLives, GradedByRule, Routed, Released
<1>7. QED
  BY <1>3, <1>4, <1>5, <1>6 DEF GradingInv

LEMMA ValidateKeeps == GradingInv /\ Validate => GradingInv'
<1> SUFFICES ASSUME GradingInv, Validate
             PROVE  GradingInv'
  OBVIOUS
<1>1. /\ stage = "validation"
      /\ \/ /\ Publishable /\ stage' = "gate_3"
            /\ UNCHANGED <<repairs, outputs>>
         \/ /\ stage' = "blocked"
            /\ UNCHANGED <<repairs, outputs>>
         \/ /\ stage' = "authoring" /\ repairs < MaxRepairs /\ repairs' = repairs + 1
            /\ outputs' = Empty
      /\ UNCHANGED <<config, attempt, materials, router, grade, report>>
  BY DEF Validate, authoring, run, graded
<1>2. /\ UNCHANGED <<spec, strict, setup, payload, scenarios>>
      /\ Loaded' = Loaded /\ (Covers' <=> Covers)
      /\ (Accepted(payload)' <=> Accepted(payload))
  BY <1>1, FilesFrame
<1>3. outputs' = outputs \/ DOMAIN outputs' = {}
  BY <1>1 DEF Empty
<1>4. repairs' \in 0..MaxRepairs
  BY <1>1, GradingAssumption DEF GradingInv, GradingTypeOK
<1>5. GradingTypeOK'
  BY <1>1, <1>2, <1>3, <1>4 DEF GradingInv, GradingTypeOK
<1>6. Publishable => Covers
  BY DEF Publishable, RunPublishable, CuratedPublishable
<1>7. (Placed /\ Blank /\ AuthorAccepted /\ GateCovered)'
  BY <1>1, <1>2, <1>6
  DEF GradingInv, Placed, Blank, AuthorAccepted, GateCovered, Drafted, Released
<1>8. OutputsKept'
  BY <1>1, <1>2, <1>3 DEF GradingInv, OutputsKept
<1>9. RanAll'
  BY <1>1, <1>2 DEF GradingInv, RanAll
<1>10. stage' = "gate_3" /\ spec.source # "curated" =>
         DOMAIN outputs = Loaded /\ \A s \in Loaded : ScenarioPassed(outputs[s])
  BY <1>1 DEF GradingInv, RanAll, Publishable, RunPublishable
<1>11. ReferencePassed'
  BY <1>1, <1>2, <1>10 DEF ReferencePassed
<1>12. GoldLives'
  <2> SUFFICES ASSUME stage' = "gate_3", spec.source # "curated",
                      NEW s \in Loaded, NEW i \in DOMAIN s.rubrics, Overlaps(s.rubrics[i])
               PROVE  ~NoGold(s.rubrics[i], setup)
    BY <1>1, <1>2 DEF GoldLives, Released
  <2>1. Kept(s, outputs[s], setup, router) /\ ScenarioPassed(outputs[s])
    BY <1>10 DEF GradingInv, OutputsKept
  <2>2. QED
    BY <2>1, PassShowsGold
<1>13. GradedByRule' /\ Routed'
  BY <1>1 DEF GradedByRule, Routed
<1>14. QED
  BY <1>5, <1>7, <1>8, <1>9, <1>11, <1>12, <1>13 DEF GradingInv

LEMMA PublishCourseKeeps == GradingInv /\ PublishCourse => GradingInv'
<1> SUFFICES ASSUME GradingInv, PublishCourse
             PROVE  GradingInv'
  OBVIOUS
<1>1. /\ stage = "gate_3" /\ stage' = "published" /\ outputs' = Empty
      /\ UNCHANGED <<config, attempt, repairs, materials, router, grade, report>>
  BY DEF PublishCourse, authoring, graded
<1>2. DOMAIN outputs' = {}
  BY <1>1 DEF Empty
<1>3. /\ UNCHANGED <<spec, strict, setup, payload, scenarios>>
      /\ Loaded' = Loaded /\ (Covers' <=> Covers)
      /\ (Accepted(payload)' <=> Accepted(payload))
  BY <1>1, FilesFrame
<1>4. GradingTypeOK'
  BY <1>1, <1>2, <1>3 DEF GradingInv, GradingTypeOK
<1>5. (Placed /\ Blank /\ AuthorAccepted /\ GateCovered)'
  BY <1>1, <1>3
  DEF GradingInv, Placed, Blank, AuthorAccepted, GateCovered, Drafted, Released
<1>6. GoldLives'
  BY <1>1, <1>3 DEF GradingInv, GoldLives, Released
<1>7. (OutputsKept /\ RanAll /\ ReferencePassed /\ GradedByRule /\ Routed)'
  BY <1>1, <1>2 DEF OutputsKept, RanAll, ReferencePassed, GradedByRule, Routed
<1>8. QED
  BY <1>4, <1>5, <1>6, <1>7 DEF GradingInv

LEMMA SubmitKeeps == GradingInv /\ Submit => GradingInv'
<1> SUFFICES ASSUME GradingInv, Submit
             PROVE  GradingInv'
  OBVIOUS
<1>1. /\ stage \in {"published", "graded", "refused"}
      /\ stage' \in {"refused", "grading"}
      /\ stage' = "grading" /\ strict /\ HasJudge => router' # "none"
      /\ outputs' = Empty /\ grade' = "none" /\ report' = Unreported
      /\ UNCHANGED <<config, attempt, repairs, materials>>
  BY DEF Submit, authoring
<1>2. DOMAIN outputs' = {}
  BY <1>1 DEF Empty
<1>3. /\ UNCHANGED <<spec, strict, setup, payload, scenarios>>
      /\ Loaded' = Loaded /\ (Covers' <=> Covers) /\ (HasJudge' <=> HasJudge)
      /\ (Accepted(payload)' <=> Accepted(payload))
  BY <1>1, FilesFrame
<1>4. GradingTypeOK'
  BY <1>1, <1>2, <1>3 DEF GradingInv, GradingTypeOK
<1>5. (Placed /\ Blank /\ AuthorAccepted /\ GateCovered)'
  BY <1>1, <1>3
  DEF GradingInv, Placed, Blank, AuthorAccepted, GateCovered, Drafted, Released
<1>6. GoldLives'
  BY <1>1, <1>3 DEF GradingInv, GoldLives, Released
<1>7. (OutputsKept /\ RanAll /\ ReferencePassed /\ GradedByRule /\ Routed)'
  BY <1>1, <1>2, <1>3 DEF OutputsKept, RanAll, ReferencePassed, GradedByRule, Routed
<1>8. QED
  BY <1>4, <1>5, <1>6, <1>7 DEF GradingInv

LEMMA GradeKeeps == GradingInv /\ Grade => GradingInv'
<1> SUFFICES ASSUME GradingInv, Grade
             PROVE  GradingInv'
  OBVIOUS
<1> DEFINE ctxs == [s \in DOMAIN outputs |-> Context(outputs[s].captures)]
<1>1. /\ stage = "grading" /\ stage' = "graded" /\ DOMAIN outputs = Loaded
      /\ grade' = GradeOf(outputs)
      /\ UNCHANGED <<config, attempt, repairs, materials, router, outputs>>
  BY DEF Grade, Complete, authoring, run
<1>2. /\ UNCHANGED <<spec, strict, setup, payload, scenarios>>
      /\ Loaded' = Loaded /\ (Covers' <=> Covers) /\ (HasJudge' <=> HasJudge)
      /\ (Accepted(payload)' <=> Accepted(payload))
  BY <1>1, FilesFrame
<1>3. grade' # "none"
  BY <1>1 DEF GradeOf
<1>4. report' # Unreported
  <2>1. Loaded # {}
    BY <1>1, SomethingLoaded DEF GradingInv, GateCovered, Released
  <2>2. PICK headline \in Headlines(router) :
          report' = [feedback |-> Guidance(outputs, ctxs, headline),
                     examples |-> [s \in DOMAIN outputs |-> Example(s, outputs[s], ctxs[s])]]
    BY DEF Grade
  <2>3. DOMAIN report'.examples = Loaded
    BY <1>1, <2>2
  <2>4. Unreported.examples = <<>> /\ DOMAIN Unreported.examples = {}
    BY DEF Unreported
  <2>5. QED
    BY <2>1, <2>3, <2>4
<1>5. GradingTypeOK'
  BY <1>1, <1>2, <1>3, <1>4 DEF GradingInv, GradingTypeOK
<1>6. (Placed /\ Blank /\ AuthorAccepted /\ GateCovered)'
  BY <1>1, <1>2
  DEF GradingInv, Placed, Blank, AuthorAccepted, GateCovered, Drafted, Released
<1>7. GoldLives'
  BY <1>1, <1>2 DEF GradingInv, GoldLives, Released
<1>8. (OutputsKept /\ RanAll /\ ReferencePassed /\ GradedByRule /\ Routed)'
  BY <1>1, <1>2
  DEF GradingInv, OutputsKept, RanAll, ReferencePassed, GradedByRule, Routed
<1>9. QED
  BY <1>5, <1>6, <1>7, <1>8 DEF GradingInv

LEMMA GradingStutters == GradingInv /\ UNCHANGED gradingVars => GradingInv'
<1> SUFFICES ASSUME GradingInv, UNCHANGED gradingVars
             PROVE  GradingInv'
  OBVIOUS
<1>1. UNCHANGED <<config, stage, attempt, repairs, materials, router, outputs, grade, report>>
  BY DEF gradingVars, authoring, run, graded
<1>2. /\ UNCHANGED <<spec, strict, setup, payload, scenarios>>
      /\ Loaded' = Loaded /\ (Covers' <=> Covers) /\ (HasJudge' <=> HasJudge)
      /\ (Accepted(payload)' <=> Accepted(payload))
  BY <1>1, FilesFrame
<1>3. GradingTypeOK'
  BY <1>1, <1>2 DEF GradingInv, GradingTypeOK
<1>4. (Placed /\ Blank /\ AuthorAccepted /\ GateCovered)'
  BY <1>1, <1>2 DEF GradingInv, Placed, Blank, AuthorAccepted, GateCovered
<1>5. (OutputsKept /\ RanAll /\ ReferencePassed /\ GoldLives /\ GradedByRule /\ Routed)'
  BY <1>1, <1>2
  DEF GradingInv, OutputsKept, RanAll, ReferencePassed, GoldLives, GradedByRule, Routed
<1>6. QED
  BY <1>3, <1>4, <1>5 DEF GradingInv

\* Every step keeps the invariant, whatever scenarios an author comes up with,
\* services answer and judges say.
THEOREM GradingInvariance == GradingSpec => []GradingInv
<1>1. GradingInv /\ [GradingNext]_gradingVars => GradingInv'
  BY AuthorSucceedsKeeps, AuthorFailsKeeps, EnterPassKeeps, RunScenarioKeeps,
     SandboxFailsKeeps, LeavePassKeeps, ValidateKeeps, PublishCourseKeeps, SubmitKeeps,
     GradeKeeps, GradingStutters
  DEF GradingNext
<1>2. QED
  BY <1>1, GradingInitHolds, PTL DEF GradingSpec

-----------------------------------------------------------------------------
(* Grading: what it gives *)

\* _required_categories of the author and of the gate agree in the direction
\* that matters: what the author accepts never fails the gate for a category or
\* a quality bar, for any spec and any bundle.
THEOREM AuthorAsks == GradingSpec => []AuthorAsksEnough
<1>1. GradingInv => AuthorAsksEnough
  <2> SUFFICES ASSUME GradingInv, stage = "validation", Loaded = payload
               PROVE  GateRequires \subseteq CategoriesOf(Loaded) /\ Uncovered(Loaded) = {}
    BY DEF AuthorAsksEnough
  <2>1. Accepted(payload)
    BY DEF GradingInv, AuthorAccepted, Drafted
  <2>2. GateRequires \subseteq AuthorRequires
    BY GateAsksNoMore DEF GradingInv, Placed
  <2>3. QED
    BY <2>1, <2>2 DEF Accepted
<1>2. QED
  BY <1>1, GradingInvariance, PTL

\* What validate_oracle lets through on the strength of the reference run,
\* lms_service.py would pass; nobody passes by structural rubrics alone; and the
\* author was told all of what validate_oracle asks for.
THEOREM GateSound == GradingSpec => []GateIsSound
<1>1. GradingInv => PublishableIsSolvable
  <2> SUFFICES ASSUME GradingInv, stage = "gate_3", spec.source # "curated"
               PROVE  GradeOf(outputs) = "passed"
    BY DEF PublishableIsSolvable
  <2>1. DOMAIN outputs = Loaded /\ Loaded # {}
    BY SomethingLoaded DEF GradingInv, RanAll, GateCovered, Released
  <2>2. \A s \in DOMAIN outputs : LearnerPassed(outputs[s])
    BY GateIsStricter DEF GradingInv, ReferencePassed
  <2>3. QED
    BY <2>1, <2>2 DEF GradeOf
<1>2. GradingInv => NotByStructureAlone
  <2> SUFFICES ASSUME GradingInv, stage = "graded", grade = "passed",
                      NEW s \in Loaded, s.category \notin Exempt,
                      ~Says(outputs[s], "abstain")
               PROVE  \E i \in DOMAIN outputs[s].verdicts :
                        s.rubrics[i].kind \notin Trivial /\ outputs[s].verdicts[i] = "pass"
    BY DEF NotByStructureAlone
  <2>1. s \in DOMAIN outputs /\ Kept(s, outputs[s], setup, router)
    BY DEF GradingInv, RanAll, OutputsKept
  <2>2. LearnerPassed(outputs[s])
    BY <2>1 DEF GradingInv, GradedByRule, GradeOf
  <2>3. ~OnlyTrivial(s)
    BY DEF GradingInv, GateCovered, Released, Covers
  <2>4. PICK i \in DOMAIN s.rubrics : s.rubrics[i].kind \notin Trivial
    BY <2>3 DEF OnlyTrivial, KindsOf, ToSet
  <2>5. /\ i \in DOMAIN outputs[s].verdicts
        /\ outputs[s].verdicts[i] \in {"pass", "fail", "abstain"}
    BY <2>1, <2>2 DEF Kept, LearnerPassed
  <2>6. outputs[s].verdicts[i] = "pass"
    BY <2>2, <2>5 DEF LearnerPassed, Failing, Says
  <2>7. QED
    BY <2>4, <2>5, <2>6
<1>3. QED
  BY <1>1, <1>2, AuthorAsks, GradingInvariance, PTL DEF GateIsSound

\* A grade is told only of a complete run by the rules of the server, and
\* "passed" only of one in which every scenario ran to its end and answered
\* what its rubrics look at.
THEOREM GradeSound == GradingSpec => []GradeIsSound
<1>1. GradingInv => GradingTypeOK
  BY DEF GradingInv
<1>2. GradingInv /\ grade = "passed" =>
        stage = "graded" /\ DOMAIN outputs = Loaded /\ Loaded # {}
          /\ \A s \in Loaded : LearnerPassed(outputs[s]) /\ Kept(s, outputs[s], setup, router)
  <2> SUFFICES ASSUME GradingInv, grade = "passed"
               PROVE  stage = "graded" /\ DOMAIN outputs = Loaded /\ Loaded # {}
                        /\ \A s \in Loaded : /\ LearnerPassed(outputs[s])
                                             /\ Kept(s, outputs[s], setup, router)
    OBVIOUS
  <2>1. stage = "graded"
    BY DEF GradingInv, GradingTypeOK
  <2>2. DOMAIN outputs = Loaded
    BY <2>1 DEF GradingInv, RanAll
  <2>3. DOMAIN outputs # {} /\ \A s \in DOMAIN outputs : LearnerPassed(outputs[s])
    BY <2>1 DEF GradingInv, GradedByRule, GradeOf
  <2>4. QED
    BY <2>1, <2>2, <2>3 DEF GradingInv, OutputsKept
<1>3. GradingInv => PassedMeansAllRan
  <2> SUFFICES ASSUME GradingInv, grade = "passed"
               PROVE  /\ Loaded # {} /\ DOMAIN outputs = Loaded
                      /\ \A s \in Loaded : /\ ~outputs[s].aborted
                                           /\ DOMAIN outputs[s].verdicts = DOMAIN s.rubrics
    BY DEF PassedMeansAllRan
  <2>1. QED
    BY <1>2 DEF LearnerPassed, Kept
<1>4. GradingInv => PassedMeansAnswered
  <2> SUFFICES ASSUME GradingInv, grade = "passed", NEW s \in Loaded,
                      NEW i \in DOMAIN s.rubrics
               PROVE  LET r == s.rubrics[i]
                          c == Normalized(r)
                      IN /\ Builds(r.kind, c)
                         /\ \/ Found(Resolve(outputs[s].captures, c.target))
                            \/ /\ r.kind = "oracle_set_overlap"
                               /\ outputs[s].verdicts[i] = "abstain"
    BY DEF PassedMeansAnswered
  <2> DEFINE ctx == [captures |-> outputs[s].captures, setup |-> setup, meta |-> Dict(<<>>)]
  <2>1. LearnerPassed(outputs[s]) /\ Kept(s, outputs[s], setup, router)
    BY <1>2
  <2>2. /\ i \in DOMAIN outputs[s].verdicts
        /\ outputs[s].verdicts[i] \in VerdictsOf(s.rubrics[i], ctx, router)
    BY <2>1 DEF Kept, LearnerPassed
  <2>3. outputs[s].verdicts[i] # "fail"
    BY <2>1, <2>2 DEF LearnerPassed, Failing
  <2>4. ctx.captures = outputs[s].captures
    OBVIOUS
  <2> HIDE DEF ctx
  <2>5. QED
    BY <2>2, <2>3, <2>4, NotFailing
<1>5. GradingInv => StrictHasRouter
  BY DEF GradingInv, Routed, StrictHasRouter
<1>6. QED
  BY <1>1, <1>3, <1>4, <1>5, GradingInvariance, PTL DEF GradeIsSound

\* A course that was published on the strength of its reference run has no
\* rubric that abstains for every learner: the gold set that the reference was
\* compared with is the one learners are.
THEOREM NoRubricDead == GradingSpec => [](spec.source # "curated" => NoDeadRubric)
<1>1. GradingInv => (spec.source # "curated" => NoDeadRubric)
  <2> SUFFICES ASSUME GradingInv, spec.source # "curated", stage = "graded",
                      NEW s \in DOMAIN outputs, NEW i \in DOMAIN outputs[s].verdicts,
                      s.rubrics[i].kind = "oracle_set_overlap",
                      outputs[s].verdicts[i] = "abstain"
               PROVE  FALSE
    BY DEF NoDeadRubric
  <2> DEFINE ctx == [captures |-> outputs[s].captures, setup |-> setup, meta |-> Dict(<<>>)]
  <2>1. /\ s \in Loaded /\ i \in DOMAIN s.rubrics
        /\ outputs[s].verdicts[i] \in VerdictsOf(s.rubrics[i], ctx, router)
    BY DEF GradingInv, GradingTypeOK, OutputsKept, Kept
  <2>2. Builds(s.rubrics[i].kind, Normalized(s.rubrics[i]))
    BY <2>1, UnbuiltFails
  <2>3. NoGold(s.rubrics[i], setup)
    BY <2>1, <2>2, OverlapAbstains DEF Overlaps
  <2>4. QED
    BY <2>1, <2>2, <2>3 DEF GradingInv, GoldLives, Released, Overlaps
<1>2. QED
  BY <1>1, GradingInvariance, PTL

=============================================================================
