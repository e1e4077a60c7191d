----------------------------- MODULE OutcomeRun -----------------------------
(***************************************************************************)
(* The course_runs row of one outcome-mode course and the HTTP requests    *)
(* that read and write it: the kick-off, the gate decisions, the refreshes *)
(* every read of a course run makes, and the clean-up at startup.          *)
(* (api/routes.py, services/course_generation_service.py,                  *)
(* services/course_workflow_service.py.)                                   *)
(*                                                                         *)
(* Every handler reads the row, works on its copy and saves the whole      *)
(* copy: save_course_run is an unconditional upsert.  A handler runs in a  *)
(* worker; one access to the store is one step, so the handlers of several *)
(* workers interleave between their accesses.  What one execution of the   *)
(* graph returns is what GateFlow allows (OutcomeGraph implements it).     *)
(***************************************************************************)
EXTENDS Naturals, FiniteSets

CONSTANTS
  Workers,       \* the threads serving requests
  KickOffWorker, \* the one that serves the creation of the course
  MaxSnapshots,  \* bound on the publish snapshots ever built
  MaxRestarts    \* bound on the restarts of the server

ASSUME RunAssumption ==
  /\ KickOffWorker \in Workers
  /\ MaxSnapshots \in Nat
  /\ MaxRestarts \in Nat

VARIABLES
  serial,     \* whether requests come one at a time; that does not change
  row,        \* the saved CourseRun
  snapshots,  \* the ids in publish_snapshots
  request,    \* what each worker is doing, and its copies of the data
  approvals,  \* history: the gates whose approval passed the guard
  applied,    \* history: how often a decision on a gate was written back
  restarts

vars == <<serial, row, snapshots, request, approvals, applied, restarts>>

-----------------------------------------------------------------------------
(* The data *)

Gates == 1..3

Published == 4

\* payload_json["outcome_state"]: the gate the graph is paused at (0 before
\* gate 1, Published after node_publish) and its status.
NoBlob == [phase |-> 0, status |-> "none"]

Blobs ==
  {NoBlob} \cup [phase : 0..Published,
                 status : {"running", "awaiting_human", "blocked", "published"}]

NoSnapshot == 0

\* CourseRun: its surface status, active_operation, the graph's state and
\* latest_publish_snapshot_id.  (stage follows status for these runs.)
Rows ==
  [status : {"active", "awaiting_human", "blocked", "published"},
   op : {"none", "generation"},
   blob : Blobs,
   snapshot : 0..MaxSnapshots]

\* What create_generation_placeholder saves.
Placeholder ==
  [status |-> "active", op |-> "generation", blob |-> NoBlob,
   snapshot |-> NoSnapshot]

\* How a graph status shows on the row (the three copies of this mapping in
\* the code agree).
Surface(status) ==
  IF status = "running" THEN "active" ELSE status

\* A slip: the row is refreshed before the graph's state was saved.
RefreshedAlways(r) == [r EXCEPT !.status = Surface(r.blob.status)]

\* _compute_refreshed_run: a row without the graph's state is returned as it
\* is while it is drafting.
Refreshed(r) ==
  IF r.blob = NoBlob THEN r ELSE [r EXCEPT !.status = Surface(r.blob.status)]

PCs == {"idle", "execute", "kickoff_save", "route", "load_state", "load_row",
        "reload", "persist", "respond", "refresh_save"}

Idle ==
  [pc |-> "idle", gate |-> 0, approve |-> FALSE, state |-> NoBlob,
   copy |-> Placeholder]

Requests ==
  [pc : PCs, gate : 0..3, approve : BOOLEAN, state : Blobs, copy : Rows]

\* The placeholder is saved and the creating request is in the graph.
Init ==
  /\ serial \in BOOLEAN
  /\ row = Placeholder
  /\ snapshots = {}
  /\ request = [w \in Workers |->
       IF w = KickOffWorker
         THEN [Idle EXCEPT !.pc = "execute", !.state = [NoBlob EXCEPT !.status = "running"]]
         ELSE Idle]
  /\ approvals = {}
  /\ applied = [g \in Gates |-> 0]
  /\ restarts = 0

-----------------------------------------------------------------------------
(* Steps of a worker *)

At(w, pc) == request[w].pc = pc

\* The worker's request becomes r; nothing else changes but what the action
\* names.
Go(w, r) == request' = [request EXCEPT ![w] = r]

Quiet == \A w \in Workers : At(w, "idle")

MayCome(w) == At(w, "idle") /\ (serial => Quiet)

History == UNCHANGED <<approvals, applied, restarts>>

\* A slip: an execution walks through the next gate without a pause.
ExecuteTwoGates(w) ==
  /\ At(w, "execute")
  /\ LET s == request[w].state
         next == IF request[w].gate = 0 THEN "kickoff_save" ELSE "reload"
     IN  Go(w, [request[w] EXCEPT !.pc = next, !.state =
              [phase |-> IF s.phase = 1 THEN 3 ELSE s.phase + 1,
               status |-> IF s.phase = 3 THEN "published" ELSE "awaiting_human"]])
  /\ UNCHANGED <<row, snapshots>>
  /\ History

\* OutcomeWorkflowGraph.execute: the next pause or publication, a blocked
\* run, or an exception that ends the request.
Execute(w) ==
  /\ At(w, "execute")
  /\ LET s == request[w].state
         next == IF request[w].gate = 0 THEN "kickoff_save" ELSE "reload"
     IN  \/ Go(w, [request[w] EXCEPT !.pc = next, !.state =
              [phase |-> s.phase + 1,
               status |-> IF s.phase = 3 THEN "published" ELSE "awaiting_human"]])
         \/ Go(w, [request[w] EXCEPT !.pc = next, !.state = [s EXCEPT !.status = "blocked"]])
         \/ Go(w, Idle)
  /\ UNCHANGED <<row, snapshots>>
  /\ History

\* A slip: the finished generation keeps its lock.
KickOffSaveLocked(w) ==
  /\ At(w, "kickoff_save")
  /\ row' = [request[w].copy EXCEPT !.status = Surface(request[w].state.status),
                                    !.blob = request[w].state]
  /\ Go(w, Idle)
  /\ UNCHANGED snapshots
  /\ History

\* _outcome_state_to_legacy_response: the copy made when the placeholder was
\* created is saved over whatever the row is now.
KickOffSave(w) ==
  /\ At(w, "kickoff_save")
  /\ row' = [request[w].copy EXCEPT !.status = Surface(request[w].state.status),
                                    !.op = "none", !.blob = request[w].state]
  /\ Go(w, Idle)
  /\ UNCHANGED snapshots
  /\ History

\* A reviewer posts a decision on gate g.
PostDecision(w) ==
  /\ MayCome(w)
  /\ \E g \in Gates, approve \in BOOLEAN :
       Go(w, [pc |-> "route", gate |-> g, approve |-> approve, state |-> NoBlob,
              copy |-> Placeholder])
  /\ UNCHANGED <<row, snapshots>>
  /\ History

\* decide_course_run_gate: 404 without the graph's state, 409 unless it
\* awaits a human.
Route(w) ==
  /\ At(w, "route")
  /\ Go(w, IF row.blob.status = "awaiting_human"
             THEN [request[w] EXCEPT !.pc = "load_state"]
             ELSE Idle)
  /\ UNCHANGED <<row, snapshots>>
  /\ History

\* _load_outcome_state: the first read of the resume (404 when it is gone).
LoadState(w) ==
  /\ At(w, "load_state")
  /\ Go(w, IF row.blob = NoBlob
             THEN Idle
             ELSE [request[w] EXCEPT !.pc = "load_row", !.state = row.blob])
  /\ UNCHANGED <<row, snapshots>>
  /\ History

\* A slip: the gate is not compared with the stage.
PausedSomewhere(s, g) == s.status = "awaiting_human"

\* The guard of the resume: the loaded state is paused at this very gate.
PausedAt(s, g) == s.phase = g /\ s.status = "awaiting_human"

\* The second read, then the guard on what the first one returned.  (Past
\* the guard the row is read once more before it is used.)
LoadRow(w) ==
  /\ At(w, "load_row")
  /\ LET r == request[w]
     IN  \/ /\ ~PausedAt(r.state, r.gate)
            /\ Go(w, [r EXCEPT !.pc = "respond", !.copy = row])
            /\ UNCHANGED approvals
         \/ /\ PausedAt(r.state, r.gate)
            /\ r.approve
            /\ Go(w, [r EXCEPT !.pc = "execute", !.state = [@ EXCEPT !.status = "running"]])
            /\ approvals' = approvals \cup {r.gate}
         \/ /\ PausedAt(r.state, r.gate)
            /\ ~r.approve
            /\ Go(w, [r EXCEPT !.pc = "reload", !.state = [@ EXCEPT !.status = "blocked"]])
            /\ UNCHANGED approvals
  /\ UNCHANGED <<row, snapshots, applied, restarts>>

\* A slip: the keys of the saved payload win the merge.
MergedBackwards(w) == row

\* The row just read, with the graph's state merged in.
Merged(w) == [row EXCEPT !.blob = request[w].state]

\* A published state whose row has no snapshot yet gets one.
NeedsSnapshot(w) == request[w].state.status = "published" /\ row.snapshot = NoSnapshot

\* A slip: a failed snapshot is swallowed.
ReloadSwallowing(w) ==
  /\ At(w, "reload")
  /\ Go(w, [request[w] EXCEPT !.pc = "persist", !.copy = Merged(w)])
  /\ UNCHANGED <<row, snapshots>>
  /\ History

\* _persist_outcome_state up to its save: read the row again, build and save
\* the snapshot when one is due.  Snapshot ids carry the time in seconds, so
\* two snapshots of the same second share an id.
Reload(w) ==
  /\ At(w, "reload")
  /\ \/ /\ ~NeedsSnapshot(w)
        /\ Go(w, [request[w] EXCEPT !.pc = "persist", !.copy = Merged(w)])
        /\ UNCHANGED snapshots
     \/ /\ NeedsSnapshot(w)
        /\ \E id \in {Cardinality(snapshots), Cardinality(snapshots) + 1}
                       \cap (1..MaxSnapshots) :
             /\ snapshots' = snapshots \cup {id}
             /\ Go(w, [request[w] EXCEPT !.pc = "persist",
                         !.copy = [Merged(w) EXCEPT !.snapshot = id]])
     \/ \* Building or saving the snapshot raised: the copy is demoted.
        /\ NeedsSnapshot(w)
        /\ Go(w, [request[w] EXCEPT !.pc = "persist",
                    !.copy = [Merged(w) EXCEPT !.status = "awaiting_human",
                                               !.blob = [@ EXCEPT !.status = "blocked"]]])
        /\ UNCHANGED snapshots
  /\ UNCHANGED row
  /\ History

\* The save of _persist_outcome_state.
PersistSave(w) ==
  /\ At(w, "persist")
  /\ row' = request[w].copy
  /\ applied' = [applied EXCEPT ![request[w].gate] = IF @ < 2 THEN @ + 1 ELSE @]
  /\ Go(w, [request[w] EXCEPT !.pc = "respond"])
  /\ UNCHANGED <<snapshots, approvals, restarts>>

\* _build_response_from_state: the status of the state in memory is put on
\* the copy of the row, and the copy is saved again.
Respond(w) ==
  /\ At(w, "respond")
  /\ row' = [request[w].copy EXCEPT !.status = Surface(request[w].state.status)]
  /\ Go(w, Idle)
  /\ UNCHANGED snapshots
  /\ History

\* get_run, list_runs, sync_run: read the row, refresh the copy ...
RefreshRead(w) ==
  /\ MayCome(w)
  /\ Go(w, [Idle EXCEPT !.pc = "refresh_save", !.copy = Refreshed(row)])
  /\ UNCHANGED <<row, snapshots>>
  /\ History

\* ... and save it.
RefreshSave(w) ==
  /\ At(w, "refresh_save")
  /\ row' = request[w].copy
  /\ Go(w, Idle)
  /\ UNCHANGED snapshots
  /\ History

\* A slip: the clean-up rebuilds the payload.
RestartRebuilding ==
  /\ restarts < MaxRestarts
  /\ restarts' = restarts + 1
  /\ request' = [w \in Workers |-> Idle]
  /\ row' = [row EXCEPT !.op = "none", !.blob = NoBlob]
  /\ UNCHANGED <<snapshots, approvals, applied>>

\* The server restarts: every request dies where it is, and
\* reconcile_stale_active_operations clears the lock before any is served.
Restart ==
  /\ restarts < MaxRestarts
  /\ restarts' = restarts + 1
  /\ request' = [w \in Workers |-> Idle]
  /\ row' = [row EXCEPT !.op = "none"]
  /\ UNCHANGED <<snapshots, approvals, applied>>

Handle(w) ==
  \/ Execute(w) \/ KickOffSave(w)
  \/ Route(w) \/ LoadState(w) \/ LoadRow(w) \/ Reload(w) \/ PersistSave(w) \/ Respond(w)
  \/ RefreshSave(w)

Next ==
  /\ \/ Restart
     \/ \E w \in Workers : PostDecision(w) \/ RefreshRead(w) \/ Handle(w)
  /\ UNCHANGED serial

\* Only safety is claimed: nobody has to decide a gate.
Spec == Init /\ [][Next]_vars

-----------------------------------------------------------------------------
(* Properties *)

\* The types of all variables.
TypeOK ==
  /\ serial \in BOOLEAN
  /\ row \in Rows
  /\ snapshots \subseteq 1..MaxSnapshots
  /\ request \in [Workers -> Requests]
  /\ approvals \subseteq Gates
  /\ applied \in [Gates -> 0..2]
  /\ restarts \in 0..MaxRestarts

\* Whatever overlaps, dies or is overwritten: the saved run is past a gate,
\* or learners can be given a snapshot of it, only if a human approved that
\* gate and every gate before it.
EveryGateApproved ==
  /\ \A g \in Gates : row.blob.phase > g => g \in approvals
  /\ snapshots # {} => approvals = Gates

\* A row that learners are pointed at, or a copy of it about to be saved,
\* links a snapshot that was saved before; and it links one whenever its
\* graph is published, also when packaging failed, requests overlapped or
\* the server died between the two saves.
PublishedGraphIsPackaged ==
  \A r \in {row} \cup {request[w].copy : w \in Workers} :
    /\ r.snapshot # NoSnapshot => r.snapshot \in snapshots
    /\ r.blob.status = "published" => r.snapshot # NoSnapshot

\* "calling resume twice is a no-op the second time": at most one decision
\* on a gate is written back, as long as requests do not overlap.
DecisionAppliedOnce == serial => \A g \in Gates : applied[g] <= 1

\* "the full graph state survives a reload / refresh / gate-resume": once
\* saved, the graph's state is never lost from the row.
StateSurvives == [][row.blob # NoBlob => row'.blob # NoBlob]_row

\* The same as long as requests do not overlap, also through restarts.
SerialStateSurvives ==
  [][serial /\ row.blob # NoBlob => row'.blob # NoBlob]_row

\* Nothing but the kick-off holds the lock: once the graph's state is saved
\* the run no longer counts as being generated, as long as requests do not
\* overlap.
LockReleased == serial /\ row.blob # NoBlob => row.op = "none"

\* The row, whatever overlaps, dies or is overwritten: no run is past a gate that
\* nobody approved, and learners are given nothing of one.  As long as requests
\* do not overlap, restarts included, a decision is also applied once, and the
\* lock goes with the kick-off that took it.
RowIsSound == TypeOK /\ EveryGateApproved /\ DecisionAppliedOnce /\ LockReleased

\* The run that is shown as published can be given to learners, once every
\* request about it was answered ("isn't claimed-but-broken in the catalog").
PublishedIsLearnerReady ==
  Quiet /\ row.status = "published" => snapshots # {}

-----------------------------------------------------------------------------
(* The abstract specification *)

\* An execution is under way: from the guard to the save.
Running ==
  \E w \in Workers :
    \/ At(w, "execute") \/ At(w, "kickoff_save")
    \/ request[w].approve /\ request[w].pc \in {"reload", "persist"}

\* Runs on which requests overlap are shown as one that never leaves its
\* first execution: nothing is claimed about them here.
PhaseShown ==
  IF ~serial THEN 0
  ELSE IF row.blob.phase = Published /\ row.blob.status = "blocked" THEN 3
  ELSE row.blob.phase

RunningShown == serial => Running

BlockedShown == serial /\ row.blob.status = "blocked"

Flow == INSTANCE GateFlow WITH
  phase <- PhaseShown, running <- RunningShown, blocked <- BlockedShown

\* As long as requests do not overlap, the saved run follows the gate flow.
ImplementsGateFlow == Flow!FlowSpec

=============================================================================
