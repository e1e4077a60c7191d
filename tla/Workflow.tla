------------------------------ MODULE Workflow ------------------------------
(***************************************************************************)
(* The workflow runs of services/workflow_service.py: a deterministic      *)
(* scaffold that waits at three review gates, is materialized to disk and  *)
(* is cloned for revisions; and the event log of                           *)
(* storage/postgres_store.py that tells its story.                         *)
(*                                                                         *)
(* A request reads a whole row, works on its copy, writes the whole row    *)
(* back and then appends an event; nothing locks the row, the directory    *)
(* or the log in between.                                                  *)
(***************************************************************************)
EXTENDS Naturals, Sequences, FiniteSets

CONSTANTS
  Requests,  \* the requests to come, also the ids of the runs they create
  Legacy,    \* the id of a run saved before the authoring loop was retired
  Files      \* how many files a bundle has, its manifest being the last

ASSUME WorkflowAssumption ==
  /\ IsFiniteSet(Requests)
  /\ Legacy \notin Requests
  /\ Files \in Nat \ {0}

VARIABLES
  serial,   \* whether requests come one at a time; it does not change
  runs,     \* workflow_runs
  log,      \* workflow_events of each run, in the order of the commits
  disk,     \* the bundle directory (0) of each run and the files in it
  torn,     \* the runs whose last materialization was cut off while it wrote,
            \* by an error or a restart: what is to be expected of disk
  req,      \* the requests and their local variables
  crashed   \* whether the server has been restarted; it is once

vars == <<serial, runs, log, disk, torn, req, crashed>>

Ids == Requests \cup {Legacy}

Gates == 1..3

None == [stage |-> "none"]

\* valid is validation_summary.valid, which validating the same spec again
\* confirms; evidence is what _run_has_execution_evidence looks for; a run
\* with gate 0 waits at none.
Row ==
  [stage : {"gate", "needs_revision", "published", "blocked"}, gate : 0..3,
   spec : BOOLEAN, valid : BOOLEAN, evidence : BOOLEAN, bundle : BOOLEAN]

Exists(id) == runs[id] # None

Ended(q) == req[q].pc \in {"idle", "done", "failed", "gone"}

Fresh(pc) == [pc |-> pc, run |-> Legacy, copy |-> None, events |-> <<>>,
              next |-> 0, overwrite |-> TRUE]

Init ==
  /\ serial \in BOOLEAN
  /\ \E g \in Gates, proof \in BOOLEAN :
       \/ runs = [id \in Ids |-> None]
       \/ runs = [id \in Ids |-> IF id = Legacy
                  THEN [stage |-> "gate", gate |-> g, spec |-> TRUE, valid |-> TRUE,
                        evidence |-> proof, bundle |-> FALSE]
                  ELSE None]
  /\ log = [id \in Ids |-> <<>>]
  /\ disk = [id \in Ids |-> {}]
  /\ torn = {}
  /\ req = [q \in Requests |-> Fresh("idle")]
  /\ crashed = FALSE

Do(q, new) == req' = [req EXCEPT ![q] = new]

At(q, pc) == req[q].pc = pc

\* A request comes in; if requests are serial, all the others have ended.
Arrives(q) ==
  /\ At(q, "idle")
  /\ serial => \A p \in Requests : Ended(p)

\* The row is ready to be saved, and these events to be appended after it.
SaveRow(q, id, row, events) ==
  Do(q, [Fresh("save") EXCEPT !.run = id, !.copy = row, !.events = events])

-----------------------------------------------------------------------------
(* Creating and revising *)

\* create_run of a brief that is out of scope: the run has no spec.
CreateBlocked(q) ==
  /\ Arrives(q)
  /\ SaveRow(q, q,
             [stage |-> "blocked", gate |-> 0, spec |-> FALSE, valid |-> FALSE,
              evidence |-> FALSE, bundle |-> FALSE],
             <<"created">>)
  /\ UNCHANGED <<serial, runs, log, disk, torn, crashed>>

\* create_run and create_run_from_explicit_plan: a scaffold waits at gate 1.
Create(q) ==
  /\ Arrives(q)
  /\ \E valid \in BOOLEAN :
       SaveRow(q, q,
               [stage |-> "gate", gate |-> 1, spec |-> TRUE, valid |-> valid,
                evidence |-> FALSE, bundle |-> FALSE],
               <<"created", "completed">>)
  /\ UNCHANGED <<serial, runs, log, disk, torn, crashed>>

\* A slip: the clone keeps the stage and the evidence of its source.
ReviseAsIs(q) ==
  /\ Arrives(q)
  /\ \E id \in Ids :
       /\ Exists(id)
       /\ SaveRow(q, q, [runs[id] EXCEPT !.bundle = FALSE], <<"revision">>)
  /\ UNCHANGED <<serial, runs, log, disk, torn, crashed>>

\* create_revision_from_run: a clone of the run starts at gate 1, without
\* what its source has been through.
Revise(q) ==
  /\ Arrives(q)
  /\ \E id \in Ids :
       /\ Exists(id)
       /\ SaveRow(q, q,
                  [runs[id] EXCEPT !.stage = "gate", !.gate = 1,
                                   !.evidence = FALSE, !.bundle = FALSE],
                  <<"revision">>)
  /\ UNCHANGED <<serial, runs, log, disk, torn, crashed>>

-----------------------------------------------------------------------------
(* Gates *)

\* A slip: only the last gate asks for evidence.
AllowedAtTheEnd(row) ==
  CASE row.gate = 1 -> row.spec /\ row.valid
    [] row.gate = 2 -> TRUE
    [] row.gate = 3 -> row.evidence

\* What approving the gate a run waits at requires.
Allowed(row) ==
  CASE row.gate = 1 -> row.spec /\ row.valid
    [] row.gate = 2 -> row.evidence
    [] row.gate = 3 -> row.evidence

Passed(row) ==
  IF row.gate = 3
  THEN [row EXCEPT !.stage = "published", !.gate = 0]
  ELSE [row EXCEPT !.stage = "gate", !.gate = @ + 1]

\* A slip: the event is appended whether or not the gate opens.
ApproveLoggingFirst(q) ==
  /\ Arrives(q)
  /\ \E id \in Ids :
       /\ Exists(id)
       /\ runs[id].gate # 0
       /\ SaveRow(q, id, IF Allowed(runs[id]) THEN Passed(runs[id]) ELSE runs[id],
                  <<"approved">>)
  /\ UNCHANGED <<serial, runs, log, disk, torn, crashed>>

\* apply_gate_decision, approving the pending gate.
Approve(q) ==
  /\ Arrives(q)
  /\ \E id \in Ids :
       /\ Exists(id)
       /\ runs[id].gate # 0
       /\ IF Allowed(runs[id])
          THEN SaveRow(q, id, Passed(runs[id]), <<"approved">>)
          ELSE Do(q, Fresh("failed"))
  /\ UNCHANGED <<serial, runs, log, disk, torn, crashed>>

\* A slip: any run may be sent back, whatever gate it waits at.
RejectAny(q) ==
  /\ Arrives(q)
  /\ \E id \in Ids :
       /\ Exists(id)
       /\ SaveRow(q, id, [runs[id] EXCEPT !.stage = "needs_revision"], <<"rejected">>)
  /\ UNCHANGED <<serial, runs, log, disk, torn, crashed>>

\* apply_gate_decision, rejecting: the run goes on waiting at the gate.
Reject(q) ==
  /\ Arrives(q)
  /\ \E id \in Ids :
       /\ Exists(id)
       /\ runs[id].gate # 0
       /\ SaveRow(q, id, [runs[id] EXCEPT !.stage = "needs_revision"], <<"rejected">>)
  /\ UNCHANGED <<serial, runs, log, disk, torn, crashed>>

-----------------------------------------------------------------------------
(* Materializing *)

\* materialize_run reads the run and validates its spec again; an invalid one
\* is saved and refused.
Materialize(q) ==
  /\ Arrives(q)
  /\ \E id \in Ids, overwrite \in BOOLEAN :
       /\ Exists(id)
       /\ Do(q, [Fresh(IF runs[id].spec /\ ~runs[id].valid THEN "save" ELSE "wipe")
                 EXCEPT !.run = id, !.copy = runs[id], !.overwrite = overwrite])
  /\ UNCHANGED <<serial, runs, log, disk, torn, crashed>>

\* A slip: the old bundle goes before overwrite is looked at.
WipeAnyway(q) ==
  /\ At(q, "wipe")
  /\ disk' = [disk EXCEPT ![req[q].run] = {0}]
  /\ IF disk[req[q].run] # {} /\ ~req[q].overwrite
     THEN Do(q, Fresh("failed"))
     ELSE Do(q, [req[q] EXCEPT !.pc = "write", !.next = 1])
  /\ UNCHANGED <<serial, runs, log, torn, crashed>>

\* The bundle directory, if there is one, is removed and made again, or the
\* request is refused.  Either can fail, for example while another request writes
\* into the directory, and leave any part of what was there.
Wipe(q) ==
  /\ At(q, "wipe")
  /\ LET id == req[q].run IN
     \/ /\ disk[id] # {} /\ ~req[q].overwrite
        /\ Do(q, Fresh("failed"))
        /\ UNCHANGED <<disk, torn>>
     \/ /\ disk[id] = {} \/ req[q].overwrite
        /\ disk' = [disk EXCEPT ![id] = {0}]
        /\ Do(q, [req[q] EXCEPT !.pc = "write", !.next = 1])
        /\ UNCHANGED torn
     \/ /\ disk[id] = {} \/ req[q].overwrite
        /\ \E rest \in {{}} \cup {{0} \cup some : some \in SUBSET disk[id]} :
             disk' = [disk EXCEPT ![id] = rest]
        /\ torn' = torn \cup {id}
        /\ Do(q, Fresh("failed"))
  /\ UNCHANGED <<serial, runs, log, crashed>>

\* The files are written one by one and their directories made, the manifest last.
WriteFile(q) ==
  /\ At(q, "write")
  /\ req[q].next = Files => 0 \in disk[req[q].run]
  /\ disk' = [disk EXCEPT ![req[q].run] = @ \cup {0, req[q].next}]
  /\ Do(q, [req[q] EXCEPT !.next = @ + 1,
                          !.pc = IF req[q].next = Files THEN "check" ELSE "write"])
  /\ torn' = IF req[q].next = Files THEN torn \ {req[q].run} ELSE torn
  /\ UNCHANGED <<serial, runs, log, crashed>>

\* Making a directory or writing a file raises: what is written stays, and the
\* row goes on recording the bundle that was there before.
WriteFails(q) ==
  /\ At(q, "write")
  /\ torn' = torn \cup {req[q].run}
  /\ Do(q, Fresh("failed"))
  /\ UNCHANGED <<serial, runs, log, disk, crashed>>

\* validate_materialized_bundle finds the files that are missing, and may find
\* fault with what they say; a run without a spec is not validated.
CheckBundle(q) ==
  /\ At(q, "check")
  /\ \/ /\ req[q].copy.spec => disk[req[q].run] = 0..Files
        /\ SaveRow(q, req[q].run, [req[q].copy EXCEPT !.bundle = TRUE], <<"materialized">>)
     \/ /\ req[q].copy.spec
        /\ Do(q, Fresh("failed"))
  /\ UNCHANGED <<serial, runs, log, disk, torn, crashed>>

-----------------------------------------------------------------------------
(* Storage *)

\* save_run writes the whole row.
Save(q) ==
  /\ At(q, "save")
  /\ runs' = [runs EXCEPT ![req[q].run] = req[q].copy]
  /\ Do(q, IF req[q].events = <<>> THEN Fresh("failed") ELSE [req[q] EXCEPT !.pc = "select"])
  /\ UNCHANGED <<serial, log, disk, torn, crashed>>

Numbers(id) == {log[id][i].no : i \in DOMAIN log[id]}

\* The largest number in the log of a run, or 0.
Last(id) == CHOOSE n \in Numbers(id) \cup {0} : \A m \in Numbers(id) : m <= n

\* A slip: an event takes the number of events there are.
SelectCount(q) ==
  /\ At(q, "select")
  /\ Do(q, [req[q] EXCEPT !.pc = "insert", !.next = Len(log[req[q].run])])
  /\ UNCHANGED <<serial, runs, log, disk, torn, crashed>>

\* append_event takes the largest number plus one ...
Select(q) ==
  /\ At(q, "select")
  /\ Do(q, [req[q] EXCEPT !.pc = "insert", !.next = Last(req[q].run) + 1])
  /\ UNCHANGED <<serial, runs, log, disk, torn, crashed>>

\* ... and inserts the event with it, in a second statement.
Insert(q) ==
  /\ At(q, "insert")
  /\ log' = [log EXCEPT ![req[q].run] =
               Append(@, [no |-> req[q].next, kind |-> Head(req[q].events)])]
  /\ LET left == Tail(req[q].events) IN
     Do(q, IF left = <<>> THEN Fresh("done")
           ELSE [req[q] EXCEPT !.pc = "select", !.events = left])
  /\ UNCHANGED <<serial, runs, disk, torn, crashed>>

\* The server is restarted: its requests are gone.
Restart ==
  /\ ~crashed
  /\ crashed' = TRUE
  /\ req' = [q \in Requests |-> IF Ended(q) THEN req[q] ELSE Fresh("gone")]
  /\ torn' = torn \cup {req[q].run : q \in {q \in Requests : At(q, "write")}}
  /\ UNCHANGED <<serial, runs, log, disk>>

-----------------------------------------------------------------------------

Step(q) ==
  \/ CreateBlocked(q) \/ Create(q) \/ Revise(q)
  \/ Approve(q) \/ Reject(q)
  \/ Materialize(q) \/ Wipe(q) \/ WriteFile(q) \/ WriteFails(q) \/ CheckBundle(q)
  \/ Save(q) \/ Select(q) \/ Insert(q)

Next == Restart \/ \E q \in Requests : Step(q)

Spec == Init /\ [][Next]_vars

-----------------------------------------------------------------------------
(* What is to be true of it *)

\* Rows, logs, directories and requests have the shapes the code gives them.
TypeOK ==
  /\ serial \in BOOLEAN /\ crashed \in BOOLEAN
  /\ runs \in [Ids -> Row \cup {None}]
  /\ \A id \in Ids : \A i \in DOMAIN log[id] :
       log[id][i] \in [no : 1..(2 * Cardinality(Requests)),
                       kind : {"created", "completed", "revision", "approved",
                               "rejected", "materialized"}]
  /\ disk \in [Ids -> SUBSET (0..Files)] /\ torn \subseteq Ids
  /\ \A q \in Requests :
       /\ req[q].copy \in Row \cup {None}
       /\ req[q].pc \in {"idle", "wipe", "write", "check", "save", "select", "insert",
                         "done", "failed", "gone"}

\* Nothing runs a workflow run any more, so none that is created or revised
\* today can pass gate 2, however requests overlap; and a run of before is
\* published only with evidence that its artifact was seen working
\* (_run_has_execution_evidence, apply_gate_decision).
PublishedHadEvidence ==
  /\ \A id \in Requests : Exists(id) => runs[id].stage # "published" /\ runs[id].gate # 3
  /\ Exists(Legacy) /\ runs[Legacy].stage = "published" => runs[Legacy].evidence

\* A published run stays published when requests wait for each other: no
\* decision, revision or materialization of it takes that back.  (Two that
\* overlap can: the one that read the run before saves its copy after.)
PublishedIsFinal ==
  [][\A id \in Ids :
       serial /\ Exists(id) /\ runs[id].stage = "published"
         => runs'[id].stage = "published"]_vars

\* The numbers of the events of a run have no gap, even though two requests
\* can take the same one; those that wait for each other never do, and their
\* events sort in the order in which they were appended (list_events orders
\* by sequence_no, which no constraint keeps unique).
EventNumbers ==
  \A id \in Ids :
    /\ Numbers(id) = 1..Last(id)
    /\ serial => \A i \in DOMAIN log[id] : log[id][i].no = i

\* The log of a run can be replayed: the gate it waits at is one past the
\* approvals the log tells of, whatever was rejected, refused or materialized
\* in between - unless a crash lost an event, or requests overlapped.
LogTellsGate ==
  serial /\ ~crashed /\ (\A q \in Requests : Ended(q)) =>
    \A id \in Requests :
      Exists(id) /\ runs[id].stage \in {"gate", "needs_revision"} =>
        runs[id].gate = 1 + Cardinality({i \in DOMAIN log[id] : log[id][i].kind = "approved"})

\* The log of events: numbers without gaps, and a history that adds up.
LogIsSound == TypeOK /\ EventNumbers /\ LogTellsGate

\* What a run says was materialized is on disk, all of it, although
\* materializing again removes the directory first: a request that is refused,
\* before that (overwrite) or after the files are written (validation), loses
\* nothing, and a bundle that was cut off by an error or a restart is whole again
\* once it is materialized to the end - when requests do not overlap
\* (materialize_run of workflow_service.py and of artifact_materializer.py).
RecordedBundleIsWhole ==
  serial =>
    \A id \in Ids \ torn :
      Exists(id) /\ runs[id].bundle /\ (\A q \in Requests : req[q].run = id => ~At(q, "write"))
        => disk[id] = 0..Files

=============================================================================
