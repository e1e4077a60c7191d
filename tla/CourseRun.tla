------------------------------ MODULE CourseRun ------------------------------
(***************************************************************************)
(* The course_runs row of one course that is made of deliverables (a       *)
(* legacy course), the requests on it and the background jobs they start.  *)
(* (services/course_workflow_service.py, and the queued generation of      *)
(* services/course_generation_service.py.)                                 *)
(*                                                                         *)
(* active_operation is meant as a lock on the row.  It is a field of the   *)
(* row, and the row is read, worked on and saved as a whole: a thread is   *)
(* cut at its accesses to the row, so that others come in between.  The    *)
(* stage is recomputed from the linked workflow by every read (a refresh). *)
(***************************************************************************)
EXTENDS Naturals, FiniteSets

CONSTANTS
  Workers,       \* the threads that serve requests
  Jobs,          \* the background threads the job runner starts
  MaxSnapshots,  \* bound on the publish snapshots saved and being made
  MaxRestarts    \* bound on the restarts of the server

ASSUME CourseAssumption ==
  /\ Workers \cap Jobs = {}
  /\ MaxSnapshots \in Nat
  /\ MaxRestarts \in Nat

VARIABLES
  serial,     \* whether requests come one at a time, each with its job in it;
              \* that does not change
  row,        \* the saved CourseRun
  workflow,   \* the status of the linked workflow run
  snapshots,  \* how many publish snapshots are saved: their ids are 1, 2, ...
  latest,     \* the highest version among them
  thread,     \* what each thread is doing, and its copy of the row
  restarts

vars == <<serial, row, workflow, snapshots, latest, thread, restarts>>

-----------------------------------------------------------------------------
(* The data *)

Threads == Workers \cup Jobs

Operations == {"publish", "materialize", "generation", "revision"}

CourseStages ==
  {"drafting", "awaiting_course_review", "ready_to_publish", "published", "blocked"}

\* The linked workflow, when it exists: one that awaits its gates carries
\* evidence that it was executed, or it is unproven.
WorkflowStatuses == {"none", "awaiting_human", "unproven", "published", "blocked"}

\* CourseRun: stage, active_operation, whether it has its deliverables, and
\* latest_publish_snapshot_id (0: none).
Rows ==
  [stage : CourseStages, op : Operations \cup {"none"}, built : BOOLEAN,
   snapshot : Nat]

\* create_generation_placeholder and _build_revision_placeholder.
Placeholder(op) ==
  [stage |-> "drafting", op |-> op, built |-> FALSE, snapshot |-> 0]

\* _course_stage_from_deliverables.
StageOf(status) ==
  CASE status = "published" -> "ready_to_publish"
    [] status \in {"awaiting_human", "unproven"} -> "awaiting_course_review"
    [] OTHER -> "blocked"

\* A slip: the stage of a published course is recomputed too.
RefreshedFully(r) ==
  IF r.stage = "drafting" /\ ~r.built
    THEN r
    ELSE [r EXCEPT !.stage =
           IF r.op = "generation" THEN "drafting"
           ELSE StageOf(IF r.built THEN workflow ELSE "blocked")]

\* _compute_refreshed_run: a published course stays published, a placeholder
\* is left alone, any other course shows what its workflow is.
Refreshed(r) ==
  IF r.stage = "drafting" /\ ~r.built
    THEN r
    ELSE [r EXCEPT !.stage =
           IF r.stage = "published" THEN "published"
           ELSE IF r.op = "generation" THEN "drafting"
           ELSE StageOf(IF r.built THEN workflow ELSE "blocked")]

PCs ==
  {"idle", "sync", "enqueue", "reply",                      \* requests
   "begin", "job_sync", "certify", "reject", "save_snapshot", "save_published",
   "package", "save_bundle",                                \* publish, materialize
   "draft", "draft_save", "plan_save", "resync", "resync_save", "again", "again_save",
   "release", "final", "final_save",                        \* generation, revision
   "fail", "fail_save"}

Kinds == {"read", "queue", "direct"}

Idle == [pc |-> "idle", kind |-> "read", op |-> "none",
         copy |-> Placeholder("none"), version |-> 0]

ThreadStates ==
  [pc : PCs, kind : Kinds, op : Operations \cup {"none"}, copy : Rows,
   version : Nat]

\* A course is found in the database, perhaps made by an earlier release that
\* executed what it drafted, or created at once, or it is a placeholder with a
\* job that drafts it and the creating request about to read it for its answer.
Init ==
  /\ serial \in BOOLEAN
  /\ \/ /\ workflow \in {"awaiting_human", "unproven", "blocked"}
        /\ row = [stage |-> StageOf(workflow), op |-> "none", built |-> TRUE,
                  snapshot |-> 0]
        /\ thread = [t \in Threads |-> Idle]
     \/ /\ workflow = "none"
        /\ \E op \in {"generation", "revision"}, w \in Workers, j \in Jobs :
             /\ row = Placeholder(op)
             /\ thread = [t \in Threads |->
                  CASE t = w -> [Idle EXCEPT !.pc = "reply"]
                    [] t = j -> [Idle EXCEPT !.pc = "draft", !.op = op]
                    [] OTHER -> Idle]
  /\ snapshots = 0
  /\ latest = 0
  /\ restarts = 0

-----------------------------------------------------------------------------
(* Steps of a thread *)

At(t, pc) == thread[t].pc = pc

Go(t, s) == thread' = [thread EXCEPT ![t] = s]

\* The row is read and the copy kept for the step at pc.
Read(t, pc) ==
  /\ Go(t, [thread[t] EXCEPT !.pc = pc, !.copy = row])
  /\ UNCHANGED <<row, workflow, snapshots, latest, restarts>>

\* r is saved as the row, whatever the row is by now.
Save(r) ==
  /\ row' = r
  /\ UNCHANGED <<workflow, snapshots, latest, restarts>>

AllIdle(threads) == \A t \in threads : At(t, "idle")

\* A job reports its failure to the row, a request only to its client.
Failed(t) ==
  IF t \in Jobs THEN [Idle EXCEPT !.pc = "fail", !.op = thread[t].op] ELSE Idle

-----------------------------------------------------------------------------
(* Requests *)

Publishing == {t \in Threads : thread[t].op = "publish"}

\* get_run, list_runs, sync_run, queue_publish_run, publish_run,
\* queue_materialize_run, materialize_run: each begins by reading the row.
Request(w) ==
  /\ At(w, "idle")
  /\ serial => AllIdle(Threads)
  /\ \E kind \in Kinds, op \in {"none", "publish", "materialize"} :
       /\ kind = "read" <=> op = "none"
       /\ op = "publish" => snapshots + Cardinality(Publishing) < MaxSnapshots
       /\ Go(w, [Idle EXCEPT !.pc = "sync", !.kind = kind, !.op = op, !.copy = row])
  /\ UNCHANGED <<row, workflow, snapshots, latest, restarts>>

\* The guards on the refreshed copy: the lock, and for a queued publication
\* the stage.  The direct calls pass a lock held for the same operation.
MayStart(r, kind, op) ==
  /\ r.op = "none" \/ (kind = "direct" /\ r.op = op)
  /\ op = "publish" /\ kind = "queue" => r.stage = "ready_to_publish"

\* The refreshed row is saved.  (The workflow is read here, after the row.)
Sync(w) ==
  /\ At(w, "sync")
  /\ LET s == thread[w]
         r == Refreshed(s.copy)
     IN  /\ Save(r)
         /\ Go(w, IF s.kind = "read" \/ ~MayStart(r, s.kind, s.op) THEN Idle
                  ELSE IF s.kind = "direct" THEN [s EXCEPT !.pc = "begin"]
                  ELSE [s EXCEPT !.pc = "enqueue", !.copy = r])

\* The lock is set on the copy and saved, and the job is started.
Enqueue(w) ==
  /\ At(w, "enqueue")
  /\ \E j \in Jobs :
       /\ At(j, "idle")
       /\ Save([thread[w].copy EXCEPT !.op = thread[w].op])
       /\ thread' = [thread EXCEPT ![j] = [Idle EXCEPT !.pc = "begin", !.op = thread[w].op],
                                   ![w] = [Idle EXCEPT !.pc = "reply"]]

\* The answer to the queueing request is a read of its own, beside the job.
Reply(w) ==
  /\ At(w, "reply")
  /\ serial => AllIdle(Jobs)
  /\ Read(w, "sync")

-----------------------------------------------------------------------------
(* Publish and materialize: the job, or the direct request *)

Begin(t) == At(t, "begin") /\ Read(t, "job_sync")

\* A slip: the job relies on the check made when it was queued, which the
\* direct request did not make.
JobSyncTrusting(t) ==
  /\ At(t, "job_sync")
  /\ LET s == thread[t]
         r == Refreshed(s.copy)
     IN  /\ Save(r)
         /\ Go(t, IF s.op = "materialize" THEN [s EXCEPT !.pc = "package", !.copy = r]
                  ELSE [s EXCEPT !.pc = "certify", !.copy = r])

\* _execute_publish_run requires the stage, not the lock;
\* _execute_materialize_run requires nothing.
JobSync(t) ==
  /\ At(t, "job_sync")
  /\ LET s == thread[t]
         r == Refreshed(s.copy)
     IN  /\ Save(r)
         /\ Go(t, CASE s.op = "materialize" -> [s EXCEPT !.pc = "package", !.copy = r]
                    [] s.op # "materialize" /\ r.stage = "ready_to_publish" ->
                         [s EXCEPT !.pc = "certify", !.copy = r]
                    [] OTHER -> Failed(t))

\* A slip: every snapshot is a first version.
CertifyFirst(t) ==
  /\ At(t, "certify")
  /\ Go(t, [thread[t] EXCEPT !.pc = "save_snapshot", !.version = 1])
  /\ UNCHANGED <<row, workflow, snapshots, latest, restarts>>

\* create_snapshot takes the next version; then the certification.
Certify(t) ==
  /\ At(t, "certify")
  /\ LET s == thread[t]
     IN  \/ Go(t, [s EXCEPT !.pc = "save_snapshot", !.version = latest + 1])
         \/ \* No snapshot can be built, or a collaborator raised.
            Go(t, Failed(t))
         \/ \* Not certified; blocked for good when generation is to blame.
            \E stage \in {s.copy.stage, "blocked"} :
              Go(t, [s EXCEPT !.pc = "reject",
                              !.copy = [s.copy EXCEPT !.op = "none", !.stage = stage]])
  /\ UNCHANGED <<row, workflow, snapshots, latest, restarts>>

Reject(t) ==
  /\ At(t, "reject")
  /\ Save(thread[t].copy)
  /\ Go(t, Failed(t))

\* A slip: the published row is saved first and the snapshot after it.
SaveSnapshotLast(t) ==
  /\ At(t, "save_snapshot")
  /\ row' = [thread[t].copy EXCEPT !.stage = "published", !.op = "none",
                                   !.snapshot = snapshots + 1]
  /\ Go(t, [thread[t] EXCEPT !.pc = "save_published", !.copy = row'])
  /\ UNCHANGED <<workflow, snapshots, latest, restarts>>

\* A slip: the save is retried after it was done.
SaveSnapshotAgain(t) ==
  /\ At(t, "save_snapshot")
  /\ snapshots' = snapshots + 1
  /\ latest' = IF thread[t].version > latest THEN thread[t].version ELSE latest
  /\ \E pc \in {"save_snapshot", "save_published"} :
       Go(t, [thread[t] EXCEPT !.pc = pc, !.copy =
                [thread[t].copy EXCEPT !.stage = "published", !.op = "none",
                                       !.snapshot = snapshots + 1]])
  /\ UNCHANGED <<row, workflow, restarts>>

\* The snapshot is saved; its id goes on the copy of the row.
SaveSnapshot(t) ==
  /\ At(t, "save_snapshot")
  /\ snapshots' = snapshots + 1
  /\ latest' = IF thread[t].version > latest THEN thread[t].version ELSE latest
  /\ Go(t, [thread[t] EXCEPT !.pc = "save_published", !.copy =
              [thread[t].copy EXCEPT !.stage = "published", !.op = "none",
                                     !.snapshot = snapshots + 1]])
  /\ UNCHANGED <<row, workflow, restarts>>

SavePublished(t) ==
  /\ At(t, "save_published")
  /\ Save(thread[t].copy)
  /\ Go(t, Idle)

\* The bundle is written to disk, or that raises.
Package(t) ==
  /\ At(t, "package")
  /\ \/ Go(t, [thread[t] EXCEPT !.pc = "save_bundle", !.copy =
                 [thread[t].copy EXCEPT !.op = "none"]])
     \/ Go(t, Failed(t))
  /\ UNCHANGED <<row, workflow, snapshots, latest, restarts>>

SaveBundle(t) ==
  /\ At(t, "save_bundle")
  /\ Save(thread[t].copy)
  /\ Go(t, Idle)

-----------------------------------------------------------------------------
(* Generation and revision: the job that drafts the course *)

\* The placeholder is read and the linked workflow created, never executed, or
\* that raises.
Draft(t) ==
  /\ At(t, "draft")
  /\ \/ /\ workflow' \in {"unproven", "blocked"}
        /\ Go(t, [thread[t] EXCEPT !.pc = "draft_save", !.copy =
              [stage |-> StageOf(workflow'), built |-> TRUE, snapshot |-> 0,
               op |-> IF thread[t].op = "generation" THEN row.op ELSE "none"]])
     \/ /\ Go(t, Failed(t))
        /\ UNCHANGED workflow
  /\ UNCHANGED <<row, snapshots, latest, restarts>>

\* _finalize_revision is done; apply_generated_plan goes on to finalize, after
\* a creator plan saved the same copy once more.
DraftSave(t) ==
  /\ At(t, "draft_save")
  /\ Save(thread[t].copy)
  /\ \/ /\ thread[t].op = "revision"
        /\ Go(t, Idle)
     \/ /\ thread[t].op = "generation"
        /\ \E pc \in {"plan_save", "resync"} : Go(t, [thread[t] EXCEPT !.pc = pc])

PlanSave(t) ==
  /\ At(t, "plan_save")
  /\ Save(thread[t].copy)
  /\ Go(t, [thread[t] EXCEPT !.pc = "resync"])

\* _finalize_background_generation: refresh, and once more when the course
\* shares one workflow; release the lock; refresh.
Resync(t) ==
  \/ At(t, "resync") /\ Read(t, "resync_save")
  \/ At(t, "again") /\ Read(t, "again_save")

ResyncSave(t) ==
  LET r == Refreshed(thread[t].copy)
      Then(pc) == Go(t, [thread[t] EXCEPT !.pc = pc, !.copy = r])
  IN  /\ \/ At(t, "resync_save") /\ (Then("again") \/ Then("release"))
         \/ At(t, "again_save") /\ Then("release")
      /\ Save(r)

Release(t) ==
  /\ At(t, "release")
  /\ Save([thread[t].copy EXCEPT !.op = "none"])
  /\ Go(t, [thread[t] EXCEPT !.pc = "final"])

Final(t) == At(t, "final") /\ Read(t, "final_save")

FinalSave(t) ==
  /\ At(t, "final_save")
  /\ Save(Refreshed(thread[t].copy))
  /\ Go(t, Idle)

Fail(t) == At(t, "fail") /\ Read(t, "fail_save")

\* _mark_operation_failed; mark_generation_failed and _mark_revision_failed
\* also block the course.
FailSave(t) ==
  /\ At(t, "fail_save")
  /\ Save([thread[t].copy EXCEPT !.op = "none", !.stage =
             IF thread[t].op \in {"generation", "revision"} THEN "blocked" ELSE @])
  /\ Go(t, Idle)

-----------------------------------------------------------------------------
(* The others *)

\* The last gate of the linked workflow is approved: refused to an unproven one.
ApproveWorkflow ==
  /\ workflow = "awaiting_human"
  /\ workflow' = "published"
  /\ UNCHANGED <<row, snapshots, latest, thread, restarts>>

\* A slip: the locks are left as they are at startup.
RestartOnly ==
  /\ restarts < MaxRestarts
  /\ restarts' = restarts + 1
  /\ thread' = [t \in Threads |-> Idle]
  /\ UNCHANGED <<row, workflow, snapshots, latest>>

\* The server restarts: all threads die, and
\* reconcile_stale_active_operations clears the lock.
Restart ==
  /\ restarts < MaxRestarts
  /\ restarts' = restarts + 1
  /\ thread' = [t \in Threads |-> Idle]
  /\ row' = [row EXCEPT !.op = "none"]
  /\ UNCHANGED <<workflow, snapshots, latest>>

Operation(t) ==
  \/ Begin(t) \/ JobSync(t) \/ Certify(t) \/ Reject(t) \/ SaveSnapshot(t)
  \/ SavePublished(t) \/ Package(t) \/ SaveBundle(t)

Drafting(t) ==
  \/ Draft(t) \/ DraftSave(t) \/ PlanSave(t) \/ Resync(t) \/ ResyncSave(t) \/ Release(t)
  \/ Final(t) \/ FinalSave(t)

\* What a thread does once it was given something to do.
Proceed(t) ==
  /\ \/ Sync(t) \/ Enqueue(t) \/ Reply(t)
     \/ Operation(t) \/ Drafting(t) \/ Fail(t) \/ FailSave(t)
  /\ UNCHANGED serial

Next ==
  /\ \/ Restart
     \/ ApproveWorkflow
     \/ \E w \in Workers : Request(w)
     \/ \E t \in Threads : Proceed(t)
  /\ UNCHANGED serial

\* Threads that have something to do go on: collaborators run under timeouts.
Spec == Init /\ [][Next]_vars /\ \A t \in Threads : WF_vars(Proceed(t))

-----------------------------------------------------------------------------
(* Properties *)

\* The types of all variables; no more snapshots than the bound allows.
TypeOK ==
  /\ serial \in BOOLEAN
  /\ row \in Rows
  /\ workflow \in WorkflowStatuses
  /\ snapshots \in 0..MaxSnapshots
  /\ latest \in 0..snapshots
  /\ thread \in [Threads -> ThreadStates]
  /\ restarts \in 0..MaxRestarts

\* The row, and every copy of it that a thread may still save.
Copies == {row} \cup {thread[t].copy : t \in Threads}

\* A course that shows as published, now or after a save that is still to
\* come, has a snapshot that was saved before, and its workflow passed its
\* last gate; however requests, jobs and restarts overlap.
PublishedIsPackaged ==
  \A r \in Copies :
    r.stage = "published" => r.snapshot \in 1..snapshots /\ workflow = "published"

\* No snapshot for learners is made of work whose last gate was not approved.
SnapshotsAreApproved == snapshots > 0 => workflow = "published"

\* Every saved snapshot has a version of its own, also when the server died
\* between the snapshot and the row and the course is published again.
VersionsDiffer == serial => latest = snapshots

\* What learners can be given: approved work, under a version of its own.
SnapshotsAreSound == SnapshotsAreApproved /\ VersionsDiffer

\* One author action at a time: no two jobs are under way.
OneOperation ==
  \A i, j \in Jobs : At(i, "idle") \/ At(j, "idle") \/ i = j

\* "The course is published and new learners will now get this latest
\* version": no later step of anybody takes a published course back.
PublicationStays == [][row.stage = "published" => row'.stage = "published"]_row

\* The same as long as requests do not overlap and jobs run inside them.
SerialPublicationStays ==
  [][serial /\ row.stage = "published" => row'.stage = "published"]_row

\* A course that certification blocked "cannot proceed": no step makes it ready
\* to be published again.  (With an approved workflow nothing else blocks.)
CertificationBlockHolds ==
  [][workflow = "published" /\ row.stage = "blocked" => row'.stage # "ready_to_publish"]_row

\* A restart leaves no course "permanently stuck": when nothing is under way, a
\* course is past its draft, or blocked, but not still being drafted by nobody.
NotLeftDrafting ==
  AllIdle(Threads) => Refreshed(row).stage # "drafting"

\* Every operation that is shown on the row ends.
OperationEnds == serial /\ row.op # "none" ~> row.op = "none"

=============================================================================
