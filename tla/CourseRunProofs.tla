--------------------------- MODULE CourseRunProofs ---------------------------
(***************************************************************************)
(* What no overlap of requests, jobs and restarts can do to a course, for  *)
(* any number of threads: it never shows as published without a saved      *)
(* snapshot and an approved workflow, and no snapshot is made of work that *)
(* was not approved.  And what cannot happen as long as requests come one  *)
(* at a time: that a published course is taken back, or that a version is  *)
(* given twice.                                                            *)
(*                                                                         *)
(* Copies of the row may be arbitrarily old.  The argument is that what    *)
(* makes a copy good (Good) is never undone: snapshots are only added, and *)
(* a published workflow stays published.                                   *)
(*                                                                         *)
(* And what Design promises of what is in the course, for all briefs,      *)
(* choices and planners: a design that was laid under the choices once is  *)
(* not changed by it again, so that every later stage makes of it what the *)
(* creator approved.                                                       *)
(*                                                                         *)
(* And what Bundle promises of what learners are given, for all rows that  *)
(* courses of before were saved as and all workspaces their authors may    *)
(* have left: a bundle's list is that of the files on disk, and they are   *)
(* whole for the workspace as it is, which can only be lost.               *)
(***************************************************************************)
EXTENDS CourseRun, Bundle, WellFoundedInduction, TLAPS

-----------------------------------------------------------------------------
(* The inductive invariant *)

\* The types, without the bounds that only TLC needs.
Types ==
  /\ row \in Rows
  /\ workflow \in WorkflowStatuses
  /\ snapshots \in Nat
  /\ latest \in Nat
  /\ thread \in [Threads -> ThreadStates]

\* A copy of the row that may be saved at any time.
Good(r) ==
  /\ r.stage = "published" => r.snapshot \in 1..snapshots /\ workflow = "published"
  /\ r.stage = "ready_to_publish" => workflow = "published"

GoodCopies == Good(row) /\ \A t \in Threads : Good(thread[t].copy)

\* What is certified was ready.
CertifiesReady ==
  \A t \in Threads :
    thread[t].pc \in {"certify", "save_snapshot"} =>
      thread[t].copy.stage = "ready_to_publish"

\* The one job that drafts the course comes before its workflow.
DraftsOnce ==
  \A t \in Threads : thread[t].pc = "draft" =>
    /\ workflow = "none"
    /\ \A u \in Threads : thread[u].pc = "draft" => u = t

Inv ==
  /\ Types
  /\ GoodCopies
  /\ CertifiesReady
  /\ DraftsOnce
  /\ SnapshotsAreApproved

-----------------------------------------------------------------------------
(* Lemmas *)

\* A refreshed copy is a row, and good when the copy was.
LEMMA RefreshIsGood ==
  ASSUME workflow \in WorkflowStatuses, NEW r \in Rows, Good(r)
  PROVE  Refreshed(r) \in Rows /\ Good(Refreshed(r))
<1> DEFINE newStage == IF r.stage = "published" THEN "published"
                    ELSE IF r.op = "generation" THEN "drafting"
                    ELSE StageOf(IF r.built THEN workflow ELSE "blocked")
<1>1. StageOf(workflow) \in CourseStages /\ StageOf("blocked") = "blocked"
  BY DEF StageOf, CourseStages, WorkflowStatuses
<1>2. StageOf(workflow) # "published"
      /\ (StageOf(workflow) = "ready_to_publish" => workflow = "published")
  BY DEF StageOf, WorkflowStatuses
<1>3. newStage \in CourseStages
  BY <1>1 DEF CourseStages
<1>4. CASE r.stage = "drafting" /\ ~r.built
  BY <1>4 DEF Refreshed
<1>5. CASE ~(r.stage = "drafting" /\ ~r.built)
  <2>1. Refreshed(r) = [r EXCEPT !.stage = newStage]
    BY <1>5 DEF Refreshed
  <2>2. Refreshed(r) \in Rows
    BY <2>1, <1>3 DEF Rows
  <2>3. Refreshed(r).stage = newStage /\ Refreshed(r).snapshot = r.snapshot
    BY <2>1 DEF Rows
  <2>4. Good(Refreshed(r))
    BY <2>3, <1>1, <1>2 DEF Good
  <2> QED BY <2>2, <2>4
<1> QED BY <1>4, <1>5

\* What is idle, and what is reported as failed, is a thread state whose copy
\* is good.
LEMMA IdleIsGood ==
  /\ Idle \in ThreadStates
  /\ Good(Idle.copy)
  /\ Idle.pc = "idle"
BY DEF Idle, ThreadStates, PCs, Kinds, Placeholder, Rows, CourseStages, Operations, Good

LEMMA FailedIsGood ==
  ASSUME Types, NEW t \in Threads
  PROVE  /\ Failed(t) \in ThreadStates
         /\ Failed(t).copy = Placeholder("none")
         /\ Failed(t).pc \in {"idle", "fail"}
BY DEF Failed, Idle, Types, ThreadStates, PCs, Kinds, Placeholder, Rows, CourseStages, Operations

\* Goodness is never lost: snapshots are added, an approval stays.
LEMMA GoodStays ==
  ASSUME NEW r \in Rows, Good(r), snapshots \in Nat, snapshots' \in Nat,
         snapshots' >= snapshots, workflow = "published" => workflow' = "published"
  PROVE  Good(r)'
BY DEF Good, Rows

\* A step of one thread: it saves a good row (or none), and is left with a
\* good copy that is ready if it is to be certified.
LEMMA ThreadStep ==
  ASSUME Inv, NEW t \in Threads, NEW s \in ThreadStates,
         thread' = [thread EXCEPT ![t] = s],
         Good(s.copy)',
         s.pc \in {"certify", "save_snapshot"} => s.copy.stage = "ready_to_publish",
         s.pc # "draft",
         row' \in Rows, Good(row)',
         workflow' = workflow,
         latest' \in Nat, snapshots' \in Nat, snapshots' >= snapshots,
         snapshots' > 0 => workflow = "published"
  PROVE  Inv'
<1>1. Types'
  BY DEF Inv, Types
<1>2. \A u \in Threads : thread'[u] = IF u = t THEN s ELSE thread[u]
  BY DEF Inv, Types
<1>3. \A u \in Threads : thread[u].copy \in Rows
  BY DEF Inv, Types, ThreadStates
<1>4. GoodCopies'
  <2>1. ASSUME NEW u \in Threads PROVE Good(thread[u].copy)'
    <3>1. CASE u = t
      BY <3>1, <1>2 DEF Good
    <3>2. CASE u # t
      <4>1. Good(thread[u].copy)
        BY DEF Inv, GoodCopies
      <4> QED BY <3>2, <4>1, <1>2, <1>3 DEF Good, Rows, Inv, Types
    <3> QED BY <3>1, <3>2
  <2> QED BY <2>1 DEF GoodCopies
<1>5. CertifiesReady'
  BY <1>2 DEF Inv, CertifiesReady
<1>6. DraftsOnce'
  BY <1>2 DEF Inv, DraftsOnce
<1>7. SnapshotsAreApproved'
  BY DEF SnapshotsAreApproved
<1> QED BY <1>1, <1>4, <1>5, <1>6, <1>7 DEF Inv

-----------------------------------------------------------------------------
(* Every step preserves the invariant *)

\* A thread's copy and the row are rows, and good; a refreshed copy too.
LEMMA CopiesAreGood ==
  ASSUME Inv, NEW t \in Threads
  PROVE  /\ thread[t] \in ThreadStates
         /\ row \in Rows /\ Good(row)
         /\ thread[t].copy \in Rows /\ Good(thread[t].copy)
         /\ Refreshed(thread[t].copy) \in Rows /\ Good(Refreshed(thread[t].copy))
<1>1. /\ thread[t] \in ThreadStates
      /\ row \in Rows /\ Good(row)
      /\ thread[t].copy \in Rows /\ Good(thread[t].copy)
      /\ workflow \in WorkflowStatuses
  BY DEF Inv, Types, GoodCopies, ThreadStates
<1> QED BY <1>1, RefreshIsGood

\* Saving r and going on as n.
LEMMA SaveKeeps ==
  ASSUME Inv, NEW t \in Threads, NEW r \in Rows, Good(r),
         NEW n \in ThreadStates, Good(n.copy),
         n.pc \in {"certify", "save_snapshot"} => n.copy.stage = "ready_to_publish",
         n.pc # "draft",
         Save(r), Go(t, n)
  PROVE  Inv'
<1>1. /\ thread' = [thread EXCEPT ![t] = n]
      /\ row' = r /\ workflow' = workflow /\ snapshots' = snapshots /\ latest' = latest
  BY DEF Save, Go
<1>2. Good(n.copy)' /\ Good(row)' /\ row' \in Rows
  BY <1>1 DEF Good
<1>3. /\ latest' \in Nat /\ snapshots' \in Nat /\ snapshots' >= snapshots
      /\ snapshots' > 0 => workflow = "published"
  BY <1>1 DEF Inv, Types, SnapshotsAreApproved
<1> QED BY <1>1, <1>2, <1>3, ThreadStep

\* Going on as n without saving the row.
LEMMA GoKeeps ==
  ASSUME Inv, NEW t \in Threads,
         NEW n \in ThreadStates, Good(n.copy),
         n.pc \in {"certify", "save_snapshot"} => n.copy.stage = "ready_to_publish",
         n.pc # "draft",
         Go(t, n), UNCHANGED <<row, workflow, snapshots, latest, restarts>>
  PROVE  Inv'
<1>1. PICK r \in Rows : r = row /\ Good(r)
  BY CopiesAreGood
<1>2. Save(r)
  BY <1>1 DEF Save
<1> QED BY <1>1, <1>2, SaveKeeps

\* Reading the row into a copy.
LEMMA ReadKeeps ==
  ASSUME Inv, NEW t \in Threads, NEW pc \in PCs \ {"draft", "certify", "save_snapshot"},
         Read(t, pc)
  PROVE  Inv'
<1>1. PICK n \in ThreadStates : n = [thread[t] EXCEPT !.pc = pc, !.copy = row]
  BY CopiesAreGood DEF ThreadStates
<1>2. n.pc = pc /\ n.copy = row
  BY <1>1, CopiesAreGood DEF ThreadStates
<1>3. Go(t, n) /\ UNCHANGED <<row, workflow, snapshots, latest, restarts>>
  BY <1>1 DEF Read
<1> QED BY <1>2, <1>3, CopiesAreGood, GoKeeps

\* Steps of a request.
LEMMA RequestKeeps ==
  ASSUME Inv, NEW w \in Workers, Request(w)
  PROVE  Inv'
<1>1. w \in Threads
  BY DEF Threads
<1>2. PICK kind \in Kinds, op \in {"none", "publish", "materialize"} :
        Go(w, [Idle EXCEPT !.pc = "sync", !.kind = kind, !.op = op, !.copy = row])
  BY DEF Request
<1>3. PICK n \in ThreadStates :
        /\ n = [Idle EXCEPT !.pc = "sync", !.kind = kind, !.op = op, !.copy = row]
        /\ n.copy = row /\ n.pc = "sync" /\ Good(row)
  <2>1. row \in Rows /\ Good(row)
    BY <1>1, CopiesAreGood
  <2>2. "sync" \in PCs /\ op \in Operations \cup {"none"}
    BY <1>2 DEF PCs, Operations
  <2> DEFINE n == [Idle EXCEPT !.pc = "sync", !.kind = kind, !.op = op, !.copy = row]
  <2>3. n \in ThreadStates
    BY <2>1, <2>2, IdleIsGood DEF ThreadStates
  <2>4. n.copy = row /\ n.pc = "sync"
    BY IdleIsGood DEF ThreadStates
  <2> QED BY <2>1, <2>3, <2>4
<1>4. Go(w, n) /\ UNCHANGED <<row, workflow, snapshots, latest, restarts>>
  BY <1>2, <1>3 DEF Request
<1> QED BY <1>1, <1>3, <1>4, GoKeeps

LEMMA SyncKeeps ==
  ASSUME Inv, NEW w \in Threads, Sync(w)
  PROVE  Inv'
<1>1. PICK s \in ThreadStates, r \in Rows :
        /\ s = thread[w] /\ r = Refreshed(s.copy)
        /\ Good(r) /\ Good(s.copy)
  BY CopiesAreGood
<1>2. PICK n \in {Idle, [s EXCEPT !.pc = "begin"], [s EXCEPT !.pc = "enqueue", !.copy = r]} :
        Save(r) /\ Go(w, n)
  BY <1>1 DEF Sync
<1>3. n \in ThreadStates /\ Good(n.copy) /\ n.pc \in {"idle", "begin", "enqueue"}
  BY <1>1, IdleIsGood DEF ThreadStates, PCs
<1> QED BY <1>1, <1>2, <1>3, SaveKeeps

LEMMA EnqueueKeeps ==
  ASSUME Inv, NEW w \in Threads, Enqueue(w)
  PROVE  Inv'
<1> DEFINE r == [thread[w].copy EXCEPT !.op = thread[w].op]
           begin == [Idle EXCEPT !.pc = "begin", !.op = thread[w].op]
           reply == [Idle EXCEPT !.pc = "reply"]
<1>1. PICK j \in Jobs :
        /\ Save(r)
        /\ thread' = [thread EXCEPT ![j] = begin, ![w] = reply]
  BY DEF Enqueue
<1>2. /\ begin \in ThreadStates /\ Good(begin.copy) /\ begin.pc = "begin"
      /\ reply \in ThreadStates /\ Good(reply.copy) /\ reply.pc = "reply"
  BY CopiesAreGood, IdleIsGood DEF ThreadStates, PCs
<1>3. r \in Rows /\ Good(r)
  BY CopiesAreGood DEF Rows, ThreadStates, Good
<1> HIDE DEF r, begin, reply
<1>4. row' = r /\ UNCHANGED <<workflow, snapshots, latest>>
  BY <1>1 DEF Save
<1>5. \A u \in Threads :
        thread'[u] = IF u = w THEN reply ELSE IF u = j THEN begin ELSE thread[u]
  BY <1>1 DEF Inv, Types, Threads
<1>6. Types'
  BY <1>1, <1>2, <1>3, <1>4 DEF Inv, Types, Threads
<1>7. GoodCopies'
  BY <1>2, <1>3, <1>4, <1>5 DEF Inv, GoodCopies, Good
<1>8. CertifiesReady' /\ DraftsOnce'
  BY <1>2, <1>4, <1>5 DEF Inv, CertifiesReady, DraftsOnce
<1> QED BY <1>4, <1>6, <1>7, <1>8 DEF Inv, SnapshotsAreApproved

\* Steps of a job, or of a direct request.
LEMMA OperationKeeps ==
  ASSUME Inv, NEW t \in Threads, Operation(t)
  PROVE  Inv'
<1>1. PICK s \in ThreadStates, r \in Rows :
        /\ s = thread[t] /\ r = Refreshed(s.copy) /\ s.copy \in Rows
        /\ Good(r) /\ Good(s.copy)
  BY CopiesAreGood
<1>2. PICK f \in ThreadStates : f = Failed(t) /\ Good(f.copy) /\ f.pc \in {"idle", "fail"}
  BY FailedIsGood, IdleIsGood DEF Inv, Idle
<1>3. CASE Begin(t)
  BY <1>3, ReadKeeps DEF Begin, PCs
<1>4. CASE JobSync(t)
  <2>1. PICK n : Save(r) /\ Go(t, n)
           /\ \/ n = [s EXCEPT !.pc = "package", !.copy = r]
              \/ n = [s EXCEPT !.pc = "certify", !.copy = r] /\ r.stage = "ready_to_publish"
              \/ n = f
    BY <1>1, <1>2, <1>4 DEF JobSync
  <2>2. /\ n \in ThreadStates /\ Good(n.copy)
        /\ n.pc \in {"package", "certify", "idle", "fail"}
        /\ n.pc = "certify" => n.copy.stage = "ready_to_publish"
    BY <1>1, <1>2, <2>1 DEF ThreadStates, PCs
  <2> QED BY <1>1, <2>1, <2>2, SaveKeeps
<1>5. CASE Certify(t)
  <2>1. /\ s.copy.stage = "ready_to_publish" /\ workflow = "published"
        /\ UNCHANGED <<row, workflow, snapshots, latest, restarts>>
        /\ latest + 1 \in Nat
    BY <1>1, <1>5 DEF Certify, At, Inv, CertifiesReady, Good, Types
  <2>2. PICK newStage \in {s.copy.stage, "blocked"} :
           \/ Go(t, [s EXCEPT !.pc = "save_snapshot", !.version = latest + 1])
           \/ Go(t, f)
           \/ Go(t, [s EXCEPT !.pc = "reject",
                             !.copy = [s.copy EXCEPT !.op = "none", !.stage = newStage]])
    BY <1>1, <1>2, <1>5 DEF Certify
  <2>3. PICK c \in Rows : c = [s.copy EXCEPT !.op = "none", !.stage = newStage] /\ Good(c)
    <3> DEFINE c == [s.copy EXCEPT !.op = "none", !.stage = newStage]
    <3>1. newStage \in CourseStages
      BY <2>1, <2>2 DEF CourseStages
    <3>2. c \in Rows /\ c.stage = newStage
      BY <1>1, <3>1 DEF Rows
    <3>3. Good(c)
      BY <3>2, <2>1, <2>2 DEF Good
    <3> QED BY <3>2, <3>3
  <2>4. PICK n : Go(t, n) /\
           \/ n = [s EXCEPT !.pc = "save_snapshot", !.version = latest + 1]
           \/ n = f
           \/ n = [s EXCEPT !.pc = "reject", !.copy = c]
    BY <2>2, <2>3
  <2>5. /\ n \in ThreadStates /\ Good(n.copy)
        /\ n.pc \in {"save_snapshot", "reject", "idle", "fail"}
        /\ n.pc = "save_snapshot" => n.copy.stage = "ready_to_publish"
    BY <1>1, <1>2, <2>1, <2>3, <2>4 DEF ThreadStates, PCs
  <2> QED BY <2>1, <2>4, <2>5, GoKeeps
<1>6. CASE Reject(t)
  BY <1>1, <1>2, <1>6, SaveKeeps DEF Reject
<1>7. CASE SaveSnapshot(t)
  <2>1. /\ s.copy.stage = "ready_to_publish" /\ workflow = "published"
        /\ snapshots' = snapshots + 1 /\ snapshots \in Nat
        /\ latest' \in Nat
        /\ row' = row /\ workflow' = workflow /\ row \in Rows /\ Good(row)
    BY <1>1, <1>7, CopiesAreGood DEF SaveSnapshot, At, Inv, CertifiesReady, Good, Types, ThreadStates
  <2>2. PICK c \in Rows :
          /\ c = [s.copy EXCEPT !.stage = "published", !.op = "none",
                                !.snapshot = snapshots + 1]
          /\ c.stage = "published" /\ c.snapshot = snapshots + 1
    <3> DEFINE c == [s.copy EXCEPT !.stage = "published", !.op = "none",
                                   !.snapshot = snapshots + 1]
    <3>1. "published" \in CourseStages /\ snapshots + 1 \in Nat
      BY <2>1 DEF CourseStages
    <3>2. c \in Rows /\ c.stage = "published" /\ c.snapshot = snapshots + 1
      BY <1>1, <3>1 DEF Rows
    <3> QED BY <3>2
  <2>3. PICK n \in ThreadStates : n = [s EXCEPT !.pc = "save_published", !.copy = c]
    BY <1>1 DEF ThreadStates, PCs
  <2>4. n.pc = "save_published" /\ n.copy = c
    BY <2>3 DEF ThreadStates
  <2>5. thread' = [thread EXCEPT ![t] = n]
    BY <1>1, <1>7, <2>2, <2>3 DEF SaveSnapshot, Go
  <2>6. Good(n.copy)' /\ Good(row)' /\ row' \in Rows
    BY <2>1, <2>2, <2>4 DEF Good, Rows
  <2>7. snapshots' \in Nat /\ snapshots' >= snapshots
    BY <2>1
  <2> QED BY <2>1, <2>4, <2>5, <2>6, <2>7, ThreadStep
<1>8. CASE SavePublished(t)
  BY <1>1, <1>8, IdleIsGood, SaveKeeps DEF SavePublished
<1>9. CASE Package(t)
  <2>1. PICK n : Go(t, n)
           /\ \/ n = [s EXCEPT !.pc = "save_bundle", !.copy = [s.copy EXCEPT !.op = "none"]]
              \/ n = f
    BY <1>1, <1>2, <1>9 DEF Package
  <2>2. PICK c \in Rows : c = [s.copy EXCEPT !.op = "none"] /\ Good(c)
    <3> DEFINE c == [s.copy EXCEPT !.op = "none"]
    <3>1. c \in Rows /\ c.stage = s.copy.stage /\ c.snapshot = s.copy.snapshot
      BY <1>1 DEF Rows
    <3>2. Good(c)
      BY <1>1, <3>1 DEF Good
    <3> QED BY <3>1, <3>2
  <2>3. /\ n \in ThreadStates /\ Good(n.copy)
        /\ n.pc \in {"save_bundle", "idle", "fail"}
    BY <1>1, <1>2, <2>1, <2>2 DEF ThreadStates, PCs
  <2>4. UNCHANGED <<row, workflow, snapshots, latest, restarts>>
    BY <1>9 DEF Package
  <2> QED BY <2>1, <2>3, <2>4, GoKeeps
<1>10. CASE SaveBundle(t)
  BY <1>1, <1>10, IdleIsGood, SaveKeeps DEF SaveBundle
<1> QED BY <1>3, <1>4, <1>5, <1>6, <1>7, <1>8, <1>9, <1>10 DEF Operation

\* Steps of a job that drafts the course.  (The creation of the workflow is
\* the only step that may change it back, and it comes first.)
LEMMA DraftKeeps ==
  ASSUME Inv, NEW t \in Threads, Draft(t)
  PROVE  Inv'
<1>1. PICK f \in ThreadStates : f = Failed(t) /\ Good(f.copy) /\ f.pc \in {"idle", "fail"}
  BY FailedIsGood, IdleIsGood DEF Inv, Idle
<1>2. /\ thread[t].pc = "draft" /\ workflow = "none" /\ ~(snapshots > 0)
      /\ UNCHANGED <<row, snapshots, latest, restarts>>
  BY DEF Draft, At, Inv, DraftsOnce, SnapshotsAreApproved
<1>3. CASE Go(t, f) /\ UNCHANGED workflow
  BY <1>1, <1>2, <1>3, GoKeeps
<1>4. CASE /\ workflow' \in {"unproven", "blocked"}
           /\ Go(t, [thread[t] EXCEPT !.pc = "draft_save", !.copy =
                [stage |-> StageOf(workflow'), built |-> TRUE, snapshot |-> 0,
                 op |-> IF thread[t].op = "generation" THEN row.op ELSE "none"]])
  <2>1. PICK c \in Rows : c.stage \in {"awaiting_course_review", "blocked"} /\
          c = [stage |-> StageOf(workflow'), built |-> TRUE, snapshot |-> 0,
               op |-> IF thread[t].op = "generation" THEN row.op ELSE "none"]
    <3>1. StageOf(workflow') \in {"awaiting_course_review", "blocked"}
      BY <1>4 DEF StageOf
    <3>2. row.op \in Operations \cup {"none"}
      BY DEF Inv, Types, Rows
    <3>3. PICK newStage \in CourseStages, op \in Operations \cup {"none"} :
            /\ newStage \in {"awaiting_course_review", "blocked"} /\ newStage = StageOf(workflow')
            /\ op = IF thread[t].op = "generation" THEN row.op ELSE "none"
      BY <3>1, <3>2 DEF CourseStages
    <3>4. PICK c \in Rows : c = [stage |-> newStage, built |-> TRUE, snapshot |-> 0, op |-> op]
      BY DEF Rows
    <3> QED BY <3>3, <3>4
  <2>2. PICK n \in ThreadStates :
          n = [thread[t] EXCEPT !.pc = "draft_save", !.copy = c]
    BY CopiesAreGood DEF ThreadStates, PCs
  <2>3. n.pc = "draft_save" /\ n.copy = c
    BY <2>2, CopiesAreGood DEF ThreadStates
  <2>4. thread' = [thread EXCEPT ![t] = n]
    BY <1>4, <2>1, <2>2 DEF Go
  <2>5. \A u \in Threads : thread'[u] = IF u = t THEN n ELSE thread[u]
    BY <2>4 DEF Inv, Types
  <2>6. Types'
    BY <1>2, <1>4, <2>4 DEF Inv, Types, WorkflowStatuses
  <2>7. GoodCopies'
    <3>1. \A r : Good(r) => r.stage # "published" /\ r.stage # "ready_to_publish"
      BY <1>2 DEF Good
    <3>2. ASSUME NEW u \in Threads PROVE Good(thread[u].copy)'
      BY <2>1, <2>3, <2>5, <3>1 DEF Inv, GoodCopies, Good
    <3>3. Good(row)'
      BY <1>2, <3>1 DEF Inv, GoodCopies, Good
    <3> QED BY <3>2, <3>3 DEF GoodCopies
  <2>8. CertifiesReady'
    BY <2>3, <2>5 DEF Inv, CertifiesReady
  <2>9. DraftsOnce'
    BY <1>2, <2>3, <2>5 DEF Inv, DraftsOnce
  <2>10. SnapshotsAreApproved'
    BY <1>2 DEF SnapshotsAreApproved
  <2> QED BY <2>6, <2>7, <2>8, <2>9, <2>10 DEF Inv
<1> QED BY <1>1, <1>3, <1>4 DEF Draft

LEMMA DraftingKeeps ==
  ASSUME Inv, NEW t \in Threads, Drafting(t)
  PROVE  Inv'
<1>1. PICK s \in ThreadStates, r \in Rows :
        /\ s = thread[t] /\ r = Refreshed(s.copy) /\ s.copy \in Rows
        /\ Good(r) /\ Good(s.copy)
  BY CopiesAreGood
<1>2. ASSUME NEW n, NEW pc \in {"plan_save", "resync", "again", "release", "final"},
             \/ n = [s EXCEPT !.pc = pc]
             \/ n = [s EXCEPT !.pc = pc, !.copy = r]
      PROVE  n \in ThreadStates /\ Good(n.copy) /\ n.pc = pc
  BY <1>1, <1>2 DEF ThreadStates, PCs
<1>3. CASE Draft(t)
  BY <1>3, DraftKeeps
<1>4. CASE DraftSave(t)
  <2>1. CASE Save(s.copy) /\ Go(t, Idle)
    BY <1>1, <2>1, IdleIsGood, SaveKeeps
  <2>2. ASSUME NEW pc \in {"plan_save", "resync"},
               Save(s.copy), Go(t, [s EXCEPT !.pc = pc])
        PROVE  Inv'
    <3>1. PICK n : n = [s EXCEPT !.pc = pc]
      OBVIOUS
    <3>2. n \in ThreadStates /\ Good(n.copy) /\ n.pc = pc
      BY <1>2, <3>1
    <3> QED BY <1>1, <2>2, <3>1, <3>2, SaveKeeps
  <2> QED BY <1>1, <1>4, <2>1, <2>2 DEF DraftSave
<1>5. CASE PlanSave(t)
  <2>1. PICK n : n = [s EXCEPT !.pc = "resync"]
    OBVIOUS
  <2>2. n \in ThreadStates /\ Good(n.copy) /\ n.pc = "resync"
    BY <1>2, <2>1
  <2> QED BY <1>1, <1>5, <2>1, <2>2, SaveKeeps DEF PlanSave
<1>6. CASE Resync(t)
  BY <1>6, ReadKeeps DEF Resync, PCs
<1>7. CASE ResyncSave(t)
  <2>1. PICK pc \in {"again", "release"} :
          Save(r) /\ Go(t, [s EXCEPT !.pc = pc, !.copy = r])
    BY <1>1, <1>7 DEF ResyncSave
  <2>2. PICK n : n = [s EXCEPT !.pc = pc, !.copy = r]
    OBVIOUS
  <2>3. n \in ThreadStates /\ Good(n.copy) /\ n.pc = pc
    BY <1>2, <2>2
  <2> QED BY <1>1, <2>1, <2>2, <2>3, SaveKeeps
<1>8. CASE Release(t)
  <2>1. PICK c \in Rows : c = [s.copy EXCEPT !.op = "none"] /\ Good(c)
    <3> DEFINE c == [s.copy EXCEPT !.op = "none"]
    <3>1. c \in Rows /\ c.stage = s.copy.stage /\ c.snapshot = s.copy.snapshot
      BY <1>1 DEF Rows
    <3>2. Good(c)
      BY <1>1, <3>1 DEF Good
    <3> QED BY <3>1, <3>2
  <2>2. PICK n : n = [s EXCEPT !.pc = "final"]
    OBVIOUS
  <2>3. n \in ThreadStates /\ Good(n.copy) /\ n.pc = "final"
    BY <1>2, <2>2
  <2> QED BY <1>1, <1>8, <2>1, <2>2, <2>3, SaveKeeps DEF Release
<1>9. CASE Final(t)
  BY <1>9, ReadKeeps DEF Final, PCs
<1>10. CASE FinalSave(t)
  BY <1>1, <1>10, IdleIsGood, SaveKeeps DEF FinalSave
<1> QED BY <1>3, <1>4, <1>5, <1>6, <1>7, <1>8, <1>9, <1>10 DEF Drafting

\* The report of a failure.
LEMMA FailSaveKeeps ==
  ASSUME Inv, NEW t \in Threads, FailSave(t)
  PROVE  Inv'
<1>1. PICK c \in Rows : c = thread[t].copy /\ Good(c)
  BY CopiesAreGood
<1> DEFINE newStage == IF thread[t].op \in {"generation", "revision"} THEN "blocked" ELSE c.stage
           r == [c EXCEPT !.op = "none", !.stage = newStage]
<1>2. newStage \in CourseStages
  BY <1>1 DEF Rows, CourseStages
<1>3. r \in Rows /\ r.stage = newStage /\ r.snapshot = c.snapshot
  BY <1>1, <1>2 DEF Rows
<1>4. Good(r)
  BY <1>1, <1>3 DEF Good
<1>5. Save(r) /\ Go(t, Idle)
  BY <1>1 DEF FailSave
<1>6. PICK saved \in Rows : saved = r
  BY <1>3
<1> HIDE DEF r
<1> QED BY <1>4, <1>5, <1>6, IdleIsGood, SaveKeeps

LEMMA ApproveKeeps ==
  ASSUME Inv, ApproveWorkflow
  PROVE  Inv'
<1>1. /\ workflow = "awaiting_human" /\ workflow' = "published"
      /\ UNCHANGED <<row, snapshots, latest, thread>>
  BY DEF ApproveWorkflow
<1>2. Types'
  BY <1>1 DEF Inv, Types, WorkflowStatuses
<1>3. GoodCopies'
  BY <1>1 DEF Inv, GoodCopies, Good
<1>4. CertifiesReady' /\ DraftsOnce' /\ SnapshotsAreApproved'
  BY <1>1 DEF Inv, CertifiesReady, DraftsOnce, SnapshotsAreApproved
<1> QED BY <1>2, <1>3, <1>4 DEF Inv

LEMMA RestartKeeps ==
  ASSUME Inv, Restart
  PROVE  Inv'
<1>1. /\ thread' = [t \in Threads |-> Idle]
      /\ row' = [row EXCEPT !.op = "none"]
      /\ UNCHANGED <<workflow, snapshots, latest>>
  BY DEF Restart
<1>2. row \in Rows /\ Good(row)
  BY DEF Inv, Types, GoodCopies
<1>3. row' \in Rows /\ row'.stage = row.stage /\ row'.snapshot = row.snapshot
  BY <1>1, <1>2 DEF Rows
<1>4. Types'
  BY <1>1, <1>3, IdleIsGood DEF Inv, Types
<1>5. GoodCopies'
  BY <1>1, <1>2, <1>3, IdleIsGood DEF GoodCopies, Good
<1>6. CertifiesReady' /\ DraftsOnce' /\ SnapshotsAreApproved'
  BY <1>1, IdleIsGood DEF Inv, CertifiesReady, DraftsOnce, SnapshotsAreApproved
<1> QED BY <1>4, <1>5, <1>6 DEF Inv

LEMMA NextKeeps ==
  ASSUME Inv, [Next]_vars
  PROVE  Inv'
<1>1. CASE UNCHANGED vars
  BY <1>1 DEF vars, Inv, Types, GoodCopies, Good, CertifiesReady, DraftsOnce, SnapshotsAreApproved
<1>2. CASE Restart
  BY <1>2, RestartKeeps
<1>3. CASE ApproveWorkflow
  BY <1>3, ApproveKeeps
<1>4. ASSUME NEW w \in Workers, Request(w) PROVE Inv'
  BY <1>4, RequestKeeps
<1>5. ASSUME NEW t \in Threads, Proceed(t) PROVE Inv'
  <2>1. CASE Sync(t)
    BY <2>1, SyncKeeps
  <2>2. CASE Enqueue(t)
    BY <2>2, EnqueueKeeps
  <2>3. CASE Reply(t)
    BY <2>3, ReadKeeps DEF Reply, PCs
  <2>4. CASE Operation(t)
    BY <2>4, OperationKeeps
  <2>5. CASE Drafting(t)
    BY <2>5, DraftingKeeps
  <2>6. CASE Fail(t)
    BY <2>6, ReadKeeps DEF Fail, PCs
  <2>7. CASE FailSave(t)
    BY <2>7, FailSaveKeeps
  <2> QED BY <1>5, <2>1, <2>2, <2>3, <2>4, <2>5, <2>6, <2>7 DEF Proceed
<1> QED BY <1>1, <1>2, <1>3, <1>4, <1>5 DEF Next

LEMMA InitIsGood ==
  ASSUME Init
  PROVE  Inv
<1>1. /\ snapshots = 0 /\ latest = 0
  BY DEF Init
<1>2. CASE /\ workflow \in {"awaiting_human", "unproven", "blocked"}
           /\ row = [stage |-> StageOf(workflow), op |-> "none", built |-> TRUE,
                     snapshot |-> 0]
           /\ thread = [t \in Threads |-> Idle]
  <2>1. StageOf(workflow) \in {"awaiting_course_review", "blocked"}
    BY <1>2 DEF StageOf
  <2>2. Types
    BY <1>1, <1>2, <2>1, IdleIsGood DEF Types, Rows, CourseStages, WorkflowStatuses
  <2>3. GoodCopies
    BY <1>2, <2>1, IdleIsGood DEF GoodCopies, Good
  <2>4. CertifiesReady /\ DraftsOnce /\ SnapshotsAreApproved
    BY <1>1, <1>2, IdleIsGood DEF CertifiesReady, DraftsOnce, SnapshotsAreApproved
  <2> QED BY <2>2, <2>3, <2>4 DEF Inv
<1>3. ASSUME NEW op \in {"generation", "revision"}, NEW w \in Workers, NEW j \in Jobs,
             workflow = "none",
             row = Placeholder(op),
             thread = [t \in Threads |->
               CASE t = w -> [Idle EXCEPT !.pc = "reply"]
                 [] t = j -> [Idle EXCEPT !.pc = "draft", !.op = op]
                 [] OTHER -> Idle]
      PROVE  Inv
  <2> DEFINE reply == [Idle EXCEPT !.pc = "reply"]
             draft == [Idle EXCEPT !.pc = "draft", !.op = op]
  <2>1. /\ reply \in ThreadStates /\ Good(reply.copy) /\ reply.pc = "reply"
        /\ draft \in ThreadStates /\ Good(draft.copy) /\ draft.pc = "draft"
    BY IdleIsGood DEF ThreadStates, PCs, Operations
  <2>2. w # j
    BY CourseAssumption
  <2>3. row \in Rows /\ Good(row)
    BY <1>3 DEF Placeholder, Rows, CourseStages, Operations, Good
  <2>4. \A t \in Threads :
          thread[t] = IF t = w THEN reply ELSE IF t = j THEN draft ELSE Idle
    BY <1>3, <2>2
  <2>5. thread = [t \in Threads |->
          IF t = w THEN reply ELSE IF t = j THEN draft ELSE Idle]
    BY <1>3, <2>2
  <2> HIDE DEF reply, draft
  <2>6. Types
    BY <1>1, <1>3, <2>1, <2>3, <2>5, IdleIsGood DEF Types, WorkflowStatuses
  <2>7. GoodCopies
    BY <2>1, <2>3, <2>4, IdleIsGood DEF GoodCopies
  <2>8. CertifiesReady /\ DraftsOnce /\ SnapshotsAreApproved
    BY <1>1, <1>3, <2>1, <2>4, IdleIsGood DEF CertifiesReady, DraftsOnce, SnapshotsAreApproved
  <2> QED BY <2>6, <2>7, <2>8 DEF Inv
<1> QED BY <1>2, <1>3 DEF Init

\* The invariant holds for any number of threads, snapshots and restarts.
THEOREM Invariance == Spec => []Inv
<1>1. Init => Inv
  BY InitIsGood
<1>2. Inv /\ [Next]_vars => Inv'
  BY NextKeeps
<1> QED BY <1>1, <1>2, PTL DEF Spec

-----------------------------------------------------------------------------
(* The theorems *)

\* However many requests and jobs overlap, a row or a copy of it that says
\* published links a saved snapshot of approved work.
THEOREM PublishedPackaged == Spec => []PublishedIsPackaged
<1>1. Inv => PublishedIsPackaged
  BY DEF Inv, GoodCopies, Good, PublishedIsPackaged, Copies
<1> QED BY <1>1, Invariance, PTL

\* However many requests and jobs overlap, learners are never given a
\* snapshot of work that was not approved.
THEOREM SnapshotsApproved == Spec => []SnapshotsAreApproved
<1>1. Inv => SnapshotsAreApproved
  BY DEF Inv
<1> QED BY <1>1, Invariance, PTL

-----------------------------------------------------------------------------
(* Requests that come one at a time                                        *)
(*                                                                         *)
(* When a request waits for the job it started, and the next request for   *)
(* the answer to the one before, one thread at a time works on the row:    *)
(* what it has read is then as published as the row is, and the version it *)
(* was given is still the next one.  Restarts may come at any place.       *)

Drafts ==
  {"draft", "draft_save", "plan_save", "resync", "resync_save", "again", "again_save",
   "release", "final", "final_save"}

Authoring == {"generation", "revision"}

\* How what a lone thread holds belongs to the row r, the workflow's status w
\* and the highest version v.
Holds(s, r, w, v) ==
  /\ s.pc \in {"sync", "enqueue", "job_sync", "save_published", "package", "save_bundle",
                "fail_save"} =>
       (r.stage = "published" => s.copy.stage = "published")
  /\ s.pc \in {"certify", "save_snapshot", "reject"} => r.stage # "published"
  /\ s.pc = "save_snapshot" => s.version = v + 1
  /\ s.pc \in Drafts => s.op \in Authoring
  /\ s.pc \notin {"idle", "reply"} /\ s.op \in Authoring => w \notin {"awaiting_human", "published"}

Waits(t) == t \in Workers /\ At(t, "reply")

\* All that may be under way beside t is the request that waits for the job t.
Only(t) == \A u \in Threads : u # t => At(u, "idle") \/ (Waits(u) /\ t \in Jobs)

Alone == \A t \in Threads : At(t, "idle") \/ At(t, "reply") \/ Only(t)

OneWaits == \A t \in Threads : At(t, "reply") =>
  /\ t \in Workers /\ thread[t].op = "none"
  /\ \A u \in Workers : u # t => At(u, "idle")

JobsAnswerNobody == \A j \in Jobs : thread[j].pc \notin {"sync", "enqueue", "reply"}

SerialInv ==
  serial => /\ Alone
            /\ OneWaits
            /\ JobsAnswerNobody
            /\ \A t \in Threads : Holds(thread[t], row, workflow, latest)
            /\ VersionsDiffer

\* Whoever has something to do, other than to wait, is the only one.
LEMMA BusyIsOnly ==
  ASSUME SerialInv, serial, NEW t \in Threads, ~At(t, "idle"), ~At(t, "reply")
  PROVE  Only(t)
BY DEF SerialInv, Alone

\* The step of a lone thread that goes on as n.
LEMMA LoneStep ==
  ASSUME Inv, SerialInv, serial, serial', NEW t \in Threads, Only(t),
         NEW n \in ThreadStates, Go(t, n), n.pc # "reply",
         t \in Jobs => n.pc \notin {"sync", "enqueue"},
         Holds(n, row', workflow', latest'), VersionsDiffer'
  PROVE  SerialInv'
<1>1. \A u \in Threads : thread'[u] = IF u = t THEN n ELSE thread[u]
  BY DEF Go, Inv, Types
<1>2. \A u \in Threads : u # t => thread[u].pc = "idle" \/ (thread[u].pc = "reply" /\ u \in Workers /\ t \in Jobs)
  BY DEF Only, Waits, At
<1>3. Alone'
  <2>1. ASSUME NEW u \in Threads, u # t PROVE thread'[u].pc \in {"idle", "reply"}
    BY <1>1, <1>2, <2>1
  <2>2. Only(t)'
    BY <1>1, <1>2 DEF Only, Waits, At
  <2> QED BY <2>1, <2>2 DEF Alone, At
<1>4. OneWaits'
  <2> SUFFICES ASSUME NEW u \in Threads, thread'[u].pc = "reply"
               PROVE  /\ u \in Workers /\ thread'[u].op = "none"
                      /\ \A v \in Workers : v # u => thread'[v].pc = "idle"
    BY DEF OneWaits, At
  <2>1. u # t /\ thread[u].pc = "reply" /\ u \in Workers /\ t \in Jobs
    BY <1>1, <1>2
  <2>2. thread'[u].op = "none"
    BY <1>1, <2>1 DEF SerialInv, OneWaits, At
  <2>3. ASSUME NEW v \in Workers, v # u PROVE thread'[v].pc = "idle"
    <3>1. v \in Threads /\ v # t
      BY <2>1, CourseAssumption DEF Threads
    <3>2. thread[v].pc = "idle"
      BY <2>1, <2>3 DEF SerialInv, OneWaits, At
    <3> QED BY <1>1, <3>1, <3>2
  <2> QED BY <2>1, <2>2, <2>3
<1>5. JobsAnswerNobody'
  BY <1>1 DEF SerialInv, JobsAnswerNobody, Threads
<1>6. ASSUME NEW u \in Threads PROVE Holds(thread'[u], row', workflow', latest')
  <2>1. CASE u = t
    BY <1>1, <2>1
  <2>2. CASE u # t
    <3>1. thread'[u].pc \in {"idle", "reply"}
      BY <1>1, <1>2, <2>2
    <3> QED BY <3>1 DEF Holds, Drafts
  <2> QED BY <2>1, <2>2
<1> QED BY <1>3, <1>4, <1>5, <1>6 DEF SerialInv

\* r is saved, and the thread goes on as n.
LEMMA LoneSave ==
  ASSUME Inv, SerialInv, serial, serial', NEW t \in Threads, Only(t),
         NEW n \in ThreadStates, Go(t, n), n.pc # "reply",
         t \in Jobs => n.pc \notin {"sync", "enqueue"},
         NEW r, Save(r), Holds(n, r, workflow, latest)
  PROVE  SerialInv'
<1>1. row' = r /\ workflow' = workflow /\ latest' = latest /\ snapshots' = snapshots
  BY DEF Save
<1>2. VersionsDiffer'
  BY <1>1 DEF SerialInv, VersionsDiffer
<1> QED BY <1>1, <1>2, LoneStep

\* The same when the row stays as it is.
LEMMA LoneGo ==
  ASSUME Inv, SerialInv, serial, serial', NEW t \in Threads, Only(t),
         NEW n \in ThreadStates, Go(t, n), n.pc # "reply",
         t \in Jobs => n.pc \notin {"sync", "enqueue"},
         UNCHANGED <<row, workflow, snapshots, latest, restarts>>,
         Holds(n, row, workflow, latest)
  PROVE  SerialInv' /\ row' = row
<1>1. Save(row)
  BY DEF Save
<1> QED BY <1>1, LoneSave

\* What has ended, or will report a failure, can be left at any row.
LEMMA FailedHolds ==
  ASSUME Inv, SerialInv, serial, NEW t \in Threads, ~At(t, "idle"), ~At(t, "reply"),
         NEW r, NEW v
  PROVE  /\ Holds(Idle, r, workflow, v)
         /\ Holds(Failed(t), r, workflow, v)
<1>1. Holds(Idle, r, workflow, v)
  BY IdleIsGood DEF Holds, Drafts
<1>2. ASSUME t \in Jobs PROVE Holds(Failed(t), r, workflow, v)
  <2>1. PICK i \in ThreadStates : i = Idle
    BY IdleIsGood
  <2>2. Failed(t) = [i EXCEPT !.pc = "fail", !.op = thread[t].op]
    BY <1>2, <2>1 DEF Failed
  <2>3. Failed(t).pc = "fail" /\ Failed(t).op = thread[t].op
    BY <2>2 DEF ThreadStates
  <2>4. thread[t].op \in Authoring => workflow \notin {"awaiting_human", "published"}
    BY DEF SerialInv, Holds, At
  <2> QED BY <2>3, <2>4 DEF Holds, Drafts
<1> QED BY <1>1, <1>2 DEF Failed

\* A row that the job of an author's draft can see is not a published one.
LEMMA DraftIsUnpublished ==
  ASSUME Inv, NEW r, Good(r), workflow \notin {"awaiting_human", "published"}
  PROVE  r.stage # "published"
BY DEF Good

\* Refreshing never takes a published course back, nor makes one.
LEMMA RefreshStays ==
  ASSUME workflow \in WorkflowStatuses, NEW r \in Rows
  PROVE  Refreshed(r).stage = "published" <=> r.stage = "published"
<1>1. StageOf(workflow) # "published" /\ StageOf("blocked") = "blocked"
  BY DEF StageOf, WorkflowStatuses
<1> DEFINE newStage == IF r.stage = "published" THEN "published"
                    ELSE IF r.op = "generation" THEN "drafting"
                    ELSE StageOf(IF r.built THEN workflow ELSE "blocked")
<1>2. newStage = "published" <=> r.stage = "published"
  BY <1>1
<1>3. CASE r.stage = "drafting" /\ ~r.built
  BY <1>3 DEF Refreshed
<1>4. CASE ~(r.stage = "drafting" /\ ~r.built)
  <2>1. Refreshed(r) = [r EXCEPT !.stage = newStage]
    BY <1>4 DEF Refreshed
  <2>2. Refreshed(r).stage = newStage
    BY <2>1 DEF Rows
  <2> QED BY <1>2, <2>2
<1> QED BY <1>3, <1>4

-----------------------------------------------------------------------------
(* Every step keeps it, and a published course published *)

StaysPublished == row.stage = "published" => row'.stage = "published"

\* What a lone thread knows when it takes a step.
LEMMA Lone ==
  ASSUME Inv, SerialInv, serial, NEW t \in Threads, ~At(t, "idle"), ~At(t, "reply")
  PROVE  /\ Only(t)
         /\ Holds(thread[t], row, workflow, latest)
         /\ Refreshed(thread[t].copy).stage = "published" <=> thread[t].copy.stage = "published"
<1>1. workflow \in WorkflowStatuses /\ thread[t].copy \in Rows
  BY DEF Inv, Types, ThreadStates
<1> QED BY <1>1, BusyIsOnly, RefreshStays DEF SerialInv

LEMMA RequestStays ==
  ASSUME Inv, SerialInv, serial, serial', NEW w \in Workers, Request(w)
  PROVE  SerialInv' /\ StaysPublished
<1>1. w \in Threads /\ w \notin Jobs
  BY CourseAssumption DEF Threads
<1>2. Only(w)
  BY <1>1 DEF Request, AllIdle, Only
<1>3. PICK kind \in Kinds, op \in {"none", "publish", "materialize"} :
        Go(w, [Idle EXCEPT !.pc = "sync", !.kind = kind, !.op = op, !.copy = row])
  BY DEF Request
<1>4. PICK i \in ThreadStates : i = Idle
  BY IdleIsGood
<1>5. "sync" \in PCs /\ op \in Operations \cup {"none"} /\ row \in Rows
  BY <1>1, CopiesAreGood DEF PCs, Operations
<1>6. PICK n \in ThreadStates :
        n = [i EXCEPT !.pc = "sync", !.kind = kind, !.op = op, !.copy = row]
  BY <1>5 DEF ThreadStates
<1>7. n.pc = "sync" /\ n.op = op /\ n.copy = row
  BY <1>6 DEF ThreadStates
<1>8. Holds(n, row, workflow, latest)
  BY <1>7 DEF Holds, Authoring, Drafts
<1>9. Go(w, n) /\ UNCHANGED <<row, workflow, snapshots, latest, restarts>>
  BY <1>3, <1>4, <1>6 DEF Request
<1> QED BY <1>1, <1>2, <1>7, <1>8, <1>9, LoneGo DEF StaysPublished

LEMMA SyncStays ==
  ASSUME Inv, SerialInv, serial, serial', NEW w \in Threads, Sync(w)
  PROVE  SerialInv' /\ StaysPublished
<1>1. PICK s \in ThreadStates, r \in Rows : s = thread[w] /\ r = Refreshed(s.copy)
  BY CopiesAreGood
<1>2. s.pc = "sync" /\ ~At(w, "idle") /\ ~At(w, "reply")
  BY <1>1 DEF Sync, At
<1>3. /\ Only(w) /\ Holds(s, row, workflow, latest)
      /\ r.stage = "published" <=> s.copy.stage = "published"
  BY <1>1, <1>2, Lone
<1>4. w \notin Jobs
  BY <1>1, <1>2 DEF SerialInv, JobsAnswerNobody
<1>5. PICK n : Save(r) /\ Go(w, n)
           /\ n \in {Idle, [s EXCEPT !.pc = "begin"], [s EXCEPT !.pc = "enqueue", !.copy = r]}
  BY <1>1 DEF Sync
<1>6. n \in ThreadStates /\ n.pc \in {"idle", "begin", "enqueue"}
  BY <1>1, <1>5, IdleIsGood DEF ThreadStates, PCs
<1>7. Holds(n, r, workflow, latest)
  <2>1. CASE n = Idle
    BY <1>2, <2>1, FailedHolds
  <2>2. CASE n # Idle
    <3>1. n.op = s.op /\ (n.pc = "enqueue" => n.copy = r)
      BY <1>1, <1>5, <2>2, <1>6 DEF ThreadStates
    <3>2. n.op \in Authoring => workflow \notin {"awaiting_human", "published"}
      BY <1>2, <1>3, <3>1 DEF Holds
    <3> QED BY <1>6, <3>1, <3>2 DEF Holds, Drafts
  <2> QED BY <2>1, <2>2
<1>8. StaysPublished
  BY <1>2, <1>3, <1>5 DEF StaysPublished, Save, Holds
<1> QED BY <1>3, <1>4, <1>5, <1>6, <1>7, <1>8, LoneSave

\* The request waits from now on, and its job begins.
LEMMA EnqueueStays ==
  ASSUME Inv, SerialInv, serial, serial', NEW w \in Threads, Enqueue(w)
  PROVE  SerialInv' /\ StaysPublished
<1>1. PICK s \in ThreadStates : s = thread[w]
  BY CopiesAreGood
<1>2. s.pc = "enqueue" /\ ~At(w, "idle") /\ ~At(w, "reply") /\ s.copy \in Rows
  BY <1>1 DEF Enqueue, At, ThreadStates
<1>3. Only(w) /\ Holds(s, row, workflow, latest)
  BY <1>1, <1>2, Lone
<1>4. w \notin Jobs /\ w \in Workers
  BY <1>1, <1>2 DEF SerialInv, JobsAnswerNobody, Threads
<1>5. PICK i \in ThreadStates : i = Idle /\ i.op = "none"
  BY IdleIsGood DEF Idle
<1>6. PICK begin \in ThreadStates : begin = [i EXCEPT !.pc = "begin", !.op = s.op]
  BY DEF ThreadStates, PCs
<1>7. PICK reply \in ThreadStates : reply = [i EXCEPT !.pc = "reply"]
  BY DEF ThreadStates, PCs
<1>8. begin.pc = "begin" /\ begin.op = s.op /\ reply.pc = "reply" /\ reply.op = "none"
  BY <1>5, <1>6, <1>7 DEF ThreadStates
<1>9. PICK j \in Jobs :
        /\ Save([s.copy EXCEPT !.op = s.op])
        /\ thread' = [thread EXCEPT ![j] = begin, ![w] = reply]
  BY <1>1, <1>5, <1>6, <1>7 DEF Enqueue
<1>10. j \in Threads /\ j # w
  BY <1>4 DEF Threads
<1>11. \A u \in Threads :
        thread'[u] = IF u = w THEN reply ELSE IF u = j THEN begin ELSE thread[u]
  BY <1>9, <1>10 DEF Inv, Types
<1>12. \A u \in Threads : u # w => thread[u].pc = "idle"
  BY <1>3, <1>4 DEF Only, At
<1>13. ASSUME NEW u \in Threads, u # w, u # j PROVE thread'[u].pc = "idle"
  BY <1>11, <1>12, <1>13
<1>14. thread'[w].pc = "reply" /\ thread'[w].op = "none" /\ thread'[j].pc = "begin"
  BY <1>8, <1>10, <1>11
<1>15. Alone'
  BY <1>4, <1>13, <1>14 DEF Alone, Only, Waits, At
<1>16. OneWaits' /\ JobsAnswerNobody'
  <2>1. \A u \in Workers : u \in Threads /\ u # j
    BY CourseAssumption DEF Threads
  <2>2. \A u \in Jobs : u \in Threads /\ u # w
    BY <1>4 DEF Threads
  <2> QED BY <1>4, <1>13, <1>14, <2>1, <2>2 DEF OneWaits, JobsAnswerNobody, At
<1>17. /\ row' = [s.copy EXCEPT !.op = s.op] /\ workflow' = workflow
       /\ latest' = latest /\ snapshots' = snapshots
  BY <1>9 DEF Save
<1>18. ASSUME NEW u \in Threads PROVE Holds(thread'[u], row', workflow', latest')
  <2>1. CASE u = j
    <3>1. thread'[u].pc = "begin" /\ thread'[u].op = s.op
      BY <1>8, <1>10, <1>11, <2>1
    <3> QED BY <1>2, <1>3, <1>17, <3>1 DEF Holds, Drafts
  <2>2. CASE u # j
    <3>1. thread'[u].pc \in {"idle", "reply"}
      BY <1>13, <1>14, <2>2
    <3> QED BY <3>1 DEF Holds, Drafts
  <2> QED BY <2>1, <2>2
<1>19. VersionsDiffer'
  BY <1>17 DEF SerialInv, VersionsDiffer
<1>20. StaysPublished
  <2>1. row'.stage = s.copy.stage
    BY <1>2, <1>17 DEF Rows
  <2> QED BY <1>2, <1>3, <2>1 DEF StaysPublished, Holds
<1> QED BY <1>15, <1>16, <1>18, <1>19, <1>20 DEF SerialInv

\* A row is read into a copy, by the request that was answered or by the one
\* thread at work.
LEMMA ReadStays ==
  ASSUME Inv, SerialInv, serial, serial', NEW t \in Threads, Only(t),
         NEW pc \in {"sync", "job_sync", "resync_save", "again_save", "final_save", "fail_save"},
         t \in Jobs => pc # "sync",
         pc \in Drafts => thread[t].op \in Authoring,
         pc = "sync" \/ (~At(t, "idle") /\ ~At(t, "reply")),
         pc = "sync" => thread[t].op \notin Authoring,
         Read(t, pc)
  PROVE  SerialInv' /\ StaysPublished
<1>1. PICK s \in ThreadStates : s = thread[t]
  BY CopiesAreGood
<1>2. pc \in PCs /\ pc \notin {"idle", "enqueue", "reply", "package", "save_bundle", "certify",
                              "save_snapshot", "reject"}
  BY DEF PCs
<1>3. PICK n \in ThreadStates : n = [s EXCEPT !.pc = pc, !.copy = row]
  BY <1>2, CopiesAreGood DEF ThreadStates
<1>4. n.pc = pc /\ n.copy = row /\ n.op = s.op
  BY <1>3 DEF ThreadStates
<1>5. n.op \in Authoring => workflow \notin {"awaiting_human", "published"}
  <2>1. CASE pc = "sync"
    BY <1>1, <1>4, <2>1
  <2>2. CASE pc # "sync"
    BY <1>1, <1>4, <2>2, Lone DEF Holds, At
  <2> QED BY <2>1, <2>2
<1>6. Holds(n, row, workflow, latest)
  BY <1>1, <1>2, <1>4, <1>5 DEF Holds
<1>7. Go(t, n) /\ UNCHANGED <<row, workflow, snapshots, latest, restarts>>
  BY <1>1, <1>3 DEF Read
<1> QED BY <1>2, <1>4, <1>6, <1>7, LoneGo DEF StaysPublished

\* A copy is saved, and the thread has ended.
LEMMA LastSaveStays ==
  ASSUME Inv, SerialInv, serial, serial', NEW t \in Threads,
         ~At(t, "idle"), ~At(t, "reply"), Go(t, Idle),
         NEW r, Save(r), row.stage = "published" => r.stage = "published"
  PROVE  SerialInv' /\ StaysPublished
<1>1. Holds(Idle, r, workflow, latest)
  BY FailedHolds
<1>2. SerialInv'
  BY <1>1, Lone, IdleIsGood, LoneSave
<1> QED BY <1>2 DEF StaysPublished, Save

LEMMA OperationStays ==
  ASSUME Inv, SerialInv, serial, serial', NEW t \in Threads, Operation(t)
  PROVE  SerialInv' /\ StaysPublished
<1>1. PICK s \in ThreadStates, r \in Rows :
        s = thread[t] /\ r = Refreshed(s.copy) /\ s.copy \in Rows
  BY CopiesAreGood
<1>2. s.pc \notin {"idle", "reply"} /\ ~At(t, "idle") /\ ~At(t, "reply")
  BY <1>1 DEF Operation, Begin, JobSync, Certify, Reject, SaveSnapshot, SavePublished, Package,
              SaveBundle, At
<1>3. /\ Only(t) /\ Holds(s, row, workflow, latest)
      /\ r.stage = "published" <=> s.copy.stage = "published"
  BY <1>1, <1>2, Lone
<1>4. s.op \in Authoring => workflow \notin {"awaiting_human", "published"}
  BY <1>2, <1>3 DEF Holds
<1>5. PICK f \in ThreadStates : f = Failed(t) /\ f.pc \in {"idle", "fail"}
  BY FailedIsGood DEF Inv
<1>6. \A x : Holds(f, x, workflow, latest)
  BY <1>2, <1>5, FailedHolds
<1>7. CASE Begin(t)
  <2>1. Read(t, "job_sync")
    BY <1>7 DEF Begin
  <2> QED BY <1>2, <1>3, <2>1, ReadStays DEF Drafts
<1>8. CASE JobSync(t)
  <2>1. s.pc = "job_sync"
    BY <1>1, <1>8 DEF JobSync, At
  <2>2. PICK n : Save(r) /\ Go(t, n)
           /\ \/ n = [s EXCEPT !.pc = "package", !.copy = r]
              \/ n = [s EXCEPT !.pc = "certify", !.copy = r] /\ r.stage = "ready_to_publish"
              \/ n = f
    BY <1>1, <1>5, <1>8 DEF JobSync
  <2>3. n \in ThreadStates /\ n.pc \in {"package", "certify", "idle", "fail"}
    BY <1>1, <1>5, <2>2 DEF ThreadStates, PCs
  <2>4. Holds(n, r, workflow, latest)
    <3>1. CASE n = f
      BY <1>6, <3>1
    <3>2. CASE n # f
      <4>1. /\ n.pc \in {"package", "certify"} /\ n.op = s.op /\ n.copy = r
            /\ n.pc = "certify" => r.stage = "ready_to_publish"
        BY <1>1, <2>2, <3>2 DEF ThreadStates
      <4> QED BY <1>4, <4>1 DEF Holds, Drafts
    <3> QED BY <3>1, <3>2
  <2>5. StaysPublished
    BY <1>3, <2>1, <2>2 DEF StaysPublished, Save, Holds
  <2> QED BY <1>3, <2>2, <2>3, <2>4, <2>5, LoneSave
<1>9. CASE Certify(t)
  <2>1. /\ s.pc = "certify" /\ row.stage # "published"
        /\ s.copy.stage = "ready_to_publish" /\ latest + 1 \in Nat
        /\ UNCHANGED <<row, workflow, snapshots, latest, restarts>>
    BY <1>1, <1>3, <1>9 DEF Certify, At, Holds, Inv, CertifiesReady, Types
  <2>2. PICK newStage \in {s.copy.stage, "blocked"} :
           \/ Go(t, [s EXCEPT !.pc = "save_snapshot", !.version = latest + 1])
           \/ Go(t, f)
           \/ Go(t, [s EXCEPT !.pc = "reject",
                             !.copy = [s.copy EXCEPT !.op = "none", !.stage = newStage]])
    BY <1>1, <1>5, <1>9 DEF Certify
  <2>3. newStage \in CourseStages
    BY <2>1, <2>2 DEF CourseStages
  <2>4. PICK c \in Rows : c = [s.copy EXCEPT !.op = "none", !.stage = newStage]
    BY <1>1, <2>3 DEF Rows
  <2>5. PICK n : Go(t, n) /\
           \/ n = [s EXCEPT !.pc = "save_snapshot", !.version = latest + 1]
           \/ n = f
           \/ n = [s EXCEPT !.pc = "reject", !.copy = c]
    BY <2>2, <2>4
  <2>6. n \in ThreadStates /\ n.pc \in {"save_snapshot", "reject", "idle", "fail"}
    BY <1>1, <1>5, <2>1, <2>5 DEF ThreadStates, PCs
  <2>7. Holds(n, row, workflow, latest)
    <3>1. CASE n = f
      BY <1>6, <3>1
    <3>2. CASE n # f
      <4>1. /\ n.pc \in {"save_snapshot", "reject"} /\ n.op = s.op
            /\ n.pc = "save_snapshot" => n.version = latest + 1
        BY <1>1, <2>1, <2>5, <3>2 DEF ThreadStates
      <4> QED BY <1>4, <2>1, <4>1 DEF Holds, Drafts
    <3> QED BY <3>1, <3>2
  <2>8. SerialInv' /\ row' = row
    BY <1>3, <2>1, <2>5, <2>6, <2>7, LoneGo
  <2> QED BY <2>8 DEF StaysPublished
<1>10. CASE Reject(t)
  <2>1. Save(s.copy) /\ s.pc = "reject" /\ row.stage # "published" /\ Go(t, f)
    BY <1>1, <1>3, <1>5, <1>10 DEF Reject, At, Holds
  <2>2. SerialInv'
    BY <1>3, <1>5, <1>6, <2>1, LoneSave
  <2> QED BY <2>1, <2>2 DEF StaysPublished
<1>11. CASE SaveSnapshot(t)
  <2>1. /\ s.pc = "save_snapshot" /\ row.stage # "published" /\ s.version = latest + 1
        /\ latest \in Nat /\ snapshots \in Nat
        /\ snapshots' = snapshots + 1 /\ UNCHANGED <<row, workflow>>
        /\ latest' = IF s.version > latest THEN s.version ELSE latest
    BY <1>1, <1>3, <1>11 DEF SaveSnapshot, At, Holds, Inv, Types
  <2>2. VersionsDiffer'
    BY <2>1 DEF SerialInv, VersionsDiffer
  <2>3. "published" \in CourseStages /\ snapshots + 1 \in Nat
    BY <2>1 DEF CourseStages
  <2>4. PICK c \in Rows :
          /\ c = [s.copy EXCEPT !.stage = "published", !.op = "none",
                                !.snapshot = snapshots + 1]
          /\ c.stage = "published"
    <3> DEFINE c == [s.copy EXCEPT !.stage = "published", !.op = "none",
                                   !.snapshot = snapshots + 1]
    <3>1. c \in Rows /\ c.stage = "published"
      BY <1>1, <2>3 DEF Rows
    <3> QED BY <3>1
  <2>5. PICK n \in ThreadStates : n = [s EXCEPT !.pc = "save_published", !.copy = c]
    BY <1>1 DEF ThreadStates, PCs
  <2>6. n.pc = "save_published" /\ n.op = s.op /\ n.copy.stage = "published"
    BY <2>4, <2>5 DEF ThreadStates
  <2>7. Go(t, n)
    BY <1>1, <1>11, <2>4, <2>5 DEF SaveSnapshot
  <2>8. Holds(n, row', workflow', latest')
    BY <1>4, <2>1, <2>6 DEF Holds, Drafts
  <2>9. SerialInv'
    BY <1>3, <2>2, <2>6, <2>7, <2>8, LoneStep
  <2> QED BY <2>1, <2>9 DEF StaysPublished
<1>12. CASE SavePublished(t)
  <2>1. Save(s.copy) /\ Go(t, Idle) /\ s.pc = "save_published"
    BY <1>1, <1>12 DEF SavePublished, At
  <2> QED BY <1>2, <1>3, <2>1, LastSaveStays DEF Holds
<1>13. CASE Package(t)
  <2>1. s.pc = "package" /\ UNCHANGED <<row, workflow, snapshots, latest, restarts>>
    BY <1>1, <1>13 DEF Package, At
  <2>2. PICK c \in Rows : c = [s.copy EXCEPT !.op = "none"] /\ c.stage = s.copy.stage
    <3> DEFINE c == [s.copy EXCEPT !.op = "none"]
    <3>1. c \in Rows /\ c.stage = s.copy.stage
      BY <1>1 DEF Rows
    <3> QED BY <3>1
  <2>3. PICK n : Go(t, n)
           /\ \/ n = [s EXCEPT !.pc = "save_bundle", !.copy = c]
              \/ n = f
    BY <1>1, <1>5, <1>13, <2>2 DEF Package
  <2>4. n \in ThreadStates /\ n.pc \in {"save_bundle", "idle", "fail"}
    BY <1>1, <1>5, <2>2, <2>3 DEF ThreadStates, PCs
  <2>5. Holds(n, row, workflow, latest)
    <3>1. CASE n = f
      BY <1>6, <3>1
    <3>2. CASE n # f
      <4>1. n.pc = "save_bundle" /\ n.op = s.op /\ n.copy.stage = s.copy.stage
        BY <1>1, <2>2, <2>3, <3>2 DEF ThreadStates
      <4> QED BY <1>3, <1>4, <2>1, <4>1 DEF Holds, Drafts
    <3> QED BY <3>1, <3>2
  <2>6. SerialInv' /\ row' = row
    BY <1>3, <2>1, <2>3, <2>4, <2>5, LoneGo
  <2> QED BY <2>6 DEF StaysPublished
<1>14. CASE SaveBundle(t)
  <2>1. Save(s.copy) /\ Go(t, Idle) /\ s.pc = "save_bundle"
    BY <1>1, <1>14 DEF SaveBundle, At
  <2> QED BY <1>2, <1>3, <2>1, LastSaveStays DEF Holds
<1> QED BY <1>7, <1>8, <1>9, <1>10, <1>11, <1>12, <1>13, <1>14 DEF Operation

\* A job that drafts the course saves what it likes: there is nothing
\* published that it could take back.
LEMMA DraftingStays ==
  ASSUME Inv, SerialInv, serial, serial', NEW t \in Threads, Drafting(t)
  PROVE  SerialInv' /\ StaysPublished
<1>1. PICK s \in ThreadStates, r \in Rows :
        s = thread[t] /\ r = Refreshed(s.copy) /\ s.copy \in Rows
  BY CopiesAreGood
<1>2. s.pc \in Drafts /\ s.pc \notin {"idle", "reply"} /\ ~At(t, "idle") /\ ~At(t, "reply")
  BY <1>1 DEF Drafting, Draft, DraftSave, PlanSave, Resync, ResyncSave, Release, Final,
              FinalSave, At, Drafts
<1>3. /\ Only(t) /\ s.op \in Authoring /\ workflow \notin {"awaiting_human", "published"}
  BY <1>1, <1>2, Lone DEF Holds
<1>4. row.stage # "published"
  BY <1>1, <1>3, CopiesAreGood, DraftIsUnpublished
<1>5. StaysPublished
  BY <1>4 DEF StaysPublished
\* It goes on as n.
<1>6. ASSUME NEW n, NEW pc \in {"plan_save", "resync", "again", "release", "final"},
             \/ n = [s EXCEPT !.pc = pc]
             \/ n = [s EXCEPT !.pc = pc, !.copy = r],
             NEW x, Save(x), Go(t, n)
      PROVE  SerialInv'
  <2>1. n \in ThreadStates /\ n.pc = pc /\ n.op = s.op
    BY <1>1, <1>6 DEF ThreadStates, PCs
  <2>2. Holds(n, x, workflow, latest)
    BY <1>3, <2>1 DEF Holds
  <2> QED BY <1>3, <1>6, <2>1, <2>2, LoneSave
<1>7. ASSUME NEW x, Save(x), Go(t, Idle) PROVE SerialInv'
  BY <1>2, <1>4, <1>7, LastSaveStays
<1>8. CASE Draft(t)
  <2>1. UNCHANGED <<row, snapshots, latest, restarts>>
    BY <1>8 DEF Draft
  <2>2. CASE Go(t, Failed(t)) /\ UNCHANGED workflow
    <3>1. Failed(t) \in ThreadStates /\ Failed(t).pc \in {"idle", "fail"}
      BY FailedIsGood DEF Inv
    <3>2. Holds(Failed(t), row, workflow, latest)
      BY <1>2, FailedHolds
    <3> QED BY <1>3, <1>5, <2>1, <2>2, <3>1, <3>2, LoneGo
  <2>3. CASE /\ workflow' \in {"unproven", "blocked"}
             /\ Go(t, [thread[t] EXCEPT !.pc = "draft_save", !.copy =
                  [stage |-> StageOf(workflow'), built |-> TRUE, snapshot |-> 0,
                   op |-> IF thread[t].op = "generation" THEN row.op ELSE "none"]])
    <3>1. StageOf(workflow') \in {"awaiting_course_review", "blocked"}
      BY <2>3 DEF StageOf
    <3>2. row.op \in Operations \cup {"none"}
      BY DEF Inv, Types, Rows
    <3>3. PICK newStage \in CourseStages, op \in Operations \cup {"none"} :
            /\ newStage = StageOf(workflow')
            /\ op = IF thread[t].op = "generation" THEN row.op ELSE "none"
      BY <3>1, <3>2 DEF CourseStages
    <3>4. PICK c \in Rows : c = [stage |-> newStage, built |-> TRUE, snapshot |-> 0, op |-> op]
      BY DEF Rows
    <3>5. PICK n \in ThreadStates : n = [s EXCEPT !.pc = "draft_save", !.copy = c]
      BY <1>1 DEF ThreadStates, PCs
    <3>6. n.pc = "draft_save" /\ n.op = s.op
      BY <3>5 DEF ThreadStates
    <3>7. Go(t, n)
      BY <1>1, <2>3, <3>3, <3>4, <3>5
    <3>8. Holds(n, row', workflow', latest')
      BY <1>3, <2>3, <3>6 DEF Holds
    <3>9. VersionsDiffer'
      BY <2>1 DEF SerialInv, VersionsDiffer
    <3> QED BY <1>3, <1>5, <3>6, <3>7, <3>8, <3>9, LoneStep
  <2>4. SerialInv'
    BY <1>8, <2>2, <2>3 DEF Draft
  <2> QED BY <1>5, <2>4
<1>9. CASE DraftSave(t)
  BY <1>1, <1>5, <1>6, <1>7, <1>9 DEF DraftSave
<1>10. CASE PlanSave(t)
  BY <1>1, <1>5, <1>6, <1>10 DEF PlanSave
<1>11. CASE Resync(t)
  <2>1. PICK pc \in {"resync_save", "again_save"} : Read(t, pc)
    BY <1>11 DEF Resync
  <2>2. thread[t].op \in Authoring
    BY <1>1, <1>3
  <2> QED BY <1>2, <1>3, <2>1, <2>2, ReadStays DEF Drafts
<1>12. CASE ResyncSave(t)
  BY <1>1, <1>5, <1>6, <1>12 DEF ResyncSave
<1>13. CASE Release(t)
  BY <1>1, <1>5, <1>6, <1>13 DEF Release
<1>14. CASE Final(t)
  <2>1. Read(t, "final_save")
    BY <1>14 DEF Final
  <2>2. thread[t].op \in Authoring
    BY <1>1, <1>3
  <2> QED BY <1>2, <1>3, <2>1, <2>2, ReadStays DEF Drafts
<1>15. CASE FinalSave(t)
  BY <1>1, <1>5, <1>7, <1>15 DEF FinalSave
<1> QED BY <1>8, <1>9, <1>10, <1>11, <1>12, <1>13, <1>14, <1>15 DEF Drafting

LEMMA FailStays ==
  ASSUME Inv, SerialInv, serial, serial', NEW t \in Threads, Fail(t) \/ FailSave(t)
  PROVE  SerialInv' /\ StaysPublished
<1>1. PICK s \in ThreadStates : s = thread[t] /\ s.copy \in Rows
  BY CopiesAreGood
<1>2. s.pc \in {"fail", "fail_save"} /\ ~At(t, "idle") /\ ~At(t, "reply")
  BY <1>1 DEF Fail, FailSave, At
<1>3. Only(t) /\ Holds(s, row, workflow, latest)
  BY <1>1, <1>2, Lone
<1>4. CASE Fail(t)
  <2>1. Read(t, "fail_save")
    BY <1>4 DEF Fail
  <2> QED BY <1>2, <1>3, <2>1, ReadStays DEF Drafts
<1>5. CASE FailSave(t)
  <2> DEFINE newStage == IF s.op \in Authoring THEN "blocked" ELSE s.copy.stage
  <2>1. newStage \in CourseStages /\ s.pc = "fail_save" /\ Go(t, Idle)
    BY <1>1, <1>5 DEF Rows, CourseStages, FailSave, At
  <2>2. PICK r : r = [s.copy EXCEPT !.op = "none", !.stage = newStage]
    OBVIOUS
  <2>3. r.stage = newStage
    BY <1>1, <2>1, <2>2 DEF Rows
  <2>4. Save(r)
    BY <1>1, <1>5, <2>2 DEF FailSave, Authoring
  <2>5. row.stage = "published" => r.stage = "published"
    <3>1. CASE s.op \in Authoring
      <4>1. workflow \notin {"awaiting_human", "published"}
        BY <1>2, <1>3, <3>1 DEF Holds
      <4> QED BY <1>1, <4>1, CopiesAreGood, DraftIsUnpublished
    <3>2. CASE s.op \notin Authoring
      BY <1>3, <2>1, <2>3, <3>2 DEF Holds
    <3> QED BY <3>1, <3>2
  <2> QED BY <1>2, <2>1, <2>4, <2>5, LastSaveStays
<1> QED BY <1>4, <1>5

\* The answer to a request is read when its job has ended.
LEMMA ReplyStays ==
  ASSUME Inv, SerialInv, serial, serial', NEW w \in Threads, Reply(w)
  PROVE  SerialInv' /\ StaysPublished
<1>1. At(w, "reply") /\ AllIdle(Jobs) /\ Read(w, "sync")
  BY DEF Reply
<1>2. w \in Workers /\ thread[w].op = "none" /\ w \notin Jobs
  BY <1>1, CourseAssumption DEF SerialInv, OneWaits
<1>3. Only(w)
  BY <1>1 DEF SerialInv, OneWaits, AllIdle, Only, Threads
<1>4. thread[w].op \notin Authoring
  BY <1>2 DEF Authoring
<1>5. "sync" \notin Drafts
  BY DEF Drafts
<1> QED BY <1>1, <1>2, <1>3, <1>4, <1>5, ReadStays

\* No draft is under way when the last gate is approved.
LEMMA ApproveStays ==
  ASSUME Inv, SerialInv, serial, serial', ApproveWorkflow
  PROVE  SerialInv' /\ StaysPublished
<1>1. /\ workflow = "awaiting_human"
      /\ UNCHANGED <<row, snapshots, latest, thread>>
  BY DEF ApproveWorkflow
<1>2. Alone' /\ OneWaits' /\ JobsAnswerNobody' /\ VersionsDiffer'
  BY <1>1 DEF SerialInv, Alone, Only, Waits, At, OneWaits, JobsAnswerNobody, VersionsDiffer
<1>3. ASSUME NEW t \in Threads PROVE Holds(thread'[t], row', workflow', latest')
  <2>1. Holds(thread[t], row, workflow, latest)
    BY DEF SerialInv
  <2> QED BY <1>1, <2>1 DEF Holds
<1> QED BY <1>1, <1>2, <1>3 DEF SerialInv, StaysPublished

\* The threads die wherever they are; a snapshot that was saved keeps its version.
LEMMA RestartStays ==
  ASSUME Inv, SerialInv, serial, serial', Restart
  PROVE  SerialInv' /\ StaysPublished
<1>1. /\ thread' = [t \in Threads |-> Idle]
      /\ row' = [row EXCEPT !.op = "none"]
      /\ UNCHANGED <<workflow, snapshots, latest>>
  BY DEF Restart
<1>2. \A t \in Threads : thread'[t].pc = "idle"
  BY <1>1, IdleIsGood
<1>3. Alone' /\ OneWaits' /\ JobsAnswerNobody' /\ VersionsDiffer'
  BY <1>1, <1>2 DEF SerialInv, Alone, At, OneWaits, JobsAnswerNobody, VersionsDiffer, Threads
<1>4. \A t \in Threads : Holds(thread'[t], row', workflow', latest')
  BY <1>2 DEF Holds, Drafts
<1>5. row'.stage = row.stage
  BY <1>1 DEF Inv, Types, Rows
<1> QED BY <1>3, <1>4, <1>5 DEF SerialInv, StaysPublished

LEMMA NextStays ==
  ASSUME Inv, SerialInv, [Next]_vars
  PROVE  SerialInv' /\ (serial => StaysPublished)
<1> SUFFICES ASSUME serial \/ serial' PROVE SerialInv' /\ StaysPublished
  BY DEF SerialInv
<1>1. serial /\ serial'
  BY DEF Next, vars
<1>2. CASE UNCHANGED vars
  <2>1. Alone' /\ OneWaits' /\ JobsAnswerNobody' /\ VersionsDiffer'
    BY <1>1, <1>2 DEF vars, SerialInv, Alone, Only, Waits, At, OneWaits, JobsAnswerNobody, VersionsDiffer
  <2>2. \A t \in Threads : Holds(thread'[t], row', workflow', latest')
    BY <1>1, <1>2 DEF vars, SerialInv
  <2> QED BY <1>2, <2>1, <2>2 DEF vars, SerialInv, StaysPublished
<1>3. CASE Restart
  BY <1>1, <1>3, RestartStays
<1>4. CASE ApproveWorkflow
  BY <1>1, <1>4, ApproveStays
<1>5. ASSUME NEW w \in Workers, Request(w) PROVE SerialInv' /\ StaysPublished
  BY <1>1, <1>5, RequestStays
<1>6. ASSUME NEW t \in Threads, Proceed(t) PROVE SerialInv' /\ StaysPublished
  <2>1. CASE Sync(t)
    BY <1>1, <2>1, SyncStays
  <2>2. CASE Enqueue(t)
    BY <1>1, <2>2, EnqueueStays
  <2>3. CASE Reply(t)
    BY <1>1, <2>3, ReplyStays
  <2>4. CASE Operation(t)
    BY <1>1, <2>4, OperationStays
  <2>5. CASE Drafting(t)
    BY <1>1, <2>5, DraftingStays
  <2>6. CASE Fail(t) \/ FailSave(t)
    BY <1>1, <2>6, FailStays
  <2> QED BY <1>6, <2>1, <2>2, <2>3, <2>4, <2>5, <2>6 DEF Proceed
<1> QED BY <1>2, <1>3, <1>4, <1>5, <1>6 DEF Next

LEMMA InitStays == Init => SerialInv
<1> SUFFICES ASSUME Init PROVE SerialInv
  OBVIOUS
<1>1. VersionsDiffer
  BY DEF Init, VersionsDiffer
<1>2. CASE thread = [t \in Threads |-> Idle]
  <2>1. \A t \in Threads : thread[t].pc = "idle"
    BY <1>2, IdleIsGood
  <2> QED BY <1>1, <2>1 DEF SerialInv, Alone, At, OneWaits, JobsAnswerNobody, Holds, Drafts, Threads
<1>3. ASSUME NEW op \in {"generation", "revision"}, NEW w \in Workers, NEW j \in Jobs,
             workflow = "none",
             thread = [t \in Threads |->
               CASE t = w -> [Idle EXCEPT !.pc = "reply"]
                 [] t = j -> [Idle EXCEPT !.pc = "draft", !.op = op]
                 [] OTHER -> Idle]
      PROVE  SerialInv
  <2>1. w # j /\ w \in Threads /\ j \in Threads /\ w \notin Jobs /\ j \notin Workers
    BY CourseAssumption DEF Threads
  <2>2. PICK i \in ThreadStates : i = Idle /\ i.pc = "idle" /\ i.op = "none"
    BY IdleIsGood DEF Idle
  <2>3. PICK reply \in ThreadStates : reply = [i EXCEPT !.pc = "reply"]
    BY DEF ThreadStates, PCs
  <2>4. PICK draft \in ThreadStates : draft = [i EXCEPT !.pc = "draft", !.op = op]
    BY DEF ThreadStates, PCs, Operations
  <2>5. reply.pc = "reply" /\ reply.op = "none" /\ draft.pc = "draft" /\ draft.op = op
    BY <2>2, <2>3, <2>4 DEF ThreadStates
  <2>6. \A t \in Threads :
          thread[t] = IF t = w THEN reply ELSE IF t = j THEN draft ELSE i
    BY <1>3, <2>1, <2>2, <2>3, <2>4
  <2>7. /\ thread[w].pc = "reply" /\ thread[w].op = "none" /\ thread[j].pc = "draft" /\ thread[j].op = op
        /\ \A t \in Threads : t # w /\ t # j => thread[t].pc = "idle"
    BY <2>1, <2>2, <2>5, <2>6
  <2>8. Alone
    BY <2>1, <2>7 DEF Alone, Only, Waits, At
  <2>9. OneWaits /\ JobsAnswerNobody
    BY <2>1, <2>7, CourseAssumption DEF OneWaits, JobsAnswerNobody, At, Threads
  <2>10. ASSUME NEW t \in Threads PROVE Holds(thread[t], row, workflow, latest)
    BY <1>3, <2>7 DEF Holds, Drafts, Authoring
  <2> QED BY <1>1, <2>8, <2>9, <2>10 DEF SerialInv
<1> QED BY <1>2, <1>3 DEF Init

\* When requests come one at a time, with their jobs in them, nobody holds a
\* copy of the row that is less published than the row is.
THEOREM SerialInvariance == Spec => []SerialInv
<1>1. Init => SerialInv
  BY InitStays
<1>2. Inv /\ SerialInv /\ [Next]_vars => SerialInv'
  BY NextStays
<1> QED BY <1>1, <1>2, Invariance, PTL DEF Spec

\* What learners can be given is approved work, under a version of its own:
\* approved however requests overlap, and the versions differ when they do not,
\* wherever the server dies between a snapshot and the row.
THEOREM SnapshotsSound == Spec => []SnapshotsAreSound
<1>1. Inv /\ SerialInv => SnapshotsAreSound
  BY DEF Inv, SerialInv, SnapshotsAreSound, VersionsDiffer
<1> QED BY <1>1, Invariance, SerialInvariance, PTL

\* As long as requests come one at a time, no read, publication, revision,
\* failure or restart takes a published course back.
THEOREM SerialPublication == Spec => SerialPublicationStays
<1>1. Inv /\ SerialInv /\ [Next]_vars
        => [serial /\ row.stage = "published" => row'.stage = "published"]_row
  BY NextStays DEF StaysPublished
<1> QED BY <1>1, Invariance, SerialInvariance, PTL DEF Spec, SerialPublicationStays

-----------------------------------------------------------------------------
(* Design: the inductive invariant *)


\* The choices as they are after _resolve_creator_setup.
Chosen == ResolveSetup(brief.goal, brief.setup)

\* A design inferred from some words and laid under the choices.
Laid(words, pack, setup) == WithChoices(InferDesign(words, pack, setup), setup)

\* Every design of a plan that was offered was laid under the choices, for the
\* plan's package type.
PlanRight ==
  /\ plan = [title |-> plan.title, goal |-> brief.goal, package |-> plan.package, setup |-> Chosen,
             design |-> Laid(plan.title \cup brief.goal, plan.package, Chosen),
             deliverables |-> [i \in DOMAIN plan.deliverables |-> plan.deliverables[i]]]
  /\ plan.package \in Packages /\ (brief.hint # None => plan.package = brief.hint)
  /\ \A i \in DOMAIN plan.deliverables :
       \E words \in Titles \cup {plan.title \cup brief.goal} :
         plan.deliverables[i] = Laid(words, plan.package, Chosen)
  /\ plan.package = "progressive" =>
       \A i \in DOMAIN plan.deliverables : plan.deliverables[i] = plan.design

\* A course is made of the plan, as it is.
DesignInv ==
  /\ stage \in {"old", "brief", "planned", "refused", "queued", "blocked", "built"}
  /\ stage \in {"old", "brief"} => plan = NoPlan
  /\ stage # "old" => brief \in [goal : Goals, hint : Packages \cup {None}, setup : Setups]
  /\ stage \notin {"old", "brief"} => PlanRight
  /\ stage \in {"old", "brief", "planned", "refused"} => course = NoCourse
  /\ stage \in {"queued", "blocked"} => course = Awaited(plan)
  /\ stage = "built" => course = Built(Generated(plan))

-----------------------------------------------------------------------------
(* Design: lemmas *)

\* A setup is the record it should be.
SetupOK(s) ==
  /\ s = [starter |-> s.starter, fields |-> s.fields, stack |-> s.stack, sources |-> s.sources]
  /\ s.fields = [f \in Fields |-> s.fields[f]]

Paths(s) == {t.path : t \in s.sources} \ {None}

\* infer_implementation_stack keeps what was chosen, and leaves the language
\* open for a chosen framework it does not know only.
LEMMA StackInferred ==
  ASSUME NEW text, NEW chosen
  PROVE  /\ chosen.language # None => InferStack(text, chosen).language = chosen.language
         /\ chosen.framework # None => InferStack(text, chosen).framework = chosen.framework
         /\ InferStack(text, chosen).language = None => chosen.framework # None /\ LanguageOf(chosen.framework) = None
<1> DEFINE st == InferStack(text, chosen)
           namedFramework == {f \in Frameworks : f \in text}
           namedLanguage == {l \in Languages : l \in text}
           found == IF namedFramework = {} THEN None ELSE CHOOSE f \in namedFramework : TRUE
           spoken == IF namedLanguage = {} THEN None ELSE CHOOSE l \in namedLanguage : TRUE
           framework == Or(chosen.framework, found)
           language == Or(chosen.language, Or(LanguageOf(framework), spoken))
<1>1. st = IF language = None /\ framework = None
           THEN [language |-> "python", framework |-> "fastapi"]
           ELSE [language |-> language, framework |-> Or(framework, FrameworkOf(language))]
  BY DEF InferStack
<1> HIDE DEF st
<1>2. found = None \/ found \in Frameworks
  OBVIOUS
<1>3. found # None => LanguageOf(found) # None
  BY <1>2 DEF Frameworks, LanguageOf, None
<1> HIDE DEF found, spoken
<1>4. chosen.language # None => st.language = chosen.language
  BY <1>1 DEF Or
<1>5. chosen.framework # None => st.framework = chosen.framework
  BY <1>1 DEF Or
<1>6. ASSUME st.language = None PROVE chosen.framework # None /\ LanguageOf(chosen.framework) = None
  <2>1. language = None /\ framework # None
    BY <1>1, <1>6 DEF None
  <2>2. LanguageOf(framework) = None
    BY <2>1 DEF Or
  <2>3. chosen.framework # None
    BY <1>3, <2>1, <2>2 DEF Or
  <2>4. QED
    BY <2>2, <2>3 DEF Or
<1>7. QED
  BY <1>4, <1>5, <1>6 DEF st

\* The first of the services of a plan that has a backing service's name.
LEMMA VersionTold ==
  ASSUME NEW dd, NEW stack, NEW sources, NEW infer,
         NamesApart(dd)
  PROVE  /\ dd.database # None =>
              VersionOf(RuntimePlan(dd, stack, sources, infer).services, dd.database) =
                Or(dd.databaseVersion, IF infer THEN Or(VersionHint(dd.database, stack), DefaultVersion(dd.database)) ELSE None)
         /\ dd.cache # None =>
              VersionOf(RuntimePlan(dd, stack, sources, infer).services, dd.cache) =
                Or(dd.cacheVersion, IF infer THEN Or(VersionHint(dd.cache, stack), DefaultVersion(dd.cache)) ELSE None)
<1> DEFINE services == RuntimePlan(dd, stack, sources, infer).services
           Version(given, name) ==
             Or(given, IF infer THEN Or(VersionHint(name, stack), DefaultVersion(name)) ELSE None)
           Service(nth, name, version) ==
             IF name = None THEN {} ELSE {[nth |-> nth, id |-> name, version |-> Version(version, name)]}
<1>1. PICK v : services = {[nth |-> 1, id |-> "app", version |-> v]}
                   \cup Service(2, dd.database, dd.databaseVersion)
                   \cup Service(3, dd.cache, dd.cacheVersion)
                   \cup {[nth |-> 4, id |-> id, version |-> None] : id \in Served(sources)}
  BY DEF RuntimePlan
<1> HIDE DEF Version, services
<1>2. ASSUME dd.database # None PROVE VersionOf(services, dd.database) = Version(dd.databaseVersion, dd.database)
  <2> DEFINE it == [nth |-> 2, id |-> dd.database, version |-> Version(dd.databaseVersion, dd.database)]
  <2>1. it \in services /\ \A t \in services : t.id = dd.database => it.nth <= t.nth
    BY <1>1, <1>2 DEF NamesApart
  <2>2. \A s \in services : (s.id = dd.database /\ \A t \in services : t.id = dd.database => s.nth <= t.nth) => s = it
    <3> SUFFICES ASSUME NEW s \in services, s.id = dd.database, s.nth <= it.nth PROVE s = it
      BY <2>1
    <3>1. QED
      BY <1>1, <1>2 DEF NamesApart
  <2>3. QED
    BY <2>1, <2>2 DEF VersionOf
<1>3. ASSUME dd.cache # None PROVE VersionOf(services, dd.cache) = Version(dd.cacheVersion, dd.cache)
  <2> DEFINE it == [nth |-> 3, id |-> dd.cache, version |-> Version(dd.cacheVersion, dd.cache)]
  <2>1. it \in services /\ \A t \in services : t.id = dd.cache => it.nth <= t.nth
    BY <1>1, <1>3 DEF NamesApart
  <2>2. \A s \in services : (s.id = dd.cache /\ \A t \in services : t.id = dd.cache => s.nth <= t.nth) => s = it
    <3> SUFFICES ASSUME NEW s \in services, s.id = dd.cache, s.nth <= it.nth PROVE s = it
      BY <2>1
    <3>1. QED
      BY <1>1, <1>3 DEF NamesApart
  <2>3. QED
    BY <2>1, <2>2 DEF VersionOf
<1>4. QED
  BY <1>2, <1>3 DEF Version, services

\* A design that was made of a stack's fields under a setup: it keeps what it was
\* given, and its parts tell the same.
MadeOf(D, dd, s) ==
  /\ D = [family |-> D.family, package |-> D.package, shared |-> D.package = "progressive", deps |-> D.deps,
          starter |-> s.starter, stack |-> s.stack, sources |-> s.sources,
          fixtures |-> D.fixtures, binding |-> D.binding, runtime |-> D.runtime]
  /\ D.deps = [f \in Fields |-> D.deps[f]]
  /\ \A f \in Fields : dd[f] # None => D.deps[f] = dd[f]
  /\ D.deps.database = dd.database /\ D.deps.cache = dd.cache
  /\ D.deps.language \in {"python", "go"} => D.deps.languageVersion # None
  /\ Paths(s) # {} => D.fixtures = Paths(s)
  /\ HasCorpus(D)
  /\ D.binding = RuntimeBinding(D.deps, s.sources)
  /\ NamesApart(dd) => D.runtime = RuntimePlan(D.deps, s.stack, s.sources, FALSE)

\* build_assignment_design: the design has the stack it was given, with what the
\* contract's runtime plan adds to it, and both tell the same.
LEMMA DesignBuilt ==
  ASSUME NEW s, SetupOK(s), NEW dd, dd = [f \in Fields |-> dd[f]], NEW fam, NEW pack
  PROVE  /\ MadeOf(BuildDesign(Contract(fam, dd, s), pack, dd, s), dd, s)
         /\ BuildDesign(Contract(fam, dd, s), pack, dd, s).package = pack
         /\ BuildDesign(Contract(fam, dd, s), pack, dd, s).deps.language = dd.language
<1> DEFINE D == BuildDesign(Contract(fam, dd, s), pack, dd, s)
           R == RuntimePlan(dd, s.stack, s.sources, TRUE)
           Backing(version, name) ==
             IF name = None \/ version # None THEN version ELSE VersionOf(R.services, name)
           DD == [dd EXCEPT !.languageVersion = R.languageVersion, !.frameworkVersion = R.frameworkVersion,
                            !.manager = R.manager,
                            !.databaseVersion = Backing(dd.databaseVersion, dd.database),
                            !.cacheVersion = Backing(dd.cacheVersion, dd.cache)]
           fixtures == IF Paths(s) = {} /\ fam \in {"grounded_retrieval", "ranked_retrieval"}
                       THEN {"data/corpus.json"} ELSE Paths(s)
<1>1. D = [family |-> fam, package |-> pack, shared |-> pack = "progressive", deps |-> DD,
           starter |-> s.starter, stack |-> s.stack, sources |-> s.sources,
           fixtures |-> fixtures, binding |-> RuntimeBinding(dd, s.sources), runtime |-> R]
  BY DEF BuildDesign, Contract, Paths
<1>2. DD = [f \in Fields |-> DD[f]]
  OBVIOUS
<1>3. /\ DD.language = dd.language /\ DD.framework = dd.framework
      /\ DD.database = dd.database /\ DD.cache = dd.cache
      /\ DD.languageVersion = R.languageVersion /\ DD.frameworkVersion = R.frameworkVersion
      /\ DD.manager = R.manager
      /\ DD.databaseVersion = Backing(dd.databaseVersion, dd.database)
      /\ DD.cacheVersion = Backing(dd.cacheVersion, dd.cache)
  BY DEF Fields
<1>4. /\ R.language = dd.language /\ R.framework = dd.framework
      /\ R.languageVersion =
           Or(dd.languageVersion, Or(VersionHint(dd.language, s.stack), DefaultVersion(dd.language)))
      /\ R.frameworkVersion = Or(dd.frameworkVersion, VersionHint(dd.framework, s.stack))
      /\ R.manager = Or(dd.manager, InferManager(dd.language, s.stack))
  BY DEF RuntimePlan
<1> HIDE DEF DD
<1>5. ASSUME NEW f \in Fields, dd[f] # None PROVE DD[f] = dd[f]
  BY <1>3, <1>4, <1>5 DEF Fields, Or
<1>6. DD.language \in {"python", "go"} => DD.languageVersion # None
  BY <1>3, <1>4 DEF Or, DefaultVersion, None
<1>7. RuntimeBinding(dd, s.sources) = RuntimeBinding(DD, s.sources)
  BY <1>3 DEF RuntimeBinding
<1>8. ASSUME NamesApart(dd) PROVE R = RuntimePlan(DD, s.stack, s.sources, FALSE)
  <2> DEFINE Service(nth, name, version) ==
               IF name = None THEN {} ELSE {[nth |-> nth, id |-> name, version |-> version]}
             Told(given, name) == Or(given, Or(VersionHint(name, s.stack), DefaultVersion(name)))
  <2>1. /\ dd.database # None => DD.databaseVersion = Told(dd.databaseVersion, dd.database)
        /\ dd.cache # None => DD.cacheVersion = Told(dd.cacheVersion, dd.cache)
    <3>1. /\ dd.database # None => VersionOf(R.services, dd.database) = Told(dd.databaseVersion, dd.database)
          /\ dd.cache # None => VersionOf(R.services, dd.cache) = Told(dd.cacheVersion, dd.cache)
      <4> DEFINE it(given, name) ==
                   Or(given, IF TRUE THEN Or(VersionHint(name, s.stack), DefaultVersion(name)) ELSE None)
      <4>1. /\ dd.database # None => VersionOf(R.services, dd.database) = it(dd.databaseVersion, dd.database)
            /\ dd.cache # None => VersionOf(R.services, dd.cache) = it(dd.cacheVersion, dd.cache)
        BY <1>8, VersionTold, Zenon
      <4>2. QED
        BY <4>1
    <3> HIDE DEF R
    <3>2. QED
      BY <1>3, <3>1 DEF Or
  <2> DEFINE services(d, version, framework, language) ==
               {[nth |-> 1, id |-> "app", version |-> Or(framework, language)]}
                 \cup Service(2, d.database, version[1]) \cup Service(3, d.cache, version[2])
                 \cup {[nth |-> 4, id |-> id, version |-> None] : id \in Served(s.sources)}
  <2>2. R = [language |-> dd.language, languageVersion |-> R.languageVersion, framework |-> dd.framework,
             frameworkVersion |-> R.frameworkVersion, manager |-> R.manager,
             services |-> services(dd, <<Told(dd.databaseVersion, dd.database), Told(dd.cacheVersion, dd.cache)>>,
                                   R.frameworkVersion, R.languageVersion)]
    BY <1>4 DEF RuntimePlan
  <2>3. RuntimePlan(DD, s.stack, s.sources, FALSE)
        = [language |-> DD.language, languageVersion |-> DD.languageVersion, framework |-> DD.framework,
           frameworkVersion |-> DD.frameworkVersion, manager |-> DD.manager,
           services |-> services(DD, <<DD.databaseVersion, DD.cacheVersion>>, DD.frameworkVersion, DD.languageVersion)]
    BY DEF RuntimePlan, Or, None
  <2> HIDE DEF Told
  <2>4. Service(2, dd.database, Told(dd.databaseVersion, dd.database)) = Service(2, DD.database, DD.databaseVersion)
    BY <1>3, <2>1
  <2>5. Service(3, dd.cache, Told(dd.cacheVersion, dd.cache)) = Service(3, DD.cache, DD.cacheVersion)
    BY <1>3, <2>1
  <2> HIDE DEF R
  <2>6. services(dd, <<Told(dd.databaseVersion, dd.database), Told(dd.cacheVersion, dd.cache)>>,
                 R.frameworkVersion, R.languageVersion)
        = services(DD, <<DD.databaseVersion, DD.cacheVersion>>, DD.frameworkVersion, DD.languageVersion)
    BY <1>3, <2>4, <2>5
  <2> HIDE DEF services
  <2>7. QED
    BY <1>3, <2>2, <2>3, <2>6
<1>9. HasCorpus(D)
  BY <1>1 DEF HasCorpus
<1>10. Paths(s) # {} => fixtures = Paths(s)
  OBVIOUS
<1> HIDE DEF R, fixtures
<1> HIDE DEF D
<1>11. /\ D.deps = DD /\ D.fixtures = fixtures /\ D.runtime = R
       /\ D.family = fam /\ D.package = pack
       /\ D.binding = RuntimeBinding(dd, s.sources)
  BY <1>1
<1>12. MadeOf(D, dd, s)
  BY <1>1, <1>2, <1>3, <1>5, <1>6, <1>7, <1>8, <1>9, <1>10, <1>11 DEF MadeOf
<1>13. QED
  BY <1>3, <1>11, <1>12 DEF D

\* A setup keeps its language, or the framework it has is not known.
LanguageKept(d, fields) ==
  d.deps.language = None => fields.framework # None /\ LanguageOf(fields.framework) = None

\* infer_assignment_design: the same with what the brief's words say.
LEMMA Inferred ==
  ASSUME NEW s, SetupOK(s), NEW w, NEW h
  PROVE  /\ MadeOf(InferDesign(w, h, s), s.fields, s)
         /\ LanguageKept(InferDesign(w, h, s), s.fields)
         /\ h # None => InferDesign(w, h, s).package = h
<1> DEFINE text == w \cup UNION {item.names : item \in s.stack}
           st == InferStack(text, s.fields)
           dd == [s.fields EXCEPT !.language = st.language, !.framework = st.framework]
           signal == text \cup UNION {t.words : t \in s.sources}
           fam == Family(signal)
           pack == InferPackage(signal, h)
           D == InferDesign(w, h, s)
<1>1. D = BuildDesign(Contract(fam, dd, s), pack, dd, s)
  BY DEF InferDesign
<1> HIDE DEF fam, D
<1>2. /\ s.fields.language # None => st.language = s.fields.language
      /\ s.fields.framework # None => st.framework = s.fields.framework
      /\ st.language = None => s.fields.framework # None /\ LanguageOf(s.fields.framework) = None
  BY StackInferred
<1> HIDE DEF st
<1>3. dd = [f \in Fields |-> dd[f]]
  BY DEF SetupOK
<1>4. /\ dd.language = st.language /\ dd.framework = st.framework
      /\ \A f \in Fields \ {"language", "framework"} : dd[f] = s.fields[f]
  BY DEF SetupOK, Fields
<1>5. h # None => pack = h
  BY DEF InferPackage
<1>6. dd.database = s.fields.database /\ dd.cache = s.fields.cache
  BY <1>4 DEF Fields
<1> HIDE DEF dd, pack
<1>7. MadeOf(D, dd, s) /\ D.package = pack /\ D.deps.language = dd.language
  <2>1. /\ MadeOf(BuildDesign(Contract(fam, dd, s), pack, dd, s), dd, s)
        /\ BuildDesign(Contract(fam, dd, s), pack, dd, s).package = pack
        /\ BuildDesign(Contract(fam, dd, s), pack, dd, s).deps.language = dd.language
    BY <1>3, DesignBuilt
  <2>2. QED
    BY <1>1, <2>1, Zenon
<1>8. \A f \in Fields : s.fields[f] # None => dd[f] = s.fields[f]
  BY <1>2, <1>4 DEF Fields
<1>9. NamesApart(s.fields) => NamesApart(dd)
  BY <1>6 DEF NamesApart
<1>10. MadeOf(D, s.fields, s)
  BY <1>6, <1>7, <1>8, <1>9 DEF MadeOf
<1>11. LanguageKept(D, s.fields)
  BY <1>2, <1>4, <1>7 DEF LanguageKept
<1>12. QED
  BY <1>5, <1>7, <1>10, <1>11 DEF D

\* _with_package_type of an inferred design is the design inferred for that type.
LEMMA PackageGiven ==
  ASSUME NEW s, NEW w, NEW h, NEW p, p # None
  PROVE  WithPackage(InferDesign(w, h, s), p) = InferDesign(w, p, s)
<1> DEFINE text == w \cup UNION {item.names : item \in s.stack}
           st == InferStack(text, s.fields)
           dd == [s.fields EXCEPT !.language = st.language, !.framework = st.framework]
           signal == text \cup UNION {t.words : t \in s.sources}
           C == Contract(Family(signal), dd, s)
           h1 == InferPackage(signal, h)
<1>1. InferDesign(w, h, s) = BuildDesign(C, h1, dd, s)
  BY DEF InferDesign
<1>2. InferPackage(signal, p) = p
  BY DEF InferPackage
<1>3. InferDesign(w, p, s) = BuildDesign(C, p, dd, s)
  BY <1>2 DEF InferDesign
<1> HIDE DEF C, dd, h1
<1>4. WithPackage(BuildDesign(C, h1, dd, s), p) = BuildDesign(C, p, dd, s)
  <2> DEFINE R == C.runtime
             Backing(version, name) ==
               IF name = None \/ version # None THEN version ELSE VersionOf(R.services, name)
             DD == [dd EXCEPT !.languageVersion = R.languageVersion, !.frameworkVersion = R.frameworkVersion,
                              !.manager = R.manager,
                              !.databaseVersion = Backing(dd.databaseVersion, dd.database),
                              !.cacheVersion = Backing(dd.cacheVersion, dd.cache)]
             fixtures == IF Paths(s) = {} /\ C.family \in {"grounded_retrieval", "ranked_retrieval"}
                         THEN {"data/corpus.json"} ELSE Paths(s)
             D(k) == [family |-> C.family, package |-> k, shared |-> k = "progressive", deps |-> DD,
                      starter |-> s.starter, stack |-> s.stack, sources |-> s.sources,
                      fixtures |-> fixtures, binding |-> C.binding, runtime |-> R]
  <2>1. \A k : BuildDesign(C, k, dd, s) = D(k)
    BY DEF BuildDesign, Paths
  <2> HIDE DEF DD, fixtures, R
  <2>2. \A k : WithPackage(D(k), p) = D(p)
    <3> SUFFICES ASSUME NEW k PROVE WithPackage(D(k), p) = D(p)
      OBVIOUS
    <3> DEFINE was == k = "progressive"
               is == p = "progressive"
               E(q, sh) == [family |-> C.family, package |-> q, shared |-> sh, deps |-> DD,
                            starter |-> s.starter, stack |-> s.stack, sources |-> s.sources,
                            fixtures |-> fixtures, binding |-> C.binding, runtime |-> R]
    <3>1. D(k) = E(k, was) /\ D(p) = E(p, is)
      OBVIOUS
    <3>2. WithPackage(D(k), p) = [D(k) EXCEPT !.package = p, !.shared = is]
      BY DEF WithPackage
    <3> HIDE DEF was, is, D
    <3>3. [E(k, was) EXCEPT !.package = p, !.shared = is] = E(p, is)
      <4> DEFINE e == [E(k, was) EXCEPT !.package = p, !.shared = is]
                 parts == {"family", "package", "shared", "deps", "starter", "stack", "sources",
                           "fixtures", "binding", "runtime"}
      <4>1. e = [f \in parts |-> e[f]] /\ E(p, is) = [f \in parts |-> E(p, is)[f]]
        OBVIOUS
      <4>2. /\ e.family = C.family /\ e.package = p /\ e.shared = is /\ e.deps = DD /\ e.starter = s.starter
            /\ e.stack = s.stack /\ e.sources = s.sources /\ e.fixtures = fixtures
            /\ e.binding = C.binding /\ e.runtime = R
        OBVIOUS
      <4> HIDE DEF e
      <4>3. \A f \in parts : e[f] = E(p, is)[f]
        BY <4>2
      <4> HIDE DEF parts, E
      <4>4. QED
        BY <4>1, <4>3, Zenon DEF e
    <3>4. QED
      BY <3>1, <3>2, <3>3
  <2>3. QED
    BY <2>1, <2>2
<1>5. QED
  BY <1>1, <1>3, <1>4 DEF h1

\* _apply_creator_choices_to_design_spec over a design made for the same choices
\* changes its runtime plan only, which it builds of what the design says now.
LEMMA ChoicesLaid ==
  ASSUME NEW s, SetupOK(s), NEW D, MadeOf(D, s.fields, s)
  PROVE  WithChoices(D, s) = [D EXCEPT !.runtime = RuntimePlan(D.deps, s.stack, s.sources, FALSE)]
<1>1. [f \in Fields |-> Resolved(s.fields[f], D.deps[f])] = D.deps
  <2>1. \A f \in Fields : Resolved(s.fields[f], D.deps[f]) = D.deps[f]
    BY DEF Resolved, Or, MadeOf
  <2>2. D.deps = [f \in Fields |-> D.deps[f]]
    BY DEF MadeOf
  <2>3. QED
    BY <2>1, <2>2, Zenon
<1>2. /\ D.starter = s.starter /\ D.stack = s.stack /\ D.sources = s.sources
      /\ D.binding = RuntimeBinding(D.deps, s.sources)
      /\ Paths(s) # {} => D.fixtures = Paths(s)
  BY DEF MadeOf
<1>3. D = [family |-> D.family, package |-> D.package, shared |-> D.shared, deps |-> D.deps,
           starter |-> D.starter, stack |-> D.stack, sources |-> D.sources,
           fixtures |-> D.fixtures, binding |-> D.binding, runtime |-> D.runtime]
  BY DEF MadeOf
<1>4. WithChoices(D, s)
      = [D EXCEPT !.deps = D.deps, !.starter = s.starter, !.stack = s.stack, !.sources = s.sources,
                  !.fixtures = IF Paths(s) # {} THEN Paths(s) ELSE D.fixtures,
                  !.binding = RuntimeBinding(D.deps, s.sources),
                  !.runtime = RuntimePlan(D.deps, s.stack, s.sources, FALSE)]
  <2> DEFINE deps == [f \in Fields |-> Resolved(s.fields[f], D.deps[f])]
             stack == IF s.stack # {} THEN s.stack ELSE D.stack
             sources == IF s.sources # {} THEN s.sources ELSE D.sources
  <2>1. WithChoices(D, s)
        = [D EXCEPT !.deps = deps, !.starter = s.starter, !.stack = stack, !.sources = sources,
                    !.fixtures = IF Paths(s) # {} THEN Paths(s) ELSE @,
                    !.binding = RuntimeBinding(deps, sources),
                    !.runtime = RuntimePlan(deps, stack, sources, FALSE)]
    BY DEF WithChoices, Paths
  <2>2. stack = s.stack /\ sources = s.sources /\ deps = D.deps
    BY <1>1, <1>2
  <2> HIDE DEF deps, stack, sources
  <2>3. QED
    BY <1>3, <2>1, <2>2
<1> DEFINE F == IF Paths(s) # {} THEN Paths(s) ELSE D.fixtures
<1>5. F = D.fixtures
  BY <1>2
<1> HIDE DEF F
<1>6. WithChoices(D, s)
      = [D EXCEPT !.deps = D.deps, !.starter = s.starter, !.stack = s.stack, !.sources = s.sources,
                  !.fixtures = F, !.binding = RuntimeBinding(D.deps, s.sources),
                  !.runtime = RuntimePlan(D.deps, s.stack, s.sources, FALSE)]
  BY <1>4 DEF F
<1>7. QED
  BY <1>2, <1>3, <1>5, <1>6

\* Where the runtime plan and the binding are built of what the design says, the
\* three tell one stack.
LEMMA ToldAlike ==
  ASSUME NEW d, NEW stack, NEW sources,
         d.binding = RuntimeBinding(d.deps, sources),
         d.runtime = RuntimePlan(d.deps, stack, sources, FALSE)
  PROVE  Coherent(d)
<1> DEFINE dd == d.deps
           runtime == d.runtime
           bound == d.binding
<1>0. runtime = RuntimePlan(dd, stack, sources, FALSE) /\ bound = RuntimeBinding(dd, sources)
  OBVIOUS
<1> HIDE DEF dd, runtime, bound
<1> DEFINE Service(nth, name, version) ==
             IF name = None THEN {} ELSE {[nth |-> nth, id |-> name, version |-> version]}
           services == {[nth |-> 1, id |-> "app", version |-> Or(dd.frameworkVersion, dd.languageVersion)]}
                         \cup Service(2, dd.database, dd.databaseVersion)
                         \cup Service(3, dd.cache, dd.cacheVersion)
                         \cup {[nth |-> 4, id |-> id, version |-> None] : id \in Served(sources)}
<1>1. runtime = [language |-> dd.language, languageVersion |-> dd.languageVersion,
                   framework |-> dd.framework, frameworkVersion |-> dd.frameworkVersion,
                   manager |-> dd.manager, services |-> services]
  BY <1>0 DEF RuntimePlan, Or, None
<1>2. /\ bound.language = dd.language /\ bound.framework = dd.framework
      /\ bound.services = ({dd.database, dd.cache} \ {None}) \cup Served(sources)
  BY <1>0 DEF RuntimeBinding
<1>3. {s.id : s \in services} = bound.services \cup {"app"}
  <2>1. ASSUME NEW s \in services PROVE s.id \in bound.services \cup {"app"}
    BY <1>2
  <2>2. ASSUME NEW id \in bound.services \cup {"app"} PROVE \E s \in services : s.id = id
    <3>1. CASE id = "app"
      <4>1. [nth |-> 1, id |-> "app", version |-> Or(dd.frameworkVersion, dd.languageVersion)] \in services
        OBVIOUS
      <4>2. QED
        BY <3>1, <4>1
    <3>2. CASE id # None /\ id = dd.database
      <4>1. [nth |-> 2, id |-> id, version |-> dd.databaseVersion] \in services
        BY <3>2
      <4>2. QED
        BY <4>1
    <3>3. CASE id # None /\ id = dd.cache
      <4>1. [nth |-> 3, id |-> id, version |-> dd.cacheVersion] \in services
        BY <3>3
      <4>2. QED
        BY <4>1
    <3>4. CASE id \in Served(sources)
      <4>1. [nth |-> 4, id |-> id, version |-> None] \in services
        BY <3>4
      <4>2. QED
        BY <4>1
    <3>5. QED
      BY <1>2, <2>2, <3>1, <3>2, <3>3, <3>4
  <2> HIDE DEF services
  <2>3. QED
    BY <2>1, <2>2
<1>4. ASSUME NEW s \in services
      PROVE  /\ s.nth = 2 => s.id = dd.database /\ s.version = dd.databaseVersion
             /\ s.nth = 3 => s.id = dd.cache /\ s.version = dd.cacheVersion
  OBVIOUS
<1> HIDE DEF services
<1>5. \A f \in Fields \cap DOMAIN runtime : runtime[f] = dd[f]
  <2>1. DOMAIN runtime = {"language", "languageVersion", "framework", "frameworkVersion", "manager", "services"}
    BY <1>1
  <2>2. /\ runtime.language = dd.language /\ runtime.languageVersion = dd.languageVersion
        /\ runtime.framework = dd.framework /\ runtime.frameworkVersion = dd.frameworkVersion
        /\ runtime.manager = dd.manager
    BY <1>1
  <2>3. Fields \cap DOMAIN runtime \subseteq {"language", "languageVersion", "framework", "frameworkVersion", "manager"}
    BY <2>1 DEF Fields
  <2>4. \A f \in {"language", "languageVersion", "framework", "frameworkVersion", "manager"} : runtime[f] = dd[f]
    BY <2>2
  <2>5. QED
    BY <2>3, <2>4, Zenon
<1>6. runtime.services = services
  BY <1>1
<1>7. {s.id : s \in runtime.services} = bound.services \cup {"app"}
  BY <1>3, <1>6
<1>8. \A s \in runtime.services :
        /\ s.nth = 2 => s.id = dd.database /\ s.version = dd.databaseVersion
        /\ s.nth = 3 => s.id = dd.cache /\ s.version = dd.cacheVersion
  BY <1>4, <1>6
<1>9. /\ \A f \in Fields \cap DOMAIN runtime : runtime[f] = dd[f]
      /\ bound.language = dd.language /\ bound.framework = dd.framework
  BY <1>2, <1>5, Zenon
<1>10. QED
  BY <1>7, <1>8, <1>9, Zenon DEF Coherent, dd, runtime, bound

\* What a design laid under the choices is.
LEMMA LaidRight ==
  ASSUME NEW s, SetupOK(s), NEW w, NEW p, p # None
  PROVE  /\ MadeOf(Laid(w, p, s), s.fields, s) /\ LanguageKept(Laid(w, p, s), s.fields)
         /\ Laid(w, p, s).package = p
         /\ Laid(w, p, s).shared = (p = "progressive")
         /\ Coherent(Laid(w, p, s))
         /\ WithChoices(Laid(w, p, s), s) = Laid(w, p, s)
         /\ WithPackage(Laid(w, p, s), p) = Laid(w, p, s)
         /\ NamesApart(s.fields) => Laid(w, p, s) = InferDesign(w, p, s)
<1> DEFINE D == InferDesign(w, p, s)
           L == Laid(w, p, s)
           R == RuntimePlan(D.deps, s.stack, s.sources, FALSE)
<1>1. MadeOf(D, s.fields, s) /\ LanguageKept(D, s.fields) /\ D.package = p
  BY Inferred
<1>2. L = [D EXCEPT !.runtime = R]
  BY <1>1, ChoicesLaid DEF Laid
<1> HIDE DEF D, L, R
<1>3. D = [family |-> D.family, package |-> p, shared |-> p = "progressive", deps |-> D.deps,
           starter |-> s.starter, stack |-> s.stack, sources |-> s.sources,
           fixtures |-> D.fixtures, binding |-> D.binding, runtime |-> D.runtime]
  BY <1>1 DEF MadeOf
<1>4. L = [family |-> D.family, package |-> p, shared |-> p = "progressive", deps |-> D.deps,
           starter |-> s.starter, stack |-> s.stack, sources |-> s.sources,
           fixtures |-> D.fixtures, binding |-> D.binding, runtime |-> R]
  BY <1>2, <1>3
<1>5. /\ L.family = D.family /\ L.package = p /\ L.deps = D.deps /\ L.fixtures = D.fixtures
      /\ L.binding = D.binding /\ L.runtime = R /\ L.shared = (p = "progressive")
  BY <1>4
<1>6. L.runtime = RuntimePlan(L.deps, s.stack, s.sources, FALSE)
  BY <1>5 DEF R
<1>7. MadeOf(L, s.fields, s)
  BY <1>1, <1>4, <1>5, <1>6 DEF MadeOf, HasCorpus
<1>8. LanguageKept(L, s.fields)
  BY <1>1, <1>5 DEF LanguageKept
<1>9. Coherent(L)
  BY <1>6, <1>7, ToldAlike DEF MadeOf
<1>10. WithChoices(L, s) = L
  <2>1. WithChoices(L, s) = [L EXCEPT !.runtime = L.runtime]
    BY <1>6, <1>7, ChoicesLaid
  <2>2. QED
    BY <1>4, <2>1
<1>11. WithPackage(L, p) = L
  <2> DEFINE is == p = "progressive"
  <2>1. WithPackage(L, p) = [L EXCEPT !.package = p, !.shared = is]
    BY DEF WithPackage
  <2>2. L.shared = is
    BY <1>5
  <2> HIDE DEF is
  <2>3. QED
    BY <1>4, <1>5, <2>1, <2>2
<1>12. NamesApart(s.fields) => L = D
  <2>1. NamesApart(s.fields) => D.runtime = R
    BY <1>1 DEF MadeOf, R
  <2>2. QED
    BY <1>3, <1>4, <2>1
<1>13. QED
  BY <1>5, <1>7, <1>8, <1>9, <1>10, <1>11, <1>12 DEF L, D

-----------------------------------------------------------------------------

\* _resolve_creator_setup leaves what was chosen.
LEMMA ChosenOK ==
  ASSUME SetupOK(brief.setup)
  PROVE  /\ SetupOK(Chosen) /\ Chosen.fields = brief.setup.fields
         /\ brief.setup.sources # {} => Chosen.sources = brief.setup.sources
         /\ brief.setup.starter # None => Chosen.starter = brief.setup.starter
<1> DEFINE goal == brief.goal
           starter == Or(brief.setup.starter, IF "blank" \in goal THEN "empty" ELSE "partial")
           sources == IF brief.setup.sources # {} THEN brief.setup.sources
                      ELSE IF "letters" \in goal THEN {PrimaryCorpus} ELSE {}
<1>1. Chosen = [starter |-> starter, fields |-> brief.setup.fields, stack |-> brief.setup.stack, sources |-> sources]
  <2>1. Chosen = [brief.setup EXCEPT !.starter = starter, !.sources = sources]
    BY DEF Chosen, ResolveSetup
  <2> HIDE DEF starter, sources
  <2>2. QED
    BY <2>1 DEF SetupOK
<1>2. /\ brief.setup.sources # {} => sources = brief.setup.sources
      /\ brief.setup.starter # None => starter = brief.setup.starter
  BY DEF Or
<1> HIDE DEF starter, sources
<1>3. QED
  BY <1>1, <1>2 DEF SetupOK

\* What a planner made, live or not, and what its normalization makes of each
\* design in it.
Fitting(made) ==
  LET q == Or(brief.hint, made.package)
      Fit(design) == WithChoices(WithPackage(design, q), Chosen)
  IN  /\ made = [title |-> made.title, package |-> made.package, design |-> made.design,
                 deliverables |-> [i \in DOMAIN made.deliverables |-> made.deliverables[i]]]
      /\ made.package \in Packages
      /\ Fit(made.design) = Laid(made.title \cup brief.goal, q, Chosen)
      /\ \A i \in DOMAIN made.deliverables :
           \E words \in Titles \cup {made.title \cup brief.goal} :
             Fit(made.deliverables[i]) = Laid(words, q, Chosen)

\* A plan that is offered is right, whatever the planner said.
LEMMA OfferRight ==
  ASSUME SetupOK(brief.setup), brief.hint \in Packages \cup {None},
         NEW made, Fitting(made), NEW texts, Offer(made, texts, Chosen)
  PROVE  PlanRight'
<1> DEFINE q == Or(brief.hint, made.package)
           s == Chosen
           w == made.title \cup brief.goal
           L == Laid(w, q, s)
           parts == [i \in DOMAIN made.deliverables |->
                       IF q = "progressive" THEN L ELSE WithChoices(WithPackage(made.deliverables[i], q), s)]
           normal == Normalize(made, brief.hint, s)
           offered == CreatorDeliverables([normal EXCEPT !.design = L], texts)
<1>1. SetupOK(s)
  BY ChosenOK
<1>2. q \in Packages /\ q # None /\ (brief.hint # None => q = brief.hint)
  BY DEF Fitting, Or, Packages, None
<1>3. /\ WithChoices(WithPackage(made.design, q), s) = L
      /\ \A i \in DOMAIN made.deliverables :
           \E words \in Titles \cup {w} : WithChoices(WithPackage(made.deliverables[i], q), s) = Laid(words, q, s)
      /\ made = [title |-> made.title, package |-> made.package, design |-> made.design,
                 deliverables |-> [i \in DOMAIN made.deliverables |-> made.deliverables[i]]]
  BY Zenon DEF Fitting
<1>4. normal = [title |-> made.title, package |-> q, design |-> L, deliverables |-> parts]
  <2>1. normal = [made EXCEPT !.package = q, !.design = L, !.deliverables = parts]
    BY <1>3 DEF Normalize
  <2> HIDE DEF q, L, parts, normal
  <2>2. QED
    BY <1>3, <2>1
<1>5. WithChoices(L, s) = L
  BY <1>1, <1>2, LaidRight
<1>6. /\ DOMAIN parts = DOMAIN made.deliverables
      /\ \A i \in DOMAIN parts : \E words \in Titles \cup {w} : parts[i] = Laid(words, q, s)
      /\ q = "progressive" => \A i \in DOMAIN parts : parts[i] = L
  <2> HIDE DEF q, w
  <2>1. QED
    BY <1>3
<1>7. /\ offered = [i \in DOMAIN offered |-> offered[i]]
      /\ \A i \in DOMAIN offered : \E words \in Titles \cup {w} : offered[i] = Laid(words, q, s)
      /\ q = "progressive" => \A i \in DOMAIN offered : offered[i] = L
  <2> DEFINE m == [normal EXCEPT !.design = L]
  <2>1. m.design = L /\ m.deliverables = parts
    <3> HIDE DEF normal, L, parts
    <3>1. QED
      BY <1>4
  <2>2. CASE offered = Fallback(m.design)
    <3>1. offered = [i \in 1..FallbackSize(L) |-> L]
      BY <2>1, <2>2 DEF Fallback
    <3> HIDE DEF offered, q, L, w
    <3>2. L = Laid(w, q, s)
      BY DEF L
    <3>3. QED
      BY <3>1, <3>2
  <2>3. CASE offered = m.deliverables
    <3>1. offered = parts /\ parts = [i \in DOMAIN parts |-> parts[i]]
      BY <2>1, <2>3
    <3> HIDE DEF offered, parts
    <3>2. QED
      BY <1>6, <3>1
  <2>4. QED
    BY <2>2, <2>3 DEF CreatorDeliverables
<1>8. \A i \in DOMAIN offered : WithChoices(offered[i], s) = offered[i]
  <2> SUFFICES ASSUME NEW i \in DOMAIN offered PROVE WithChoices(offered[i], s) = offered[i]
    OBVIOUS
  <2>1. PICK words : offered[i] = Laid(words, q, s)
    BY <1>7
  <2>2. WithChoices(Laid(words, q, s), s) = Laid(words, q, s)
    BY <1>1, <1>2, LaidRight
  <2>3. QED
    BY <2>1, <2>2
<1>9. plan' = [title |-> made.title, goal |-> brief.goal, package |-> q, setup |-> s, design |-> L,
               deliverables |-> [i \in DOMAIN offered |-> offered[i]]]
  <2>1. normal.title = made.title /\ normal.package = q /\ normal.design = L
    <3> HIDE DEF normal, q, L, parts
    <3>1. QED
      BY <1>4
  <2>2. plan' = [title |-> made.title, goal |-> brief.goal, package |-> q, setup |-> s, design |-> L,
                 deliverables |-> [i \in DOMAIN offered |-> WithChoices(offered[i], s)]]
    BY <1>5, <2>1 DEF Offer
  <2> HIDE DEF offered, q, L
  <2>3. QED
    BY <1>8, <2>2
<1>10. UNCHANGED brief /\ Chosen' = s
  BY DEF Offer, Chosen
<1> HIDE DEF offered, q, w, parts, normal
<1>11. /\ plan'.title = made.title /\ plan'.package = q /\ plan'.design = L /\ plan'.deliverables = offered
  BY <1>7, <1>9
<1>12. QED
  BY <1>2, <1>7, <1>9, <1>10, <1>11 DEF PlanRight, w

\* _fallback_plan.
LEMMA FallbackFits ==
  ASSUME SetupOK(brief.setup), brief.hint \in Packages \cup {None}
  PROVE  Fitting(FallbackPlan(brief.goal, brief.hint, Chosen))
<1> DEFINE s == Chosen
           inferred == InferDesign(brief.goal, brief.hint, s)
           p == PreferredPackage(brief.goal, brief.hint, inferred.package)
           L == Laid(brief.goal, p, s)
           made == FallbackPlan(brief.goal, brief.hint, s)
<1>1. SetupOK(s)
  BY ChosenOK
<1>2. inferred.package \in Packages
  <2>1. \A text : InferPackage(text, brief.hint) \in Packages
    BY DEF InferPackage, Packages, None
  <2>2. \E text : inferred.package = InferPackage(text, brief.hint)
    <3> DEFINE text == brief.goal \cup UNION {item.names : item \in s.stack}
               st == InferStack(text, s.fields)
               dd == [s.fields EXCEPT !.language = st.language, !.framework = st.framework]
               signal == text \cup UNION {t.words : t \in s.sources}
               fam == Family(signal)
    <3>1. inferred = BuildDesign(Contract(fam, dd, s), InferPackage(signal, brief.hint), dd, s)
      BY DEF InferDesign
    <3> HIDE DEF fam, dd, signal, inferred
    <3>2. inferred.package = InferPackage(signal, brief.hint)
      BY <3>1 DEF BuildDesign
    <3>3. QED
      BY <3>2
  <2>3. QED
    BY <2>1, <2>2
<1>3. p \in Packages /\ (brief.hint # None => p = brief.hint)
  BY <1>2 DEF PreferredPackage, Packages
<1>4. p # None
  BY <1>3 DEF Packages, None
<1>5. WithChoices(WithPackage(inferred, p), s) = L
  BY <1>4, PackageGiven DEF Laid
<1>6. made = [title |-> {}, package |-> p, design |-> L, deliverables |-> Fallback(L)]
  BY <1>5 DEF FallbackPlan
<1>7. Or(brief.hint, p) = p
  BY <1>3 DEF Or
<1>8. WithChoices(WithPackage(L, p), s) = L
  BY <1>1, <1>4, LaidRight
<1> HIDE DEF p, made
<1>9. made.title \cup brief.goal = brief.goal
  BY <1>6
<1>10. made.package = p /\ made.design = L /\ made.deliverables = [i \in 1..FallbackSize(L) |-> L]
  BY <1>6 DEF Fallback
<1>11. made = [title |-> made.title, package |-> made.package, design |-> made.design,
               deliverables |-> [i \in DOMAIN made.deliverables |-> made.deliverables[i]]]
  BY <1>6 DEF Fallback
<1> HIDE DEF L
<1>12. \A i \in DOMAIN made.deliverables : made.deliverables[i] = L
  BY <1>10
<1>13. QED
  BY <1>3, <1>7, <1>8, <1>9, <1>10, <1>11, <1>12 DEF Fitting, L, made

\* _normalize_raw_plan, of any answer.
LEMMA LiveFits ==
  ASSUME SetupOK(brief.setup), brief.hint \in Packages \cup {None}, NEW answer \in Answers
  PROVE  Fitting(LivePlan(brief.goal, brief.hint, Chosen, answer))
<1> DEFINE s == Chosen
           made == LivePlan(brief.goal, brief.hint, s, answer)
           q == Or(brief.hint, answer.package)
<1>1. PICK n \in 1..MaxPlanned : answer.deliverables \in [1..n -> Titles]
  BY DEF Answers
<1>2. answer.package \in Packages
  BY DEF Answers
<1>3. q # None
  BY <1>2 DEF Or, Packages, None
<1>4. made = [title |-> answer.title, package |-> answer.package,
              design |-> InferDesign(answer.title \cup brief.goal, brief.hint, s),
              deliverables |-> [i \in DOMAIN answer.deliverables |-> InferDesign(answer.deliverables[i], brief.hint, s)]]
  BY DEF LivePlan
<1>5. \A w : WithChoices(WithPackage(InferDesign(w, brief.hint, s), q), s) = Laid(w, q, s)
  BY <1>3, PackageGiven DEF Laid
<1> HIDE DEF made, q
<1>6. /\ made.title = answer.title /\ made.package = answer.package
      /\ made.design = InferDesign(answer.title \cup brief.goal, brief.hint, s)
      /\ made.deliverables = [i \in 1..n |-> InferDesign(answer.deliverables[i], brief.hint, s)]
  BY <1>1, <1>4
<1>7. made = [title |-> made.title, package |-> made.package, design |-> made.design,
              deliverables |-> [i \in DOMAIN made.deliverables |-> made.deliverables[i]]]
  BY <1>1, <1>4, <1>6
<1>8. \A i \in DOMAIN made.deliverables :
        \E words \in Titles : WithChoices(WithPackage(made.deliverables[i], q), s) = Laid(words, q, s)
  BY <1>1, <1>5, <1>6
<1>9. QED
  BY <1>2, <1>5, <1>6, <1>7, <1>8 DEF Fitting, q, made

-----------------------------------------------------------------------------

\* No brief is at work, or one begins.
LEMMA DesignBegins == BundleInit => DesignInv
<1>1. NoPlan.package = None
  BY DEF NoPlan
<1>2. QED
  BY DEF BundleInit, DesignInit, DesignInv

\* Each request of the creator keeps it; what is done to files does not touch it.
LEMMA DesignKeeps == DesignInv /\ [BundleNext]_allVars => DesignInv'
<1> SUFFICES ASSUME DesignInv, [BundleNext]_allVars PROVE DesignInv'
  OBVIOUS
<1> USE DesignAssumption
<1>1. ASSUME UNCHANGED designVars PROVE DesignInv'
  <2>1. UNCHANGED <<stage, brief, plan, course>>
    BY <1>1 DEF designVars
  <2>2. (PlanRight <=> PlanRight') /\ Awaited(plan) = Awaited(plan)' /\ Built(Generated(plan)) = Built(Generated(plan))'
    BY <2>1 DEF PlanRight, Chosen, Awaited, Built, Generated, Specs
  <2>3. QED
    BY <2>1, <2>2 DEF DesignInv
<1>2. ASSUME stage # "old" PROVE SetupOK(brief.setup) /\ brief.hint \in Packages \cup {None}
  BY <1>2 DEF DesignInv, DesignAssumption, SetupOK
<1>3. CASE PlanByFallback
  <2>1. stage = "brief" /\ \E texts : Offer(FallbackPlan(brief.goal, brief.hint, Chosen), texts, Chosen)
    BY <1>3 DEF PlanByFallback, Chosen
  <2>2. PlanRight'
    BY <1>2, <2>1, FallbackFits, OfferRight
  <2>3. stage' = "planned" /\ UNCHANGED <<brief, course>>
    BY <2>1 DEF Offer
  <2>4. QED
    BY <2>1, <2>2, <2>3 DEF DesignInv
<1>4. CASE PlanLive
  <2>1. stage = "brief"
        /\ \E answer \in Answers : \E texts : Offer(LivePlan(brief.goal, brief.hint, Chosen, answer), texts, Chosen)
    BY <1>4 DEF PlanLive, Chosen
  <2>2. PlanRight'
    BY <1>2, <2>1, LiveFits, OfferRight
  <2>3. stage' = "planned" /\ UNCHANGED <<brief, course>>
    BY <2>1 DEF Offer
  <2>4. QED
    BY <2>1, <2>2, <2>3 DEF DesignInv
<1>5. CASE CreateCourse \/ QueueCourse \/ FinishQueued
  <2>1. UNCHANGED <<brief, plan>>
    BY <1>5 DEF CreateCourse, QueueCourse, FinishQueued
  <2>2. (PlanRight <=> PlanRight') /\ Awaited(plan) = Awaited(plan)' /\ Built(Generated(plan)) = Built(Generated(plan))'
    BY <2>1 DEF PlanRight, Chosen, Awaited, Built, Generated, Specs
  <2>3. QED
    BY <1>5, <2>1, <2>2 DEF CreateCourse, QueueCourse, FinishQueued, DesignInv
<1>6. CASE DesignNext
  BY <1>3, <1>4, <1>5, <1>6 DEF DesignNext
<1>7. CASE BundleNext
  <2>1. DesignNext \/ UNCHANGED designVars
    BY <1>7 DEF BundleNext, Materialize, WorkspaceLost, Publish, SeedWorkspace, LearnerEdits
  <2>2. QED
    BY <1>1, <1>6, <2>1
<1>8. QED
  BY <1>1, <1>7 DEF allVars

\* The choices of a creator in every design there is, at every stage of a brief,
\* for all briefs, choices and answers of a planner.
THEOREM DesignInvariance == BundleSpec => []DesignInv
BY DesignBegins, DesignKeeps, PTL DEF BundleSpec

\* A design made of the choices honours them.
LEMMA ChoicesHonoured ==
  ASSUME SetupOK(brief.setup), NEW d, MadeOf(d, Chosen.fields, Chosen), LanguageKept(d, Chosen.fields)
  PROVE  HonoursChoices(d) /\ HasCorpus(d)
<1>1. /\ Chosen.fields = brief.setup.fields
      /\ brief.setup.sources # {} => Chosen.sources = brief.setup.sources
      /\ brief.setup.starter # None => Chosen.starter = brief.setup.starter
  BY ChosenOK
<1>2. d.starter = Chosen.starter /\ d.sources = Chosen.sources
  BY DEF MadeOf
<1> HIDE DEF Chosen
<1>3. \A f \in Fields : brief.setup.fields[f] # None => d.deps[f] = brief.setup.fields[f]
  BY <1>1, Zenon DEF MadeOf
<1>4. d.deps.language \in {"python", "go"} => d.deps.languageVersion # None
  BY DEF MadeOf
<1>5. d.deps.language = None =>
        LanguageOf(brief.setup.fields.framework) = None /\ brief.setup.fields.framework # None
  BY <1>1 DEF LanguageKept
<1>6. HasCorpus(d)
  BY DEF MadeOf
<1>7. QED
  BY <1>1, <1>2, <1>3, <1>4, <1>5, <1>6, Zenon DEF HonoursChoices

\* A design of a plan that is offered.
Offered(d) == \E words : d = Laid(words, plan.package, Chosen)

\* All designs of a plan are offered, and are what is made of them again.
LEMMA PlanIsRight ==
  ASSUME SetupOK(brief.setup), PlanRight
  PROVE  /\ plan # NoPlan /\ plan.package \in Packages /\ plan.setup = Chosen
         /\ Offered(plan.design) /\ \A i \in DOMAIN plan.deliverables : Offered(plan.deliverables[i])
         /\ plan.deliverables = [i \in DOMAIN plan.deliverables |-> plan.deliverables[i]]
         /\ plan.package = "progressive" =>
              \A i \in DOMAIN plan.deliverables : plan.deliverables[i] = plan.design
         /\ NamesApart(plan.setup.fields) => Awaited(plan).design = plan.design
<1> DEFINE w == plan.title \cup brief.goal
<1>1. plan = [title |-> plan.title, goal |-> brief.goal, package |-> plan.package, setup |-> Chosen,
              design |-> Laid(w, plan.package, Chosen),
              deliverables |-> [i \in DOMAIN plan.deliverables |-> plan.deliverables[i]]]
  BY DEF PlanRight
<1>2. plan.package \in Packages /\ plan.package # None
  BY DEF PlanRight, Packages, None
<1>3. NoPlan.package = None
  BY DEF NoPlan
<1>4. \A i \in DOMAIN plan.deliverables : Offered(plan.deliverables[i])
  BY DEF PlanRight, Offered
<1>5. plan.package = "progressive" => \A i \in DOMAIN plan.deliverables : plan.deliverables[i] = plan.design
  BY DEF PlanRight
<1>6. SetupOK(Chosen)
  BY ChosenOK
<1> HIDE DEF w
<1>7. /\ plan.goal = brief.goal /\ plan.setup = Chosen /\ plan.design = Laid(w, plan.package, Chosen)
      /\ plan.deliverables = [i \in DOMAIN plan.deliverables |-> plan.deliverables[i]]
  BY <1>1
<1>8. NamesApart(Chosen.fields) => Laid(w, plan.package, Chosen) = InferDesign(w, plan.package, Chosen)
  BY <1>2, <1>6, LaidRight
<1>9. Awaited(plan).design = InferDesign(w, plan.package, Chosen)
  BY <1>7 DEF Awaited, w
<1>10. QED
  BY <1>2, <1>3, <1>4, <1>5, <1>7, <1>8, <1>9 DEF Offered

\* What a design that was offered is.
LEMMA OfferedRight ==
  ASSUME SetupOK(brief.setup), plan.package \in Packages, NEW d, Offered(d)
  PROVE  /\ HonoursChoices(d) /\ HasCorpus(d) /\ Coherent(d)
         /\ d.package = plan.package /\ (d.shared <=> d.package = "progressive")
         /\ WithChoices(d, Chosen) = d
<1>1. PICK words : d = Laid(words, plan.package, Chosen)
  BY DEF Offered
<1>2. SetupOK(Chosen) /\ plan.package # None
  BY ChosenOK DEF Packages, None
<1>3. /\ MadeOf(d, Chosen.fields, Chosen) /\ LanguageKept(d, Chosen.fields)
      /\ d.package = plan.package /\ d.shared = (plan.package = "progressive")
      /\ Coherent(d) /\ WithChoices(d, Chosen) = d
  BY <1>1, <1>2, LaidRight
<1>4. HonoursChoices(d) /\ HasCorpus(d)
  BY <1>3, ChoicesHonoured
<1>5. QED
  BY <1>3, <1>4

\* The course that is built is the plan.
LEMMA BuiltRight ==
  ASSUME SetupOK(brief.setup), PlanRight
  PROVE  Built(Generated(plan)) =
           [kind |-> "built", package |-> plan.package, design |-> plan.design,
            specs |-> IF plan.package = "progressive"
                      THEN <<[design |-> plan.design, deliverables |-> Len(plan.deliverables)]>>
                      ELSE [i \in DOMAIN plan.deliverables |-> [design |-> plan.deliverables[i], deliverables |-> 1]],
            deliverables |-> plan.deliverables]
<1> DEFINE g == Generated(plan)
           parts == plan.deliverables
<1>1. /\ plan.setup = Chosen /\ parts = [i \in DOMAIN parts |-> parts[i]]
      /\ WithChoices(plan.design, Chosen) = plan.design
      /\ \A i \in DOMAIN parts : WithChoices(parts[i], Chosen) = parts[i]
      /\ plan.package = "progressive" => \A i \in DOMAIN parts : parts[i] = plan.design
  BY PlanIsRight, OfferedRight
<1> HIDE DEF parts
<1>2. [i \in DOMAIN parts |-> WithChoices(parts[i], Chosen)] = parts
  BY <1>1
<1>3. g = [package |-> plan.package, design |-> plan.design, deliverables |-> parts]
  BY <1>1, <1>2 DEF Generated, parts
<1> HIDE DEF g
<1>4. g.package = plan.package /\ g.design = plan.design /\ g.deliverables = parts
  BY <1>3
<1>5. [i \in DOMAIN parts |-> IF plan.package = "progressive" THEN plan.design ELSE parts[i]] = parts
  BY <1>1
<1>6. QED
  BY <1>4, <1>5 DEF Built, Specs, g, parts

\* It says enough.
LEMMA DesignInvSound == DesignInv => DesignIsSound
<1> SUFFICES ASSUME DesignInv PROVE DesignIsSound
  OBVIOUS
<1> USE DesignAssumption
<1>1. CASE stage \in {"old", "brief"}
  <2>1. plan = NoPlan /\ course = NoCourse /\ stage # "built"
    BY <1>1 DEF DesignInv
  <2>2. Designs = {}
    BY <2>1 DEF Designs
  <2>3. QED
    BY <2>1, <2>2 DEF DesignIsSound
<1>2. CASE stage \notin {"old", "brief"}
  <2>1. SetupOK(brief.setup) /\ PlanRight
    BY <1>2 DEF DesignInv, SetupOK
  <2>2. /\ plan # NoPlan /\ plan.package \in Packages
        /\ Offered(plan.design) /\ \A i \in DOMAIN plan.deliverables : Offered(plan.deliverables[i])
        /\ plan.package = "progressive" => \A i \in DOMAIN plan.deliverables : plan.deliverables[i] = plan.design
        /\ brief.hint # None => plan.package = brief.hint
    BY <2>1, PlanIsRight DEF PlanRight
  <2> DEFINE Approved == {plan.design} \cup {plan.deliverables[i] : i \in DOMAIN plan.deliverables}
  <2>3. \A d \in Approved :
          /\ HonoursChoices(d) /\ HasCorpus(d) /\ Coherent(d)
          /\ d.package = plan.package /\ (d.shared <=> d.package = "progressive")
    BY <2>1, <2>2, OfferedRight
  <2>4. OnePackage(plan)
    BY <2>2, <2>3 DEF OnePackage
  <2>5. NoCourse.kind = None
    BY DEF NoCourse
  <2>6. CASE course = NoCourse
    <3>1. Designs = Approved /\ stage # "built"
      BY <2>2, <2>5, <2>6, <1>2 DEF Designs, DesignInv, Built, Awaited, None
    <3>2. QED
      BY <2>2, <2>3, <2>4, <2>6, <3>1 DEF DesignIsSound
  <2>7. CASE stage \in {"queued", "blocked"}
    <3>1. course = Awaited(plan)
      BY <2>7 DEF DesignInv
    <3> DEFINE d == InferDesign(plan.title \cup plan.goal, plan.package, plan.setup)
    <3>2. /\ course.kind = "placeholder" /\ course.package = plan.package /\ course.design = d
          /\ course.specs = <<>> /\ course.deliverables = <<>>
      BY <3>1 DEF Awaited
    <3>3. /\ HonoursChoices(d) /\ HasCorpus(d)
          /\ d.package = plan.package /\ (d.shared <=> d.package = "progressive")
      <4>1. plan.setup = Chosen /\ SetupOK(Chosen) /\ plan.package # None
        BY <2>1, <2>2, PlanIsRight, ChosenOK DEF Packages, None
      <4>2. MadeOf(d, Chosen.fields, Chosen) /\ LanguageKept(d, Chosen.fields) /\ d.package = plan.package
        BY <4>1, Inferred
      <4> HIDE DEF d
      <4>3. d.shared <=> d.package = "progressive"
        <5> DEFINE is == d.package = "progressive"
        <5>1. d.shared = is
          BY <4>2 DEF MadeOf
        <5>2. QED
          BY <5>1
      <4>4. QED
        BY <2>1, <4>2, <4>3, ChoicesHonoured
    <3>4. NamesApart(plan.setup.fields) => d = plan.design
      BY <2>1, <3>1, <3>2, PlanIsRight
    <3> HIDE DEF d
    <3>5. course # NoCourse
      BY <2>5, <3>2 DEF None
    <3>6. Designs = Approved \cup {d}
      BY <2>2, <3>2, <3>5 DEF Designs
    <3>7. OnePackage(course)
      BY <3>2, <3>3 DEF OnePackage
    <3>8. stage # "built"
      BY <2>7
    <3>9. QED
      BY <2>2, <2>3, <2>4, <3>2, <3>3, <3>4, <3>6, <3>7, <3>8 DEF DesignIsSound
  <2>8. CASE stage = "built"
    <3> DEFINE parts == plan.deliverables
               specs == IF plan.package = "progressive"
                        THEN <<[design |-> plan.design, deliverables |-> Len(parts)]>>
                        ELSE [i \in DOMAIN parts |-> [design |-> parts[i], deliverables |-> 1]]
    <3>1. course = [kind |-> "built", package |-> plan.package, design |-> plan.design,
                    specs |-> specs, deliverables |-> parts]
      BY <2>1, <2>8, BuiltRight DEF DesignInv
    <3>2. \A i \in DOMAIN specs :
            /\ specs[i].design = IF plan.package = "progressive" THEN plan.design ELSE parts[i]
            /\ specs[i].design \in Approved
      OBVIOUS
    <3> HIDE DEF specs
    <3>3. /\ course.kind = "built" /\ course.package = plan.package /\ course.design = plan.design
          /\ course.specs = specs /\ course.deliverables = parts
      BY <3>1
    <3>4. course # NoCourse
      BY <2>5, <3>3 DEF None
    <3>5. Designs = Approved
      BY <2>2, <3>2, <3>3, <3>4 DEF Designs
    <3>6. OnePackage(course)
      BY <2>4, <3>3 DEF OnePackage
    <3>7. QED
      BY <2>2, <2>3, <2>4, <3>2, <3>3, <3>5, <3>6 DEF DesignIsSound
  <2>9. QED
    BY <1>2, <2>6, <2>7, <2>8 DEF DesignInv
<1>3. QED
  BY <1>1, <1>2

\* For all briefs, choices and answers of a planner, what a creator chose is in
\* every design of the plan and of the course (course_generation_service.py's
\* _apply_creator_choices_to_design_spec), the parts of a design tell one stack,
\* and the course is built of the plan that was approved.
THEOREM DesignSound == BundleSpec => []DesignIsSound
<1>1. DesignInv => DesignIsSound
  BY DesignInvSound
<1>2. QED
  BY <1>1, DesignInvariance, PTL

-----------------------------------------------------------------------------
(* Bundle: lemmas *)

\* Some number of a set is the least.
LEMMA MinOf ==
  ASSUME NEW T \in SUBSET Nat, T # {}
  PROVE  Min(T) \in T
<1>1. PICK m \in T : \A n \in T : ~(<<n, m>> \in OpToRel(<, Nat))
  BY NatLessThanWellFounded, WFMin
<1>2. \A n \in T : ~(n < m)
  BY <1>1 DEF OpToRel
<1>3. \A n \in T : m <= n
  BY <1>2
<1>4. QED
  BY <1>3, Zenon DEF Min

-----------------------------------------------------------------------------
(* TaskSpec: reading a row *)

\* What _normalize_task_agent_spec_payload makes of a row.
LEMMA UpgradedIs ==
  ASSUME NEW r, IsRow(r)
  PROVE  LET U == Upgraded(r)
         IN  /\ U = [package |-> r.package, domain |-> r.domain, structure |-> StructureOf(r),
                     deps |-> DepsOf(r), plan |-> NoStack, contract |-> U.contract,
                     endpoints |-> EndpointsOf(r), canonical |-> {}, parts |-> U.parts,
                     checked |-> Or(r.checked, "yes")]
             /\ U.contract = IF r.contract # NoContract THEN r.contract
                             ELSE [plan |-> PlanOf(r),
                                   binding |-> [f \in Fields |-> IF f \in {"language", "framework"} THEN StackOf(r)[f] ELSE None]]
             /\ U.parts = [i \in DOMAIN r.parts |-> [r.parts[i] EXCEPT !.starter = None]]
<1> DEFINE contract == IF r.contract # NoContract THEN r.contract
                       ELSE [plan |-> PlanOf(r),
                             binding |-> [f \in Fields |-> IF f \in {"language", "framework"} THEN StackOf(r)[f] ELSE None]]
           parts == [i \in DOMAIN r.parts |-> [r.parts[i] EXCEPT !.starter = None]]
           checked == Or(r.checked, "yes")
           U == Upgraded(r)
<1>1. U = [r EXCEPT !.structure = StructureOf(r), !.deps = DepsOf(r), !.endpoints = EndpointsOf(r),
                      !.plan = NoStack, !.canonical = {}, !.contract = contract, !.parts = parts, !.checked = checked]
  BY DEF Upgraded
<1>2. r = [package |-> r.package, domain |-> r.domain, structure |-> r.structure, deps |-> r.deps,
           plan |-> r.plan, contract |-> r.contract, endpoints |-> r.endpoints,
           canonical |-> r.canonical, parts |-> r.parts, checked |-> r.checked]
  BY DEF IsRow
<1> HIDE DEF contract, parts, checked, U
<1>3. U = [package |-> r.package, domain |-> r.domain, structure |-> StructureOf(r),
           deps |-> DepsOf(r), plan |-> NoStack, contract |-> contract,
           endpoints |-> EndpointsOf(r), canonical |-> {}, parts |-> parts, checked |-> checked]
  BY <1>1, <1>2
<1>4. U.contract = contract /\ U.parts = parts
  BY <1>3
<1>5. QED
  BY <1>3, <1>4 DEF contract, parts, checked, U

\* A row that was read is read as it is.
LEMMA UpgradedOnce ==
  ASSUME NEW r, IsRow(r)
  PROVE  Upgraded(Upgraded(r)) = Upgraded(r)
<1> DEFINE U == Upgraded(r)
           S == StackOf(r)
           contract == IF r.contract # NoContract THEN r.contract
                       ELSE [plan |-> PlanOf(r),
                             binding |-> [f \in Fields |-> IF f \in {"language", "framework"} THEN S[f] ELSE None]]
           parts == [i \in DOMAIN r.parts |-> [r.parts[i] EXCEPT !.starter = None]]
<1>1. U = [package |-> r.package, domain |-> r.domain, structure |-> StructureOf(r),
           deps |-> DepsOf(r), plan |-> NoStack, contract |-> contract,
           endpoints |-> EndpointsOf(r), canonical |-> {}, parts |-> parts, checked |-> Or(r.checked, "yes")]
  <2> DEFINE V == U
  <2>1. /\ V = [package |-> r.package, domain |-> r.domain, structure |-> StructureOf(r),
                deps |-> DepsOf(r), plan |-> NoStack, contract |-> V.contract,
                endpoints |-> EndpointsOf(r), canonical |-> {}, parts |-> V.parts, checked |-> Or(r.checked, "yes")]
        /\ V.contract = contract /\ V.parts = parts
    BY UpgradedIs, Zenon
  <2> HIDE DEF V, contract, parts
  <2>2. QED
    BY <2>1 DEF V
<1> HIDE DEF U, S, contract, parts
<1>2. /\ U.package = r.package /\ U.structure = StructureOf(r) /\ U.deps = DepsOf(r) /\ U.plan = NoStack
      /\ U.contract = contract /\ U.endpoints = EndpointsOf(r) /\ U.canonical = {} /\ U.parts = parts
      /\ U.checked = Or(r.checked, "yes")
  BY <1>1
<1>3. StructureOf(U) = U.structure
  <2>1. CASE r.structure = NoStructure
    <3>1. U.structure = [shared |-> TRUE, scope |-> "course", mode |-> "cumulative"]
      BY <1>2, <2>1 DEF StructureOf
    <3>2. U.structure # NoStructure
      BY <3>1 DEF NoStructure
    <3>3. [U.structure EXCEPT !.shared = TRUE, !.scope = "course"] = U.structure
      <4> DEFINE yes == TRUE
                 all == [shared |-> yes, scope |-> "course", mode |-> "cumulative"]
      <4>1. U.structure = all
        BY <3>1
      <4> HIDE DEF yes
      <4>2. [all EXCEPT !.shared = yes, !.scope = "course"] = all
        <5> DEFINE e == [all EXCEPT !.shared = yes, !.scope = "course"]
                   parts3 == {"shared", "scope", "mode"}
        <5>1. e = [f \in parts3 |-> e[f]] /\ all = [f \in parts3 |-> all[f]]
          OBVIOUS
        <5>2. /\ e.shared = yes /\ e.scope = "course" /\ e.mode = "cumulative"
              /\ all.shared = yes /\ all.scope = "course" /\ all.mode = "cumulative"
          OBVIOUS
        <5> HIDE DEF e, all
        <5>3. \A f \in parts3 : e[f] = all[f]
          BY <5>2
        <5> HIDE DEF parts3
        <5>4. QED
          BY <5>1, <5>3, Zenon DEF e
      <4>3. QED
        BY <4>1, <4>2 DEF yes
    <3>4. QED
      BY <3>2, <3>3 DEF StructureOf
  <2>2. CASE r.structure # NoStructure
    <3>1. r.structure = [shared |-> r.structure.shared, scope |-> r.structure.scope, mode |-> r.structure.mode]
      BY <2>2 DEF IsRow
    <3>2. U.structure = IF r.package = "progressive" THEN [r.structure EXCEPT !.shared = TRUE, !.scope = "course"]
                        ELSE r.structure
      BY <1>2, <2>2 DEF StructureOf
    <3>3. U.structure # NoStructure
      BY <2>2, <3>1, <3>2 DEF NoStructure
    <3>4. QED
      BY <1>2, <3>1, <3>2, <3>3 DEF StructureOf
  <2>3. QED
    BY <2>1, <2>2
<1>4. contract # NoContract
  <2>1. [plan |-> PlanOf(r),
         binding |-> [f \in Fields |-> IF f \in {"language", "framework"} THEN S[f] ELSE None]] # NoContract
    BY DEF NoContract
  <2>2. QED
    BY <2>1 DEF contract
<1> DEFINE given == IF r.deps = NoDeps THEN NoStack ELSE r.deps.fields
           bound == IF r.contract = NoContract THEN NoStack ELSE r.contract.binding
           planned == PlanOf(r)
<1>5. S = [f \in Fields |->
            CASE f \in {"language", "framework"} -> Or(given[f], Or(planned[f], bound[f]))
              [] f \in {"languageVersion", "frameworkVersion", "manager"} -> Or(given[f], planned[f])
              [] OTHER -> given[f]]
  BY DEF S, StackOf
<1>6. U.deps = [starter |-> U.deps.starter, fields |-> S, editable |-> U.deps.editable,
                fixtures |-> U.deps.fixtures, command |-> TRUE]
  <2>1. DepsOf(r) = [starter |-> DepsOf(r).starter, fields |-> S, editable |-> DepsOf(r).editable,
                       fixtures |-> DepsOf(r).fixtures, command |-> TRUE]
    BY DEF DepsOf, S
  <2>2. QED
    BY <1>2, <2>1
<1>7. U.deps # NoDeps /\ U.deps.fields = S
  BY <1>6 DEF NoDeps
<1>8. PlanOf(U) = contract.plan
  BY <1>2, <1>4 DEF PlanOf
<1>9. StackOf(U) = S
  <2> DEFINE T == StackOf(U)
  <2>1. T = [f \in Fields |->
              CASE f \in {"language", "framework"} -> Or(S[f], Or(contract.plan[f], contract.binding[f]))
                [] f \in {"languageVersion", "frameworkVersion", "manager"} -> Or(S[f], contract.plan[f])
                [] OTHER -> S[f]]
    BY <1>2, <1>4, <1>7, <1>8 DEF StackOf
  <2> HIDE DEF T
  <2>2. \A f \in Fields : NoStack[f] = None
    BY DEF NoStack
  <2> HIDE DEF given
  <2>3. CASE r.contract = NoContract
    <3>1. contract.plan = planned
      BY <2>3 DEF contract
    <3>2. \A f \in {"language", "framework"} : contract.binding[f] = S[f]
      BY <2>3 DEF contract, Fields
    <3> HIDE DEF planned, bound
    <3>3. \A f \in Fields : T[f] = S[f]
      BY <1>5, <2>1, <3>1, <3>2 DEF Or, Fields
    <3>4. QED
      BY <1>5, <2>1, <3>3 DEF T
  <2>4. CASE r.contract # NoContract
    <3>1. contract = r.contract /\ bound = r.contract.binding
      BY <2>4 DEF contract
    <3>2. contract.plan = NoStack \/ contract.plan = planned
      BY <2>4, <3>1 DEF IsRow, PlanOf
    <3> HIDE DEF planned, bound
    <3>3. \A f \in Fields : T[f] = S[f]
      BY <1>5, <2>1, <2>2, <3>1, <3>2 DEF Or, Fields
    <3>4. QED
      BY <1>5, <2>1, <3>3 DEF T
  <2>5. QED
    BY <2>3, <2>4 DEF T
<1>10. InferEditable(U) = InferEditable(r)
  <2> DEFINE Names(p) ==
               IF p.surface # NoSurface /\ p.surface.editable # {} THEN p.surface.editable
               ELSE IF p.brief # NoBrief THEN p.brief.edit ELSE {}
             naming(x) == {i \in DOMAIN x : Names(x[i]) # {}}
             Found(x) == IF naming(x) = {} THEN {} ELSE Names(x[Min(naming(x))])
  <2>1. InferEditable(U) = Found(parts) /\ InferEditable(r) = Found(r.parts)
    BY <1>2 DEF InferEditable
  <2>2. DOMAIN parts = DOMAIN r.parts
    BY DEF parts
  <2>3. \A i \in DOMAIN r.parts : parts[i].surface = r.parts[i].surface /\ parts[i].brief = r.parts[i].brief
    BY DEF parts
  <2>4. \A i \in DOMAIN r.parts : Names(parts[i]) = Names(r.parts[i])
    BY <2>3
  <2> HIDE DEF Names
  <2>5. naming(parts) = naming(r.parts)
    BY <2>2, <2>4
  <2>6. naming(r.parts) # {} => Min(naming(r.parts)) \in DOMAIN r.parts
    <3>1. DOMAIN r.parts = 1..Len(r.parts) /\ Len(r.parts) \in Nat
      BY DEF IsRow
    <3>2. naming(r.parts) \in SUBSET Nat
      BY <3>1
    <3> HIDE DEF naming
    <3>3. naming(r.parts) # {} => Min(naming(r.parts)) \in naming(r.parts)
      BY <3>2, MinOf
    <3>4. QED
      BY <3>3 DEF naming
  <2>7. QED
    BY <2>1, <2>4, <2>5, <2>6
<1>11. DepsOf(U) = U.deps
  <2> DEFINE D == DepsOf(r)
             E == DepsOf(U)
             starter == IF r.deps = NoDeps THEN "partial" ELSE Or(Coerce(r.deps.starter), "partial")
             editable == IF r.deps # NoDeps /\ r.deps.editable # {} THEN r.deps.editable ELSE InferEditable(r)
             fixtures == IF r.deps = NoDeps THEN {} ELSE r.deps.fixtures
  <2>1. D = [starter |-> starter, fields |-> S, editable |-> editable, fixtures |-> fixtures, command |-> TRUE]
    BY DEF DepsOf, S
  <2> HIDE DEF D, starter, editable, fixtures
  <2>2. D.starter = starter /\ D.editable = editable /\ D.fixtures = fixtures /\ U.deps = D
    BY <1>2, <2>1 DEF D
  <2>3. Or(Coerce(starter), "partial") = starter
    BY DEF starter, Coerce, Or, None
  <2>4. editable = {} => InferEditable(r) = {}
    BY DEF editable
  <2>5. E = [starter |-> Or(Coerce(starter), "partial"), fields |-> S,
             editable |-> IF editable # {} THEN editable ELSE InferEditable(r),
             fixtures |-> fixtures, command |-> TRUE]
    BY <1>7, <1>9, <1>10, <2>2 DEF DepsOf
  <2> HIDE DEF E
  <2>6. E = [starter |-> starter, fields |-> S, editable |-> editable, fixtures |-> fixtures, command |-> TRUE]
    BY <2>3, <2>4, <2>5
  <2>7. QED
    BY <2>1, <2>2, <2>6 DEF D, E
<1>12. EndpointsOf(U) = U.endpoints
  <2> DEFINE asked == IF r.endpoints # {} THEN r.endpoints ELSE {e \in r.canonical : e.kind # "malformed"}
             all == asked \cup {e \in {Health} : \A g \in asked : g.path # "/health"}
  <2>1. U.endpoints = all
    BY <1>2 DEF EndpointsOf
  <2> HIDE DEF asked
  <2>2. \E g \in all : g.path = "/health"
    <3>1. CASE \E g \in asked : g.path = "/health"
      BY <3>1
    <3>2. CASE ~\E g \in asked : g.path = "/health"
      <4>1. Health \in all /\ Health.path = "/health"
        BY <3>2 DEF Health
      <4>2. QED
        BY <4>1
    <3>3. QED
      BY <3>1, <3>2
  <2> HIDE DEF all
  <2>3. QED
    BY <2>1, <2>2 DEF EndpointsOf
<1>13. [i \in DOMAIN parts |-> [parts[i] EXCEPT !.starter = None]] = parts
  <2>1. DOMAIN parts = DOMAIN r.parts
    BY DEF parts
  <2>2. \A i \in DOMAIN r.parts : parts[i] = [r.parts[i] EXCEPT !.starter = None]
    BY DEF parts
  <2>3. \A i \in DOMAIN r.parts : [parts[i] EXCEPT !.starter = None] = parts[i]
    BY <2>2
  <2>4. parts = [i \in DOMAIN parts |-> parts[i]]
    BY DEF parts
  <2>5. QED
    BY <2>1, <2>3, <2>4
<1>14. Or(U.checked, "yes") = U.checked
  BY <1>2 DEF Or
<1>15. Upgraded(U)
       = [U EXCEPT !.structure = StructureOf(U), !.deps = DepsOf(U), !.endpoints = EndpointsOf(U),
                   !.plan = NoStack, !.canonical = {}, !.contract = contract, !.parts = parts, !.checked = U.checked]
  <2> DEFINE again == [i \in DOMAIN parts |-> [parts[i] EXCEPT !.starter = None]]
             kept == IF contract # NoContract THEN contract
                     ELSE [plan |-> PlanOf(U),
                           binding |-> [f \in Fields |-> IF f \in {"language", "framework"} THEN StackOf(U)[f] ELSE None]]
  <2>1. Upgraded(U)
        = [U EXCEPT !.structure = StructureOf(U), !.deps = DepsOf(U), !.endpoints = EndpointsOf(U),
                    !.plan = NoStack, !.canonical = {}, !.contract = kept, !.parts = again, !.checked = Or(U.checked, "yes")]
    BY <1>2 DEF Upgraded
  <2>2. kept = contract /\ again = parts
    BY <1>4, <1>13
  <2> HIDE DEF kept, again
  <2>3. QED
    BY <1>14, <2>1, <2>2
<1>16. Upgraded(U) = U
  BY <1>1, <1>2, <1>3, <1>11, <1>12, <1>15
<1>17. QED
  BY <1>16 DEF U

\* What it relies on in an author's workspace.
SnapOK ==
  /\ StarterNames \cup snap.authored \subseteq snap.starter
  /\ \A d \in DOMAIN snap.manifests :
       LET m == snap.manifests[d]
       IN  /\ m.runtime = {} \/ Runtime \subseteq m.runtime \/ m.wholeRuntime
           /\ (m.repo \cup m.editable) \cap (OneDeliverables \cup {"README.md"}) = {}

\* What Bundle relies on in a spec.
SpecOK ==
  /\ DOMAIN spec.parts = 1..Len(spec.parts) /\ Len(spec.parts) \in Nat \ {0}
  /\ spec.deps.fixtures \cap (OneDeliverables \cup {"README.md"}) = {}
  /\ Usable => SnapOK

LEMMA PartsKept ==
  ASSUME NEW r, IsRow(r)
  PROVE  /\ DOMAIN Upgraded(r).parts = 1..Len(Upgraded(r).parts)
         /\ Len(Upgraded(r).parts) \in Nat \ {0}
         /\ Upgraded(r).deps.fixtures = DepsOf(r).fixtures
<1> DEFINE U == Upgraded(r)
           n == Len(r.parts)
           V == [i \in 1..n |-> [r.parts[i] EXCEPT !.starter = None]]
<1>1. n \in Nat \ {0} /\ DOMAIN r.parts = 1..n
  BY DEF IsRow
<1>2. U.parts = [i \in DOMAIN r.parts |-> [r.parts[i] EXCEPT !.starter = None]]
  BY UpgradedIs, Zenon
<1>3. U.deps = DepsOf(r)
  <2> DEFINE W == U
  <2>1. W = [package |-> r.package, domain |-> r.domain, structure |-> StructureOf(r),
             deps |-> DepsOf(r), plan |-> NoStack, contract |-> W.contract,
             endpoints |-> EndpointsOf(r), canonical |-> {}, parts |-> W.parts, checked |-> Or(r.checked, "yes")]
    BY UpgradedIs, Zenon
  <2> HIDE DEF W
  <2>2. W.deps = DepsOf(r)
    BY <2>1
  <2>3. QED
    BY <2>2 DEF W
<1> HIDE DEF n
<1>4. U.parts = V
  BY <1>1, <1>2
<1>5. DOMAIN V = 1..n
  OBVIOUS
<1>6. Len(V) = n
  <2>1. V \in Seq({V[i] : i \in 1..n})
    BY <1>1
  <2>2. QED
    BY <1>1, <1>5, <2>1
<1>7. QED
  BY <1>1, <1>3, <1>4, <1>5, <1>6

-----------------------------------------------------------------------------
(* Bundle: files *)

\* A file that is not with the grader is public where it is.
LEMMA PublicPlace ==
  ASSUME NEW S, NEW f \in S, f.at # "grader"
  PROVE  Place(f) \in Places(Public(S))
BY DEF Places, Public

\* Where the templates put files.
LEMMA TemplatePlaces ==
  ASSUME NEW at, NEW of, NEW names, NEW p \in Places(FromTemplate(at, of, names))
  PROVE  \E n \in names : p = [at |-> at, of |-> of, name |-> n]
BY DEF Places, FromTemplate, File, Place

\* What a deliverable has for itself.
LEMMA ChecksAre ==
  ASSUME NEW d
  PROVE  /\ \E f \in ChecksOf(d) : f.at = "checks" /\ f.of = d /\ f.name = "README.md"
         /\ \E f \in ChecksOf(d) : f.at = "checks" /\ f.of = d /\ f.name = "visible"
         /\ \A f \in ChecksOf(d) :
              /\ \/ f.at = "checks" /\ f.of = d /\ f.name \in {"README.md", "visible"}
                 \/ f.at = "grader"
              /\ f.by = "author" /\ f.at = "checks" => f.for = f.of
<1> DEFINE Script(at, name, authored) ==
             IF Usable /\ d \in authored THEN File(at, d, name, "author", d) ELSE File(at, d, name, "template", 1)
           readme == File("checks", d, "README.md", "template", d)
           visible == Script("checks", "visible", snap.visible)
           hidden == Script("grader", "hidden", snap.hidden)
           manifest == File("grader", d, "manifest", IF Usable /\ d \in DOMAIN snap.manifests THEN "author" ELSE "template", d)
<1>1. ChecksOf(d) = {readme, visible, hidden, manifest}
  BY DEF ChecksOf
<1>2. /\ readme.at = "checks" /\ readme.of = d /\ readme.name = "README.md" /\ readme.by = "template"
      /\ visible.at = "checks" /\ visible.of = d /\ visible.name = "visible"
      /\ visible.by = "author" => visible.for = d
      /\ hidden.at = "grader" /\ manifest.at = "grader"
  BY DEF File
<1> HIDE DEF readme, visible, hidden, manifest
<1>3. QED
  BY <1>1, <1>2

\* What is made of templates is whole.
LEMMA TemplatesValid ==
  ASSUME ~Usable
  PROVE  ValidBundle(Materialized)
<1>1. FromTemplate("course", 0, {"README.md", "course_outline.md"}) \subseteq Materialized
  BY DEF Materialized
<1>2. \A S, at, of, n : File(at, of, n, "template", 0) \in S /\ at # "grader"
        => [at |-> at, of |-> of, name |-> n] \in Places(Public(S))
  <2>1. \A at, of, n : Place(File(at, of, n, "template", 0)) = [at |-> at, of |-> of, name |-> n]
                       /\ File(at, of, n, "template", 0).at = at
    BY DEF Place, File
  <2>2. QED
    BY <2>1, PublicPlace
<1>3. \A at, of, names : FromTemplate(at, of, names) \subseteq Materialized /\ at # "grader"
        => Places(FromTemplate(at, of, names)) \subseteq Places(Public(Materialized))
  <2> SUFFICES ASSUME NEW at, NEW of, NEW names, FromTemplate(at, of, names) \subseteq Materialized, at # "grader",
                      NEW p \in Places(FromTemplate(at, of, names))
               PROVE  p \in Places(Public(Materialized))
    OBVIOUS
  <2>1. PICK n \in names : p = [at |-> at, of |-> of, name |-> n]
    BY TemplatePlaces
  <2>2. File(at, of, n, "template", 0) \in Materialized
    BY DEF FromTemplate
  <2>3. QED
    BY <1>2, <2>1, <2>2
<1> DEFINE starter == StarterNames \ {"Dockerfile"}
<1>4. ASSUME spec.structure.shared PROVE Expected \subseteq Places(Public(Materialized))
  <2>1. SharedStarter \subseteq Materialized /\ \A d \in 1..Len(spec.parts) : ChecksOf(d) \subseteq Materialized
    BY <1>4 DEF Materialized
  <2>2. FromTemplate("starter", 0, starter) \subseteq Materialized
    BY <2>1 DEF SharedStarter, FromTemplate
  <2>3. ASSUME NEW d \in 1..Len(spec.parts), NEW p \in Places(FromTemplate("checks", d, {"README.md", "visible"}))
        PROVE  p \in Places(Public(Materialized))
    <3>1. PICK n \in {"README.md", "visible"} : p = [at |-> "checks", of |-> d, name |-> n]
      BY <2>3, TemplatePlaces
    <3>2. PICK f \in ChecksOf(d) : f.at = "checks" /\ f.of = d /\ f.name = n
      BY ChecksAre
    <3>3. Place(f) = p
      BY <3>1, <3>2 DEF Place
    <3>4. QED
      BY <2>1, <3>2, <3>3, PublicPlace
  <2>4. Expected = Places(FromTemplate("course", 0, {"README.md", "course_outline.md"}))
                     \cup (Places(FromTemplate("starter", 0, starter))
                     \cup UNION {Places(FromTemplate("checks", d, {"README.md", "visible"})) : d \in 1..Len(spec.parts)})
    BY <1>4 DEF Expected
  <2>5. QED
    BY <1>1, <1>3, <2>2, <2>3, <2>4
<1>5. ASSUME ~spec.structure.shared PROVE Expected \subseteq Places(Public(Materialized))
  <2>1. \A d \in 1..Len(spec.parts) : OwnStarter(d) \subseteq Materialized
    BY <1>5 DEF Materialized
  <2> DEFINE names == starter \cup {"README.md", "visible", "manifest"}
  <2>2. ASSUME NEW d \in 1..Len(spec.parts), NEW p \in Places(FromTemplate("starter", d, names))
        PROVE  p \in Places(Public(Materialized))
    <3>1. PICK n \in names : p = [at |-> "starter", of |-> d, name |-> n]
      BY <2>2, TemplatePlaces
    <3>2. CASE n = "README.md"
      <4> DEFINE f == File("starter", d, "README.md", "template", d)
      <4>1. f \in Materialized
        BY <2>1 DEF OwnStarter
      <4>2. Place(f) = p /\ f.at # "grader"
        BY <3>1, <3>2 DEF Place, File
      <4> HIDE DEF f
      <4>3. QED
        BY <4>1, <4>2, PublicPlace
    <3>3. CASE n # "README.md"
      <4>1. n \in StarterNames \cup OneDeliverables \cup spec.deps.fixtures
        BY <3>3 DEF OneDeliverables, Hidden
      <4>2. File("starter", d, n, "template", 0) \in Materialized
        BY <2>1, <4>1 DEF OwnStarter, FromTemplate
      <4>3. QED
        BY <1>2, <3>1, <4>2
    <3>4. QED
      BY <3>2, <3>3
  <2>3. Expected = Places(FromTemplate("course", 0, {"README.md", "course_outline.md"}))
                     \cup UNION {Places(FromTemplate("starter", d, names)) : d \in 1..Len(spec.parts)}
    BY <1>5 DEF Expected
  <2> HIDE DEF names
  <2>4. QED
    BY <1>1, <1>3, <2>2, <2>3
<1>6. QED
  BY <1>4, <1>5 DEF ValidBundle

\* Nothing of the grader's, and each deliverable's own checks.
Clean(P) ==
  /\ \A f \in P : f.at # "grader" /\ f.name \notin Hidden
  /\ \A f \in P : f.by = "author" /\ f.at = "checks" => f.for = f.of

\* Where the files are that learners need.
Needed ==
  {[at |-> "starter", of |-> 0, name |-> n] : n \in StarterNames \cup (spec.deps.fixtures \ Dropped)}
    \cup {[at |-> "checks", of |-> d, name |-> "visible"] : d \in 1..Len(spec.parts)}

\* The author's files, while the author's workspace is there.
Theirs(P) ==
  Usable /\ 1 \in DOMAIN snap.manifests =>
    \A n \in RepoPaths(snap.manifests[1]) \cap snap.authored : \E f \in P : f.name = n /\ f.by = "author"

\* What learners need has no name of the course's own documents.
LEMMA NeededAre ==
  ASSUME SpecOK, NEW p \in Needed
  PROVE  p.at \in {"starter", "checks"} /\ p.name # "README.md"
<1>1. "README.md" \notin StarterNames \cup spec.deps.fixtures
  BY DEF SpecOK, StarterNames, Runtime, Scripts
<1>2. QED
  BY <1>1 DEF Needed

\* What of an authored starter is carried over, if it is valid.
LEMMA CarriedAre ==
  ASSUME SpecOK, Usable, ValidBundle(Materialized)
  PROVE  /\ StarterNames \cup (spec.deps.fixtures \ Dropped) \subseteq Carried
         /\ 1 \in DOMAIN snap.manifests => RepoPaths(snap.manifests[1]) \cap snap.authored \subseteq Carried \ {"README.md"}
<1> DEFINE m == snap.manifests[1]
           given == 1 \in DOMAIN snap.manifests
<1>1. SnapOK
  BY DEF SpecOK
<1>2. /\ StarterNames \cup snap.authored \subseteq snap.starter
      /\ given => /\ m.runtime = {} \/ Runtime \subseteq m.runtime \/ m.wholeRuntime
                  /\ (m.repo \cup m.editable) \cap (OneDeliverables \cup {"README.md"}) = {}
  BY <1>1 DEF SnapOK
<1>3. spec.deps.fixtures \cap OneDeliverables = {} /\ 1 \in 1..Len(spec.parts)
  BY DEF SpecOK
<1>4. \A n \in spec.deps.fixtures \ Dropped : n \in snap.starter /\ (given => n \in m.fixtures)
  BY DEF Dropped, Usable
<1>5. StarterNames \cap OneDeliverables = {} /\ StarterNames = Runtime \cup Scripts \cup {"tasks.json"}
  BY DEF StarterNames, OneDeliverables, Hidden, Runtime, Scripts
<1>6. given /\ m.wholeRuntime => Runtime \subseteq m.runtime
  BY <1>3 DEF ValidBundle, AuthoredIsWhole
<1>7. Runtime \cup Scripts \cup {"tasks.json"} \cup (spec.deps.fixtures \ Dropped) \subseteq CarriedPaths(1)
  BY <1>2, <1>4, <1>6 DEF CarriedPaths
<1>8. given => RepoPaths(m) \subseteq CarriedPaths(1) /\ RepoPaths(m) \subseteq m.repo \cup m.editable
  BY DEF CarriedPaths, RepoPaths
<1> HIDE DEF m
<1>9. QED
  BY <1>2, <1>3, <1>4, <1>5, <1>7, <1>8 DEF Carried, m

\* The starter that all deliverables share has nothing of one of them, valid or
\* not.
LEMMA StarterIsClean ==
  ASSUME SpecOK
  PROVE  \A f \in SharedStarter : f.at = "starter" /\ f.name \notin Hidden
<1> DEFINE named == StarterNames \cup spec.deps.fixtures
<1>1. named \cap Hidden = {} /\ "course.json" \notin Hidden
  BY DEF SpecOK, StarterNames, OneDeliverables, Hidden, Runtime, Scripts
<1>2. \A at, of, n, by, for : File(at, of, n, by, for).at = at /\ File(at, of, n, by, for).name = n
  BY DEF File
<1>3. CASE Usable
  <2>1. SharedStarter = {File("starter", 0, "course.json", "template", 0)} \cup FromWorkspace(0, Carried)
    BY <1>3 DEF SharedStarter
  <2>2. Carried \cap Hidden = {}
    BY DEF Carried, OneDeliverables
  <2>3. \A f \in FromWorkspace(0, Carried) : f.at = "starter" /\ f.name \in Carried
    BY <1>2 DEF FromWorkspace
  <2>4. QED
    BY <1>1, <1>2, <2>1, <2>2, <2>3
<1>4. CASE ~Usable
  <2>1. SharedStarter = {File("starter", 0, "course.json", "template", 0)} \cup FromTemplate("starter", 0, named)
    BY <1>4 DEF SharedStarter
  <2> HIDE DEF named
  <2>2. \A f \in FromTemplate("starter", 0, named) : f.at = "starter" /\ f.name \in named
    BY <1>2 DEF FromTemplate
  <2>3. QED
    BY <1>1, <1>2, <2>1, <2>2
<1>5. QED
  BY <1>3, <1>4

\* If it is valid it has what learners need, as the author left it.
LEMMA StarterIs ==
  ASSUME SpecOK, ValidBundle(Materialized)
  PROVE  /\ \A n \in StarterNames \cup (spec.deps.fixtures \ Dropped) :
              \E f \in SharedStarter : f.at = "starter" /\ f.of = 0 /\ f.name = n
         /\ Usable /\ 1 \in DOMAIN snap.manifests =>
              \A n \in RepoPaths(snap.manifests[1]) \cap snap.authored :
                \E f \in SharedStarter : f.name = n /\ f.by = "author" /\ n # "README.md"
<1> DEFINE named == StarterNames \cup (spec.deps.fixtures \ Dropped)
<1>1. \A at, of, n, by, for :
        /\ File(at, of, n, by, for).at = at /\ File(at, of, n, by, for).name = n
        /\ File(at, of, n, by, for).of = of /\ File(at, of, n, by, for).by = by
  BY DEF File
<1>2. CASE Usable
  <2>1. SharedStarter = {File("starter", 0, "course.json", "template", 0)} \cup FromWorkspace(0, Carried)
    BY <1>2 DEF SharedStarter
  <2>2. \A n \in Carried :
          File("starter", 0, n, IF n \in snap.authored THEN "author" ELSE "template", 0) \in FromWorkspace(0, Carried)
    BY DEF FromWorkspace
  <2>3. /\ named \subseteq Carried
        /\ 1 \in DOMAIN snap.manifests => RepoPaths(snap.manifests[1]) \cap snap.authored \subseteq Carried \ {"README.md"}
    BY <1>2, CarriedAre
  <2> HIDE DEF named
  <2>4. \A n \in named : \E f \in SharedStarter : f.at = "starter" /\ f.of = 0 /\ f.name = n
    BY <1>1, <2>1, <2>2, <2>3
  <2>5. ASSUME 1 \in DOMAIN snap.manifests, NEW n \in RepoPaths(snap.manifests[1]) \cap snap.authored
        PROVE  \E f \in SharedStarter : f.name = n /\ f.by = "author" /\ n # "README.md"
    BY <1>1, <2>1, <2>2, <2>3, <2>5
  <2>6. QED
    BY <2>4, <2>5 DEF named
<1>3. CASE ~Usable
  <2>1. \A n \in StarterNames \cup spec.deps.fixtures : File("starter", 0, n, "template", 0) \in SharedStarter
    BY <1>3 DEF SharedStarter, FromTemplate
  <2>2. QED
    BY <1>1, <1>3, <2>1
<1>4. QED
  BY <1>2, <1>3

\* What is materialized.
LEMMA SharedIs ==
  ASSUME spec.structure.shared
  PROVE  /\ SharedStarter \subseteq Materialized
         /\ \A d \in 1..Len(spec.parts) : ChecksOf(d) \subseteq Materialized
         /\ \A f \in Materialized :
              f.at = "course" \/ f \in SharedStarter \/ \E d \in 1..Len(spec.parts) : f \in ChecksOf(d)
<1> DEFINE front == FromTemplate("course", 0, {"README.md", "course_outline.md"})
<1>1. Materialized = front \cup (SharedStarter \cup UNION {ChecksOf(d) : d \in 1..Len(spec.parts)})
  BY DEF Materialized
<1>2. \A f \in front : f.at = "course"
  BY DEF FromTemplate, File
<1> HIDE DEF front
<1>3. QED
  BY <1>1, <1>2

\* Whatever is materialized can be shown.
LEMMA MaterializedClean ==
  ASSUME SpecOK, spec.structure.shared
  PROVE  Clean(SeedFiles(Materialized))
<1>1. \A f \in SeedFiles(Materialized) : f \in Materialized /\ f.at \notin {"grader", "course"} /\ f.name # "README.md"
  BY DEF SeedFiles, Public
<1>2. \A f \in SeedFiles(Materialized) : f \in SharedStarter \/ \E d \in 1..Len(spec.parts) : f \in ChecksOf(d)
  BY <1>1, SharedIs
<1>3. \A f \in SeedFiles(Materialized) : f.name \notin Hidden
  BY <1>1, <1>2, StarterIsClean, ChecksAre DEF Hidden
<1>4. \A f \in SeedFiles(Materialized) : f.by = "author" /\ f.at = "checks" => f.for = f.of
  BY <1>2, StarterIsClean, ChecksAre
<1>5. QED
  BY <1>1, <1>3, <1>4 DEF Clean

\* A valid bundle has all that learners need, and the author's files.
LEMMA MaterializedWhole ==
  ASSUME SpecOK, spec.structure.shared, ValidBundle(Materialized)
  PROVE  Needed \subseteq Places(Materialized) /\ Theirs(SeedFiles(Materialized))
<1>1. ASSUME NEW p \in Needed PROVE p \in Places(Materialized)
  <2>1. CASE \E n \in StarterNames \cup (spec.deps.fixtures \ Dropped) : p = [at |-> "starter", of |-> 0, name |-> n]
    <3>1. PICK n \in StarterNames \cup (spec.deps.fixtures \ Dropped) : p = [at |-> "starter", of |-> 0, name |-> n]
      BY <2>1
    <3>2. PICK f \in SharedStarter : f.at = "starter" /\ f.of = 0 /\ f.name = n
      BY StarterIs
    <3>3. Place(f) = p /\ f \in Materialized
      BY <3>1, <3>2, SharedIs DEF Place
    <3>4. QED
      BY <3>3 DEF Places
  <2>2. CASE \E d \in 1..Len(spec.parts) : p = [at |-> "checks", of |-> d, name |-> "visible"]
    <3>1. PICK d \in 1..Len(spec.parts) : p = [at |-> "checks", of |-> d, name |-> "visible"]
      BY <2>2
    <3>2. PICK f \in ChecksOf(d) : f.at = "checks" /\ f.of = d /\ f.name = "visible"
      BY ChecksAre
    <3>3. Place(f) = p /\ f \in Materialized
      BY <3>1, <3>2, SharedIs DEF Place
    <3>4. QED
      BY <3>3 DEF Places
  <2>3. QED
    BY <1>1, <2>1, <2>2 DEF Needed
<1>2. \A f \in SharedStarter : f.name # "README.md" => f \in SeedFiles(Materialized)
  BY SharedIs, StarterIsClean DEF SeedFiles, Public
<1>3. Theirs(SeedFiles(Materialized))
  BY <1>2, StarterIs DEF Theirs
<1>4. QED
  BY <1>1, <1>3

-----------------------------------------------------------------------------
(* Bundle: the inductive invariant *)

\* A spec is valid when something is made of it.  What is on disk is of the latest
\* materialization, and clean; while the author's workspace is there it is what
\* is made of that, at any time.  What the row lists is of a valid one, perhaps an
\* earlier one, and has all that learners need.
BundleInv ==
  /\ spec = NoSpec \/ \E old \in OldCourses : spec = Upgraded(old.row)
  /\ Usable => SnapOK
  /\ disk # NoFiles =>
       /\ spec # NoSpec /\ Validated(spec)
       /\ spec.structure.shared => Clean(SeedFiles(disk))
       /\ Usable => disk = Materialized
  /\ bundle # NoFiles /\ spec.structure.shared => Needed \subseteq bundle
  /\ bundle # NoFiles /\ Usable => bundle = Places(Materialized) /\ ValidBundle(Materialized)
  /\ package # NoPackage =>
       /\ spec # NoSpec /\ Validated(spec) /\ lessons = Lessons(spec, slugs)
       /\ Clean(package) /\ Needed \subseteq Places(package) /\ Theirs(package)
  /\ \A f \in workspace : f.at # "grader" /\ f.name \notin Hidden

\* A spec is a row that was read.
LEMMA SpecIsOK ==
  ASSUME BundleInv, spec # NoSpec
  PROVE  SpecOK /\ Upgraded(spec) = spec
<1> USE BundleAssumption
<1>1. PICK old \in OldCourses : spec = Upgraded(old.row)
  BY DEF BundleInv
<1>2. IsRow(old.row)
  OBVIOUS
<1>3. /\ DOMAIN spec.parts = 1..Len(spec.parts) /\ Len(spec.parts) \in Nat \ {0}
      /\ spec.deps.fixtures = DepsOf(old.row).fixtures
  BY <1>1, <1>2, PartsKept
<1>4. DepsOf(old.row).fixtures \cap (OneDeliverables \cup {"README.md"}) = {}
  OBVIOUS
<1>5. Usable => SnapOK
  BY DEF BundleInv
<1>6. QED
  BY <1>1, <1>2, <1>3, <1>4, <1>5, UpgradedOnce DEF SpecOK

\* Nothing is materialized at first.
LEMMA BundleBegins == BundleInit => BundleInv
<1> SUFFICES ASSUME BundleInit PROVE BundleInv
  OBVIOUS
<1>1. Usable => snap \in Workspaces
  BY DEF BundleInit, Usable, NoSnap, None
<1>2. Usable => SnapOK
  BY <1>1, BundleAssumption DEF SnapOK
<1>3. QED
  BY <1>2 DEF BundleInit, BundleInv, NoFiles, NoPackage

\* What is made of a spec and a workspace that stay is the same, and what is
\* needed of it.
LEMMA MaterializedStays ==
  ASSUME UNCHANGED <<spec, snap>>
  PROVE  /\ Materialized' = Materialized
         /\ ValidBundle(Materialized)' <=> ValidBundle(Materialized)
         /\ Needed' = Needed
         /\ Usable' <=> Usable
         /\ (\A P : Theirs(P)' <=> Theirs(P)) /\ (SnapOK' <=> SnapOK)
<1>1. Usable' <=> Usable
  BY DEF Usable
<1>2. \A d : CarriedPaths(d)' = CarriedPaths(d)
  BY DEF CarriedPaths
<1>3. Carried' = Carried
  BY <1>2 DEF Carried
<1>4. \A of, names : FromWorkspace(of, names)' = FromWorkspace(of, names)
  BY DEF FromWorkspace
<1>5. SharedStarter' = SharedStarter
  BY <1>1, <1>3, <1>4 DEF SharedStarter
<1>6. \A d : ChecksOf(d)' = ChecksOf(d)
  BY <1>1 DEF ChecksOf
<1>7. \A d : OwnStarter(d)' = OwnStarter(d)
  BY <1>1, <1>2, <1>4 DEF OwnStarter
<1>8. Materialized' = Materialized
  BY <1>5, <1>6, <1>7 DEF Materialized
<1>9. Expected' = Expected
  BY DEF Expected
<1>10. \A d, files : AuthoredIsWhole(d, files)' <=> AuthoredIsWhole(d, files)
  BY DEF AuthoredIsWhole
<1>11. ValidBundle(Materialized)' <=> ValidBundle(Materialized)
  BY <1>1, <1>8, <1>9, <1>10 DEF ValidBundle
<1>12. Needed' = Needed
  BY DEF Needed, Dropped
<1>13. (\A P : Theirs(P)' <=> Theirs(P)) /\ (SnapOK' <=> SnapOK)
  BY <1>1 DEF Theirs, SnapOK
<1>14. QED
  BY <1>1, <1>8, <1>11, <1>12, <1>13

\* Who changes neither spec nor workspace, files nor package keeps it.
LEMMA BundleRests ==
  ASSUME BundleInv, UNCHANGED <<spec, slugs, snap, disk, bundle, package, lessons>>,
         \A f \in workspace' : f.at # "grader" /\ f.name \notin Hidden
  PROVE  BundleInv'
<1>1. SeedFiles(disk)' = SeedFiles(disk)
  BY DEF SeedFiles, Public
<1>2. QED
  BY <1>1, MaterializedStays DEF BundleInv, Clean

\* Who materializes keeps it, whether the bundle is refused or not.
LEMMA MaterializeKeeps ==
  ASSUME BundleInv, NEW overwrite \in BOOLEAN, NEW readsWell \in BOOLEAN, Materialize(overwrite, readsWell)
  PROVE  BundleInv'
<1>1. /\ spec # NoSpec /\ Validated(spec)
      /\ disk' = Materialized
      /\ bundle' = IF readsWell /\ ValidBundle(Materialized) THEN Places(Materialized) ELSE bundle
      /\ UNCHANGED <<spec, slugs, snap, package, lessons, workspace>>
  BY DEF Materialize
<1>2. SpecOK
  BY <1>1, SpecIsOK
<1>3. /\ Materialized' = Materialized /\ (ValidBundle(Materialized)' <=> ValidBundle(Materialized))
      /\ Needed' = Needed /\ (Usable' <=> Usable) /\ (\A P : Theirs(P)' <=> Theirs(P)) /\ (SnapOK' <=> SnapOK)
  BY <1>1, MaterializedStays
<1>4. spec.structure.shared => Clean(SeedFiles(disk)')
  <2>1. SeedFiles(disk)' = SeedFiles(Materialized)
    BY <1>1 DEF SeedFiles, Public
  <2>2. QED
    BY <1>2, <2>1, MaterializedClean
<1>5. bundle' # NoFiles /\ spec.structure.shared => Needed \subseteq bundle'
  BY <1>1, <1>2, MaterializedWhole DEF BundleInv
<1>6. bundle' # NoFiles /\ Usable => bundle' = Places(Materialized) /\ ValidBundle(Materialized)
  BY <1>1 DEF BundleInv
<1>7. /\ spec = NoSpec \/ \E old \in OldCourses : spec = Upgraded(old.row)
      /\ Usable => SnapOK
      /\ package # NoPackage =>
           /\ lessons = Lessons(spec, slugs)
           /\ Clean(package) /\ Needed \subseteq Places(package) /\ Theirs(package)
      /\ \A f \in workspace : f.at # "grader" /\ f.name \notin Hidden
  BY DEF BundleInv
<1>8. QED
  BY <1>1, <1>3, <1>4, <1>5, <1>6, <1>7 DEF BundleInv, Clean

\* The author's workspace is swept away: what learners need stays.
LEMMA LostKeeps ==
  ASSUME BundleInv, WorkspaceLost
  PROVE  BundleInv'
<1>1. snap' = Swept /\ Usable /\ UNCHANGED <<spec, slugs, disk, bundle, package, lessons, workspace>>
  BY DEF WorkspaceLost
<1>2. /\ snap'.root = "lost" /\ snap'.starter = snap.starter /\ snap'.manifests = snap.manifests
      /\ snap.root = "own"
  BY <1>1 DEF Swept, Usable
<1>3. ~Usable'
  BY <1>2 DEF Usable
<1>4. Needed' = Needed
  BY <1>1, <1>2 DEF Needed, Dropped
<1>5. SeedFiles(disk)' = SeedFiles(disk) /\ \A P : Theirs(P)'
  BY <1>1, <1>3 DEF SeedFiles, Public, Theirs
<1>6. QED
  BY <1>1, <1>3, <1>4, <1>5 DEF BundleInv, Clean

\* What is packaged is what the row lists, as it is on disk.
LEMMA PublishKeeps ==
  ASSUME BundleInv, NEW certifies \in BOOLEAN, Publish(certifies)
  PROVE  BundleInv'
<1> DEFINE packed == SeedFiles({f \in disk : Place(f) \in bundle})
<1>1. /\ spec.structure.shared /\ spec # NoSpec
      /\ bundle # NoFiles /\ bundle \subseteq Places(disk)
      /\ package' = IF cert' = "failed" THEN package ELSE packed
      /\ lessons' = IF cert' = "failed" THEN lessons ELSE Lessons(spec, slugs)
      /\ UNCHANGED <<spec, slugs, snap, disk, bundle, workspace>>
  BY DEF Publish
<1>2. /\ SpecOK /\ Needed \subseteq bundle /\ disk # NoFiles
      /\ Usable => disk = Materialized /\ bundle = Places(Materialized) /\ ValidBundle(Materialized)
  BY <1>1, SpecIsOK DEF BundleInv, Places, NoFiles
<1>3. Validated(spec) /\ Clean(SeedFiles(disk))
  BY <1>1, <1>2 DEF BundleInv
<1>4. \A f : f \in packed <=> f \in disk /\ Place(f) \in bundle /\ f.at \notin {"grader", "course"} /\ f.name # "README.md"
  BY DEF SeedFiles, Public
<1>5. packed \subseteq SeedFiles(disk)
  BY <1>4 DEF SeedFiles, Public
<1> HIDE DEF packed
<1>6. Clean(packed)
  BY <1>3, <1>5 DEF Clean
<1>7. ASSUME NEW p \in Needed PROVE p \in Places(packed)
  <2>1. PICK f \in disk : p = Place(f)
    BY <1>1, <1>2 DEF Places
  <2>2. f.at \in {"starter", "checks"} /\ f.name # "README.md"
    BY <1>2, <2>1, NeededAre DEF Place
  <2>3. f \in packed
    BY <1>2, <1>4, <2>1, <2>2
  <2>4. QED
    BY <2>1, <2>3 DEF Places
<1>8. Theirs(packed)
  <2>1. CASE Usable
    <3>1. \A f \in SeedFiles(Materialized) : f \in packed
      <4>1. \A f \in Materialized : Place(f) \in bundle
        BY <1>2, <2>1 DEF Places
      <4>2. QED
        BY <1>2, <1>4, <2>1, <4>1 DEF SeedFiles, Public
    <3>2. Theirs(SeedFiles(Materialized))
      BY <1>1, <1>2, <2>1, MaterializedWhole
    <3>3. QED
      BY <3>1, <3>2 DEF Theirs
  <2>2. CASE ~Usable
    BY <2>2 DEF Theirs
  <2>3. QED
    BY <2>1, <2>2
<1>9. /\ Materialized' = Materialized /\ (ValidBundle(Materialized)' <=> ValidBundle(Materialized))
      /\ Needed' = Needed /\ (Usable' <=> Usable) /\ (\A P : Theirs(P)' <=> Theirs(P)) /\ (SnapOK' <=> SnapOK)
  BY <1>1, MaterializedStays
<1>10. SeedFiles(disk)' = SeedFiles(disk)
  BY <1>1 DEF SeedFiles, Public
<1>11. package' # NoPackage =>
         /\ lessons' = Lessons(spec, slugs)
         /\ Clean(package') /\ Needed \subseteq Places(package') /\ Theirs(package')
  BY <1>1, <1>6, <1>7, <1>8 DEF BundleInv
<1>12. package' # NoPackage => (Clean(package) /\ Needed \subseteq Places(package) /\ Theirs(package))'
  BY <1>9, <1>11 DEF Clean, Places, Place
<1>13. lessons' = Lessons(spec, slugs) => (lessons = Lessons(spec, slugs))'
  BY <1>1
<1>14. (Clean(SeedFiles(disk)))'
  BY <1>3, <1>10 DEF Clean
<1>15. QED
  BY <1>1, <1>2, <1>3, <1>9, <1>11, <1>12, <1>13, <1>14 DEF BundleInv

\* Who materializes, publishes, seeds or edits keeps it.
LEMMA BundleKeeps == BundleInv /\ [BundleNext]_allVars => BundleInv'
<1> SUFFICES ASSUME BundleInv, [BundleNext]_allVars PROVE BundleInv'
  OBVIOUS
<1>1. CASE UNCHANGED bundleVars
  <2>1. UNCHANGED <<spec, slugs, snap, disk, bundle, package, lessons, workspace>>
    BY <1>1 DEF bundleVars
  <2>2. QED
    BY <2>1, BundleRests DEF BundleInv
<1>2. ASSUME NEW overwrite \in BOOLEAN, NEW readsWell \in BOOLEAN, Materialize(overwrite, readsWell) PROVE BundleInv'
  BY <1>2, MaterializeKeeps
<1>3. CASE WorkspaceLost
  BY <1>3, LostKeeps
<1>4. ASSUME NEW certifies \in BOOLEAN, Publish(certifies) PROVE BundleInv'
  BY <1>4, PublishKeeps
<1>5. CASE SeedWorkspace
  <2>1. /\ package # NoPackage
        /\ workspace' = Seeded(workspace)
        /\ UNCHANGED <<spec, slugs, snap, disk, bundle, package, lessons>>
    BY <1>5 DEF SeedWorkspace
  <2>2. \A f \in package : f.at # "grader" /\ f.name \notin Hidden
    BY <2>1 DEF BundleInv, Clean
  <2>3. \A f \in Documents : f.at # "grader" /\ f.name \notin Hidden
    BY DEF Documents, File, Hidden
  <2>4. \A f \in Seeded(workspace) : f \in workspace \/ f \in package \/ f \in Documents
    BY DEF Seeded
  <2>5. \A f \in workspace' : f.at # "grader" /\ f.name \notin Hidden
    BY <2>1, <2>2, <2>3, <2>4 DEF BundleInv
  <2>6. QED
    BY <2>1, <2>5, BundleRests
<1>6. CASE LearnerEdits
  <2>1. UNCHANGED <<spec, slugs, snap, disk, bundle, package, lessons>>
    BY <1>6 DEF LearnerEdits
  <2>2. PICK f \in workspace : \/ workspace' = workspace \ {f}
                               \/ workspace' = (workspace \ {f}) \cup {[f EXCEPT !.by = "learner"]}
    BY <1>6 DEF LearnerEdits
  <2>3. [f EXCEPT !.by = "learner"].at = f.at /\ [f EXCEPT !.by = "learner"].name = f.name
    OBVIOUS
  <2>4. \A g \in workspace' : g.at # "grader" /\ g.name \notin Hidden
    BY <2>2, <2>3 DEF BundleInv
  <2>5. QED
    BY <2>1, <2>4, BundleRests
<1>7. QED
  BY <1>1, <1>2, <1>3, <1>4, <1>5, <1>6 DEF BundleNext, allVars

\* Whatever is done to a bundle, a package or a workspace, and whatever a bundle
\* is refused for: what is listed is what learners need, although its files may be
\* those of a later bundle, and what is on disk has nothing of the grader's to show.
THEOREM BundleInvariance == BundleSpec => []BundleInv
BY BundleBegins, BundleKeeps, PTL DEF BundleSpec

-----------------------------------------------------------------------------
(* Bundle: the theorem *)

\* It is what PackageIsSound says of files, and what a valid spec says of tasks.
LEMMA BundleInvSound == BundleInv => PackageIsSound
<1> SUFFICES ASSUME BundleInv PROVE PackageIsSound
  OBVIOUS
<1>1. ReadsTheSame
  BY SpecIsOK DEF ReadsTheSame
<1>2. ASSUME package # NoPackage PROVE FilesAreRight
  <2>1. /\ Clean(package) /\ Needed \subseteq Places(package) /\ Theirs(package)
        /\ \A f \in workspace : f.at # "grader" /\ f.name \notin Hidden
    BY <1>2 DEF BundleInv
  <2>2. \A p \in Needed : \E f \in package : p = [at |-> f.at, of |-> f.of, name |-> f.name]
    BY <2>1 DEF Places, Place
  <2>3. \A n \in StarterNames \cup (spec.deps.fixtures \ Dropped) :
          \E f \in package : [at |-> "starter", of |-> 0, name |-> n] = [at |-> f.at, of |-> f.of, name |-> f.name]
    BY <2>2 DEF Needed
  <2>4. \A d \in 1..Len(spec.parts) :
          \E f \in package : [at |-> "checks", of |-> d, name |-> "visible"] = [at |-> f.at, of |-> f.of, name |-> f.name]
    BY <2>2 DEF Needed
  <2>5. QED
    BY <2>1, <2>3, <2>4 DEF Clean, Theirs, FilesAreRight
<1>3. ASSUME package # NoPackage PROVE TasksCanBeDone
  <2> DEFINE n == Len(spec.parts)
             published == {e.path : e \in spec.endpoints}
  <2>1. /\ Validated(spec) /\ lessons = Lessons(spec, slugs) /\ SpecOK
    BY <1>3, SpecIsOK DEF BundleInv
  <2>2. n \in Nat \ {0} /\ DOMAIN spec.parts = 1..n
    BY <2>1 DEF SpecOK
  <2>3. \A i \in 1..n : PartIsValid(spec, spec.parts[i])
    BY <2>1, <2>2 DEF Validated
  <2>4. "/health" \in published
    BY <2>1 DEF Validated, SurfaceIsValid
  <2>5. \A i \in 1..n :
          /\ spec.parts[i].surface # NoSurface /\ spec.parts[i].surface.editable # {}
          /\ spec.parts[i].checks # {} /\ \A c \in spec.parts[i].checks : c.path \in published
    BY <2>3 DEF PartIsValid
  <2> HIDE DEF n, published
  <2>6. Editable(spec) # {}
    <3>1. 1 \in 1..n
      BY <2>2
    <3>2. spec.parts[1].surface.editable \subseteq
            UNION {spec.parts[i].surface.editable : i \in {i \in DOMAIN spec.parts : spec.parts[i].surface # NoSurface}}
      BY <2>2, <2>5, <3>1
    <3>3. QED
      BY <2>5, <3>1, <3>2 DEF Editable
  <2>7. DOMAIN lessons = 1..n /\ \A i \in 1..n : lessons[i].gate = Gate(spec, i)
    BY <2>1, <2>2 DEF Lessons
  <2>8. ASSUME NEW i \in 1..n
        PROVE  Gate(spec, i) # {} /\ \A c \in Gate(spec, i) : c.path \in published
    <3>1. \A c \in Gate(spec, i) : \E j \in DOMAIN spec.parts : c \in spec.parts[j].checks
      BY DEF Gate
    <3>2. spec.parts[i].checks \subseteq Gate(spec, i)
      BY <2>2 DEF Gate
    <3>3. QED
      BY <2>2, <2>5, <3>1, <3>2
  <2>9. QED
    BY <2>4, <2>6, <2>7, <2>8 DEF TasksCanBeDone, published
<1>4. QED
  BY <1>1, <1>2, <1>3 DEF PackageIsSound

\* Whatever the age of the row a course is read from, whatever its author left in
\* the workspace, whenever that is swept away and whatever a bundle is refused for:
\* what learners are given is what they need, but for the fixtures that the
\* author's workspace dropped, and nothing of the grader's, with their author's
\* files while these are there, and every deliverable can be done and tested.
THEOREM PackageSound == BundleSpec => []PackageIsSound
BY BundleInvariance, BundleInvSound, PTL
=============================================================================
