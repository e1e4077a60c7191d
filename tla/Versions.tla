------------------------------ MODULE Versions ------------------------------
(***************************************************************************)
(* The versions of a course: the course_runs rows of one family, their     *)
(* publish snapshots, the catalogue and the enrollments                    *)
(* (services/course_workflow_service.py, publish_snapshot_service.py,      *)
(* lms_service.py, the snapshot queries of storage/postgres_store.py).     *)
(*                                                                         *)
(* A published course is revised into a row of its own, which is published *)
(* under the next version of the family.  Learners enroll in a row and are *)
(* pinned to its snapshot.  Requests on one row follow each other here     *)
(* (CourseRun is where they overlap); those on different rows overlap,     *)
(* and a publication is cut where it saves.                                *)
(***************************************************************************)
EXTENDS Naturals, FiniteSets, FiniteSetsExt

CONSTANTS
  Runs,          \* the ids of course runs
  First,         \* the one the family begins with
  Learners,
  Window,        \* how many snapshots get_latest_publish_snapshot looks at
  ListWindow,    \* how many the list of versions looks at
  CourseWindow,  \* how many course runs list_catalog looks at
  MaxSnapshots,  \* bound on the snapshots that are made
  MaxRows        \* bound on the course runs there are

ASSUME VersionsAssumption ==
  /\ First \in Runs
  /\ "other" \notin Runs
  /\ Window \in Nat \ {0}
  /\ ListWindow \in 1..Window
  /\ CourseWindow \in Nat \ {0}
  /\ MaxSnapshots \in Nat \ {0}
  /\ MaxRows \in Nat

VARIABLES
  serial,       \* whether authors' requests come one at a time; it does not
                \* change
  rows,         \* how many course runs there are, of all families
  courses,      \* course_runs
  flow,         \* the status of the workflow a course is linked to
  snapshots,    \* publish_snapshots
  enrollments,  \* learner_enrollments
  report,       \* the last of the learner_eval_reports
  clock,        \* how many snapshots were made: the created_at of the last
  job,          \* what is under way for each course
  crashed       \* whether the server was restarted; it is once

vars == <<serial, rows, courses, flow, snapshots, enrollments, report, clock, job, crashed>>

-----------------------------------------------------------------------------
(* The data *)

None == [kind |-> "none"]

\* CourseRun: kind tells courses that share one workflow ("progressive") from
\* those with one for each deliverable ("survey") and those of the outcome
\* graph; latest is latest_publish_snapshot_id, 0 for none; touched is
\* updated_at, as the snapshots made before it, of outcome courses: all others
\* are ranked by their snapshots; born is created_at, as the number of the row
\* in the order in which all rows were made.
Rows ==
  [kind : {"progressive", "survey", "outcome"},
   stage : {"drafting", "awaiting_course_review", "ready_to_publish", "published", "blocked"},
   op : {"none", "revision"}, drafted : BOOLEAN, latest : Nat, touched : Nat, born : Nat]

\* A snapshot is known by its created_at; run is "other" in another family's.
Made(run, version) == [at |-> clock + 1, run |-> run, version |-> version]

\* The row with its updated_at.
Touched(row) == [row EXCEPT !.touched = IF row.kind = "outcome" THEN clock ELSE 0]

NoJob == [pc |-> "idle"]

NoReport == [run |-> "none", snapshot |-> 0, about |-> {}]

Exists(c) == courses[c] # None

Published(c) == Exists(c) /\ courses[c].stage = "published"

\* The orders in which the rows of these courses were made.
Births(D) ==
  {b \in [Runs -> 1..CourseWindow] : b[First] = 1 /\ \A c, d \in D : c # d => b[c] # b[d]}

\* Rows of a published course (one that is not of the outcome graph may have
\* been revised in the days when workflows were still executed), or of a survey
\* under review, and rows of other families between and after them: all are just
\* those that list_catalog looks at.
Init ==
  /\ serial \in BOOLEAN
  /\ rows = CourseWindow
  /\ \E kind \in {"progressive", "survey", "outcome"}, old \in SUBSET (Runs \ {First}) :
       LET public == kind # "survey"
           revised == IF kind = "outcome" THEN {} ELSE old
           stage(c) == IF public /\ c = First THEN "published" ELSE "awaiting_course_review"
           latest(c) == IF public /\ c = First THEN 1 ELSE 0
       IN  /\ \E born \in Births({First} \cup revised) : courses = [c \in Runs |->
                IF c \in {First} \cup revised
                THEN [kind |-> kind, stage |-> stage(c), op |-> "none",
                      drafted |-> kind # "outcome", latest |-> latest(c),
                      touched |-> IF kind = "outcome" THEN 1 ELSE 0, born |-> born[c]]
                ELSE None]
           /\ flow = [c \in Runs |->
                IF c \notin {First} \cup revised \/ kind = "outcome" THEN "none"
                ELSE IF stage(c) = "published" THEN "published" ELSE "awaiting_human"]
           /\ snapshots = IF public THEN {[at |-> 1, run |-> First, version |-> 1]} ELSE {}
  /\ enrollments = {}
  /\ report = NoReport
  /\ clock = 1
  /\ job = [c \in Runs |-> NoJob]
  /\ crashed = FALSE

-----------------------------------------------------------------------------
(* Snapshots *)

\* The n newest snapshots there are, of all families.
NewestSnapshots(n) ==
  {s \in snapshots : Cardinality({t \in snapshots : t.at > s.at}) < n}

\* list_publish_snapshots takes the newest rows and then picks the family's.
FamilySnapshots(n) == {s \in NewestSnapshots(n) : s.run \in Runs}

Better(s, t) == s.version > t.version \/ (s.version = t.version /\ s.at > t.at)

\* The best of some snapshots by version, then by time.
Best(S) == CHOOSE s \in S : \A t \in S : s = t \/ Better(s, t)

\* A slip: versions are counted in the course instead of the family.
VersionInCourse(c) ==
  LET mine == {s \in FamilySnapshots(Window) : s.run = c}
  IN  IF mine = {} THEN 1 ELSE Best(mine).version + 1

\* create_snapshot: one more than the latest version of the family.
NextVersion(c) ==
  LET known == FamilySnapshots(Window)
  IN  IF known = {} THEN 1 ELSE Best(known).version + 1

-----------------------------------------------------------------------------
(* Course runs *)

StageOf(status) ==
  CASE status = "published" -> "ready_to_publish"
    [] status \in {"awaiting_human", "unproven"} -> "awaiting_course_review"
    [] OTHER -> "blocked"

\* _compute_refreshed_run: a course of the outcome graph shows what its graph
\* is - published, also in a revision, which is a copy - and a placeholder is
\* left alone.
Refreshed(c) ==
  LET r == courses[c]
  IN  CASE r.kind = "outcome" -> Touched([r EXCEPT !.stage = "published"])
        [] r.kind # "outcome" /\ r.stage = "drafting" /\ ~r.drafted -> r
        [] OTHER -> Touched([r EXCEPT !.stage =
                              IF @ = "published" THEN @
                              ELSE StageOf(IF r.drafted THEN flow[c] ELSE "blocked")])

\* An author's request on c comes in; if they are serial, all others have ended.
Arrives(c) ==
  /\ Exists(c)
  /\ job[c].pc = "idle"
  /\ serial => \A d \in Runs : job[d].pc = "idle"

\* get_run, list_runs, sync_run and timeline save what they show.
Refresh(c) ==
  /\ Exists(c)
  /\ job[c].pc \in {"idle", "revise"}
  /\ courses' = [courses EXCEPT ![c] = Refreshed(c)]
  /\ UNCHANGED <<serial, rows, flow, snapshots, enrollments, report, clock, job, crashed>>

\* The last gate of a linked workflow is approved; one that was never executed
\* does not get there.
ApproveWorkflow(c) ==
  /\ flow[c] = "awaiting_human"
  /\ flow' = [flow EXCEPT ![c] = "published"]
  /\ UNCHANGED <<serial, rows, courses, snapshots, enrollments, report, clock, job, crashed>>

\* A slip: the revision keeps the snapshot of its source.
RevisionOfKeeping(source) ==
  Touched([courses[source] EXCEPT !.stage = "drafting", !.drafted = FALSE])

\* _build_revision_placeholder: a copy of the source without what was built, in
\* a row that is the newest.
RevisionOf(source) ==
  Touched([courses[source] EXCEPT !.stage = "drafting", !.drafted = FALSE, !.latest = 0,
                                  !.born = rows + 1])

\* _prepare_revision_drafts and _finalize_revision: the linked workflows are
\* cloned and begin again; without deliverables there is nothing to clone.
Revised(c, placeholder, source) ==
  LET cloned == courses[source].drafted
  IN  /\ flow' = [flow EXCEPT ![c] = IF cloned THEN "unproven" ELSE "none"]
      /\ courses' = [courses EXCEPT ![c] =
           Touched([placeholder EXCEPT !.stage = StageOf(flow'[c]), !.op = "none",
                                       !.latest = 0, !.drafted = cloned])]

\* create_revision.
CreateRevision(c, source) ==
  /\ ~Exists(c) /\ rows < MaxRows
  /\ Arrives(source)
  /\ Published(source)
  /\ Revised(c, RevisionOf(source), source)
  /\ rows' = rows + 1
  /\ UNCHANGED <<serial, snapshots, enrollments, report, clock, job, crashed>>

\* queue_revision saves the placeholder and starts a job.
QueueRevision(c, source) ==
  /\ ~Exists(c) /\ rows < MaxRows
  /\ Arrives(source)
  /\ Published(source)
  /\ courses' = [courses EXCEPT ![c] = [RevisionOf(source) EXCEPT !.op = "revision"]]
  /\ job' = [job EXCEPT ![c] = [pc |-> "revise", source |-> source]]
  /\ rows' = rows + 1
  /\ UNCHANGED <<serial, flow, snapshots, enrollments, report, clock, crashed>>

\* A slip: a revision that cannot be built stays as it is.
FinishRevisionOnly(c) ==
  /\ job[c].pc = "revise"
  /\ job' = [job EXCEPT ![c] = NoJob]
  /\ \/ Revised(c, courses[c], job[c].source)
     \/ UNCHANGED <<courses, flow>>
  /\ UNCHANGED <<serial, rows, snapshots, enrollments, report, clock, crashed>>

\* _finish_queued_revision, and _mark_revision_failed if anything is raised.
FinishRevision(c) ==
  /\ job[c].pc = "revise"
  /\ job' = [job EXCEPT ![c] = NoJob]
  /\ \/ /\ Published(job[c].source)
        /\ Revised(c, courses[c], job[c].source)
     \/ /\ courses' = [courses EXCEPT ![c] =
             Touched([@ EXCEPT !.stage = "blocked", !.op = "none"])]
        /\ UNCHANGED flow
  /\ UNCHANGED <<serial, rows, snapshots, enrollments, report, clock, crashed>>

-----------------------------------------------------------------------------
(* Publishing *)

\* _execute_publish_run, to the certification: the refreshed row is saved, a
\* course that is not ready is refused, and so is one whose deliverables have
\* workflows of their own, of which no snapshot can be made.
Publish(c) ==
  /\ Arrives(c)
  /\ clock < MaxSnapshots
  /\ courses' = [courses EXCEPT ![c] = Refreshed(c)]
  /\ IF /\ courses'[c].op = "none"
        /\ courses'[c].stage = "ready_to_publish"
        /\ courses[c].kind = "progressive"
     THEN /\ job' = [job EXCEPT ![c] = [pc |-> "certify", draft |-> Made(c, NextVersion(c))]]
          /\ clock' = clock + 1
     ELSE UNCHANGED <<job, clock>>
  /\ UNCHANGED <<serial, rows, flow, snapshots, enrollments, report, crashed>>

\* The snapshot is certified and saved.
Certify(c) ==
  /\ job[c].pc = "certify"
  /\ snapshots' = snapshots \cup {job[c].draft}
  /\ job' = [job EXCEPT ![c].pc = "link"]
  /\ UNCHANGED <<serial, rows, courses, flow, enrollments, report, clock, crashed>>

\* It is not certified: the course is blocked if its generation is to blame.
RefuseCertificate(c) ==
  /\ job[c].pc = "certify"
  /\ \E stage \in {courses[c].stage, "blocked"} :
       courses' = [courses EXCEPT ![c].stage = stage]
  /\ job' = [job EXCEPT ![c] = NoJob]
  /\ UNCHANGED <<serial, rows, flow, snapshots, enrollments, report, clock, crashed>>

\* The row is saved as published, with the id of the snapshot.
Link(c) ==
  /\ job[c].pc = "link"
  /\ courses' = [courses EXCEPT ![c].stage = "published",
                                ![c].latest = job[c].draft.at]
  /\ job' = [job EXCEPT ![c] = NoJob]
  /\ UNCHANGED <<serial, rows, flow, snapshots, enrollments, report, clock, crashed>>

\* A course of another family is published.
PublishOther ==
  /\ clock < MaxSnapshots
  /\ serial => \A d \in Runs : job[d].pc = "idle"
  /\ snapshots' = snapshots \cup {Made("other", 1)}
  /\ clock' = clock + 1
  /\ UNCHANGED <<serial, rows, courses, flow, enrollments, report, job, crashed>>

\* A course run of another family is created.
CreateOther ==
  /\ rows < MaxRows
  /\ rows' = rows + 1
  /\ UNCHANGED <<serial, courses, flow, snapshots, enrollments, report, clock, job, crashed>>

-----------------------------------------------------------------------------
(* The LMS *)

\* _latest_snapshot: the linked one, or the latest of the course; 0 for none.
SnapshotOf(c) ==
  LET mine == {s \in NewestSnapshots(Window) : s.run = c}
  IN  IF courses[c].latest # 0 THEN courses[c].latest
      ELSE IF mine = {} THEN 0 ELSE Best(mine).at

\* _lms_support.
Supported(c) ==
  /\ Published(c)
  /\ SnapshotOf(c) # 0
  /\ courses[c].kind # "outcome" => courses[c].kind = "progressive"

\* The time by which a course is ranked: of its snapshot, or of its last save,
\* which comes after the snapshots made before it.
Rank(c) == IF SnapshotOf(c) # 0 THEN 2 * SnapshotOf(c) ELSE 2 * courses[c].touched + 1

\* list_course_runs takes the newest rows of all families, drafts included, and
\* list_catalog picks the published ones: those of the family that it sees.
Seen == {c \in Runs : Published(c) /\ rows - courses[c].born < CourseWindow}

\* A slip: the catalogue shows the course that was created last.
CatalogueByAge == {c \in Seen : \A d \in Seen : courses[c].born >= courses[d].born}

\* list_catalog: the course, or one of those, that the catalogue may show for
\* the family.
Catalogue == {c \in Seen : \A d \in Seen : Rank(c) >= Rank(d)}

\* The list of versions of c, and the versions it marks as the default.
Defaults(c) ==
  LET listed == FamilySnapshots(ListWindow)
  IN  {s \in listed :
         \/ courses[c].latest = s.at
         \/ courses[c].latest = 0 /\ s = Best(listed)}

\* enroll: a learner has one enrollment at a course, pinned to its snapshot.
Enroll(l, c) ==
  /\ Published(c)
  /\ SnapshotOf(c) # 0
  /\ ~\E e \in enrollments : e.learner = l /\ e.run = c
  /\ enrollments' = enrollments \cup {[learner |-> l, run |-> c, snapshot |-> SnapshotOf(c)]}
  /\ UNCHANGED <<serial, rows, courses, flow, snapshots, report, clock, job, crashed>>

\* A slip: an enrollment is looked up by its learner only.
EvaluateAnybody(c) ==
  /\ Exists(c)
  /\ \E s \in snapshots, e \in enrollments :
       /\ s.run = c
       /\ report' = [run |-> c, snapshot |-> s.at, about |-> {e}]
  /\ UNCHANGED <<serial, rows, courses, flow, snapshots, enrollments, clock, job, crashed>>

\* record_learner_evaluation: about a snapshot of the course, named or its
\* latest, and perhaps about an enrollment, which must be pinned to it.
Evaluate(c) ==
  /\ Exists(c)
  /\ \E s \in snapshots :
       /\ s.run = c
       /\ \E about \in {{}} \cup {{e} : e \in enrollments} :
            /\ \A e \in about : e.run = c /\ e.snapshot = s.at
            /\ report' = [run |-> c, snapshot |-> s.at, about |-> about]
  /\ UNCHANGED <<serial, rows, courses, flow, snapshots, enrollments, clock, job, crashed>>

-----------------------------------------------------------------------------

\* The server restarts: jobs and requests die, and the locks are cleared.
Restart ==
  /\ ~crashed
  /\ crashed' = TRUE
  /\ job' = [c \in Runs |-> NoJob]
  /\ courses' = [c \in Runs |->
       IF Exists(c) /\ courses[c].op # "none"
       THEN Touched([courses[c] EXCEPT !.op = "none"]) ELSE courses[c]]
  /\ UNCHANGED <<serial, rows, flow, snapshots, enrollments, report, clock>>

JobStep(c) == FinishRevision(c) \/ Certify(c) \/ RefuseCertificate(c) \/ Link(c)

Next ==
  \/ Restart \/ PublishOther \/ CreateOther
  \/ \E c \in Runs :
       \/ Refresh(c) \/ ApproveWorkflow(c) \/ Publish(c) \/ Evaluate(c) \/ JobStep(c)
       \/ \E d \in Runs : CreateRevision(d, c) \/ QueueRevision(d, c)
       \/ \E l \in Learners : Enroll(l, c)

\* The job runner's threads go on: what they wait for has a time limit.
Spec == Init /\ [][Next]_vars /\ \A c \in Runs : WF_vars(JobStep(c))

-----------------------------------------------------------------------------
(* Properties *)

\* Rows, snapshots, enrollments and jobs have the shapes the code gives them.
TypeOK ==
  /\ {serial, crashed} \subseteq BOOLEAN /\ rows \in Nat
  /\ \A c \in Runs : Exists(c) => courses[c] \in Rows
  /\ flow \in [Runs -> {"none", "awaiting_human", "unproven", "published", "blocked"}]
  /\ snapshots \subseteq [at : 1..MaxSnapshots, run : Runs \cup {"other"}, version : 1..MaxSnapshots]
  /\ enrollments \subseteq [learner : Learners, run : Runs, snapshot : 1..MaxSnapshots]
  /\ clock \in 1..MaxSnapshots
  /\ \A c \in Runs : job[c].pc \in {"idle", "revise", "certify", "link"}

\* Of the published courses of a family that the catalogue sees - all, as long
\* as none has as many newer rows beside it, of any family and drafts included,
\* as are listed - it offers the one that was published last, and learners can
\* enroll in it: the catalogue ranks courses by time, the versions are numbers,
\* and publications of several revisions overlap (list_catalog, create_snapshot).
\* It has the best version of them as well as long as the store looks at all
\* snapshots there are: after that numbers start again.  Revisions of outcome
\* courses are another matter.
CatalogueOffersNewest ==
  courses[First].kind # "outcome" =>
    LET linked == {s \in snapshots : s.run \in Seen /\ courses[s.run].latest = s.at}
    IN  /\ Seen # {} => Catalogue # {}
        /\ \A c \in Catalogue :
             /\ Supported(c)
             /\ \A s \in linked : s.at <= SnapshotOf(c)
             /\ Cardinality(snapshots) <= Window => SnapshotOf(c) = Best(linked).at

\* The versions of a family count up in the order in which they were made, by
\* one each if publications do not overlap, also when one was not linked before
\* the server died - as long as the store looks at all snapshots there are
\* (create_snapshot, get_latest_publish_snapshot).
VersionsCountUp ==
  Cardinality(snapshots) <= Window =>
    \A s, t \in {s \in snapshots : s.run \in Runs} :
      s.at < t.at => IF serial THEN s.version < t.version ELSE s.version <= t.version

\* What the list of versions marks as the default for new enrollments is what
\* an enrollment in the course is pinned to, and learners who enrolled have
\* just that (list_published_versions, enroll).
DefaultIsWhatLearnersGet ==
  /\ Cardinality(snapshots) <= ListWindow =>
       \A c \in Runs : Exists(c) /\ Supported(c) =>
         {s.at : s \in Defaults(c)} = {SnapshotOf(c)}
  /\ \A e \in enrollments : e.snapshot = courses[e.run].latest

\* A report on a learner is about the snapshot this learner works on, whoever
\* else publishes or enrolls (record_learner_evaluation).
ReportIsAboutTheLearner ==
  \A e \in report.about : e \in enrollments /\ e.run = report.run /\ e.snapshot = report.snapshot

\* What authors read about versions is what learners work with.
VersionsAreSound ==
  TypeOK /\ VersionsCountUp /\ DefaultIsWhatLearnersGet /\ ReportIsAboutTheLearner

Revising(c) == Exists(c) /\ courses[c].op = "revision"

\* A queued revision ends, with a draft or with an error, also when the server
\* dies (_finish_queued_revision, reconcile_stale_active_operations).
RevisionEnds == \A c \in Runs : Revising(c) ~> ~Revising(c)

\* "test_create_revision_produces_new_draft_without_replacing_published_catalog_entry":
\* a published course that learners can enroll in does not give its place in
\* the catalogue to one they cannot enroll in.
RevisionKeepsCatalogue ==
  [][(\A c \in Catalogue : Supported(c)) => (\A c \in Catalogue' : Supported(c)')]_vars

=============================================================================
