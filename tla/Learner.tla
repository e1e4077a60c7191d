------------------------------ MODULE Learner ------------------------------
(***************************************************************************)
(* A learner at a published course (services/lms_service.py,               *)
(* learner_package_runtime.py, learner_studio_service.py,                  *)
(* tutor_service.py): enrollment, workspace, editor sessions, submissions, *)
(* progress and the tutor.                                                 *)
(*                                                                         *)
(* Every request runs in a thread of the server.  It reads whole rows,     *)
(* works on copies for seconds or minutes - an editor starts, a submission *)
(* is graded - and writes whole rows back, without a lock.  Editors and    *)
(* the learner's service under grading are containers, which survive the   *)
(* server; requests do not.                                                *)
(***************************************************************************)
EXTENDS Naturals, FiniteSets

CONSTANTS
  Requests,      \* requests of the learner, also the ids of what they create
  Enrolled,      \* the id of an enrollment that may exist to begin with
  Deliverables,  \* how many deliverables the course has
  Dependencies   \* whether its workspace needs services, such as a database

ASSUME LearnerAssumption ==
  /\ Deliverables \in Nat \ {0}
  /\ Enrolled \notin Requests
  /\ IsFiniteSet(Requests)
  /\ Dependencies \in BOOLEAN

VARIABLES
  serial,      \* whether the learner waits for each request; it does not change
  enrollments, \* learner_enrollments, of this learner at this course
  submissions, \* learner_submissions
  sessions,    \* learner_workspace_sessions
  messages,    \* tutor_chat_messages
  containers,  \* the sessions whose editor runs in docker
  services,    \* the sessions that have services for their editor there
  graders,     \* the submissions whose service runs in docker, to be graded
  lost,        \* the sessions and submissions of which a docker command that
               \* failed or was late left something running
  files,       \* what the workspace directory holds
  req,         \* the requests and their local variables
  clock,       \* the time of the last row that is ordered by time
  crashed      \* whether the server has been restarted; it is once

store == <<enrollments, submissions, sessions, messages>>
docker == <<containers, services, graders, lost>>
world == <<docker, files>>
vars == <<serial, store, world, req, clock, crashed>>

Ids == Requests \cup {Enrolled}

Areas == 1..Deliverables

None == [status |-> "none"]

New(now) == [status |-> "active", current |-> 1, passed |-> {}, born |-> now]

Idle(q) == req[q].pc \in {"idle", "done", "failed", "gone"}

\* The local variables of a request that has none.
Fresh(q, pc) ==
  [pc |-> pc, kind |-> "write", e |-> Enrolled, copy |-> None, target |-> 0,
   last |-> FALSE, session |-> q, passes |-> {}, left |-> {}, at |-> 0, failure |-> 0]

Init ==
  /\ serial \in BOOLEAN
  /\ \/ /\ enrollments = [e \in Ids |-> None]
        /\ files = "missing"
     \/ /\ enrollments = [e \in Ids |-> IF e = Enrolled THEN New(0) ELSE None]
        /\ files = "seed"
  /\ submissions = {}
  /\ sessions = [s \in Requests |-> None]
  /\ messages = {}
  /\ containers = {} /\ services = {} /\ graders = {} /\ lost = {}
  /\ req = [q \in Requests |-> Fresh(q, "idle")]
  /\ clock = 0
  /\ crashed = FALSE

Exists(e) == enrollments[e] # None

Do(q, new) == req' = [req EXCEPT ![q] = new]

\* Goes on at pc, or ends.
Go(q, pc) ==
  Do(q, IF pc \in {"done", "failed"} THEN Fresh(q, pc) ELSE [req[q] EXCEPT !.pc = pc])

\* A request returns what get_enrollment returns.
LastGet(q) == Do(q, [Fresh(q, "read") EXCEPT !.e = req[q].e, !.last = TRUE])

-----------------------------------------------------------------------------
(* Enrollment and progress *)

\* A request comes in.
Begin(q) ==
  /\ req[q].pc = "idle"
  /\ serial => \A p \in Requests : Idle(p)
  /\ \/ Do(q, [req[q] EXCEPT !.kind = "enroll", !.pc = "find"])
     \/ \E e \in Ids, kind \in {"write", "launch", "submit"} :
          \E target \in IF kind \in {"launch", "submit"} THEN 0..Deliverables ELSE {0} :
            /\ Exists(e)
            /\ Do(q, [req[q] EXCEPT !.kind = kind, !.e = e, !.pc = "read", !.target = target])
     \/ \E e \in Ids : Exists(e) /\ Do(q, [req[q] EXCEPT !.kind = "chat", !.e = e, !.pc = "ask"])
  /\ UNCHANGED <<serial, store, world, clock, crashed>>

\* A slip: an enrollment that is completed is not found.
FindActive(q) ==
  /\ req[q].pc = "find"
  /\ IF \E e \in Ids : enrollments[e].status = "active"
     THEN \E e \in Ids :
            /\ enrollments[e].status = "active"
            /\ Do(q, [req[q] EXCEPT !.e = e, !.pc = "read", !.last = TRUE])
     ELSE Go(q, "create")
  /\ UNCHANGED <<serial, store, world, clock, crashed>>

\* enroll looks for an enrollment, the newest one.
Find(q) ==
  /\ req[q].pc = "find"
  /\ IF \E e \in Ids : Exists(e)
     THEN \E e \in Ids :
            /\ Exists(e)
            /\ \A f \in Ids : Exists(f) => enrollments[f].born <= enrollments[e].born
            /\ Do(q, [req[q] EXCEPT !.e = e, !.pc = "read", !.last = TRUE])
     ELSE Go(q, "create")
  /\ UNCHANGED <<serial, store, world, clock, crashed>>

\* It has found none, and creates one, with an id of its own.
Create(q) ==
  /\ req[q].pc = "create"
  /\ clock' = clock + 1
  /\ enrollments' = [enrollments EXCEPT ![q] = New(clock + 1)]
  /\ Do(q, [req[q] EXCEPT !.e = q, !.pc = "seed"])
  /\ UNCHANGED <<serial, submissions, sessions, messages, world, crashed>>

\* The latest submission of a deliverable, if any.
Latest(e, d) ==
  LET mine == {s \in submissions : s.e = e /\ s.d = d}
  IN  {s \in mine : \A t \in mine : t.at <= s.at}

LatestPassed(e, d) == \E s \in Latest(e, d) : s.passed

AllPassed(e) == \A d \in Areas : LatestPassed(e, d)

\* A slip: any deliverable that has been passed completes the course.
RefreshedEarly(e, copy) ==
  LET passed == {d \in Areas : IF Latest(e, d) = {} THEN d \in copy.passed
                                                   ELSE LatestPassed(e, d)}
  IN  IF passed # {}
      THEN [copy EXCEPT !.passed = passed, !.status = "completed", !.current = 0]
      ELSE [copy EXCEPT !.passed = passed]

\* The copy of get_enrollment: each deliverable has the status of its latest
\* submission; all of them passed completes the course.
Refreshed(e, copy) ==
  LET passed == {d \in Areas : IF Latest(e, d) = {} THEN d \in copy.passed
                                                   ELSE LatestPassed(e, d)}
  IN  IF passed = Areas
      THEN [copy EXCEPT !.passed = passed, !.status = "completed", !.current = 0]
      ELSE [copy EXCEPT !.passed = passed]

\* get_enrollment reads the enrollment.
Read(q) ==
  /\ req[q].pc = "read"
  /\ Do(q, [req[q] EXCEPT !.copy = enrollments[req[q].e], !.pc = "refresh"])
  /\ UNCHANGED <<serial, store, world, clock, crashed>>

\* After get_enrollment a request ends, or goes on with the workspace.
AfterGet(q) == IF req[q].last THEN "done" ELSE "seed"

\* It reads the submissions, and saves the copy if that changed it; the row
\* also shows the latest submission and session, so it may have changed
\* although nothing is different here.
Refresh(q) ==
  /\ req[q].pc = "refresh"
  /\ LET new == Refreshed(req[q].e, req[q].copy)
     IN  \/ new = req[q].copy /\ Go(q, AfterGet(q))
         \/ Do(q, [req[q] EXCEPT !.copy = new, !.pc = "heal"])
  /\ UNCHANGED <<serial, store, world, clock, crashed>>

Heal(q) ==
  /\ req[q].pc = "heal"
  /\ enrollments' = [enrollments EXCEPT ![req[q].e] = req[q].copy]
  /\ Go(q, AfterGet(q))
  /\ UNCHANGED <<serial, submissions, sessions, messages, world, clock, crashed>>

-----------------------------------------------------------------------------
(* The workspace *)

Body == [enroll |-> "done", write |-> "write",
         launch |-> "session", submit |-> "grade"]

\* A slip: the files of the snapshot are written whatever is there.
SeedAgain(q) ==
  /\ req[q].pc = "seed"
  /\ Go(q, "plant")
  /\ UNCHANGED <<serial, store, world, clock, crashed>>

\* seed_workspace_from_snapshot leaves a file alone that exists.
Seed(q) ==
  /\ req[q].pc = "seed"
  /\ Go(q, IF files = "missing" THEN "plant" ELSE Body[req[q].kind])
  /\ UNCHANGED <<serial, store, world, clock, crashed>>

\* The file was not there, and is written.
Plant(q) ==
  /\ req[q].pc = "plant"
  /\ files' = "seed"
  /\ Go(q, Body[req[q].kind])
  /\ UNCHANGED <<serial, store, docker, clock, crashed>>

\* write_workspace_file, or the learner in the editor.
Write(q) ==
  /\ req[q].pc = "write"
  /\ files' = "work"
  /\ Go(q, "done")
  /\ UNCHANGED <<serial, store, docker, clock, crashed>>

-----------------------------------------------------------------------------
(* Editor sessions *)

\* A slip: the index after the last deliverable.
TargetBeyond(q) ==
  IF req[q].target # 0 THEN req[q].target
  ELSE IF req[q].copy.current # 0 THEN req[q].copy.current ELSE Deliverables + 1

\* The deliverable a request is about: the one it names, or the current one,
\* or the last.
Target(q) ==
  IF req[q].target # 0 THEN req[q].target
  ELSE IF req[q].copy.current # 0 THEN req[q].copy.current ELSE Deliverables

\* The sessions of an enrollment, the newest one.
LatestSession(e) ==
  LET mine == {s \in Requests : sessions[s] # None /\ sessions[s].e = e}
  IN  {s \in mine : \A t \in mine : sessions[t].at <= sessions[s].at}

\* A slip: every launch starts an editor of its own.
OpenSessionAnew(q) ==
  /\ req[q].pc = "session"
  /\ Go(q, "boot")
  /\ UNCHANGED <<serial, store, world, clock, crashed>>

\* launch_editor reuses the editor of the latest session if it still runs;
\* else it starts one, under the name of that session if there is one.  docker
\* inspect may fail, which means that it does not run, or be late.
OpenSession(q) ==
  /\ req[q].pc = "session"
  /\ LET latest == LatestSession(req[q].e)
     IN  IF latest = {} THEN Go(q, "boot")
         ELSE \E s \in latest, pc \in {"keep", "boot", "failed"} :
                /\ pc = "keep" => s \in containers
                /\ IF pc = "failed" THEN Go(q, pc)
                   ELSE Do(q, [req[q] EXCEPT !.session = s, !.pc = pc])
  /\ UNCHANGED <<serial, store, world, clock, crashed>>

\* A name is in a set of what runs afterwards, or it is not.
Either(s, set) == {set \cup {s}, set \ {s}}

\* The sessions with services, when those of s run as well.
Served(s) == IF Dependencies THEN services \cup {s} ELSE services

\* docker rm -f is not checked, and docker run may be late: something of the
\* session is left, or runs when nobody waits for it any more.
Left(s) ==
  /\ containers' \in Either(s, containers) /\ services' \in {Served(s), services \ {s}}
  /\ s \in containers' \cup services'
  /\ lost' = lost \cup {s}

\* What is there of the session is removed, the services that the workspace
\* needs and a new editor are run.  An image or a service may be missing before
\* that, and what was started is removed; when the editor does not start, its
\* services stay.
Boot(q) ==
  /\ req[q].pc = "boot"
  /\ LET s == req[q].session IN
     \/ /\ containers' = containers \cup {s} /\ services' = Served(s)
        /\ Go(q, "wait") /\ UNCHANGED lost
     \/ /\ containers' = containers \ {s} /\ services' = services \ {s}
        /\ Go(q, "failed") /\ UNCHANGED lost
     \/ Left(s) /\ Go(q, "failed")
  /\ UNCHANGED <<serial, store, graders, files, clock, crashed>>

\* _wait_for_http, of a service that is up or not: it gives up when the service
\* has stopped, or in time.
AwaitHttp(up) == IF up THEN BOOLEAN ELSE {FALSE}

\* The editor answers; if it does not in time, all of it is removed.
Wait(q) ==
  /\ req[q].pc = "wait"
  /\ LET s == req[q].session IN
     \E answers \in AwaitHttp(s \in containers) :
       \/ answers /\ Go(q, "keep") /\ UNCHANGED <<containers, services, lost>>
       \/ /\ ~answers /\ Go(q, "failed")
          /\ containers' = containers \ {s} /\ services' = services \ {s} /\ UNCHANGED lost
       \/ ~answers /\ Go(q, "failed") /\ Left(s)
  /\ UNCHANGED <<serial, store, graders, files, clock, crashed>>

\* launch_workspace saves the session.
KeepSession(q) ==
  /\ req[q].pc = "keep"
  /\ clock' = clock + 1
  /\ sessions' = [sessions EXCEPT ![req[q].session] =
       [status |-> "running", e |-> req[q].e, at |-> clock + 1]]
  /\ IF req[q].copy.current # Target(q)
     THEN Go(q, "move")
     ELSE LastGet(q)
  /\ UNCHANGED <<serial, enrollments, submissions, messages, world, crashed>>

\* It saves the copy of the enrollment with another current deliverable.
Move(q) ==
  /\ req[q].pc = "move"
  /\ enrollments' = [enrollments EXCEPT ![req[q].e] =
       [req[q].copy EXCEPT !.current = Target(q)]]
  /\ LastGet(q)
  /\ UNCHANGED <<serial, submissions, sessions, messages, world, clock, crashed>>

\* An editor stops by itself; its services do not.
EditorDies(s) ==
  /\ s \in containers
  /\ containers' = containers \ {s}
  /\ UNCHANGED <<serial, store, services, graders, lost, files, req, clock, crashed>>

-----------------------------------------------------------------------------
(* Submissions *)

\* grade_assignment runs a copy of the workspace as a service; a run that fails
\* may leave its container behind.
StartGrader(q) ==
  /\ req[q].pc = "grade"
  /\ \/ graders' = graders \cup {q} /\ Go(q, "graded")
     \/ graders' \in {graders, graders \cup {q}} /\ Go(q, "ungrade")
  /\ UNCHANGED <<serial, store, containers, services, lost, files, clock, crashed>>

\* The service answers and is graded, deliverable by deliverable, or it does not
\* answer in time, or the grader fails.
Grade(q) ==
  /\ req[q].pc = "graded"
  /\ \E answers \in AwaitHttp(q \in graders) :
       \/ \E passes \in SUBSET Areas :
            /\ answers
            /\ clock' = clock + 1
            /\ Do(q, [req[q] EXCEPT !.passes = passes, !.left = Areas,
                        !.at = clock + 1, !.pc = "ungrade"])
       \/ Go(q, "ungrade") /\ UNCHANGED clock
  /\ UNCHANGED <<serial, store, world, crashed>>

\* A slip: the service is stopped when it has been graded.
StopGradedOnly(q) ==
  /\ req[q].pc = "ungrade"
  /\ IF req[q].left = {}
     THEN Go(q, "failed") /\ UNCHANGED graders
     ELSE Go(q, "record") /\ graders' = graders \ {q}
  /\ UNCHANGED <<serial, store, containers, services, lost, files, clock, crashed>>

\* Whatever happened, the service is stopped.  docker rm may fail, which nobody
\* notices, or be late, which ends the request, also one that was graded.
StopGrader(q) ==
  /\ req[q].pc = "ungrade"
  /\ LET next == IF req[q].left = {} THEN "failed" ELSE "record" IN
     /\ \/ graders' = graders \ {q} /\ UNCHANGED lost
        \/ q \in graders /\ graders' = graders /\ lost' = lost \cup {q}
     /\ \E pc \in {next, "failed"} : Go(q, pc)
  /\ UNCHANGED <<serial, store, containers, services, files, clock, crashed>>

\* The submission of one deliverable after the other is saved.
Record(q) ==
  /\ req[q].pc = "record"
  /\ \E d \in req[q].left :
       /\ \A f \in req[q].left : d <= f
       /\ submissions' = submissions \cup
            {[e |-> req[q].e, d |-> d, at |-> req[q].at, passed |-> d \in req[q].passes]}
       /\ Do(q, [req[q] EXCEPT !.left = @ \ {d},
                   !.pc = IF req[q].left = {d} THEN "progress" ELSE "record"])
  /\ UNCHANGED <<serial, enrollments, sessions, messages, world, clock, crashed>>

\* A slip: a failed submission leaves the status as it was.
ProgressKept(q) ==
  /\ req[q].pc = "progress"
  /\ enrollments' = [enrollments EXCEPT ![req[q].e] =
       IF req[q].passes = Areas
       THEN [req[q].copy EXCEPT !.passed = Areas, !.current = 0, !.status = "completed"]
       ELSE [req[q].copy EXCEPT !.passed = req[q].passes, !.current = Target(q)]]
  /\ LastGet(q)
  /\ UNCHANGED <<serial, submissions, sessions, messages, world, clock, crashed>>

\* The copy of the enrollment read before grading is saved with the outcome.
Progress(q) ==
  /\ req[q].pc = "progress"
  /\ enrollments' = [enrollments EXCEPT ![req[q].e] =
       IF req[q].passes = Areas
       THEN [req[q].copy EXCEPT !.passed = Areas, !.current = 0, !.status = "completed"]
       ELSE [req[q].copy EXCEPT !.passed = req[q].passes, !.current = Target(q),
                                !.status = "active"]]
  /\ LastGet(q)
  /\ UNCHANGED <<serial, submissions, sessions, messages, world, clock, crashed>>

-----------------------------------------------------------------------------
(* The tutor *)

\* The time of the newest failed submission of an enrollment, or 0.
LatestFailure(e) ==
  LET failed == {s.at : s \in {t \in submissions : t.e = e /\ ~t.passed}}
  IN  IF failed = {} THEN {0} ELSE {at \in failed : \A f \in failed : f <= at}

\* _resolve_session_context: what the model is to know of the learner is read,
\* among it the newest submission that failed.
Ask(q) ==
  /\ req[q].pc = "ask"
  /\ \E failure \in LatestFailure(req[q].e) :
       Do(q, [req[q] EXCEPT !.failure = failure, !.pc = "call"])
  /\ UNCHANGED <<serial, store, world, clock, crashed>>

\* chat: the model answers, which takes more than the millisecond that is
\* between a question's row and its reply's; of a call that failed nothing is
\* kept.
Answered(q) ==
  /\ req[q].pc = "call"
  /\ \/ clock' = clock + 2 /\ Do(q, [req[q] EXCEPT !.at = clock + 2, !.pc = "question"])
     \/ Go(q, "failed") /\ UNCHANGED clock
  /\ UNCHANGED <<serial, store, world, crashed>>

Message(q, role, at) ==
  [q |-> q, e |-> req[q].e, role |-> role, at |-> at, failure |-> req[q].failure]

\* _persist_turn keeps the question and then the reply, as far as it can; the
\* learner gets the reply in any case.
KeepQuestion(q) ==
  /\ req[q].pc = "question"
  /\ \/ messages' = messages \cup {Message(q, "user", req[q].at)} /\ Go(q, "reply")
     \/ Go(q, "done") /\ UNCHANGED messages
  /\ UNCHANGED <<serial, enrollments, submissions, sessions, world, clock, crashed>>

\* A slip: the two rows have one time.
KeepReplyAtOnce(q) ==
  /\ req[q].pc = "reply"
  /\ messages' \in {messages, messages \cup {Message(q, "tutor", req[q].at)}}
  /\ Go(q, "done")
  /\ UNCHANGED <<serial, enrollments, submissions, sessions, world, clock, crashed>>

KeepReply(q) ==
  /\ req[q].pc = "reply"
  /\ messages' \in {messages, messages \cup {Message(q, "tutor", req[q].at + 1)}}
  /\ Go(q, "done")
  /\ UNCHANGED <<serial, enrollments, submissions, sessions, world, clock, crashed>>

-----------------------------------------------------------------------------
(* The server *)

\* The server, or its host, stops and starts: its requests are gone, and
\* perhaps some editors; reconcile_stale_sessions looks at every session.
Restart ==
  /\ ~crashed
  /\ crashed' = TRUE
  /\ req' = [q \in Requests |-> IF Idle(q) THEN req[q] ELSE Fresh(q, "gone")]
  /\ containers' \in SUBSET containers /\ services' \in SUBSET services
  /\ graders' \in SUBSET graders
  /\ clock' = clock + 1
  /\ sessions' = [s \in Requests |->
       IF sessions[s].status = "running" /\ s \notin containers'
       THEN [sessions[s] EXCEPT !.status = "stopped", !.at = clock + 1] ELSE sessions[s]]
  /\ UNCHANGED <<serial, enrollments, submissions, messages, lost, files>>

\* A slip: get_enrollment shows the refreshed copy and does not save it.
LookOnly(e) ==
  /\ \A q \in Requests : Idle(q)
  /\ Exists(e)
  /\ UNCHANGED vars

\* The learner opens the course page when nothing else goes on: all of
\* get_enrollment at once.
Look(e) ==
  /\ \A q \in Requests : Idle(q)
  /\ Exists(e)
  /\ enrollments' = [enrollments EXCEPT ![e] = Refreshed(e, @)]
  /\ UNCHANGED <<serial, submissions, sessions, messages, world, req, clock, crashed>>

Step(q) ==
  \/ Find(q) \/ Create(q) \/ Read(q) \/ Refresh(q) \/ Heal(q)
  \/ Seed(q) \/ Plant(q) \/ Write(q)
  \/ OpenSession(q) \/ Boot(q) \/ Wait(q) \/ KeepSession(q) \/ Move(q)
  \/ StartGrader(q) \/ Grade(q) \/ StopGrader(q) \/ Record(q) \/ Progress(q)
  \/ Ask(q) \/ Answered(q) \/ KeepQuestion(q) \/ KeepReply(q)

Next ==
  \/ \E q \in Requests : Begin(q) \/ Step(q)
  \/ \E s \in Requests : EditorDies(s)
  \/ \E e \in Ids : Look(e)
  \/ Restart

\* Requests that came in go on, and the learner looks at the course again.
Fairness ==
  /\ \A q \in Requests : WF_vars(Step(q))
  /\ \A e \in Ids : WF_vars(Look(e))

Spec == Init /\ [][Next]_vars /\ Fairness

-----------------------------------------------------------------------------
(* Properties *)

Statuses == {"active", "completed"}

EnrollmentRows ==
  [status : Statuses, current : 0..Deliverables, passed : SUBSET Areas, born : Nat]

\* The types of the rows and files.
TypeOK ==
  /\ enrollments \in [Ids -> EnrollmentRows \cup {None}]
  /\ submissions \subseteq [e : Ids, d : Areas, at : 1..clock, passed : BOOLEAN]
  /\ \A s \in Requests : sessions[s] # None =>
       /\ sessions[s].status \in {"running", "stopped"}
       /\ Exists(sessions[s].e)
  /\ messages \subseteq [q : Requests, e : Ids, role : {"user", "tutor"}, at : Nat, failure : Nat]
  /\ \A names \in {containers, services, graders, lost} : names \subseteq Requests
  /\ files \in {"missing", "seed", "work"}

\* A completed enrollment has a passing submission of each of its deliverables,
\* whatever overlaps and whenever the server stops: the copies that are written
\* back may be old, never made up.
CompletedWasPassed ==
  \A e \in Ids : enrollments[e].status = "completed" =>
    \A d \in Areas : \E s \in submissions : s.e = e /\ s.d = d /\ s.passed

Quiet == \A q \in Requests : Idle(q)

\* Without overlaps and restarts, an enrollment is completed exactly when the
\* latest submission of each deliverable passed: a failing resubmission takes
\* the completion back.  (With either of them it may stay completed for good,
\* as get_enrollment completes, and never takes back.)
StatusIsLatest ==
  serial /\ ~crashed /\ Quiet =>
    \A e \in Ids : enrollments[e].status = "completed" <=> Exists(e) /\ AllPassed(e)

\* A learner who waits for the answer has one enrollment at a course, also if
\* the server stops half way through.  (A double click may create two.)
OneEnrollment == serial => Cardinality({e \in Ids : Exists(e)}) <= 1

\* Seeding, at every request, never overwrites what the learner wrote, if
\* requests do not overlap.
WorkIsKept == [][serial /\ files = "work" => files' = "work"]_files

\* What runs of editors, but for what a docker command that failed has left.
Running == (containers \cup services) \ lost

\* Without overlaps and restarts, the only editor that runs, with its services,
\* is that of the latest session, however launches end: none is forgotten but
\* one of which a docker command failed or was late.  (The first launch of an
\* enrollment that ends so leaves an editor, or its services, under a name that
\* nothing remembers.)
EditorRemembered ==
  serial /\ ~crashed /\ Quiet => \E e \in Ids : Running \subseteq LatestSession(e)

\* In the order of their times, which is how they are shown, a reply comes after
\* its question, whatever is lost of a turn; the turns of a learner who waits for
\* the answer are not mixed; and a failure the tutor was told of is one of the
\* learner's in that course (tutor_service.py's _persist_turn and
\* _resolve_session_context).
TranscriptReads ==
  /\ \A m \in messages : m.role = "tutor" =>
       \E n \in messages : n.role = "user" /\ n.q = m.q /\ n.e = m.e /\ n.at < m.at
  /\ serial => \A m, n \in messages : m.q # n.q /\ m.at <= n.at =>
       \A o \in messages : o.q = m.q => o.at < n.at
  /\ \A m \in messages : m.failure # 0 =>
       \E s \in submissions : s.e = m.e /\ s.at = m.failure /\ ~s.passed

\* The rows, whatever fails: completions are earned, one enrollment a learner,
\* and a transcript that can be read.
RowsAreSound == TypeOK /\ CompletedWasPassed /\ OneEnrollment /\ TranscriptReads

\* Unless the server is restarted, or docker did not do what it was told, no
\* service goes on running when its submission is graded, however that ended
\* (learner_studio_service.py's grade_assignment).
NoGraderLeft == ~crashed /\ Quiet => graders \subseteq lost

\* What a learner comes back to: when requests wait for each other a status that
\* is that of the latest submissions and no editor that is forgotten, and in any
\* case no service of a submission that is over - but for what docker left when
\* a command of it failed.
ComeBackToLatest == StatusIsLatest /\ EditorRemembered /\ NoGraderLeft

\* A pass is not lost: when the latest submission of each deliverable passed,
\* the enrollment is completed, or a newer submission comes in.  A restart
\* between the save of a submission and that of the enrollment, and old copies
\* written over it, are mended when the learner looks again.
PassIsSeen ==
  \A e \in Ids : AllPassed(e) ~> (enrollments[e].status = "completed" \/ ~AllPassed(e))

=============================================================================
