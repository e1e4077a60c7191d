--------------------------- MODULE LearnerProofs ---------------------------
(***************************************************************************)
(* What holds of a learner at a course for any number of requests and      *)
(* deliverables.                                                           *)
(*                                                                         *)
(* Requests write back copies that may be arbitrarily old.  What they      *)
(* claim stays true however old they are (Holds): submissions, enrollments *)
(* and the clock only grow (Grows).  The rest is about a learner who waits *)
(* for the answer: at most one request is under way, and the rows are as   *)
(* they should be but for what that one has not done yet (Good).           *)
(***************************************************************************)
EXTENDS Learner, FiniteSetTheorems, TLAPS

-----------------------------------------------------------------------------
(* The invariant of all requests *)

Ended == {"done", "failed", "gone"}

\* At these places a request has not chosen its enrollment.
Early == {"idle", "find", "create"}

\* At these it is in get_enrollment or goes on to the workspace.
Viewing == {"read", "refresh", "heal", "seed", "plant"}

\* At these its copy of the enrollment is one that was read.
Copied ==
  {"refresh", "heal", "write", "session", "boot", "wait", "keep", "move",
   "grade", "graded", "ungrade", "record", "progress"}

Chatting == {"ask", "call", "question", "reply"}

PCs == Ended \cup Early \cup Viewing \cup Copied \cup Chatting

Kinds == {"enroll", "write", "launch", "submit", "chat"}

ReqStates ==
  [pc : PCs, kind : Kinds, e : Ids, copy : EnrollmentRows \cup {None},
   target : 0..Deliverables, last : BOOLEAN, session : Requests,
   passes : SUBSET Areas, left : SUBSET Areas, at : Nat, failure : Nat]

SubmissionRows == [e : Ids, d : Areas, at : Nat, passed : BOOLEAN]

SessionRows == [status : {"running", "stopped"}, e : Ids, at : Nat]

MessageRows == [q : Requests, e : Ids, role : {"user", "tutor"}, at : Nat, failure : Nat]

\* What is known of a request from its place.
Placed(o) ==
  /\ o.pc \in Early => o.copy = None /\ o.passes = {} /\ o.left = {} /\ o.failure = 0
  /\ o.pc \in {"find", "create"} => o.kind = "enroll"
  /\ o.pc \in Viewing => o.kind # "chat"
  /\ o.pc \in Copied \/ (o.pc \in {"seed", "plant"} /\ o.kind # "enroll")
       => o.copy \in EnrollmentRows
  /\ o.pc = "record" => o.left # {}
  /\ o.pc = "progress" => o.left = {}

\* What runs of submissions, but for what a docker command that failed has left.
Graders == graders \ lost

DockerTypes ==
  /\ containers \subseteq Requests /\ services \subseteq Requests
  /\ graders \subseteq Requests /\ lost \subseteq Requests

StoreTypes ==
  /\ serial \in BOOLEAN /\ crashed \in BOOLEAN
  /\ enrollments \in [Ids -> EnrollmentRows \cup {None}]
  /\ submissions \subseteq SubmissionRows
  /\ sessions \in [Requests -> SessionRows \cup {None}]
  /\ messages \subseteq MessageRows
  /\ DockerTypes
  /\ files \in {"missing", "seed", "work"}
  /\ clock \in Nat

ReqTypes == req \in [Requests -> ReqStates] /\ \A q \in Requests : Placed(req[q])

\* A deliverable was passed in the enrollment e; a submission of it failed then.
Earned(e, d) == \E s \in submissions : s.e = e /\ s.d = d /\ s.passed

FailedAt(e, at) == \E s \in submissions : s.e = e /\ s.at = at /\ ~s.passed

\* What a row of the enrollment e claims was earned.
Claims(e, row) ==
  /\ row.status = "completed" => \A d \in Areas : Earned(e, d)
  /\ row # None => \A d \in row.passed : Earned(e, d)

\* What a request in state o has seen or done stays so.
Holds(o) ==
  /\ o.pc \notin Early \cup Ended => Exists(o.e)
  /\ Claims(o.e, o.copy)
  /\ \A d \in o.passes \ o.left : Earned(o.e, d)
  /\ o.left # {} => o.at \in 1..clock
  /\ o.failure # 0 => FailedAt(o.e, o.failure)
  /\ o.pc \in {"question", "reply"} => o.at <= clock

Requested == \A q \in Requests : Holds(req[q])

\* The rows of enrollments, submissions and sessions.
Rows ==
  /\ \A e \in Ids : Claims(e, enrollments[e])
  /\ \A s \in submissions : s.at \in 1..clock /\ Exists(s.e)
  /\ \A s \in Requests : sessions[s] # None => Exists(sessions[s].e) /\ sessions[s].at <= clock
  /\ ~crashed => \A s, t \in Requests :
       sessions[s] # None /\ sessions[t] # None /\ sessions[s].at = sessions[t].at => s = t

\* A deliverable that was submitted has a latest submission.
Tops ==
  \A e \in Ids, d \in Areas : \A s \in submissions :
    s.e = e /\ s.d = d => Latest(e, d) # {}

\* What a request q in state o says in the transcript.
Says(q, o) ==
  /\ (\E m \in messages : m.q = q) => o.pc \in Ended \cup {"reply"}
  /\ o.pc = "reply" =>
       /\ \E m \in messages : m.role = "user" /\ m.q = q /\ m.e = o.e /\ m.at = o.at
       /\ \A m \in messages : m.q = q => m.at = o.at

Spoken == \A q \in Requests : Says(q, req[q])

Transcript ==
  /\ \A m \in messages : m.at <= clock + 1
  /\ \A m \in messages : m.role = "tutor" =>
       \E n \in messages : n.role = "user" /\ n.q = m.q /\ n.e = m.e /\ n.at < m.at
  /\ \A m \in messages : m.failure # 0 => FailedAt(m.e, m.failure)

Watched == ~crashed => \A q \in Graders : req[q].pc \in {"graded", "ungrade"}

GInv ==
  /\ StoreTypes /\ ReqTypes /\ Requested /\ Rows /\ Tops
  /\ Transcript /\ Spoken /\ Watched

-----------------------------------------------------------------------------
(* The invariant of a learner who waits for the answer *)

OneActive == \A p, q \in Requests : ~Idle(p) /\ ~Idle(q) => p = q

OneExists == \A e, f \in Ids : Exists(e) /\ Exists(f) => e = f

\* The turns of the transcript are not mixed.
Turns ==
  \A m, n \in messages : m.q # n.q /\ m.at <= n.at =>
    \A o \in messages : o.q = m.q => o.at < n.at

Right(e, row) == row.status = "completed" <=> AllPassed(e)

RightRow(e) == Exists(e) => Right(e, enrollments[e])

Remembered == \E e \in Ids : Running \subseteq LatestSession(e)

\* What holds when no request is under way.
Rest == ~crashed => Remembered /\ \A e \in Ids : RightRow(e)

\* In these places some, or all, deliverables of a submission are saved.
Saving == {"record", "progress"}

Starting == {"boot", "wait", "keep"}

\* The editors that run when a request in state o is under way.
GoodEditors(o) ==
  IF o.pc \in Starting THEN Running \subseteq {o.session} ELSE Remembered

\* The rows, but for the one whose submission is being saved; what is saved of
\* it is later than everything else.
GoodRows(o) ==
  /\ \A e \in Ids : (o.pc \in Saving /\ e = o.e) \/ RightRow(e)
  /\ o.pc \notin Saving /\ o.copy # None => Right(o.e, o.copy)
  /\ o.pc \notin Saving => o.left \in {{}, Areas}
  /\ o.left # {} => \A s \in submissions :
       s.at <= o.at /\ (s.at = o.at => s.e = o.e /\ s.d \notin o.left)
  /\ o.pc \in Saving => \A d \in Areas \ o.left :
       LatestPassed(o.e, d) <=> d \in o.passes

\* What holds when the request q is under way and in state o.
Good(q, o) ==
  /\ o.pc = "create" => \A e \in Ids : ~Exists(e)
  /\ o.pc = "plant" => files = "missing"
  /\ o.pc \in {"question", "reply"} => \A m \in messages : m.q # q => m.at < o.at
  /\ ~crashed => GoodEditors(o) /\ GoodRows(o)

SerialBody ==
  /\ OneActive
  /\ OneExists
  /\ Turns
  /\ \A q \in Requests : ~Idle(q) => Good(q, req[q])
  /\ (\A q \in Requests : Idle(q)) => Rest

SerialInv == serial => SerialBody

Inv == GInv /\ SerialInv

-----------------------------------------------------------------------------
(* Lemmas on rows and states of requests *)

LEMMA NoneIsNoRow ==
  /\ None.status = "none"
  /\ None \notin EnrollmentRows /\ None \notin SessionRows
BY DEF None, EnrollmentRows, SessionRows, Statuses

LEMMA Numbers ==
  ASSUME LearnerAssumption
  PROVE  /\ Deliverables \in Nat /\ Deliverables \in 0..Deliverables
         /\ 0 \in 0..Deliverables /\ 1 \in 0..Deliverables /\ 1 \in Areas
         /\ \A d \in Areas : d \in Nat
         /\ Enrolled \in Ids /\ Requests \subseteq Ids
BY DEF LearnerAssumption, Areas, Ids

\* The enrollment that is created.
LEMMA NewRow ==
  ASSUME LearnerAssumption, NEW now \in Nat
  PROVE  /\ New(now) \in EnrollmentRows /\ New(now).status = "active"
         /\ New(now).passed = {}
<1>1. 1 \in 0..Deliverables
  BY Numbers
<1> QED
  BY <1>1 DEF New, EnrollmentRows, Statuses

\* A request without local variables.
LEMMA FreshState ==
  ASSUME LearnerAssumption, NEW q \in Requests, NEW pc \in PCs
  PROVE  /\ Fresh(q, pc) \in ReqStates
         /\ Fresh(q, pc).pc = pc /\ Fresh(q, pc).kind = "write"
         /\ Fresh(q, pc).copy = None /\ Fresh(q, pc).passes = {}
         /\ Fresh(q, pc).left = {} /\ Fresh(q, pc).failure = 0
<1>1. 0 \in 0..Deliverables /\ Enrolled \in Ids /\ "write" \in Kinds /\ 0 \in Nat
  BY Numbers DEF Kinds
<1> QED
  BY <1>1 DEF Fresh, ReqStates

\* The state o of the request q when it goes on at pc.
Went(q, o, pc) == IF pc \in {"done", "failed"} THEN Fresh(q, pc) ELSE [o EXCEPT !.pc = pc]

LEMMA WentState ==
  ASSUME LearnerAssumption, NEW q \in Requests, NEW o \in ReqStates, NEW pc \in PCs
  PROVE  /\ Went(q, o, pc) \in ReqStates /\ Went(q, o, pc).pc = pc
         /\ pc \notin {"done", "failed"} =>
              /\ Went(q, o, pc).kind = o.kind /\ Went(q, o, pc).e = o.e
              /\ Went(q, o, pc).copy = o.copy /\ Went(q, o, pc).target = o.target
              /\ Went(q, o, pc).last = o.last /\ Went(q, o, pc).session = o.session
              /\ Went(q, o, pc).passes = o.passes /\ Went(q, o, pc).left = o.left
              /\ Went(q, o, pc).at = o.at /\ Went(q, o, pc).failure = o.failure
         /\ pc \in {"done", "failed"} =>
              /\ Went(q, o, pc).copy = None /\ Went(q, o, pc).passes = {}
              /\ Went(q, o, pc).left = {} /\ Went(q, o, pc).failure = 0
<1>1. CASE pc \in {"done", "failed"}
  BY <1>1, FreshState DEF Went
<1>2. CASE pc \notin {"done", "failed"}
  <2>1. Went(q, o, pc) = [o EXCEPT !.pc = pc]
    BY <1>2 DEF Went
  <2>2. [o EXCEPT !.pc = pc] \in ReqStates
    BY DEF ReqStates
  <2> QED
    BY <1>2, <2>1, <2>2 DEF ReqStates
<1> QED
  BY <1>1, <1>2

\* The state of a request that returns what get_enrollment returns.
Returning(q, e) == [Fresh(q, "read") EXCEPT !.e = e, !.last = TRUE]

LEMMA ReturningState ==
  ASSUME LearnerAssumption, NEW q \in Requests, NEW e \in Ids
  PROVE  /\ Returning(q, e) \in ReqStates /\ Returning(q, e).pc = "read"
         /\ Returning(q, e).e = e /\ Returning(q, e).kind = "write"
         /\ Returning(q, e).copy = None /\ Returning(q, e).passes = {}
         /\ Returning(q, e).left = {} /\ Returning(q, e).failure = 0
<1>1. "read" \in PCs
  BY DEF PCs, Viewing
<1>2. PICK f \in ReqStates :
        /\ f = Fresh(q, "read") /\ f.pc = "read" /\ f.kind = "write" /\ f.copy = None
        /\ f.passes = {} /\ f.left = {} /\ f.failure = 0
  BY <1>1, FreshState
<1>3. [f EXCEPT !.e = e, !.last = TRUE] \in ReqStates
  BY DEF ReqStates
<1> QED
  BY <1>2, <1>3 DEF ReqStates, Returning

-----------------------------------------------------------------------------
(* Lemmas on submissions and claims *)

LEMMA LatestIs ==
  ASSUME NEW e, NEW d, NEW s
  PROVE  s \in Latest(e, d) <=>
           /\ s \in submissions /\ s.e = e /\ s.d = d
           /\ \A t \in submissions : t.e = e /\ t.d = d => t.at <= s.at
BY DEF Latest

LEMMA LatestEarns ==
  ASSUME NEW e, NEW d, LatestPassed(e, d)
  PROVE  Earned(e, d)
BY LatestIs DEF LatestPassed, Earned

\* What refreshing a row marks as passed.
Marked(e, copy) ==
  {d \in Areas : IF Latest(e, d) = {} THEN d \in copy.passed ELSE LatestPassed(e, d)}

\* A refreshed row is a row whose claims were earned, if those of the row were.
LEMMA RefreshClaims ==
  ASSUME LearnerAssumption, NEW e \in Ids, NEW copy \in EnrollmentRows, Claims(e, copy)
  PROVE  Refreshed(e, copy) \in EnrollmentRows /\ Claims(e, Refreshed(e, copy))
<1> DEFINE new == Refreshed(e, copy)
<1>1. PICK p \in SUBSET Areas : p = Marked(e, copy)
  BY DEF Marked
<1>2. new = IF p = Areas
            THEN [copy EXCEPT !.passed = p, !.status = "completed", !.current = 0]
            ELSE [copy EXCEPT !.passed = p]
  BY <1>1 DEF Refreshed, Marked
<1>3. 0 \in 0..Deliverables /\ "completed" \in Statuses
  BY Numbers DEF Statuses
<1>4. new \in EnrollmentRows /\ new.passed = p
      /\ new.status \in {"completed", copy.status}
      /\ (new.status = "completed" => p = Areas \/ copy.status = "completed")
  BY <1>2, <1>3 DEF EnrollmentRows
<1>5. ASSUME NEW d \in p
      PROVE  Earned(e, d)
  <2>1. d \in Areas /\ IF Latest(e, d) = {} THEN d \in copy.passed ELSE LatestPassed(e, d)
    BY <1>1, <1>5 DEF Marked
  <2>2. d \in copy.passed => Earned(e, d)
    BY NoneIsNoRow DEF Claims
  <2> QED
    BY <2>1, <2>2, LatestEarns
<1>6. new.status = "completed" => \A d \in Areas : Earned(e, d)
  BY <1>4, <1>5 DEF Claims
<1> HIDE DEF new
<1>7. new \in EnrollmentRows /\ Claims(e, new)
  BY <1>4, <1>5, <1>6 DEF Claims
<1> QED
  BY <1>7 DEF new

\* Where every deliverable that was submitted has a latest submission, refreshing
\* a row that is right leaves it right.
LEMMA RefreshRight ==
  ASSUME LearnerAssumption, Tops, NEW e \in Ids, NEW copy \in EnrollmentRows,
         Claims(e, copy), Right(e, copy)
  PROVE  Right(e, Refreshed(e, copy))
<1> DEFINE new == Refreshed(e, copy)
<1>1. PICK p \in SUBSET Areas : p = Marked(e, copy)
  BY DEF Marked
<1>2. new = IF p = Areas
            THEN [copy EXCEPT !.passed = p, !.status = "completed", !.current = 0]
            ELSE [copy EXCEPT !.passed = p]
  BY <1>1 DEF Refreshed, Marked
<1>3. IF p = Areas THEN new.status = "completed" ELSE new.status = copy.status
  BY <1>2 DEF EnrollmentRows
<1>4. ASSUME NEW d \in Areas
      PROVE  d \in p <=> LatestPassed(e, d)
  <2>1. d \in p <=> IF Latest(e, d) = {} THEN d \in copy.passed ELSE LatestPassed(e, d)
    BY <1>1 DEF Marked
  <2>2. Latest(e, d) = {} => ~LatestPassed(e, d)
    BY DEF LatestPassed
  <2>3. d \in copy.passed => Earned(e, d)
    BY NoneIsNoRow DEF Claims
  <2>4. Earned(e, d) => Latest(e, d) # {}
    BY DEF Tops, Earned
  <2> QED
    BY <2>1, <2>2, <2>3, <2>4
<1>5. p = Areas <=> AllPassed(e)
  BY <1>4 DEF AllPassed
<1> QED
  BY <1>3, <1>5 DEF Right

\* Enrollments, submissions and the clock only grow.
Grows ==
  /\ \A e \in Ids : Exists(e) => Exists(e)'
  /\ submissions \subseteq submissions'
  /\ clock \in Nat /\ clock' \in Nat /\ clock <= clock'

LEMMA ClaimsStay ==
  ASSUME Grows, NEW e, NEW row, Claims(e, row)
  PROVE  Claims(e, row)'
BY DEF Grows, Claims, Earned

LEMMA HoldsStays ==
  ASSUME Grows, NEW o \in ReqStates, Holds(o)
  PROVE  Holds(o)'
<1>1. Claims(o.e, o.copy)'
  BY ClaimsStay DEF Holds
<1>2. \A d \in o.passes \ o.left : Earned(o.e, d)'
  BY DEF Holds, Grows, Earned
<1>3. o.failure # 0 => FailedAt(o.e, o.failure)'
  BY DEF Holds, Grows, FailedAt
<1>4. o.pc \notin Early \cup Ended => Exists(o.e)'
  BY DEF Holds, Grows, ReqStates
<1>5. o.at \in Nat
  BY DEF ReqStates
<1>6. /\ o.left # {} => o.at \in 1..clock'
      /\ o.pc \in {"question", "reply"} => o.at <= clock'
  BY <1>5 DEF Holds, Grows
<1> QED
  BY <1>1, <1>2, <1>3, <1>4, <1>6 DEF Holds

-----------------------------------------------------------------------------
(* Steps of one request *)

\* The step of the request q, which is in state n then.
LEMMA RequestStep ==
  ASSUME ReqTypes, Requested, Grows, NEW q \in Requests, NEW n \in ReqStates,
         req' = [req EXCEPT ![q] = n], Placed(n), Holds(n)'
  PROVE  ReqTypes' /\ Requested'
<1>1. ReqTypes'
  <2>1. req' \in [Requests -> ReqStates]
    BY DEF ReqTypes
  <2>2. \A p \in Requests : Placed(req'[p])
    BY DEF ReqTypes
  <2>3. (\A p \in Requests : Placed(req[p]))' <=> \A p \in Requests : Placed(req'[p])
    BY DEF Placed
  <2>4. (req \in [Requests -> ReqStates])' <=> req' \in [Requests -> ReqStates]
    BY DEF ReqStates, EnrollmentRows, Ids, Areas
  <2> QED
    BY <2>1, <2>2, <2>3, <2>4 DEF ReqTypes
<1>2. ASSUME NEW p \in Requests
      PROVE  Holds(req[p])'
  <2>1. CASE p = q
    BY <2>1 DEF ReqTypes
  <2>2. CASE p # q
    <3>1. PICK o \in ReqStates : o = req[p] /\ Holds(o)
      BY DEF ReqTypes, Requested
    <3>2. Holds(o)'
      BY <3>1, HoldsStays
    <3>3. req'[p] = o
      BY <2>2, <3>1 DEF ReqTypes
    <3> QED
      BY <3>2, <3>3
  <2> QED
    BY <2>1, <2>2
<1> QED
  BY <1>1, <1>2 DEF Requested

LEMMA SpokenStep ==
  ASSUME Spoken, ReqTypes, NEW q \in Requests, NEW n \in ReqStates,
         req' = [req EXCEPT ![q] = n], messages' = messages, Says(q, n)
  PROVE  Spoken'
BY DEF Spoken, Says, ReqTypes

LEMMA WatchedStep ==
  ASSUME Watched, StoreTypes, ReqTypes, NEW q \in Requests, NEW n \in ReqStates,
         req' = [req EXCEPT ![q] = n], crashed' = crashed, Graders' \subseteq Graders \cup {q},
         ~crashed /\ q \in Graders' => n.pc \in {"graded", "ungrade"}
  PROVE  Watched'
BY DEF Watched, StoreTypes, ReqTypes

\* A request that has said nothing yet has not when it goes on.
LEMMA SilentStays ==
  ASSUME NEW q \in Requests, NEW o \in ReqStates, NEW n \in ReqStates,
         Says(q, o), o.pc \notin Ended \cup {"reply"}, n.pc # "reply"
  PROVE  Says(q, n)
BY DEF Says

\* One row of the enrollments is saved, or none.
Saves ==
  \/ enrollments' = enrollments
  \/ \E e \in Ids, row \in EnrollmentRows :
       Claims(e, row) /\ enrollments' = [enrollments EXCEPT ![e] = row]

\* A step that adds nothing to submissions, sessions and messages.
Plain ==
  /\ Saves
  /\ clock' \in Nat /\ clock <= clock'
  /\ UNCHANGED <<serial, submissions, sessions, messages, crashed>>
  /\ DockerTypes'
  /\ files' \in {"missing", "seed", "work"}

LEMMA PlainGrows ==
  ASSUME StoreTypes, Plain
  PROVE  Grows /\ \A e \in Ids : Exists(e)' <=> enrollments'[e] # None
<1>1. \A e \in Ids : Exists(e)' <=> enrollments'[e] # None
  BY DEF Exists, None
<1>2. ASSUME NEW e \in Ids, Exists(e)
      PROVE  enrollments'[e] # None
  BY <1>2, NoneIsNoRow DEF Plain, Saves, StoreTypes, Exists
<1> QED
  BY <1>1, <1>2 DEF Grows, Plain, StoreTypes

LEMMA PlainStore ==
  ASSUME LearnerAssumption, StoreTypes, Rows, Tops, Transcript, Plain
  PROVE  StoreTypes' /\ Rows' /\ Tops' /\ Transcript'
<1>g. Grows
  BY PlainGrows
<1>1. /\ submissions' = submissions /\ sessions' = sessions /\ messages' = messages
      /\ crashed' = crashed /\ serial' = serial /\ clock' \in Nat /\ clock <= clock'
      /\ clock \in Nat
  BY DEF Plain, StoreTypes
<1>2. enrollments' \in [Ids -> EnrollmentRows \cup {None}]
  BY DEF Plain, Saves, StoreTypes
<1>3. StoreTypes'
  BY <1>1, <1>2 DEF StoreTypes, Plain
<1>4. ASSUME NEW e \in Ids
      PROVE  Claims(e, enrollments[e])'
  <2>1. PICK row \in EnrollmentRows \cup {None} : row = enrollments'[e] /\ Claims(e, row)
    BY <1>2 DEF Plain, Saves, StoreTypes, Rows
  <2>2. Claims(e, row)'
    BY <1>g, <2>1, ClaimsStay
  <2> QED
    BY <2>1, <2>2
<1>5. Rows'
  <2>1. ASSUME NEW s \in submissions
        PROVE  s.at \in 1..clock' /\ Exists(s.e)'
    <3>1. PICK i \in Nat, e \in Ids : i = s.at /\ e = s.e /\ i \in 1..clock /\ Exists(e)
      BY DEF Rows, StoreTypes, SubmissionRows
    <3> QED
      BY <1>1, <1>g, <3>1 DEF Grows
  <2>2. ASSUME NEW s \in Requests, sessions'[s] # None
        PROVE  Exists(sessions[s].e)' /\ sessions'[s].at <= clock'
    <3>1. PICK i \in Nat, e \in Ids : i = sessions[s].at /\ e = sessions[s].e
      BY <1>1, <2>2 DEF StoreTypes, SessionRows
    <3>2. Exists(e) /\ i <= clock
      BY <1>1, <2>2, <3>1 DEF Rows
    <3> QED
      BY <1>1, <1>g, <3>1, <3>2 DEF Grows
  <2>3. ~crashed' => \A s, t \in Requests :
          sessions'[s] # None /\ sessions'[t] # None /\ sessions'[s].at = sessions'[t].at
            => s = t
    BY <1>1 DEF Rows
  <2>4. \A s \in Requests : (sessions[s] # None)' <=> sessions'[s] # None
    BY DEF None
  <2> QED
    BY <1>1, <1>4, <2>1, <2>2, <2>3, <2>4 DEF Rows, None
<1>6. Tops'
  BY <1>1 DEF Tops, Latest
<1>7. Transcript'
  <2>1. ASSUME NEW m \in messages
        PROVE  m.at <= clock' + 1
    BY <1>1, <2>1 DEF Transcript, StoreTypes, MessageRows
  <2>2. \A m \in messages : m.role = "tutor" =>
          \E n \in messages : n.role = "user" /\ n.q = m.q /\ n.e = m.e /\ n.at < m.at
    BY DEF Transcript
  <2>3. ASSUME NEW m \in messages, m.failure # 0
        PROVE  FailedAt(m.e, m.failure)'
    BY <1>1, <2>3 DEF Transcript, FailedAt
  <2> QED
    BY <1>1, <2>1, <2>2, <2>3 DEF Transcript
<1> QED
  BY <1>3, <1>5, <1>6, <1>7

\* A request in state n is under way, or none is.
After(q, n) == IF n.pc \in Ended \cup {"idle"} THEN Rest ELSE Good(q, n)

\* When requests wait for each other, none but q is under way.
Lone(q) == serial => \A p \in Requests : p # q => Idle(p)

\* What a request that is under way knows.
LEMMA AtWork ==
  ASSUME SerialInv, NEW q \in Requests, ~Idle(q)
  PROVE  Lone(q) /\ (serial => OneExists /\ Turns /\ Good(q, req[q]))
BY DEF SerialInv, SerialBody, OneActive, Lone

LEMMA LoneStep ==
  ASSUME ReqTypes, NEW q \in Requests, NEW n \in ReqStates, req' = [req EXCEPT ![q] = n],
         serial' = serial, Lone(q), serial => OneExists' /\ Turns' /\ After(q, n)'
  PROVE  SerialInv'
<1> SUFFICES ASSUME serial
             PROVE  SerialBody'
  BY DEF SerialInv
<1>1. \A p \in Requests : p # q => req'[p] = req[p] /\ req[p].pc \in Ended \cup {"idle"}
  BY DEF Lone, Idle, Ended, ReqTypes
<1>2. req'[q] = n
  BY DEF ReqTypes
<1>3. \A p \in Requests : Idle(p)' <=> req'[p].pc \in Ended \cup {"idle"}
  BY DEF Idle, Ended
<1>4. OneActive'
  BY <1>1, <1>3 DEF OneActive
<1>5. ASSUME NEW p \in Requests, ~Idle(p)'
      PROVE  Good(p, req[p])'
  <2>1. p = q /\ n.pc \notin Ended \cup {"idle"}
    BY <1>1, <1>2, <1>3, <1>5
  <2>2. Good(q, n)'
    BY <2>1 DEF After
  <2> QED
    BY <1>2, <2>1, <2>2
<1>6. ASSUME \A p \in Requests : Idle(p)'
      PROVE  Rest'
  <2>1. n.pc \in Ended \cup {"idle"}
    BY <1>2, <1>3, <1>6
  <2> QED
    BY <2>1 DEF After
<1> QED
  BY <1>4, <1>5, <1>6 DEF SerialBody

\* A step of q that adds nothing to submissions, sessions and messages.
LEMMA PlainKeeps ==
  ASSUME LearnerAssumption, Inv, NEW q \in Requests, NEW n \in ReqStates,
         req' = [req EXCEPT ![q] = n], Plain, Placed(n), Holds(n)', Says(q, n),
         Graders' \subseteq Graders \cup {q},
         ~crashed /\ q \in Graders' => n.pc \in {"graded", "ungrade"},
         Lone(q), serial => OneExists' /\ After(q, n)'
  PROVE  Inv'
<1>1. ReqTypes' /\ Requested'
  BY PlainGrows, RequestStep DEF Inv, GInv
<1>3. StoreTypes' /\ Rows' /\ Tops' /\ Transcript'
  BY PlainStore DEF Inv, GInv
<1>4. Spoken'
  BY SpokenStep DEF Inv, GInv, Plain
<1>5. Watched'
  BY WatchedStep DEF Inv, GInv, Plain
<1>6. serial => Turns'
  BY DEF Inv, SerialInv, SerialBody, Turns, Plain
<1>7. SerialInv'
  BY <1>6, LoneStep DEF Inv, GInv, Plain
<1> QED
  BY <1>1, <1>3, <1>4, <1>5, <1>7 DEF Inv, GInv

\* A step that saves no row either.
Still ==
  /\ UNCHANGED <<serial, enrollments, submissions, sessions, messages, crashed>>
  /\ clock' \in Nat /\ clock <= clock'
  /\ DockerTypes'
  /\ files' \in {"missing", "seed", "work"}

LEMMA StillPlain ==
  ASSUME Still, OneExists
  PROVE  Plain /\ OneExists'
BY DEF Still, Plain, Saves, OneExists, Exists

LEMMA StillIsPlain ==
  ASSUME Still
  PROVE  Plain
BY DEF Still, Plain, Saves

\* The rows stay right for a request that goes on, with its copy or without one.
LEMMA RowsKept ==
  ASSUME enrollments' = enrollments, submissions' = submissions,
         NEW o \in ReqStates, NEW n \in ReqStates, GoodRows(o),
         o.pc \notin Saving, n.pc \notin Saving, n.copy \in {o.copy, None},
         n.copy # None => n.e = o.e,
         n.left # {} => n.left = o.left /\ n.at = o.at /\ n.e = o.e
  PROVE  GoodRows(n)'
BY DEF GoodRows, RightRow, Right, AllPassed, LatestPassed, Latest, Exists, None, Areas

LEMMA RowsCarry ==
  ASSUME Still, NEW o \in ReqStates, NEW n \in ReqStates, GoodRows(o),
         o.pc \notin Saving, n.pc \notin Saving, n.copy \in {o.copy, None},
         n.copy # None => n.e = o.e,
         n.left # {} => n.left = o.left /\ n.at = o.at /\ n.e = o.e
  PROVE  GoodRows(n)'
BY RowsKept DEF Still

\* They are right when nothing is under way, for whoever begins or ends.
LEMMA RowsAtRest ==
  ASSUME Still, NEW n \in ReqStates, \A e \in Ids : RightRow(e),
         n.pc \notin Saving, n.copy = None, n.left = {}
  PROVE  GoodRows(n)' /\ \A e \in Ids : RightRow(e)'
BY DEF Still, GoodRows, RightRow, Right, AllPassed, LatestPassed, Latest, Exists, None

LEMMA RowsOf ==
  ASSUME NEW o \in ReqStates, GoodRows(o), o.pc \notin Saving
  PROVE  \A e \in Ids : RightRow(e)
BY DEF GoodRows

\* The editors that are remembered, when no session is saved.
LEMMA EditorsKept ==
  ASSUME sessions' = sessions, Remembered, Running' \subseteq Running
  PROVE  Remembered'
BY DEF Remembered, LatestSession, None

LEMMA StillRemembered ==
  ASSUME Still, Remembered, Running' \subseteq Running
  PROVE  Remembered'
BY EditorsKept DEF Still

\* A step of q, which is not over before it, that adds nothing to submissions,
\* sessions and messages: what is to be shown of its new state n.
LEMMA WorkKeeps ==
  ASSUME LearnerAssumption, Inv, NEW q \in Requests, NEW n \in ReqStates,
         req' = [req EXCEPT ![q] = n], Plain, Placed(n), Holds(n)', Says(q, n),
         Graders' \subseteq Graders \cup {q},
         ~crashed /\ q \in Graders' => n.pc \in {"graded", "ungrade"},
         Lone(q), n.pc # "idle",
         serial =>
           /\ OneExists'
           /\ n.pc = "create" => \A e \in Ids : ~Exists(e)'
           /\ n.pc = "plant" => files' = "missing"
           /\ n.pc \in {"question", "reply"} => \A m \in messages : m.q # q => m.at < n.at
           /\ ~crashed => GoodEditors(n)' /\ GoodRows(n)'
  PROVE  Inv'
<1>1. messages' = messages /\ crashed' = crashed
  BY DEF Plain
<1>2. ASSUME serial
      PROVE  After(q, n)'
  <2>1. CASE n.pc \in Ended
    <3>1. n.pc \notin Starting \cup Saving
      BY <2>1 DEF Ended, Starting, Saving
    <3>2. Rest'
      BY <1>1, <1>2, <3>1 DEF Rest, GoodEditors, GoodRows
    <3> QED
      BY <2>1, <3>2 DEF After
  <2>2. CASE n.pc \notin Ended
    <3>1. Good(q, n)'
      BY <1>1, <1>2 DEF Good
    <3> QED
      BY <2>2, <3>1 DEF After
  <2> QED
    BY <2>1, <2>2
<1> QED
  BY <1>2, PlainKeeps

\* What is known of a request.
LEMMA KnownOf ==
  ASSUME Inv, NEW q \in Requests
  PROVE  /\ req[q] \in ReqStates /\ Placed(req[q]) /\ Holds(req[q]) /\ Says(q, req[q])
         /\ req \in [Requests -> ReqStates]
BY DEF Inv, GInv, ReqTypes, Requested, Spoken

\* A step that leaves the store and the world as they are.
LEMMA StoreStays ==
  ASSUME Inv, UNCHANGED <<serial, store, world, clock, crashed>>
  PROVE  /\ Still /\ Grows
         /\ Running' = Running /\ Graders' = Graders /\ files' = files
<1>1. /\ UNCHANGED <<serial, enrollments, submissions, sessions, messages, crashed>>
      /\ Running' = Running /\ Graders' = Graders /\ files' = files /\ clock' = clock
  BY DEF store, world, docker, Running, Graders, DockerTypes
<1>2. clock \in Nat /\ DockerTypes' /\ files \in {"missing", "seed", "work"}
  BY DEF Inv, GInv, StoreTypes, DockerTypes, world, docker
<1>3. clock' \in Nat /\ clock <= clock'
  BY <1>1, <1>2
<1>4. Still
  BY <1>1, <1>2, <1>3 DEF Still
<1> QED
  BY <1>1, <1>4, StillIsPlain, PlainGrows DEF Inv, GInv

LEMMA GoIs ==
  ASSUME NEW q \in Requests, NEW o, o = req[q], NEW pc, Go(q, pc)
  PROVE  req' = [req EXCEPT ![q] = Went(q, o, pc)]
BY DEF Go, Do, Went

\* A request outside of grading has no service running, unless the server was
\* restarted.
LEMMA NoService ==
  ASSUME Inv, NEW q \in Requests, req[q].pc \notin {"graded", "ungrade"}, ~crashed
  PROVE  q \notin Graders
BY DEF Inv, GInv, Watched

\* A step of q that leaves the store alone and goes on, with its copy or
\* without, to a place that nothing more is to be said of.
LEMMA CarryKeeps ==
  ASSUME LearnerAssumption, Inv, NEW q \in Requests, NEW o \in ReqStates, o = req[q],
         NEW n \in ReqStates, req' = [req EXCEPT ![q] = n], Still, Running' \subseteq Running,
         Placed(n), Holds(n)', Says(q, n),
         Graders' \subseteq Graders \cup {q},
         ~crashed /\ q \in Graders' => n.pc \in {"graded", "ungrade"},
         o.pc \notin Ended \cup {"idle"} \cup Saving \cup Starting,
         n.pc \notin {"idle", "create", "question", "reply"} \cup Saving \cup Starting,
         n.copy \in {o.copy, None}, n.copy # None => n.e = o.e,
         n.left # {} => n.left = o.left /\ n.at = o.at /\ n.e = o.e,
         n.pc = "plant" => files' = "missing"
  PROVE  Inv'
<1>1. ~Idle(q)
  BY DEF Idle, Ended
<1>2. Lone(q) /\ (serial => OneExists /\ Good(q, o))
  BY <1>1, AtWork DEF Inv
<1>3. Plain /\ (serial => OneExists')
  BY <1>2, StillPlain, StillIsPlain
<1>4. ASSUME serial, ~crashed
      PROVE  GoodEditors(n)' /\ GoodRows(n)'
  <2>1. GoodEditors(o) /\ GoodRows(o)
    BY <1>2, <1>4 DEF Good
  <2>2. Remembered
    BY <2>1 DEF GoodEditors
  <2>3. Remembered'
    BY <2>2, StillRemembered
  <2>4. GoodRows(n)'
    BY <2>1, RowsCarry
  <2> QED
    BY <2>3, <2>4 DEF GoodEditors
<1> QED
  BY <1>2, <1>3, <1>4, WorkKeeps

\* Saving a row of an enrollment that exists.
LEMMA SavedRow ==
  ASSUME StoreTypes, NEW e \in Ids, NEW row \in EnrollmentRows, Exists(e),
         enrollments' = [enrollments EXCEPT ![e] = row]
  PROVE  /\ \A f \in Ids : Exists(f)' <=> Exists(f)
         /\ OneExists => OneExists'
<1>1. \A f \in Ids : Exists(f)' <=> enrollments'[f] # None
  BY DEF Exists, None
<1>2. \A f \in Ids : Exists(f)' <=> Exists(f)
  BY <1>1, NoneIsNoRow DEF StoreTypes, Exists
<1> QED
  BY <1>2 DEF OneExists

\* When it is right, and the others are, they all are.
LEMMA SavedRight ==
  ASSUME StoreTypes, NEW e \in Ids, NEW row \in EnrollmentRows, Exists(e), Right(e, row),
         enrollments' = [enrollments EXCEPT ![e] = row], submissions' = submissions,
         \A f \in Ids : f = e \/ RightRow(f)
  PROVE  \A f \in Ids : RightRow(f)'
<1>1. \A f \in Ids : Exists(f)' <=> Exists(f)
  BY SavedRow
<1>2. ASSUME NEW f \in Ids, NEW r
      PROVE  Right(f, r)' <=> Right(f, r)
  BY DEF Right, AllPassed, LatestPassed, Latest
<1>3. ASSUME NEW f \in Ids, Exists(f)
      PROVE  Right(f, enrollments'[f])
  BY <1>3 DEF StoreTypes, RightRow
<1> QED
  BY <1>1, <1>2, <1>3 DEF RightRow

-----------------------------------------------------------------------------
(* Enrollment and progress *)

LEMMA BeginKeeps ==
  ASSUME LearnerAssumption, Inv, NEW q \in Requests, Begin(q)
  PROVE  Inv'
<1>1. PICK o \in ReqStates :
        o = req[q] /\ o.pc = "idle" /\ o.copy = None /\ o.passes = {} /\ o.left = {}
        /\ o.failure = 0 /\ Says(q, o)
  BY KnownOf DEF Begin, Placed, Early
<1>2. Lone(q) /\ Still /\ Running' = Running /\ Graders' = Graders
  BY StoreStays DEF Begin, Lone
<1>3. PICK n \in ReqStates :
        /\ req' = [req EXCEPT ![q] = n]
        /\ n.copy = None /\ n.passes = {} /\ n.left = {} /\ n.failure = 0
        /\ \/ n.pc = "find" /\ n.kind = "enroll"
           \/ n.pc = "read" /\ n.kind # "chat" /\ Exists(n.e)
           \/ n.pc = "ask" /\ Exists(n.e)
  <2>1. CASE Do(q, [req[q] EXCEPT !.kind = "enroll", !.pc = "find"])
    <3> DEFINE e == [o EXCEPT !.kind = "enroll", !.pc = "find"]
    <3>1. e \in ReqStates
      BY DEF ReqStates, PCs, Early, Kinds
    <3>2. /\ e.copy = None /\ e.passes = {} /\ e.left = {} /\ e.failure = 0
          /\ e.pc = "find" /\ e.kind = "enroll"
      BY <1>1 DEF ReqStates
    <3>3. req' = [req EXCEPT ![q] = e]
      BY <1>1, <2>1 DEF Do
    <3> QED
      BY <3>1, <3>2, <3>3
  <2>2. CASE \E e \in Ids, kind \in {"write", "launch", "submit"} :
               \E target \in IF kind \in {"launch", "submit"} THEN 0..Deliverables ELSE {0} :
                 /\ Exists(e)
                 /\ Do(q, [req[q] EXCEPT !.kind = kind, !.e = e, !.pc = "read",
                                         !.target = target])
    <3>1. PICK e \in Ids, kind \in {"write", "launch", "submit"}, target \in 0..Deliverables :
            /\ Exists(e)
            /\ Do(q, [o EXCEPT !.kind = kind, !.e = e, !.pc = "read", !.target = target])
      BY <1>1, <2>2, Numbers
    <3> DEFINE s == [o EXCEPT !.kind = kind, !.e = e, !.pc = "read", !.target = target]
    <3>2. kind \in Kinds /\ "read" \in PCs
      BY DEF Kinds, PCs, Viewing
    <3>3. s \in ReqStates
      BY <3>2 DEF ReqStates
    <3>4. /\ s.copy = None /\ s.passes = {} /\ s.left = {} /\ s.failure = 0
          /\ s.pc = "read" /\ s.kind = kind /\ s.e = e
      BY <1>1 DEF ReqStates
    <3>5. req' = [req EXCEPT ![q] = s]
      BY <3>1 DEF Do
    <3>6. s.kind # "chat" /\ Exists(s.e)
      BY <3>1, <3>4
    <3> QED
      BY <3>3, <3>4, <3>5, <3>6
  <2>3. CASE \E e \in Ids :
               Exists(e) /\ Do(q, [req[q] EXCEPT !.kind = "chat", !.e = e, !.pc = "ask"])
    <3>1. PICK e \in Ids : Exists(e) /\ Do(q, [o EXCEPT !.kind = "chat", !.e = e, !.pc = "ask"])
      BY <1>1, <2>3
    <3> DEFINE s == [o EXCEPT !.kind = "chat", !.e = e, !.pc = "ask"]
    <3>2. s \in ReqStates
      BY DEF ReqStates, Kinds, PCs, Chatting
    <3>3. /\ s.copy = None /\ s.passes = {} /\ s.left = {} /\ s.failure = 0
          /\ s.pc = "ask" /\ s.e = e
      BY <1>1 DEF ReqStates
    <3>4. req' = [req EXCEPT ![q] = s]
      BY <3>1 DEF Do
    <3>5. Exists(s.e)
      BY <3>1, <3>3
    <3> QED
      BY <3>2, <3>3, <3>4, <3>5
  <2> QED
    BY <2>1, <2>2, <2>3 DEF Begin
<1>4. Placed(n) /\ Says(q, n)
  <2>1. Placed(n)
    BY <1>3 DEF Placed, Early, Viewing, Copied
  <2>2. \A m \in messages : m.q # q
    BY <1>1 DEF Says, Ended
  <2> QED
    BY <1>3, <2>1, <2>2 DEF Says
<1>5. Holds(n)
  BY <1>3, NoneIsNoRow DEF Holds, Claims, Early
<1>6. Grows
  BY <1>2, StillIsPlain, PlainGrows DEF Inv, GInv
<1>7. Holds(n)'
  BY <1>5, <1>6, HoldsStays
<1>8. ASSUME serial
      PROVE  OneExists /\ (~crashed => Remembered /\ \A e \in Ids : RightRow(e))
  BY <1>1, <1>8 DEF Begin, Inv, SerialInv, SerialBody, Rest
<1>9. ASSUME serial, ~crashed
      PROVE  GoodEditors(n)' /\ GoodRows(n)'
  <2>1. n.pc \notin Saving \cup Starting
    BY <1>3 DEF Saving, Starting
  <2>2. GoodRows(n)'
    BY <1>2, <1>3, <1>8, <1>9, <2>1, RowsAtRest
  <2>3. Remembered'
    BY <1>2, <1>8, <1>9, StillRemembered
  <2> QED
    BY <2>1, <2>2, <2>3 DEF GoodEditors
<1>10. ~crashed => q \notin Graders
  BY <1>1, NoService
<1>11. Plain /\ (serial => OneExists')
  BY <1>2, <1>8, StillPlain, StillIsPlain
<1> QED
  BY <1>2, <1>3, <1>4, <1>7, <1>9, <1>10, <1>11, WorkKeeps

LEMMA FindKeeps ==
  ASSUME LearnerAssumption, Inv, NEW q \in Requests, Find(q)
  PROVE  Inv'
<1>1. PICK o \in ReqStates :
        /\ o = req[q] /\ o.pc = "find" /\ o.kind = "enroll"
        /\ o.copy = None /\ o.passes = {} /\ o.left = {} /\ o.failure = 0
        /\ Says(q, o)
  BY KnownOf DEF Find, Placed, Early
<1>2. Still /\ Running' = Running /\ Graders' = Graders
  BY StoreStays DEF Find
<1>g. Grows
  BY StoreStays DEF Find
<1>s. ~crashed => q \notin Graders
  BY <1>1, NoService
<1>3. CASE \E e \in Ids : Exists(e)
  <2>1. PICK e \in Ids :
          Exists(e) /\ Do(q, [o EXCEPT !.e = e, !.pc = "read", !.last = TRUE])
    BY <1>1, <1>3 DEF Find
  <2>2. PICK n \in ReqStates :
          /\ n = [o EXCEPT !.e = e, !.pc = "read", !.last = TRUE]
          /\ n.pc = "read" /\ n.kind = "enroll" /\ n.e = e
          /\ n.copy = None /\ n.passes = {} /\ n.left = {} /\ n.failure = 0
    <3> DEFINE s == [o EXCEPT !.e = e, !.pc = "read", !.last = TRUE]
    <3>1. s \in ReqStates
      BY DEF ReqStates, PCs, Viewing
    <3>2. /\ s.pc = "read" /\ s.kind = "enroll" /\ s.e = e
          /\ s.copy = None /\ s.passes = {} /\ s.left = {} /\ s.failure = 0
      BY <1>1 DEF ReqStates
    <3> QED
      BY <3>1, <3>2
  <2>3. req' = [req EXCEPT ![q] = n]
    BY <2>1, <2>2 DEF Do
  <2>4. Placed(n) /\ Says(q, n)
    BY <1>1, <2>2, SilentStays DEF Placed, Early, Viewing, Copied, Ended
  <2>5. Holds(n)
    BY <2>1, <2>2, NoneIsNoRow DEF Holds, Claims
  <2>6. Holds(n)'
    BY <1>g, <2>5, HoldsStays
  <2>7. /\ o.pc \notin Ended \cup {"idle"} \cup Saving \cup Starting
        /\ n.pc \notin {"idle", "create", "question", "reply"} \cup Saving \cup Starting
        /\ n.pc # "plant"
    BY <1>1, <2>2 DEF Ended, Saving, Starting
  <2> QED
    BY <1>1, <1>2, <1>s, <2>2, <2>3, <2>4, <2>6, <2>7, CarryKeeps
<1>4. CASE ~\E e \in Ids : Exists(e)
  <2>1. Go(q, "create")
    BY <1>4 DEF Find
  <2>2. "create" \in PCs
    BY DEF PCs, Early
  <2>3. PICK n \in ReqStates :
          /\ n = Went(q, o, "create") /\ n.pc = "create" /\ n.kind = "enroll"
          /\ n.copy = None /\ n.passes = {} /\ n.left = {} /\ n.failure = 0
    BY <1>1, <2>2, WentState
  <2>4. req' = [req EXCEPT ![q] = n]
    BY <1>1, <2>1, <2>3, GoIs
  <2>5. Placed(n) /\ Says(q, n)
    BY <1>1, <2>3, SilentStays DEF Placed, Early, Viewing, Copied, Ended
  <2>6. Holds(n)
    BY <2>3, NoneIsNoRow DEF Holds, Claims, Early
  <2>7. Holds(n)'
    BY <1>g, <2>6, HoldsStays
  <2>8. ~Idle(q)
    BY <1>1 DEF Idle
  <2>9. Lone(q) /\ (serial => OneExists /\ Good(q, o))
    BY <1>1, <2>8, AtWork DEF Inv
  <2>10. Plain /\ (serial => OneExists')
    BY <1>2, <2>9, StillPlain, StillIsPlain
  <2>11. \A e \in Ids : ~Exists(e)'
    BY <1>2, <1>4 DEF Still, Exists
  <2>12. n.pc \notin Saving \cup Starting /\ o.pc \notin Saving \cup Starting
    BY <1>1, <2>3 DEF Saving, Starting
  <2>13. ASSUME serial, ~crashed
         PROVE  GoodEditors(n)' /\ GoodRows(n)'
    <3>1. GoodEditors(o) /\ GoodRows(o)
      BY <2>9, <2>13 DEF Good
    <3>2. Remembered'
      BY <1>2, <2>12, <3>1, StillRemembered DEF GoodEditors
    <3>3. GoodRows(n)'
      BY <1>1, <1>2, <2>3, <2>12, <3>1, RowsCarry
    <3> QED
      BY <2>12, <3>2, <3>3 DEF GoodEditors
  <2>14. n.pc # "idle" /\ n.pc # "plant" /\ n.pc \notin {"question", "reply"}
    BY <2>3
  <2> QED
    BY <1>2, <1>s, <2>3, <2>4, <2>5, <2>7, <2>9, <2>10, <2>11, <2>13, <2>14, WorkKeeps
<1> QED
  BY <1>3, <1>4

LEMMA CreateKeeps ==
  ASSUME LearnerAssumption, Inv, NEW q \in Requests, Create(q)
  PROVE  Inv'
<1>1. PICK o \in ReqStates :
        /\ o = req[q] /\ o.pc = "create" /\ o.kind = "enroll"
        /\ o.copy = None /\ o.passes = {} /\ o.left = {} /\ o.failure = 0
        /\ Says(q, o)
  BY KnownOf DEF Create, Placed, Early
<1>2. PICK now \in Nat : now = clock + 1 /\ clock \in Nat /\ clock <= now
  BY DEF Inv, GInv, StoreTypes
<1>3. PICK row \in EnrollmentRows : row = New(now) /\ row.status = "active" /\ row.passed = {}
  BY NewRow
<1>4. q \in Ids
  BY Numbers
<1>5. /\ enrollments' = [enrollments EXCEPT ![q] = row] /\ clock' = now
      /\ UNCHANGED <<serial, submissions, sessions, messages, Running, Graders, files, crashed>>
      /\ DockerTypes'
  BY <1>2, <1>3 DEF Create, world, docker, Running, Graders, DockerTypes, Inv, GInv, StoreTypes
<1>6. Claims(q, row)
  BY <1>3 DEF Claims
<1>7. Plain
  BY <1>2, <1>4, <1>5, <1>6 DEF Plain, Saves, Inv, GInv, StoreTypes
<1>8. Grows /\ \A e \in Ids : Exists(e)' <=> enrollments'[e] # None
  BY <1>7, PlainGrows DEF Inv, GInv
<1>9. /\ Exists(q)'
      /\ \A e \in Ids : e # q => (Exists(e)' <=> Exists(e))
  BY <1>3, <1>4, <1>5, <1>8, NoneIsNoRow DEF Inv, GInv, StoreTypes, Exists
<1>10. PICK n \in ReqStates :
         /\ n = [o EXCEPT !.e = q, !.pc = "seed"]
         /\ n.pc = "seed" /\ n.kind = "enroll" /\ n.e = q
         /\ n.copy = None /\ n.passes = {} /\ n.left = {} /\ n.failure = 0
  <2> DEFINE s == [o EXCEPT !.e = q, !.pc = "seed"]
  <2>1. s \in ReqStates
    BY <1>4 DEF ReqStates, PCs, Viewing
  <2>2. /\ s.pc = "seed" /\ s.kind = "enroll" /\ s.e = q
        /\ s.copy = None /\ s.passes = {} /\ s.left = {} /\ s.failure = 0
    BY <1>1 DEF ReqStates
  <2> QED
    BY <2>1, <2>2
<1>11. req' = [req EXCEPT ![q] = n]
  BY <1>1, <1>10 DEF Create, Do
<1>12. Placed(n) /\ Says(q, n)
  BY <1>1, <1>10, SilentStays DEF Placed, Early, Viewing, Copied, Ended
<1>13. Holds(n)'
  BY <1>9, <1>10, NoneIsNoRow DEF Holds, Claims
<1>14. ~Idle(q)
  BY <1>1 DEF Idle
<1>15. Lone(q) /\ (serial => OneExists /\ Good(q, o))
  BY <1>1, <1>14, AtWork DEF Inv
<1>16. ~crashed => q \notin Graders
  BY <1>1, NoService
<1>17. ASSUME serial
       PROVE  \A e \in Ids : ~Exists(e)
  BY <1>1, <1>15, <1>17 DEF Good
<1>18. serial => OneExists'
  BY <1>9, <1>17 DEF OneExists
<1>19. ASSUME serial, ~crashed
       PROVE  GoodEditors(n)' /\ GoodRows(n)'
  <2>1. o.pc \notin Starting /\ n.pc \notin Starting /\ n.pc \notin Saving
    BY <1>1, <1>10 DEF Starting, Saving
  <2>2. Remembered
    BY <1>15, <1>19, <2>1 DEF Good, GoodEditors
  <2>3. Remembered'
    BY <1>5, <2>2 DEF Remembered, LatestSession, None
  <2>4. ~LatestPassed(q, 1)'
    <3>1. \A s \in submissions : s.e # q
      BY <1>4, <1>17, <1>19 DEF Inv, GInv, Rows
    <3>2. Latest(q, 1)' = {}
      BY <1>5, <3>1 DEF Latest
    <3> QED
      BY <3>2 DEF LatestPassed
  <2>5. \A e \in Ids : RightRow(e)'
    <3>1. 1 \in Areas
      BY Numbers
    <3>2. ~AllPassed(q)'
      BY <2>4, <3>1 DEF AllPassed, Areas
    <3>3. RightRow(q)'
      BY <1>3, <1>4, <1>5, <3>2 DEF RightRow, Right, Inv, GInv, StoreTypes
    <3>4. ASSUME NEW e \in Ids, e # q
          PROVE  RightRow(e)'
      BY <1>9, <1>17, <1>19, <3>4 DEF RightRow
    <3> QED
      BY <3>3, <3>4
  <2> QED
    BY <1>10, <2>1, <2>3, <2>5 DEF GoodEditors, GoodRows
<1>20. n.pc \notin {"idle", "create", "plant", "question", "reply"} /\ Graders' = Graders
  BY <1>5, <1>10
<1> QED
  BY <1>7, <1>10, <1>11, <1>12, <1>13, <1>15, <1>16, <1>18, <1>19, <1>20, WorkKeeps

\* What holds of the state of a request that goes on at pc, or ends.
LEMMA WentHolds ==
  ASSUME LearnerAssumption, NEW q \in Requests, NEW o \in ReqStates, NEW pc \in PCs,
         Holds(o), o.pc \notin Early \cup Ended, pc \notin Early \cup {"question", "reply"},
         pc # "gone"
  PROVE  Holds(Went(q, o, pc))
<1>1. PICK n \in ReqStates : n = Went(q, o, pc)
  BY WentState
<1>2. CASE pc \in {"done", "failed"}
  BY <1>1, <1>2, WentState, NoneIsNoRow DEF Holds, Claims, Ended
<1>3. CASE pc \notin {"done", "failed"}
  <2>1. /\ n.pc = pc /\ n.e = o.e /\ n.copy = o.copy /\ n.passes = o.passes
        /\ n.left = o.left /\ n.at = o.at /\ n.failure = o.failure
    BY <1>1, <1>3, WentState
  <2> QED
    BY <1>1, <2>1 DEF Holds
<1> QED
  BY <1>2, <1>3

LEMMA WentPlaced ==
  ASSUME LearnerAssumption, NEW q \in Requests, NEW o \in ReqStates, NEW pc \in PCs,
         pc \notin Early, pc \in Viewing => o.kind # "chat",
         pc \in Copied \/ (pc \in {"seed", "plant"} /\ o.kind # "enroll")
           => o.copy \in EnrollmentRows,
         pc = "record" => o.left # {}, pc = "progress" => o.left = {}
  PROVE  Placed(Went(q, o, pc))
<1>1. PICK n \in ReqStates : n = Went(q, o, pc)
  BY WentState
<1>2. CASE pc \in {"done", "failed"}
  BY <1>1, <1>2, WentState DEF Placed, Early, Viewing, Copied
<1>3. CASE pc \notin {"done", "failed"}
  <2>1. n.pc = pc /\ n.kind = o.kind /\ n.copy = o.copy /\ n.left = o.left
    BY <1>1, <1>3, WentState
  <2> QED
    BY <1>1, <2>1 DEF Placed, Early
<1> QED
  BY <1>2, <1>3

\* A request goes on, or ends, at a place that nothing more is to be said of.
LEMMA GoKeeps ==
  ASSUME LearnerAssumption, Inv, NEW q \in Requests, NEW o \in ReqStates, o = req[q],
         NEW pc \in PCs, Go(q, pc), Still, Grows, Running' \subseteq Running,
         Graders' \subseteq Graders \cup {q},
         ~crashed /\ q \in Graders' => pc \in {"graded", "ungrade"},
         o.pc \notin Early \cup Ended \cup {"reply"} \cup Saving \cup Starting,
         pc \notin Early \cup {"question", "reply", "gone"} \cup Saving \cup Starting,
         pc \in Viewing => o.kind # "chat",
         pc \in Copied \/ (pc \in {"seed", "plant"} /\ o.kind # "enroll")
           => o.copy \in EnrollmentRows,
         pc = "plant" => files' = "missing"
  PROVE  Inv'
<1>1. Holds(o) /\ Says(q, o)
  BY KnownOf
<1>2. PICK n \in ReqStates :
        /\ n = Went(q, o, pc) /\ n.pc = pc /\ n.copy \in {o.copy, None}
        /\ n.copy # None => n.e = o.e
        /\ n.left # {} => n.left = o.left /\ n.at = o.at /\ n.e = o.e
  <2>1. CASE pc \in {"done", "failed"}
    BY <2>1, WentState
  <2>2. CASE pc \notin {"done", "failed"}
    BY <2>2, WentState
  <2> QED
    BY <2>1, <2>2
<1>3. req' = [req EXCEPT ![q] = n]
  BY <1>2, GoIs
<1>4. pc # "record" /\ pc # "progress"
  BY DEF Saving
<1>5. Placed(n)
  BY <1>2, <1>4, WentPlaced
<1>6. Holds(n)
  BY <1>1, <1>2, WentHolds
<1>7. Holds(n)'
  BY <1>6, HoldsStays
<1>8. Says(q, n)
  BY <1>1, <1>2, SilentStays
<1>9. /\ n.pc \notin {"idle", "create", "question", "reply"} \cup Saving \cup Starting
      /\ o.pc \notin Ended \cup {"idle"} \cup Saving \cup Starting
      /\ n.pc = "plant" => files' = "missing"
      /\ ~crashed /\ q \in Graders' => n.pc \in {"graded", "ungrade"}
  BY <1>2 DEF Early
<1> QED
  BY <1>2, <1>3, <1>5, <1>7, <1>8, <1>9, CarryKeeps

\* A request that is under way knows its row, and what is known of its place.
LEMMA WorkOf ==
  ASSUME Inv, NEW q \in Requests, req[q].pc \notin Early \cup Ended
  PROVE  /\ \E o \in ReqStates : o = req[q] /\ Placed(o) /\ Holds(o) /\ Says(q, o)
         /\ Lone(q) /\ (serial => OneExists /\ Turns /\ Good(q, req[q]))
         /\ Exists(req[q].e) /\ req[q].e \in Ids
         /\ enrollments[req[q].e] \in EnrollmentRows
<1>1. ~Idle(q)
  BY DEF Idle, Early, Ended
<1>2. PICK o \in ReqStates : o = req[q] /\ Placed(o) /\ Holds(o) /\ Says(q, o)
  BY KnownOf
<1>3. Exists(o.e) /\ o.e \in Ids
  BY <1>2 DEF Holds, ReqStates
<1>4. enrollments[o.e] \in EnrollmentRows
  BY <1>3 DEF Exists, Inv, GInv, StoreTypes
<1> QED
  BY <1>1, <1>2, <1>3, <1>4, AtWork DEF Inv

LEMMA ReadKeeps ==
  ASSUME LearnerAssumption, Inv, NEW q \in Requests, Read(q)
  PROVE  Inv'
<1>1. req[q].pc = "read" /\ req[q].pc \notin Early \cup Ended
  BY DEF Read, Early, Ended
<1>2. PICK o \in ReqStates : o = req[q] /\ Placed(o) /\ Holds(o) /\ Says(q, o)
  BY <1>1, WorkOf
<1>3. PICK row \in EnrollmentRows : row = enrollments[o.e] /\ Exists(o.e) /\ o.e \in Ids
  BY <1>1, <1>2, WorkOf
<1>4. Still /\ Grows /\ Running' = Running /\ Graders' = Graders
  BY StoreStays DEF Read
<1>5. PICK n \in ReqStates :
        /\ n = [o EXCEPT !.copy = row, !.pc = "refresh"]
        /\ n.pc = "refresh" /\ n.kind = o.kind /\ n.e = o.e /\ n.copy = row
        /\ n.passes = o.passes /\ n.left = o.left /\ n.at = o.at /\ n.failure = o.failure
  <2> DEFINE s == [o EXCEPT !.copy = row, !.pc = "refresh"]
  <2>1. s \in ReqStates
    BY DEF ReqStates, PCs, Viewing
  <2>2. /\ s.pc = "refresh" /\ s.kind = o.kind /\ s.e = o.e /\ s.copy = row
        /\ s.passes = o.passes /\ s.left = o.left /\ s.at = o.at /\ s.failure = o.failure
    BY DEF ReqStates
  <2> QED
    BY <2>1, <2>2
<1>6. req' = [req EXCEPT ![q] = n]
  BY <1>2, <1>3, <1>5 DEF Read, Do
<1>7. Placed(n) /\ Says(q, n)
  BY <1>1, <1>2, <1>5, SilentStays DEF Placed, Early, Viewing, Copied, Ended
<1>8. Claims(o.e, row)
  BY <1>3 DEF Inv, GInv, Rows
<1>9. Holds(n)
  BY <1>2, <1>3, <1>5, <1>8 DEF Holds
<1>10. Holds(n)'
  BY <1>4, <1>9, HoldsStays
<1>11. ~crashed => q \notin Graders
  BY <1>1, NoService
<1>12. Lone(q) /\ (serial => OneExists /\ Good(q, o))
  BY <1>1, <1>2, WorkOf
<1>13. Plain /\ (serial => OneExists')
  BY <1>4, <1>12, StillPlain, StillIsPlain
<1>14. o.pc \notin Saving \cup Starting /\ n.pc \notin Saving \cup Starting
  BY <1>1, <1>2, <1>5 DEF Saving, Starting
<1>15. ASSUME serial, ~crashed
       PROVE  GoodEditors(n)' /\ GoodRows(n)'
  <2>1. GoodEditors(o) /\ GoodRows(o)
    BY <1>12, <1>15 DEF Good
  <2>2. Remembered'
    BY <1>4, <1>14, <2>1, StillRemembered DEF GoodEditors
  <2>3. \A e \in Ids : RightRow(e)
    BY <1>14, <2>1, RowsOf
  <2>4. Right(o.e, row)
    BY <1>3, <2>3 DEF RightRow
  <2>5. GoodRows(n)
    BY <1>5, <1>14, <2>1, <2>3, <2>4 DEF GoodRows
  <2>6. GoodRows(n)'
    BY <1>4, <1>14, <2>5, RowsCarry
  <2> QED
    BY <1>14, <2>2, <2>6 DEF GoodEditors
<1>16. n.pc \notin {"idle", "create", "plant", "question", "reply"}
  BY <1>5
<1> QED
  BY <1>4, <1>6, <1>7, <1>10, <1>11, <1>12, <1>13, <1>15, <1>16, WorkKeeps

LEMMA RefreshKeeps ==
  ASSUME LearnerAssumption, Inv, NEW q \in Requests, Refresh(q)
  PROVE  Inv'
<1>1. req[q].pc = "refresh" /\ req[q].pc \notin Early \cup Ended
  BY DEF Refresh, Early, Ended
<1>2. PICK o \in ReqStates : o = req[q] /\ Placed(o) /\ Holds(o) /\ Says(q, o)
  BY <1>1, WorkOf
<1>3. o.copy \in EnrollmentRows /\ o.kind # "chat" /\ o.e \in Ids
  BY <1>1, <1>2 DEF Placed, Viewing, Copied, ReqStates
<1>4. Still /\ Grows /\ Running' = Running /\ Graders' = Graders
  BY StoreStays DEF Refresh
<1>5. ~crashed => q \notin Graders
  BY <1>1, NoService
<1>6. CASE Go(q, AfterGet(q))
  <2>1. PICK pc \in PCs : pc = AfterGet(q) /\ pc \in {"done", "seed"}
    BY DEF AfterGet, PCs, Ended, Viewing
  <2>2. /\ pc \notin Early \cup {"question", "reply", "gone"} \cup Saving \cup Starting
        /\ pc # "plant"
        /\ o.pc \notin Early \cup Ended \cup {"reply"} \cup Saving \cup Starting
    BY <1>1, <1>2, <2>1 DEF Early, Ended, Saving, Starting
  <2> QED
    BY <1>2, <1>3, <1>4, <1>5, <1>6, <2>1, <2>2, GoKeeps
<1>7. CASE ~Go(q, AfterGet(q))
  <2>1. PICK row \in EnrollmentRows :
          row = Refreshed(o.e, o.copy) /\ Claims(o.e, row)
    BY <1>2, <1>3, RefreshClaims DEF Holds
  <2>2. Do(q, [o EXCEPT !.copy = row, !.pc = "heal"])
    BY <1>2, <1>7, <2>1 DEF Refresh
  <2>3. PICK n \in ReqStates :
          /\ n = [o EXCEPT !.copy = row, !.pc = "heal"]
          /\ n.pc = "heal" /\ n.kind = o.kind /\ n.e = o.e /\ n.copy = row
          /\ n.passes = o.passes /\ n.left = o.left /\ n.at = o.at /\ n.failure = o.failure
    <3> DEFINE s == [o EXCEPT !.copy = row, !.pc = "heal"]
    <3>1. s \in ReqStates
      BY DEF ReqStates, PCs, Viewing
    <3>2. /\ s.pc = "heal" /\ s.kind = o.kind /\ s.e = o.e /\ s.copy = row
          /\ s.passes = o.passes /\ s.left = o.left /\ s.at = o.at /\ s.failure = o.failure
      BY DEF ReqStates
    <3> QED
      BY <3>1, <3>2
  <2>4. req' = [req EXCEPT ![q] = n]
    BY <2>2, <2>3 DEF Do
  <2>5. Placed(n) /\ Says(q, n)
    BY <1>1, <1>2, <1>3, <2>3, SilentStays DEF Placed, Early, Viewing, Copied, Ended
  <2>6. Holds(n)
    BY <1>1, <1>2, <2>1, <2>3 DEF Holds
  <2>7. Holds(n)'
    BY <1>4, <2>6, HoldsStays
  <2>8. Lone(q) /\ (serial => OneExists /\ Good(q, o))
    BY <1>1, <1>2, WorkOf
  <2>9. Plain /\ (serial => OneExists')
    BY <1>4, <2>8, StillPlain, StillIsPlain
  <2>10. o.pc \notin Saving \cup Starting /\ n.pc \notin Saving \cup Starting
    BY <1>1, <1>2, <2>3 DEF Saving, Starting
  <2>11. ASSUME serial, ~crashed
         PROVE  GoodEditors(n)' /\ GoodRows(n)'
    <3>1. GoodEditors(o) /\ GoodRows(o)
      BY <2>8, <2>11 DEF Good
    <3>2. Remembered'
      BY <1>4, <2>10, <3>1, StillRemembered DEF GoodEditors
    <3>3. Right(o.e, o.copy)
      BY <1>3, <2>10, <3>1, NoneIsNoRow DEF GoodRows
    <3>4. Right(o.e, row)
      BY <1>2, <1>3, <2>1, <3>3, RefreshRight DEF Holds, Inv, GInv
    <3>5. GoodRows(n)
      BY <2>3, <2>10, <3>1, <3>4 DEF GoodRows
    <3>6. GoodRows(n)'
      BY <1>4, <2>10, <3>5, RowsCarry
    <3> QED
      BY <2>10, <3>2, <3>6 DEF GoodEditors
  <2>12. n.pc \notin {"idle", "create", "plant", "question", "reply"}
    BY <2>3
  <2> QED
    BY <1>4, <1>5, <2>4, <2>5, <2>7, <2>8, <2>9, <2>11, <2>12, WorkKeeps
<1> QED
  BY <1>6, <1>7

\* A request saves a row of its enrollment and goes on without another copy.
LEMMA SaveKeeps ==
  ASSUME LearnerAssumption, Inv, NEW q \in Requests, NEW o \in ReqStates, o = req[q],
         o.pc \in {"heal", "move", "progress"},
         NEW row \in EnrollmentRows, Claims(o.e, row),
         enrollments' = [enrollments EXCEPT ![o.e] = row],
         UNCHANGED <<serial, submissions, sessions, messages, world, clock, crashed>>,
         NEW n \in ReqStates, req' = [req EXCEPT ![q] = n], Placed(n), Holds(n), Says(q, n),
         n.pc \in {"done", "seed", "read"},
         n.copy # None => o.pc = "heal" /\ n.copy = o.copy /\ n.e = o.e,
         n.left # {} => o.pc = "heal" /\ n.left = o.left /\ n.at = o.at /\ n.e = o.e,
         serial /\ ~crashed => Right(o.e, row)
  PROVE  Inv'
<1>1. Exists(o.e) /\ o.e \in Ids /\ Lone(q) /\ (serial => OneExists /\ Good(q, o))
  BY WorkOf DEF Early, Ended
<1>2. /\ UNCHANGED <<serial, submissions, sessions, messages, crashed>>
      /\ Running' = Running /\ Graders' = Graders /\ files' = files /\ clock' = clock
  BY DEF world, docker, Running, Graders, DockerTypes
<1>3. Plain
  <2>1. clock' \in Nat /\ clock <= clock'
    BY <1>2 DEF Inv, GInv, StoreTypes
  <2>2. DockerTypes' /\ files' \in {"missing", "seed", "work"}
    BY <1>2 DEF world, docker, DockerTypes, Inv, GInv, StoreTypes
  <2> QED
    BY <1>1, <1>2, <2>1, <2>2 DEF Plain, Saves
<1>4. Grows
  BY <1>3, PlainGrows DEF Inv, GInv
<1>5. Holds(n)'
  BY <1>4, HoldsStays
<1>6. serial => OneExists'
  BY <1>1, SavedRow DEF Inv, GInv
<1>7. ~crashed => q \notin Graders
  BY NoService
<1>8. ASSUME serial, ~crashed
      PROVE  GoodEditors(n)' /\ GoodRows(n)'
  <2>1. GoodEditors(o) /\ GoodRows(o)
    BY <1>1, <1>8 DEF Good
  <2>2. o.pc \notin Starting /\ n.pc \notin Starting /\ n.pc \notin Saving
    BY DEF Starting, Saving
  <2>3. Remembered'
    BY <1>2, <2>1, <2>2 DEF GoodEditors, Remembered, LatestSession, None
  <2>4. \A f \in Ids : f = o.e \/ RightRow(f)
    BY <2>1 DEF GoodRows
  <2>5. \A f \in Ids : RightRow(f)'
    BY <1>1, <1>2, <1>8, <2>4, SavedRight DEF Inv, GInv
  <2>6. ASSUME n.copy # None
        PROVE  Right(n.e, n.copy)'
    <3>1. Right(n.e, n.copy)
      BY <2>1, <2>6 DEF GoodRows, Saving
    <3> QED
      BY <1>2, <3>1 DEF Right, AllPassed, LatestPassed, Latest
  <2>7. n.left # {} => \A s \in submissions' :
          s.at <= n.at /\ (s.at = n.at => s.e = n.e /\ s.d \notin n.left)
    BY <1>2, <2>1 DEF GoodRows
  <2>8. n.left \in {{}, Areas}
    BY <2>1 DEF GoodRows, Saving
  <2>9. GoodRows(n)'
    BY <2>2, <2>5, <2>6, <2>7, <2>8 DEF GoodRows, Areas
  <2> QED
    BY <2>2, <2>3, <2>9 DEF GoodEditors
<1>9. n.pc \notin {"idle", "create", "plant", "question", "reply"}
  OBVIOUS
<1> QED
  BY <1>1, <1>2, <1>3, <1>5, <1>6, <1>7, <1>8, <1>9, WorkKeeps

LEMMA HealKeeps ==
  ASSUME LearnerAssumption, Inv, NEW q \in Requests, Heal(q)
  PROVE  Inv'
<1>1. req[q].pc = "heal" /\ req[q].pc \notin Early \cup Ended
  BY DEF Heal, Early, Ended
<1>2. PICK o \in ReqStates : o = req[q] /\ Placed(o) /\ Holds(o) /\ Says(q, o)
  BY <1>1, WorkOf
<1>3. PICK row \in EnrollmentRows : row = o.copy
  BY <1>1, <1>2 DEF Placed, Copied
<1>4. o.kind # "chat" /\ Claims(o.e, row)
  BY <1>1, <1>2, <1>3 DEF Placed, Viewing, Holds
<1>5. PICK pc \in PCs : pc = AfterGet(q) /\ pc \in {"done", "seed"}
  BY DEF AfterGet, PCs, Ended, Viewing
<1>6. PICK n \in ReqStates :
        /\ n = Went(q, o, pc) /\ n.pc = pc
        /\ n.copy # None => n.copy = o.copy /\ n.e = o.e
        /\ n.left # {} => n.left = o.left /\ n.at = o.at /\ n.e = o.e
  <2>1. CASE pc = "done"
    BY <2>1, WentState
  <2>2. CASE pc = "seed"
    BY <2>2, WentState
  <2> QED
    BY <1>5, <2>1, <2>2
<1>7. req' = [req EXCEPT ![q] = n]
  BY <1>2, <1>5, <1>6, GoIs DEF Heal
<1>8. /\ pc \notin Early \cup {"question", "reply", "gone", "record", "progress"}
      /\ o.pc \notin Early \cup Ended \cup {"reply"}
  BY <1>1, <1>2, <1>5 DEF Early, Ended
<1>9. Placed(n) /\ Holds(n) /\ Says(q, n)
  BY <1>2, <1>3, <1>4, <1>6, <1>8, WentPlaced, WentHolds, SilentStays
<1>10. ASSUME serial, ~crashed
       PROVE  Right(o.e, row)
  <2>1. GoodRows(o)
    BY <1>1, <1>2, <1>10, WorkOf DEF Good
  <2> QED
    BY <1>1, <1>2, <1>3, <2>1, NoneIsNoRow DEF GoodRows, Saving
<1>11. /\ enrollments' = [enrollments EXCEPT ![o.e] = row]
       /\ UNCHANGED <<serial, submissions, sessions, messages, world, clock, crashed>>
  BY <1>2, <1>3 DEF Heal
<1> QED
  BY <1>1, <1>2, <1>4, <1>5, <1>6, <1>7, <1>9, <1>10, <1>11, SaveKeeps

LEMMA TargetIs ==
  ASSUME LearnerAssumption, NEW q \in Requests, NEW o \in ReqStates, o = req[q],
         o.copy \in EnrollmentRows
  PROVE  Target(q) \in 0..Deliverables
<1>1. o.target \in 0..Deliverables /\ o.copy.current \in 0..Deliverables
  BY DEF ReqStates, EnrollmentRows
<1> QED
  BY <1>1, Numbers DEF Target

\* A request that returns what get_enrollment returns knows nothing else.
LEMMA ReturningHolds ==
  ASSUME LearnerAssumption, NEW q \in Requests, NEW e \in Ids, Exists(e)
  PROVE  Placed(Returning(q, e)) /\ Holds(Returning(q, e))
BY ReturningState, NoneIsNoRow DEF Placed, Holds, Claims, Early, Viewing, Copied

LEMMA LastGetIs ==
  ASSUME NEW q \in Requests, NEW o, o = req[q], LastGet(q)
  PROVE  req' = [req EXCEPT ![q] = Returning(q, o.e)]
BY DEF LastGet, Do, Returning

LEMMA MoveKeeps ==
  ASSUME LearnerAssumption, Inv, NEW q \in Requests, Move(q)
  PROVE  Inv'
<1>1. req[q].pc = "move" /\ req[q].pc \notin Early \cup Ended
  BY DEF Move, Early, Ended
<1>2. PICK o \in ReqStates : o = req[q] /\ Placed(o) /\ Holds(o) /\ Says(q, o)
  BY <1>1, WorkOf
<1>3. o.copy \in EnrollmentRows /\ o.e \in Ids /\ Exists(o.e)
  BY <1>1, <1>2, WorkOf DEF Placed, Copied
<1>4. PICK row \in EnrollmentRows :
        /\ row = [o.copy EXCEPT !.current = Target(q)]
        /\ row.status = o.copy.status /\ row.passed = o.copy.passed
  <2> DEFINE r == [o.copy EXCEPT !.current = Target(q)]
  <2>1. Target(q) \in 0..Deliverables
    BY <1>2, <1>3, TargetIs
  <2>2. r \in EnrollmentRows
    BY <1>3, <2>1 DEF EnrollmentRows
  <2>3. r.status = o.copy.status /\ r.passed = o.copy.passed
    BY <1>3 DEF EnrollmentRows
  <2> QED
    BY <2>2, <2>3
<1>5. Claims(o.e, row)
  BY <1>2, <1>3, <1>4, NoneIsNoRow DEF Holds, Claims
<1>6. PICK n \in ReqStates :
        /\ n = Returning(q, o.e) /\ n.pc = "read" /\ n.copy = None /\ n.left = {}
  BY <1>3, ReturningState
<1>7. req' = [req EXCEPT ![q] = n]
  BY <1>2, <1>6, LastGetIs DEF Move
<1>8. Placed(n) /\ Holds(n) /\ Says(q, n)
  BY <1>1, <1>2, <1>3, <1>6, ReturningHolds, SilentStays DEF Ended
<1>9. ASSUME serial, ~crashed
      PROVE  Right(o.e, row)
  <2>1. GoodRows(o)
    BY <1>1, <1>2, <1>9, WorkOf DEF Good
  <2>2. Right(o.e, o.copy)
    BY <1>1, <1>2, <1>3, <2>1, NoneIsNoRow DEF GoodRows, Saving
  <2> QED
    BY <1>4, <2>2 DEF Right
<1>10. /\ enrollments' = [enrollments EXCEPT ![o.e] = row]
       /\ UNCHANGED <<serial, submissions, sessions, messages, world, clock, crashed>>
  BY <1>2, <1>4 DEF Move
<1> QED
  BY <1>1, <1>2, <1>5, <1>6, <1>7, <1>8, <1>9, <1>10, SaveKeeps

LEMMA ProgressKeeps ==
  ASSUME LearnerAssumption, Inv, NEW q \in Requests, Progress(q)
  PROVE  Inv'
<1>1. req[q].pc = "progress" /\ req[q].pc \notin Early \cup Ended
  BY DEF Progress, Early, Ended
<1>2. PICK o \in ReqStates : o = req[q] /\ Placed(o) /\ Holds(o) /\ Says(q, o)
  BY <1>1, WorkOf
<1>3. /\ o.copy \in EnrollmentRows /\ o.e \in Ids /\ Exists(o.e) /\ o.left = {}
      /\ o.passes \in SUBSET Areas
  BY <1>1, <1>2, WorkOf DEF Placed, Copied, ReqStates
<1>4. PICK row \in EnrollmentRows :
        /\ row = IF o.passes = Areas
                 THEN [o.copy EXCEPT !.passed = Areas, !.current = 0, !.status = "completed"]
                 ELSE [o.copy EXCEPT !.passed = o.passes, !.current = Target(q),
                                     !.status = "active"]
        /\ row.status = "completed" <=> o.passes = Areas
        /\ row.passed = o.passes
  <2>1. Target(q) \in 0..Deliverables /\ 0 \in 0..Deliverables
    BY <1>2, <1>3, TargetIs, Numbers
  <2>2. {"active", "completed"} \subseteq Statuses
    BY DEF Statuses
  <2>3. CASE o.passes = Areas
    <3> DEFINE r == [o.copy EXCEPT !.passed = Areas, !.current = 0, !.status = "completed"]
    <3>1. r \in EnrollmentRows /\ r.status = "completed" /\ r.passed = o.passes
      BY <1>3, <2>1, <2>2, <2>3 DEF EnrollmentRows
    <3> QED
      BY <2>3, <3>1
  <2>4. CASE o.passes # Areas
    <3> DEFINE r == [o.copy EXCEPT !.passed = o.passes, !.current = Target(q),
                                   !.status = "active"]
    <3>1. r \in EnrollmentRows /\ r.status = "active" /\ r.passed = o.passes
      BY <1>3, <2>1, <2>2, <2>4 DEF EnrollmentRows
    <3> QED
      BY <2>4, <3>1
  <2> QED
    BY <2>3, <2>4
<1>5. Claims(o.e, row)
  BY <1>2, <1>3, <1>4 DEF Holds, Claims
<1>6. PICK n \in ReqStates :
        /\ n = Returning(q, o.e) /\ n.pc = "read" /\ n.copy = None /\ n.left = {}
  BY <1>3, ReturningState
<1>7. req' = [req EXCEPT ![q] = n]
  BY <1>2, <1>6, LastGetIs DEF Progress
<1>8. Placed(n) /\ Holds(n) /\ Says(q, n)
  BY <1>1, <1>2, <1>3, <1>6, ReturningHolds, SilentStays DEF Ended
<1>9. ASSUME serial, ~crashed
      PROVE  Right(o.e, row)
  <2>1. GoodRows(o)
    BY <1>1, <1>2, <1>9, WorkOf DEF Good
  <2>2. \A d \in Areas : LatestPassed(o.e, d) <=> d \in o.passes
    BY <1>1, <1>2, <1>3, <2>1 DEF GoodRows, Saving
  <2>3. AllPassed(o.e) <=> o.passes = Areas
    BY <1>3, <2>2 DEF AllPassed
  <2> QED
    BY <1>4, <2>3 DEF Right
<1>10. /\ enrollments' = [enrollments EXCEPT ![o.e] = row]
       /\ UNCHANGED <<serial, submissions, sessions, messages, world, clock, crashed>>
  BY <1>2, <1>4 DEF Progress
<1> QED
  BY <1>1, <1>2, <1>5, <1>6, <1>7, <1>8, <1>9, <1>10, SaveKeeps

-----------------------------------------------------------------------------
(* The workspace and the editors *)

\* A step that changes nothing but the files and who is under grading.
LEMMA WorldChanges ==
  ASSUME Inv, UNCHANGED <<serial, store, clock, crashed>>,
         DockerTypes', files' \in {"missing", "seed", "work"}
  PROVE  Still /\ Grows
<1>1. UNCHANGED <<serial, enrollments, submissions, sessions, messages, crashed>>
  BY DEF store
<1>2. clock' \in Nat /\ clock <= clock'
  BY DEF Inv, GInv, StoreTypes
<1>3. Still
  BY <1>1, <1>2 DEF Still
<1> QED
  BY <1>3, StillIsPlain, PlainGrows DEF Inv, GInv

\* Where get_enrollment and the workspace lead to.
LEMMA BodyIs ==
  ASSUME NEW kind \in Kinds, kind # "chat"
  PROVE  /\ Body[kind] \in {"done", "write", "session", "grade"}
         /\ Body[kind] = "done" <=> kind = "enroll"
BY DEF Kinds, Body

LEMMA SeedKeeps ==
  ASSUME LearnerAssumption, Inv, NEW q \in Requests, Seed(q)
  PROVE  Inv'
<1>1. req[q].pc = "seed" /\ req[q].pc \notin Early \cup Ended
  BY DEF Seed, Early, Ended
<1>2. PICK o \in ReqStates : o = req[q] /\ Placed(o) /\ Holds(o) /\ Says(q, o)
  BY <1>1, WorkOf
<1>3. o.kind \in Kinds /\ o.kind # "chat" /\ (o.kind # "enroll" => o.copy \in EnrollmentRows)
  BY <1>1, <1>2 DEF Placed, Viewing, ReqStates
<1>4. Still /\ Grows /\ Running' = Running /\ Graders' = Graders /\ files' = files
  BY StoreStays DEF Seed
<1>5. PICK pc \in PCs :
        /\ Go(q, pc) /\ pc \in {"plant", "done", "write", "session", "grade"}
        /\ pc = "plant" => files = "missing"
        /\ pc \in {"write", "session", "grade"} => o.kind # "enroll"
  <2>1. {"plant", "done", "write", "session", "grade"} \subseteq PCs
    BY DEF PCs, Ended, Viewing, Copied
  <2>2. CASE files = "missing"
    BY <2>1, <2>2 DEF Seed
  <2>3. CASE files # "missing"
    <3>1. Go(q, Body[o.kind])
      BY <1>2, <2>3 DEF Seed
    <3> QED
      BY <1>3, <2>1, <3>1, BodyIs
  <2> QED
    BY <2>2, <2>3
<1>6. /\ pc \notin Early \cup {"question", "reply", "gone"} \cup Saving \cup Starting
      /\ o.pc \notin Early \cup Ended \cup {"reply"} \cup Saving \cup Starting
  BY <1>1, <1>2, <1>5 DEF Early, Ended, Saving, Starting
<1>7. /\ pc \in Viewing => o.kind # "chat"
      /\ pc \in Copied \/ (pc \in {"seed", "plant"} /\ o.kind # "enroll")
           => o.copy \in EnrollmentRows
  BY <1>3, <1>5 DEF Copied
<1>8. ~crashed => q \notin Graders
  BY <1>1, NoService
<1>9. pc = "plant" => files' = "missing"
  BY <1>4, <1>5
<1> QED
  BY <1>2, <1>4, <1>5, <1>6, <1>7, <1>8, <1>9, GoKeeps

LEMMA PlantKeeps ==
  ASSUME LearnerAssumption, Inv, NEW q \in Requests, Plant(q)
  PROVE  Inv'
<1>1. req[q].pc = "plant" /\ req[q].pc \notin Early \cup Ended
  BY DEF Plant, Early, Ended
<1>2. PICK o \in ReqStates : o = req[q] /\ Placed(o) /\ Holds(o) /\ Says(q, o)
  BY <1>1, WorkOf
<1>3. o.kind \in Kinds /\ o.kind # "chat" /\ (o.kind # "enroll" => o.copy \in EnrollmentRows)
  BY <1>1, <1>2 DEF Placed, Viewing, ReqStates
<1>4. Running' = Running /\ Graders' = Graders /\ files' = "seed" /\ DockerTypes'
  BY DEF Plant, docker, Running, Graders, DockerTypes, Inv, GInv, StoreTypes
<1>5. Still /\ Grows
  BY <1>4, WorldChanges DEF Plant, Inv, GInv, StoreTypes
<1>6. PICK pc \in PCs :
        /\ Go(q, pc) /\ pc \in {"done", "write", "session", "grade"}
        /\ pc \in {"write", "session", "grade"} => o.kind # "enroll"
  <2>1. {"done", "write", "session", "grade"} \subseteq PCs
    BY DEF PCs, Ended, Copied
  <2>2. Go(q, Body[o.kind])
    BY <1>2 DEF Plant
  <2> QED
    BY <1>3, <2>1, <2>2, BodyIs
<1>7. /\ pc \notin Early \cup {"question", "reply", "gone"} \cup Saving \cup Starting
      /\ o.pc \notin Early \cup Ended \cup {"reply"} \cup Saving \cup Starting
      /\ pc # "plant"
  BY <1>1, <1>2, <1>6 DEF Early, Ended, Saving, Starting
<1>8. /\ pc \in Viewing => o.kind # "chat"
      /\ pc \in Copied \/ (pc \in {"seed", "plant"} /\ o.kind # "enroll")
           => o.copy \in EnrollmentRows
  BY <1>3, <1>6 DEF Copied
<1>9. ~crashed => q \notin Graders
  BY <1>1, NoService
<1> QED
  BY <1>2, <1>4, <1>5, <1>6, <1>7, <1>8, <1>9, GoKeeps

LEMMA WriteKeeps ==
  ASSUME LearnerAssumption, Inv, NEW q \in Requests, Write(q)
  PROVE  Inv'
<1>1. req[q].pc = "write" /\ req[q].pc \notin Early \cup Ended
  BY DEF Write, Early, Ended
<1>2. PICK o \in ReqStates : o = req[q] /\ Placed(o) /\ Holds(o) /\ Says(q, o)
  BY <1>1, WorkOf
<1>3. /\ Running' = Running /\ Graders' = Graders /\ files' = "work" /\ DockerTypes'
      /\ Go(q, "done")
  BY DEF Write, docker, Running, Graders, DockerTypes, Inv, GInv, StoreTypes
<1>4. Still /\ Grows
  BY <1>3, WorldChanges DEF Write, Inv, GInv, StoreTypes
<1>5. "done" \in PCs /\ "done" \notin Viewing \cup Copied
  BY DEF PCs, Ended, Viewing, Copied
<1>6. /\ "done" \notin Early \cup {"question", "reply", "gone"} \cup Saving \cup Starting
      /\ o.pc \notin Early \cup Ended \cup {"reply"} \cup Saving \cup Starting
  BY <1>1, <1>2 DEF Early, Ended, Saving, Starting
<1>7. ~crashed => q \notin Graders
  BY <1>1, NoService
<1> QED
  BY <1>2, <1>3, <1>4, <1>5, <1>6, <1>7, GoKeeps

\* A launch goes on in state n, or has failed: what is to be shown of the editors.
LEMMA LaunchKeeps ==
  ASSUME LearnerAssumption, Inv, NEW q \in Requests, NEW o \in ReqStates, o = req[q],
         o.pc \in {"session", "boot", "wait"},
         NEW n \in ReqStates, req' = [req EXCEPT ![q] = n],
         UNCHANGED <<serial, store, files, clock, crashed>>, Graders' \subseteq Graders,
         DockerTypes',
         n.pc \in {"boot", "wait", "keep", "failed"},
         n.copy = o.copy \/ n.pc = "failed",
         n.copy \in {o.copy, None}, n.copy # None => n.e = o.e,
         n.left = {} \/ (n.left = o.left /\ n.at = o.at /\ n.e = o.e),
         Holds(n),
         serial /\ ~crashed => GoodEditors(n)'
  PROVE  Inv'
<1>1. /\ Placed(o) /\ Says(q, o) /\ Lone(q) /\ (serial => OneExists /\ Good(q, o))
      /\ Exists(o.e)
  BY WorkOf DEF Early, Ended
<1>2. o.copy \in EnrollmentRows
  BY <1>1 DEF Placed, Copied
<1>3. Still /\ Grows
  BY WorldChanges DEF Inv, GInv, StoreTypes
<1>4. Placed(n) /\ Says(q, n)
  <2>1. Placed(n)
    BY <1>2 DEF Placed, Early, Viewing, Copied
  <2>2. o.pc \notin Ended \cup {"reply"} /\ n.pc # "reply"
    BY DEF Ended
  <2> QED
    BY <1>1, <2>1, <2>2, SilentStays
<1>5. Holds(n)'
  BY <1>3, HoldsStays
<1>6. ~crashed => q \notin Graders
  BY NoService
<1>7. Plain /\ (serial => OneExists')
  BY <1>1, <1>3, StillPlain, StillIsPlain
<1>8. ASSUME serial, ~crashed
      PROVE  GoodRows(n)'
  <2>1. GoodRows(o)
    BY <1>1, <1>8 DEF Good
  <2>2. o.pc \notin Saving /\ n.pc \notin Saving
    BY DEF Saving
  <2> QED
    BY <1>3, <2>1, <2>2, RowsCarry
<1>9. n.pc \notin {"idle", "create", "plant", "question", "reply"}
  OBVIOUS
<1> QED
  BY <1>1, <1>4, <1>5, <1>6, <1>7, <1>8, <1>9, WorkKeeps

LEMMA LatestSessionIs ==
  ASSUME NEW e, NEW s
  PROVE  s \in LatestSession(e) <=>
           /\ s \in Requests /\ sessions[s] # None /\ sessions[s].e = e
           /\ \A t \in Requests : sessions[t] # None /\ sessions[t].e = e =>
                sessions[t].at <= sessions[s].at
BY DEF LatestSession

\* An enrollment has one latest session, if there was no restart.
LEMMA OneLatest ==
  ASSUME StoreTypes, Rows, ~crashed, NEW e, NEW s \in LatestSession(e), NEW t \in LatestSession(e)
  PROVE  s = t
<1>1. /\ s \in Requests /\ t \in Requests /\ sessions[s] # None /\ sessions[t] # None
      /\ sessions[s].at <= sessions[t].at /\ sessions[t].at <= sessions[s].at
  BY LatestSessionIs
<1>2. PICK i \in Nat, j \in Nat : i = sessions[s].at /\ j = sessions[t].at
  BY <1>1 DEF StoreTypes, SessionRows
<1>3. i = j
  BY <1>1, <1>2
<1> QED
  BY <1>1, <1>2, <1>3 DEF Rows

\* The editors that are remembered are those of the only enrollment.
LEMMA EditorsOf ==
  ASSUME StoreTypes, Rows, OneExists, Remembered, NEW e \in Ids, Exists(e)
  PROVE  Running \subseteq LatestSession(e)
<1>1. PICK f \in Ids : Running \subseteq LatestSession(f)
  BY DEF Remembered
<1>2. ASSUME NEW s \in Running
      PROVE  f = e
  <2>1. s \in Requests /\ sessions[s] # None /\ sessions[s].e = f
    BY <1>1, <1>2, LatestSessionIs
  <2>2. Exists(f)
    BY <2>1 DEF Rows
  <2> QED
    BY <2>2 DEF OneExists
<1> QED
  BY <1>1, <1>2

LEMMA OpenSessionKeeps ==
  ASSUME LearnerAssumption, Inv, NEW q \in Requests, OpenSession(q)
  PROVE  Inv'
<1>1. req[q].pc = "session" /\ req[q].pc \notin Early \cup Ended
  BY DEF OpenSession, Early, Ended
<1>2. PICK o \in ReqStates : o = req[q] /\ Placed(o) /\ Holds(o)
  BY <1>1, WorkOf
<1>3. o.e \in Ids /\ Exists(o.e) /\ (serial => OneExists /\ Good(q, o))
  BY <1>1, <1>2, WorkOf
<1>f. ASSUME Go(q, "failed")
      PROVE  Inv'
  <2>1. Still /\ Grows /\ Running' = Running /\ Graders' = Graders
    BY StoreStays DEF OpenSession
  <2>2. /\ "failed" \in PCs
        /\ "failed" \notin Early \cup {"question", "reply", "gone"} \cup Saving \cup Starting
        /\ "failed" \notin Viewing \cup Copied
        /\ o.pc \notin Early \cup Ended \cup {"reply"} \cup Saving \cup Starting
    BY <1>1, <1>2 DEF PCs, Copied, Viewing, Early, Ended, Saving, Starting
  <2>3. ~crashed => q \notin Graders
    BY <1>1, NoService
  <2> QED
    BY <1>2, <1>f, <2>1, <2>2, <2>3, GoKeeps
<1> SUFFICES ASSUME ~Go(q, "failed")
             PROVE  Inv'
  BY <1>f
<1>4. PICK pc \in {"boot", "keep"}, s \in Requests :
        /\ Do(q, [o EXCEPT !.session = s, !.pc = pc])
        /\ s \in LatestSession(o.e) \/ LatestSession(o.e) = {}
  <2>1. CASE LatestSession(o.e) = {}
    <3>1. Do(q, [o EXCEPT !.pc = "boot"])
      BY <1>2, <2>1 DEF OpenSession, Go
    <3>2. o.session \in Requests /\ [o EXCEPT !.pc = "boot"]
            = [o EXCEPT !.session = o.session, !.pc = "boot"]
      BY DEF ReqStates
    <3>3. Do(q, [o EXCEPT !.session = o.session, !.pc = "boot"])
      BY <3>1, <3>2
    <3> QED
      BY <2>1, <3>2, <3>3
  <2>2. CASE LatestSession(o.e) # {}
    <3>1. PICK s \in LatestSession(o.e), pc \in {"boot", "keep"} :
            Do(q, [o EXCEPT !.session = s, !.pc = pc])
      BY <1>2, <2>2 DEF OpenSession
    <3>2. s \in Requests
      BY <3>1, LatestSessionIs
    <3> QED
      BY <3>1, <3>2
  <2> QED
    BY <2>1, <2>2
<1>5. PICK n \in ReqStates :
        /\ n = [o EXCEPT !.session = s, !.pc = pc]
        /\ n.pc = pc /\ n.kind = o.kind /\ n.e = o.e /\ n.copy = o.copy /\ n.session = s
        /\ n.passes = o.passes /\ n.left = o.left /\ n.at = o.at /\ n.failure = o.failure
  <2> DEFINE r == [o EXCEPT !.session = s, !.pc = pc]
  <2>1. pc \in PCs
    BY DEF PCs, Copied
  <2>2. r \in ReqStates
    BY <2>1 DEF ReqStates
  <2>3. /\ r.pc = pc /\ r.kind = o.kind /\ r.e = o.e /\ r.copy = o.copy /\ r.session = s
        /\ r.passes = o.passes /\ r.left = o.left /\ r.at = o.at /\ r.failure = o.failure
    BY DEF ReqStates
  <2> QED
    BY <2>2, <2>3
<1>6. req' = [req EXCEPT ![q] = n]
  BY <1>4, <1>5 DEF Do
<1>7. Holds(n)
  BY <1>1, <1>2, <1>5 DEF Holds
<1>8. /\ UNCHANGED <<serial, store, files, clock, crashed>> /\ Graders' = Graders
      /\ Running' = Running /\ DockerTypes'
  BY DEF OpenSession, world, docker, Running, Graders, DockerTypes, Inv, GInv, StoreTypes
<1>9. ASSUME serial, ~crashed
      PROVE  GoodEditors(n)'
  <2>1. Remembered
    BY <1>1, <1>2, <1>3, <1>9 DEF Good, GoodEditors, Starting
  <2>2. Running \subseteq LatestSession(o.e)
    BY <1>3, <1>9, <2>1, EditorsOf DEF Inv, GInv
  <2>3. Running \subseteq {s}
    BY <1>4, <1>9, <2>2, OneLatest DEF Inv, GInv
  <2>4. Running' \subseteq {n.session}
    BY <1>5, <1>8, <2>3
  <2>5. n.pc \in Starting
    BY <1>5 DEF Starting
  <2> QED
    BY <2>4, <2>5 DEF GoodEditors
<1> QED
  BY <1>1, <1>2, <1>5, <1>6, <1>7, <1>8, <1>9, LaunchKeeps

\* An editor is started, answers or does not, and goes on or has failed.
LEMMA EditorKeeps ==
  ASSUME LearnerAssumption, Inv, NEW q \in Requests, req[q].pc \in {"boot", "wait"},
         NEW pc \in {"wait", "keep", "failed"}, Go(q, pc),
         UNCHANGED <<serial, store, graders, files, clock, crashed>>,
         lost \subseteq lost', lost' \subseteq lost \cup {req[q].session}, DockerTypes',
         IF pc = "failed" THEN Running' \subseteq Running \ {req[q].session}
                          ELSE Running' \subseteq Running \cup {req[q].session}
  PROVE  Inv'
<1>1. req[q].pc \notin Early \cup Ended
  BY DEF Early, Ended
<1>2. PICK o \in ReqStates : o = req[q] /\ Placed(o) /\ Holds(o)
  BY <1>1, WorkOf
<1>3. pc \in PCs /\ o.session \in Requests
  BY DEF PCs, Copied, Ended, ReqStates
<1>4. PICK n \in ReqStates :
        /\ n = Went(q, o, pc) /\ n.pc = pc /\ n.copy \in {o.copy, None}
        /\ n.copy = o.copy \/ n.pc = "failed"
        /\ n.copy # None => n.e = o.e
        /\ n.left = {} \/ (n.left = o.left /\ n.at = o.at /\ n.e = o.e)
        /\ n.pc # "failed" => n.session = o.session
  <2>1. CASE pc = "failed"
    BY <1>3, <2>1, WentState
  <2>2. CASE pc # "failed"
    <3>1. pc \notin {"done", "failed"}
      BY <2>2
    <3> QED
      BY <1>3, <3>1, WentState
  <2> QED
    BY <2>1, <2>2
<1>5. req' = [req EXCEPT ![q] = n]
  BY <1>2, <1>4, GoIs
<1>6. pc \notin Early \cup {"question", "reply"} /\ pc # "gone"
  BY DEF Early
<1>7. Holds(n)
  BY <1>1, <1>2, <1>3, <1>4, <1>6, WentHolds
<1>8. Graders' \subseteq Graders
  BY DEF Graders
<1>9. ASSUME serial, ~crashed
      PROVE  GoodEditors(n)'
  <2>1. Running \subseteq {o.session}
    BY <1>1, <1>2, <1>9, WorkOf DEF Good, GoodEditors, Starting
  <2>2. CASE pc = "failed"
    <3>1. Running' = {}
      BY <1>2, <2>1, <2>2
    <3>2. Remembered'
      BY <3>1, Numbers DEF Remembered, Ids
    <3> QED
      BY <1>4, <2>2, <3>2 DEF GoodEditors, Starting
  <2>3. CASE pc # "failed"
    <3>1. Running' \subseteq {n.session}
      BY <1>2, <1>4, <2>1, <2>3
    <3>2. n.pc \in Starting
      BY <1>4, <2>3 DEF Starting
    <3> QED
      BY <3>1, <3>2 DEF GoodEditors
  <2> QED
    BY <2>2, <2>3
<1>10. o.pc \in {"session", "boot", "wait"} /\ n.pc \in {"boot", "wait", "keep", "failed"}
  BY <1>2, <1>4
<1> QED
  BY <1>2, <1>4, <1>5, <1>7, <1>8, <1>9, <1>10, LaunchKeeps

\* What is removed of a session, and what is left of it.
LEMMA RemovedOrLeft ==
  ASSUME DockerTypes, NEW s \in Requests, UNCHANGED graders,
         \/ containers' = containers \ {s} /\ services' = services \ {s} /\ UNCHANGED lost
         \/ Left(s)
  PROVE  /\ Running' \subseteq Running \ {s} /\ DockerTypes'
         /\ lost \subseteq lost' /\ lost' \subseteq lost \cup {s}
<1>1. CASE containers' = containers \ {s} /\ services' = services \ {s} /\ UNCHANGED lost
  BY <1>1 DEF Running, DockerTypes
<1>2. CASE Left(s)
  <2>1. /\ containers' \subseteq containers \cup {s} /\ services' \subseteq services \cup {s}
        /\ lost' = lost \cup {s}
    BY <1>2 DEF Left, Either, Served
  <2> QED
    BY <2>1 DEF Running, DockerTypes
<1> QED
  BY <1>1, <1>2

LEMMA BootKeeps ==
  ASSUME LearnerAssumption, Inv, NEW q \in Requests, Boot(q)
  PROVE  Inv'
<1>1. req[q].pc \in {"boot", "wait"} /\ UNCHANGED <<serial, store, graders, files, clock, crashed>>
  BY DEF Boot
<1>2. PICK s \in Requests : s = req[q].session
  BY KnownOf DEF ReqStates
<1>3. DockerTypes
  BY DEF Inv, GInv, StoreTypes
<1>4. CASE /\ containers' = containers \cup {s} /\ services' = Served(s)
           /\ Go(q, "wait") /\ UNCHANGED lost
  <2>1. services' \subseteq services \cup {s}
    BY <1>4 DEF Served
  <2>2. Running' \subseteq Running \cup {s} /\ DockerTypes'
    BY <1>1, <1>3, <1>4, <2>1 DEF Running, DockerTypes
  <2> QED
    BY <1>1, <1>2, <1>4, <2>2, EditorKeeps
<1>5. CASE /\ Go(q, "failed")
           /\ \/ containers' = containers \ {s} /\ services' = services \ {s} /\ UNCHANGED lost
              \/ Left(s)
  <2>1. /\ Running' \subseteq Running \ {s} /\ DockerTypes'
        /\ lost \subseteq lost' /\ lost' \subseteq lost \cup {s}
    BY <1>1, <1>3, <1>5, RemovedOrLeft
  <2> QED
    BY <1>1, <1>2, <1>5, <2>1, EditorKeeps
<1> QED
  BY <1>2, <1>4, <1>5 DEF Boot

LEMMA WaitKeeps ==
  ASSUME LearnerAssumption, Inv, NEW q \in Requests, Wait(q)
  PROVE  Inv'
<1>1. req[q].pc \in {"boot", "wait"} /\ UNCHANGED <<serial, store, graders, files, clock, crashed>>
  BY DEF Wait
<1>2. PICK s \in Requests : s = req[q].session
  BY KnownOf DEF ReqStates
<1>3. DockerTypes
  BY DEF Inv, GInv, StoreTypes
<1>4. CASE Go(q, "keep") /\ UNCHANGED <<containers, services, lost>>
  <2>1. Running' \subseteq Running \cup {s} /\ DockerTypes'
    BY <1>1, <1>3, <1>4 DEF Running, DockerTypes
  <2> QED
    BY <1>1, <1>2, <1>4, <2>1, EditorKeeps
<1>5. CASE /\ Go(q, "failed")
           /\ \/ containers' = containers \ {s} /\ services' = services \ {s} /\ UNCHANGED lost
              \/ Left(s)
  <2>1. /\ Running' \subseteq Running \ {s} /\ DockerTypes'
        /\ lost \subseteq lost' /\ lost' \subseteq lost \cup {s}
    BY <1>1, <1>3, <1>5, RemovedOrLeft
  <2> QED
    BY <1>1, <1>2, <1>5, <2>1, EditorKeeps
<1> QED
  BY <1>2, <1>4, <1>5 DEF Wait

\* A step of the request q, whatever it saves.
LEMMA StepKeeps ==
  ASSUME Inv, NEW q \in Requests, NEW n \in ReqStates, req' = [req EXCEPT ![q] = n],
         Grows, serial' = serial, StoreTypes', Rows', Tops', Transcript', Spoken', Watched',
         Placed(n), Holds(n)', Lone(q), serial => OneExists' /\ Turns' /\ After(q, n)'
  PROVE  Inv'
<1>1. ReqTypes' /\ Requested'
  BY RequestStep DEF Inv, GInv
<1>2. SerialInv'
  BY LoneStep DEF Inv, GInv
<1> QED
  BY <1>1, <1>2 DEF Inv, GInv

\* A session is saved: it is the latest one of its enrollment then.
LEMMA SessionSaved ==
  ASSUME LearnerAssumption, Inv, NEW s \in Requests, NEW e \in Ids, Exists(e),
         NEW row \in SessionRows, row.e = e, row.at = clock + 1, clock' = clock + 1,
         sessions' = [sessions EXCEPT ![s] = row],
         UNCHANGED <<serial, enrollments, submissions, messages, world, crashed>>
  PROVE  /\ Grows /\ StoreTypes' /\ Rows' /\ Tops' /\ Transcript'
         /\ s \in LatestSession(e)'
<1>1. /\ UNCHANGED <<serial, enrollments, submissions, messages, crashed>>
      /\ Running' = Running /\ Graders' = Graders /\ files' = files /\ DockerTypes'
      /\ clock \in Nat /\ clock' \in Nat /\ clock < clock' /\ row # None
  BY NoneIsNoRow DEF world, docker, Running, Graders, DockerTypes, Inv, GInv, StoreTypes
<1>2. Grows /\ \A f \in Ids : Exists(f)' <=> Exists(f)
  BY <1>1 DEF Grows, Exists, None
<1>3. StoreTypes'
  <2>1. sessions' \in [Requests -> SessionRows \cup {None}]
    BY DEF Inv, GInv, StoreTypes
  <2> QED
    BY <1>1, <2>1 DEF Inv, GInv, StoreTypes
<1>4. ASSUME NEW t \in Requests, sessions'[t] # None
      PROVE  \/ t = s /\ sessions'[t] = row
             \/ /\ t # s /\ sessions'[t] = sessions[t] /\ sessions[t] # None
                /\ sessions[t].at \in Nat /\ sessions[t].at <= clock /\ Exists(sessions[t].e)
                /\ sessions[t].e \in Ids
  <2>1. CASE t = s
    BY <2>1 DEF Inv, GInv, StoreTypes
  <2>2. CASE t # s
    <3>1. sessions'[t] = sessions[t] /\ sessions[t] # None
      BY <1>4, <2>2 DEF Inv, GInv, StoreTypes
    <3>2. sessions[t] \in SessionRows
      BY <3>1 DEF Inv, GInv, StoreTypes
    <3>3. sessions[t].at \in Nat /\ sessions[t].e \in Ids
      BY <3>2 DEF SessionRows
    <3> QED
      BY <2>2, <3>1, <3>3 DEF Inv, GInv, Rows
  <2> QED
    BY <2>1, <2>2
<1>5. Rows'
  <2>1. ASSUME NEW f \in Ids
        PROVE  Claims(f, enrollments[f])'
    BY <1>1, <1>2, ClaimsStay DEF Inv, GInv, Rows
  <2>2. ASSUME NEW t \in submissions
        PROVE  t.at \in 1..clock' /\ Exists(t.e)'
    <3>1. t.at \in 1..clock /\ Exists(t.e) /\ t.e \in Ids
      BY DEF Inv, GInv, Rows, StoreTypes, SubmissionRows
    <3> QED
      BY <1>1, <1>2, <3>1
  <2>3. ASSUME NEW t \in Requests, sessions'[t] # None
        PROVE  enrollments'[sessions'[t].e] # None /\ sessions'[t].at <= clock'
    <3>1. CASE sessions'[t] = row
      BY <1>1, <3>1 DEF Exists
    <3>2. CASE sessions'[t] = sessions[t] /\ sessions[t].at <= clock /\ Exists(sessions[t].e)
               /\ sessions[t].at \in Nat
      BY <1>1, <3>2 DEF Exists
    <3> QED
      BY <1>4, <2>3, <3>1, <3>2
  <2>4. ASSUME ~crashed, NEW t \in Requests, NEW u \in Requests, sessions'[t] # None,
               sessions'[u] # None, sessions'[t].at = sessions'[u].at
        PROVE  t = u
    <3>1. CASE t # s /\ u # s
      BY <1>4, <2>4, <3>1 DEF Inv, GInv, Rows
    <3>2. CASE t = s /\ u # s
      BY <1>1, <1>4, <2>4, <3>2
    <3>3. CASE u = s /\ t # s
      BY <1>1, <1>4, <2>4, <3>3
    <3> QED
      BY <3>1, <3>2, <3>3
  <2>5. \A t \in Requests :
          /\ (sessions[t] # None)' <=> sessions'[t] # None
          /\ Exists(sessions[t].e)' <=> enrollments'[sessions'[t].e] # None
    BY DEF None, Exists
  <2>6. \A t \in Requests : sessions'[t] # None =>
          Exists(sessions[t].e)' /\ sessions'[t].at <= clock'
    BY <2>3, <2>5
  <2> QED
    BY <1>1, <2>1, <2>2, <2>4, <2>5, <2>6 DEF Rows
<1>6. Tops'
  BY <1>1 DEF Inv, GInv, Tops, Latest
<1>7. Transcript'
  <2>1. \A m \in messages : m.at \in Nat /\ m.at <= clock + 1
    BY DEF Inv, GInv, Transcript, StoreTypes, MessageRows
  <2>2. \A m \in messages : m.at <= clock' + 1
    BY <1>1, <2>1
  <2>3. \A m \in messages : m.failure # 0 => FailedAt(m.e, m.failure)'
    BY <1>1 DEF Inv, GInv, Transcript, FailedAt
  <2>4. \A m \in messages : m.role = "tutor" =>
          \E n \in messages : n.role = "user" /\ n.q = m.q /\ n.e = m.e /\ n.at < m.at
    BY DEF Inv, GInv, Transcript
  <2> QED
    BY <1>1, <2>2, <2>3, <2>4 DEF Transcript
<1>8. s \in LatestSession(e)'
  <2>1. sessions'[s] = row
    BY DEF Inv, GInv, StoreTypes
  <2>2. \A t \in Requests : sessions'[t] # None => sessions'[t].at <= row.at
    BY <1>1, <1>4
  <2> QED
    BY <1>1, <2>1, <2>2 DEF LatestSession, None
<1> QED
  BY <1>2, <1>3, <1>5, <1>6, <1>7, <1>8

LEMMA KeepSessionKeeps ==
  ASSUME LearnerAssumption, Inv, NEW q \in Requests, KeepSession(q)
  PROVE  Inv'
<1>1. req[q].pc = "keep" /\ req[q].pc \notin Early \cup Ended
  BY DEF KeepSession, Early, Ended
<1>2. PICK o \in ReqStates : o = req[q] /\ Placed(o) /\ Holds(o) /\ Says(q, o)
  BY <1>1, WorkOf
<1>3. /\ o.e \in Ids /\ Exists(o.e) /\ Lone(q) /\ o.copy \in EnrollmentRows
      /\ (serial => OneExists /\ Turns /\ Good(q, o)) /\ o.session \in Requests
  BY <1>1, <1>2, WorkOf DEF Placed, Copied, ReqStates
<1>4. /\ UNCHANGED <<serial, enrollments, submissions, messages, world, crashed>>
      /\ clock' = clock + 1
  BY DEF KeepSession
<1>5. PICK row \in SessionRows :
        /\ row = [status |-> "running", e |-> o.e, at |-> clock + 1]
        /\ row.e = o.e /\ row.at = clock + 1
  <2> DEFINE r == [status |-> "running", e |-> o.e, at |-> clock + 1]
  <2>1. clock + 1 \in Nat
    BY DEF Inv, GInv, StoreTypes
  <2>2. r \in SessionRows
    BY <1>3, <2>1 DEF SessionRows
  <2>3. r.e = o.e /\ r.at = clock + 1
    OBVIOUS
  <2> QED
    BY <2>2, <2>3
<1>6. sessions' = [sessions EXCEPT ![o.session] = row]
  BY <1>2, <1>5 DEF KeepSession
<1>7. /\ Grows /\ StoreTypes' /\ Rows' /\ Tops' /\ Transcript'
      /\ o.session \in LatestSession(o.e)'
  BY <1>3, <1>4, <1>5, <1>6, SessionSaved
<1>8. PICK n \in ReqStates :
        /\ req' = [req EXCEPT ![q] = n]
        /\ n.pc \in {"move", "read"} /\ n.copy \in {o.copy, None} /\ (n.copy # None => n.e = o.e)
        /\ n.left # {} => n.left = o.left /\ n.at = o.at /\ n.e = o.e
        /\ Placed(n) /\ Holds(n)
  <2>1. CASE Go(q, "move")
    <3>1. "move" \in PCs /\ "move" \notin Early \cup {"question", "reply"} \cup Viewing
      BY DEF PCs, Copied, Early, Viewing
    <3>2. PICK n \in ReqStates :
            /\ n = Went(q, o, "move") /\ n.pc = "move" /\ n.copy = o.copy /\ n.e = o.e
            /\ n.left = o.left /\ n.at = o.at
      BY <3>1, WentState
    <3>3. Placed(n) /\ Holds(n)
      BY <1>1, <1>2, <1>3, <3>1, <3>2, WentPlaced, WentHolds
    <3>4. req' = [req EXCEPT ![q] = n]
      BY <1>2, <2>1, <3>2, GoIs
    <3> QED
      BY <3>2, <3>3, <3>4
  <2>2. CASE LastGet(q)
    <3>1. PICK n \in ReqStates :
            n = Returning(q, o.e) /\ n.pc = "read" /\ n.copy = None /\ n.left = {}
      BY <1>3, ReturningState
    <3>2. req' = [req EXCEPT ![q] = n]
      BY <1>2, <2>2, <3>1, LastGetIs
    <3> QED
      BY <1>3, <3>1, <3>2, ReturningHolds
  <2> QED
    BY <2>1, <2>2 DEF KeepSession
<1>9. Holds(n)'
  BY <1>7, <1>8, HoldsStays
<1>10. o.pc \notin Ended \cup {"reply"} \cup Saving /\ o.pc \in Starting
       /\ n.pc \notin Ended \cup {"reply", "idle"} \cup Saving \cup Starting
  BY <1>1, <1>2, <1>8 DEF Ended, Saving, Starting
<1>11. Says(q, n)
  BY <1>2, <1>10, SilentStays
<1>12. Spoken'
  BY <1>4, <1>8, <1>11, SpokenStep DEF Inv, GInv
<1>13. Watched'
  <2>1. ~crashed => q \notin Graders
    BY <1>1, NoService
  <2>2. crashed' = crashed /\ Graders' = Graders
    BY <1>4 DEF world, docker, Running, Graders, DockerTypes
  <2> QED
    BY <1>8, <2>1, <2>2, WatchedStep DEF Inv, GInv
<1>14. ASSUME serial
       PROVE  OneExists' /\ Turns' /\ After(q, n)'
  <2>1. OneExists' /\ Turns'
    BY <1>3, <1>4, <1>14 DEF OneExists, Exists, None, Turns
  <2>2. ASSUME ~crashed
        PROVE  GoodEditors(n)' /\ GoodRows(n)'
    <3>1. GoodEditors(o) /\ GoodRows(o)
      BY <1>3, <1>14, <2>2 DEF Good
    <3>2. Running \subseteq LatestSession(o.e)'
      BY <1>7, <1>10, <3>1 DEF GoodEditors
    <3>3. Remembered'
      BY <1>3, <1>4, <3>2 DEF Remembered, world, docker, Running, Graders, DockerTypes, Ids
    <3>4. GoodRows(n)'
      BY <1>4, <1>8, <1>10, <3>1, RowsKept
    <3> QED
      BY <1>10, <3>3, <3>4 DEF GoodEditors
  <2>3. Good(q, n)'
    BY <1>4, <1>8, <2>2 DEF Good
  <2> QED
    BY <1>10, <2>1, <2>3 DEF After
<1>15. serial' = serial
  BY <1>4
<1> QED
  BY <1>3, <1>7, <1>8, <1>9, <1>12, <1>13, <1>14, <1>15, StepKeeps

-----------------------------------------------------------------------------
(* Submissions *)

LEMMA StartGraderKeeps ==
  ASSUME LearnerAssumption, Inv, NEW q \in Requests, StartGrader(q)
  PROVE  Inv'
<1>1. req[q].pc = "grade" /\ req[q].pc \notin Early \cup Ended
  BY DEF StartGrader, Early, Ended
<1>2. PICK o \in ReqStates : o = req[q] /\ Placed(o)
  BY <1>1, WorkOf
<1>3. o.copy \in EnrollmentRows
  BY <1>1, <1>2 DEF Placed, Copied
<1>4. PICK pc \in {"graded", "ungrade"} : Go(q, pc) /\ Graders' \subseteq Graders \cup {q}
  BY DEF StartGrader, Graders
<1>5. /\ pc \in PCs /\ pc \notin Viewing /\ pc # "plant"
      /\ pc \notin Early \cup {"question", "reply", "gone"} \cup Saving \cup Starting
      /\ o.pc \notin Early \cup Ended \cup {"reply"} \cup Saving \cup Starting
  BY <1>1, <1>2 DEF PCs, Copied, Viewing, Early, Ended, Saving, Starting
<1>s. Running' = Running /\ DockerTypes'
  BY DEF StartGrader, Running, DockerTypes, Inv, GInv, StoreTypes
<1>6. Still /\ Grows /\ Running' = Running
  BY <1>s, WorldChanges DEF StartGrader, Inv, GInv, StoreTypes
<1> QED
  BY <1>2, <1>3, <1>4, <1>5, <1>6, GoKeeps

\* The rows stay right when a request is graded or answered: its time is later
\* than all that was submitted.
LEMMA RowsAnew ==
  ASSUME Still, StoreTypes, Rows, NEW o \in ReqStates, NEW n \in ReqStates, GoodRows(o),
         o.pc \notin Saving, n.pc \notin Saving, n.copy = o.copy, n.e = o.e,
         n.left \in {{}, Areas}, clock < n.at
  PROVE  GoodRows(n)'
<1>1. /\ enrollments' = enrollments /\ submissions' = submissions
  BY DEF Still
<1>2. \A e \in Ids : RightRow(e)'
  BY <1>1 DEF GoodRows, RightRow, Right, AllPassed, LatestPassed, Latest, Exists, None
<1>3. n.copy # None => Right(n.e, n.copy)'
  BY <1>1 DEF GoodRows, Right, AllPassed, LatestPassed, Latest
<1>4. ASSUME NEW s \in submissions
      PROVE  s.at <= n.at /\ s.at # n.at
  BY DEF Rows, StoreTypes, SubmissionRows, ReqStates
<1> QED
  BY <1>1, <1>2, <1>3, <1>4 DEF GoodRows, Areas

LEMMA GradeKeeps ==
  ASSUME LearnerAssumption, Inv, NEW q \in Requests, Grade(q)
  PROVE  Inv'
<1>1. req[q].pc = "graded" /\ req[q].pc \notin Early \cup Ended
  BY DEF Grade, Early, Ended
<1>2. PICK o \in ReqStates : o = req[q] /\ Placed(o) /\ Holds(o) /\ Says(q, o)
  BY <1>1, WorkOf
<1>3. /\ o.copy \in EnrollmentRows /\ Lone(q) /\ Exists(o.e)
      /\ (serial => OneExists /\ Good(q, o))
  BY <1>1, <1>2, WorkOf DEF Placed, Copied
<1>4. /\ UNCHANGED <<serial, enrollments, submissions, sessions, messages, crashed>>
      /\ Running' = Running /\ Graders' = Graders /\ files' = files /\ DockerTypes'
  BY DEF Grade, store, world, docker, Running, Graders, DockerTypes, Inv, GInv, StoreTypes
<1>5. /\ DockerTypes' /\ files' \in {"missing", "seed", "work"}
      /\ clock \in Nat
  BY <1>4 DEF Inv, GInv, StoreTypes
<1>6. CASE Go(q, "ungrade") /\ clock' = clock
  <2>1. Still /\ Grows
    BY <1>4, <1>5, <1>6, StillIsPlain, PlainGrows DEF Still, Inv, GInv
  <2>2. /\ "ungrade" \in PCs /\ "ungrade" \notin Viewing
        /\ "ungrade" \notin Early \cup {"question", "reply", "gone"} \cup Saving \cup Starting
        /\ o.pc \notin Early \cup Ended \cup {"reply"} \cup Saving \cup Starting
    BY <1>1, <1>2 DEF PCs, Copied, Viewing, Early, Ended, Saving, Starting
  <2> QED
    BY <1>2, <1>3, <1>4, <1>6, <2>1, <2>2, GoKeeps
<1>7. CASE ~(Go(q, "ungrade") /\ clock' = clock)
  <2>1. PICK passes \in SUBSET Areas :
          /\ clock' = clock + 1
          /\ Do(q, [o EXCEPT !.passes = passes, !.left = Areas,
                             !.at = clock + 1, !.pc = "ungrade"])
    BY <1>2, <1>7 DEF Grade
  <2>2. clock' \in Nat /\ clock < clock' /\ clock <= clock'
    BY <1>5, <2>1
  <2>3. Still
    BY <1>4, <1>5, <2>2 DEF Still
  <2>4. Plain /\ Grows /\ (serial => OneExists')
    BY <1>3, <2>3, StillPlain, StillIsPlain, PlainGrows DEF Inv, GInv
  <2>5. PICK n \in ReqStates :
          /\ n = [o EXCEPT !.passes = passes, !.left = Areas,
                           !.at = clock + 1, !.pc = "ungrade"]
          /\ n.pc = "ungrade" /\ n.e = o.e /\ n.copy = o.copy /\ n.passes = passes
          /\ n.left = Areas /\ n.at = clock' /\ n.failure = o.failure
    <3> DEFINE r == [o EXCEPT !.passes = passes, !.left = Areas,
                              !.at = clock + 1, !.pc = "ungrade"]
    <3>1. clock + 1 \in Nat /\ "ungrade" \in PCs
      BY <1>5 DEF PCs, Copied
    <3>2. r \in ReqStates
      BY <3>1 DEF ReqStates
    <3>3. /\ r.pc = "ungrade" /\ r.e = o.e /\ r.copy = o.copy /\ r.passes = passes
          /\ r.left = Areas /\ r.at = clock' /\ r.failure = o.failure
      BY <2>1 DEF ReqStates
    <3> QED
      BY <3>2, <3>3
  <2>6. req' = [req EXCEPT ![q] = n]
    BY <2>1, <2>5 DEF Do
  <2>7. o.pc \notin Early \cup Ended \cup {"reply"} \cup Saving \cup Starting
        /\ n.pc \notin Early \cup Ended \cup Viewing \cup Saving \cup Starting
    BY <1>1, <1>2, <2>5 DEF Early, Ended, Viewing, Saving, Starting
  <2>8. Placed(n) /\ Says(q, n)
    <3>1. Says(q, n)
      BY <1>2, <2>5, <2>7, SilentStays
    <3> QED
      BY <1>3, <2>5, <2>7, <3>1 DEF Placed, Early
  <2>9. Holds(n)'
    <3>1. Claims(n.e, n.copy)'
      BY <1>2, <2>4, <2>5, ClaimsStay DEF Holds
    <3>2. Exists(n.e)'
      BY <1>3, <1>4, <2>5 DEF Exists, None
    <3>3. n.failure # 0 => FailedAt(n.e, n.failure)'
      BY <1>2, <1>4, <2>5 DEF Holds, FailedAt
    <3>4. n.passes \ n.left = {}
      BY <2>5
    <3>5. n.at \in 1..clock'
      BY <1>5, <2>1, <2>2, <2>5
    <3> QED
      BY <2>5, <3>1, <3>2, <3>3, <3>4, <3>5 DEF Holds
  <2>10. ASSUME serial, ~crashed
         PROVE  GoodEditors(n)' /\ GoodRows(n)'
    <3>1. GoodEditors(o) /\ GoodRows(o)
      BY <1>3, <2>10 DEF Good
    <3>2. Remembered'
      BY <1>4, <2>3, <2>7, <3>1, StillRemembered DEF GoodEditors
    <3>3. clock < n.at
      BY <2>2, <2>5
    <3>4. GoodRows(n)'
      BY <2>3, <2>5, <2>7, <3>1, <3>3, RowsAnew DEF Inv, GInv
    <3> QED
      BY <2>7, <3>2, <3>4 DEF GoodEditors
  <2>11. n.pc \notin {"idle", "create", "plant", "question", "reply"}
    BY <2>5
  <2> QED
    BY <1>3, <1>4, <2>4, <2>5, <2>6, <2>8, <2>9, <2>10, <2>11, WorkKeeps
<1> QED
  BY <1>6, <1>7

LEMMA StopGraderKeeps ==
  ASSUME LearnerAssumption, Inv, NEW q \in Requests, StopGrader(q)
  PROVE  Inv'
<1>1. req[q].pc = "ungrade" /\ req[q].pc \notin Early \cup Ended
  BY DEF StopGrader, Early, Ended
<1>2. PICK o \in ReqStates : o = req[q] /\ Placed(o) /\ Holds(o) /\ Says(q, o)
  BY <1>1, WorkOf
<1>3. /\ o.copy \in EnrollmentRows /\ Lone(q) /\ Exists(o.e)
      /\ (serial => OneExists /\ Good(q, o))
  BY <1>1, <1>2, WorkOf DEF Placed, Copied
<1>4. Running' \subseteq Running /\ Graders' \subseteq Graders \ {q} /\ files' = files
      /\ DockerTypes'
  BY DEF StopGrader, Running, Graders, DockerTypes, Inv, GInv, StoreTypes
<1>5. Still /\ Grows
  BY <1>4, WorldChanges DEF StopGrader, Inv, GInv, StoreTypes
<1>6. /\ {"failed", "record"} \subseteq PCs
      /\ "failed" \notin Early \cup {"question", "reply", "gone"} \cup Saving \cup Starting
      /\ "failed" \notin Viewing \cup Copied
      /\ "record" \notin Early \cup Viewing \cup Ended \cup {"question", "reply"} \cup Starting
      /\ "record" \in Saving
      /\ o.pc \notin Early \cup Ended \cup {"reply"} \cup Saving \cup Starting
  BY <1>1, <1>2 DEF PCs, Copied, Viewing, Early, Ended, Saving, Starting
<1>7. CASE Go(q, "failed")
  <2>1. q \notin Graders' /\ Graders' \subseteq Graders \cup {q}
    BY <1>4
  <2> QED
    BY <1>2, <1>4, <1>5, <1>6, <1>7, <2>1, GoKeeps
<1>8. CASE o.left # {} /\ Go(q, "record")
  <2>1. Go(q, "record")
    BY <1>8
  <2>2. PICK n \in ReqStates :
          /\ n = Went(q, o, "record") /\ n.pc = "record" /\ n.e = o.e /\ n.copy = o.copy
          /\ n.passes = o.passes /\ n.left = o.left /\ n.at = o.at
    BY <1>6, WentState
  <2>3. req' = [req EXCEPT ![q] = n]
    BY <1>2, <2>1, <2>2, GoIs
  <2>4. Placed(n) /\ Holds(n) /\ Says(q, n)
    BY <1>2, <1>3, <1>6, <1>8, <2>2, WentPlaced, WentHolds, SilentStays
  <2>5. Holds(n)'
    BY <1>5, <2>4, HoldsStays
  <2>6. Plain /\ (serial => OneExists')
    BY <1>3, <1>5, StillPlain, StillIsPlain
  <2>7. ASSUME serial, ~crashed
        PROVE  GoodEditors(n)' /\ GoodRows(n)'
    <3>1. GoodEditors(o) /\ GoodRows(o)
      BY <1>3, <2>7 DEF Good
    <3>2. Remembered'
      BY <1>4, <1>5, <1>6, <3>1, StillRemembered DEF GoodEditors
    <3>3. enrollments' = enrollments /\ submissions' = submissions
      BY <1>5 DEF Still
    <3>4. \A e \in Ids : RightRow(e)'
      BY <1>6, <3>1, <3>3
        DEF GoodRows, RightRow, Right, AllPassed, LatestPassed, Latest, Exists, None
    <3>5. n.left = Areas
      BY <1>6, <1>8, <2>2, <3>1 DEF GoodRows
    <3>6. \A s \in submissions :
            s.at <= n.at /\ (s.at = n.at => s.e = n.e /\ s.d \notin n.left)
      BY <1>8, <2>2, <3>1 DEF GoodRows
    <3>7. GoodRows(n)'
      BY <1>6, <2>2, <3>3, <3>4, <3>5, <3>6 DEF GoodRows, Areas
    <3> QED
      BY <1>6, <2>2, <3>2, <3>7 DEF GoodEditors
  <2>8. n.pc \notin {"idle", "create", "plant", "question", "reply"} /\ q \notin Graders'
        /\ Graders' \subseteq Graders \cup {q}
    BY <1>4, <2>2
  <2> QED
    BY <1>3, <2>2, <2>3, <2>4, <2>5, <2>6, <2>7, <2>8, WorkKeeps
<1> QED
  BY <1>2, <1>7, <1>8 DEF StopGrader

\* The submission s of a deliverable is saved, among the others.
LEMMA SubmissionSaved ==
  ASSUME LearnerAssumption, Inv, NEW s \in SubmissionRows, s.at \in 1..clock, Exists(s.e),
         submissions' = submissions \cup {s},
         UNCHANGED <<serial, enrollments, sessions, messages, world, clock, crashed>>
  PROVE  /\ Grows /\ StoreTypes' /\ Rows' /\ Tops' /\ Transcript'
         /\ \A e \in Ids, d \in Areas :
              e # s.e \/ d # s.d => Latest(e, d)' = Latest(e, d)
<1>1. /\ UNCHANGED <<serial, enrollments, sessions, messages, clock, crashed>>
      /\ Running' = Running /\ Graders' = Graders /\ files' = files /\ clock \in Nat
      /\ DockerTypes'
  BY DEF world, docker, Running, Graders, DockerTypes, Inv, GInv, StoreTypes
<1>2. Grows
  BY <1>1 DEF Grows, Exists, None
<1>3. StoreTypes'
  BY <1>1 DEF Inv, GInv, StoreTypes
<1>4. Rows'
  <2>1. ASSUME NEW e \in Ids
        PROVE  Claims(e, enrollments[e])'
    BY <1>1, <1>2, ClaimsStay DEF Inv, GInv, Rows
  <2>2. ASSUME NEW t \in submissions'
        PROVE  t.at \in 1..clock /\ Exists(t.e)
    BY <2>2 DEF Inv, GInv, Rows
  <2>3. \A e : Exists(e)' <=> Exists(e)
    BY <1>1 DEF Exists, None
  <2>4. \A t \in Requests : sessions[t] # None =>
          Exists(sessions[t].e) /\ sessions[t].at <= clock
    BY DEF Inv, GInv, Rows
  <2>5. ~crashed => \A t, u \in Requests :
          sessions[t] # None /\ sessions[u] # None /\ sessions[t].at = sessions[u].at => t = u
    BY DEF Inv, GInv, Rows
  <2>6. \A t \in Requests : Exists(sessions[t].e)' <=> Exists(sessions[t].e)
    BY <1>1 DEF Exists, None
  <2>7. (\A t \in submissions : t.at \in 1..clock /\ Exists(t.e))'
    BY <1>1, <2>2, <2>3 DEF Exists, None
  <2> QED
    BY <1>1, <2>1, <2>4, <2>5, <2>6, <2>7 DEF Rows, None
<1>5. ASSUME NEW e \in Ids, NEW d \in Areas, e # s.e \/ d # s.d
      PROVE  Latest(e, d)' = Latest(e, d)
  BY <1>5 DEF Latest
<1>6. Tops'
  <2>1. ASSUME NEW e \in Ids, NEW d \in Areas, NEW t \in submissions', t.e = e, t.d = d
        PROVE  Latest(e, d)' # {}
    <3>1. CASE e # s.e \/ d # s.d
      <4>1. t \in submissions
        BY <2>1, <3>1
      <4> QED
        BY <1>5, <2>1, <3>1, <4>1 DEF Inv, GInv, Tops
    <3>2. CASE e = s.e /\ d = s.d /\ Latest(e, d) = {}
      <4>1. \A u \in submissions : ~(u.e = e /\ u.d = d)
        BY <3>2 DEF Inv, GInv, Tops
      <4>2. s.at <= s.at
        BY DEF SubmissionRows
      <4>3. s \in Latest(e, d)'
        BY <3>2, <4>1, <4>2 DEF Latest
      <4> QED
        BY <4>3
    <3>3. CASE e = s.e /\ d = s.d /\ Latest(e, d) # {}
      <4>1. PICK u \in submissions :
              u.e = e /\ u.d = d /\ \A v \in submissions : v.e = e /\ v.d = d => v.at <= u.at
        BY <3>3, LatestIs
      <4>2. u.at \in Nat /\ s.at \in Nat /\ \A v \in submissions : v.at \in Nat
        BY DEF Inv, GInv, StoreTypes, SubmissionRows
      <4>3. CASE s.at <= u.at
        <5>1. \A v \in submissions' : v.e = e /\ v.d = d => v.at <= u.at
          BY <4>1, <4>3
        <5>2. u \in Latest(e, d)'
          BY <4>1, <5>1 DEF Latest
        <5> QED
          BY <5>2
      <4>4. CASE u.at <= s.at
        <5>1. \A v \in submissions' : v.e = e /\ v.d = d => v.at <= s.at
          BY <4>1, <4>2, <4>4
        <5>2. s \in Latest(e, d)'
          BY <3>3, <5>1 DEF Latest
        <5> QED
          BY <5>2
      <4> QED
        BY <4>2, <4>3, <4>4
    <3> QED
      BY <3>1, <3>2, <3>3
  <2> QED
    BY <2>1 DEF Tops
<1>7. Transcript'
  <2>1. \A m \in messages : m.failure # 0 => FailedAt(m.e, m.failure)'
    BY DEF Inv, GInv, Transcript, FailedAt
  <2>2. /\ \A m \in messages : m.at <= clock + 1
        /\ \A m \in messages : m.role = "tutor" =>
             \E n \in messages : n.role = "user" /\ n.q = m.q /\ n.e = m.e /\ n.at < m.at
    BY DEF Inv, GInv, Transcript
  <2> QED
    BY <1>1, <2>1, <2>2 DEF Transcript
<1> QED
  BY <1>2, <1>3, <1>4, <1>5, <1>6, <1>7

\* The rows of a submission of which one more deliverable d is saved.
LEMMA RowsSaved ==
  ASSUME Inv, NEW o \in ReqStates, NEW n \in ReqStates, GoodRows(o),
         o.pc \in Saving, n.pc \in Saving, n.e = o.e, n.at = o.at, n.passes = o.passes,
         NEW d \in o.left, n.left = o.left \ {d}, NEW s \in SubmissionRows,
         s.e = o.e, s.d = d, s.at = o.at, s.passed <=> d \in o.passes,
         submissions' = submissions \cup {s}, enrollments' = enrollments,
         \A e \in Ids, f \in Areas : e # s.e \/ f # s.d => Latest(e, f)' = Latest(e, f)
  PROVE  GoodRows(n)'
<1>1. o.left \subseteq Areas /\ d \in Areas /\ o.e \in Ids
  BY DEF ReqStates
<1>2. \A t \in submissions : t.at <= o.at /\ (t.at = o.at => t.e = o.e /\ t.d \notin o.left)
  BY DEF GoodRows
<1>3. ASSUME NEW e \in Ids, e # o.e
      PROVE  RightRow(e)'
  <2>1. RightRow(e)
    BY <1>3 DEF GoodRows
  <2>2. AllPassed(e)' <=> AllPassed(e)
    BY <1>3 DEF AllPassed, LatestPassed, Areas
  <2> QED
    BY <2>1, <2>2 DEF RightRow, Right, Exists, None
<1>4. \A t \in submissions' : t.at <= o.at /\ (t.at = o.at => t.e = o.e /\ t.d \notin n.left)
  BY <1>2 DEF SubmissionRows
<1>5. LatestPassed(o.e, d)' <=> d \in o.passes
  <2>1. s \in Latest(o.e, d)'
    BY <1>4 DEF Latest
  <2>2. ASSUME NEW t \in Latest(o.e, d)'
        PROVE  t = s
    <3>1. t \in submissions' /\ t.d = d /\ s.at <= t.at /\ t.at <= s.at
      BY <1>4, <2>1, <2>2 DEF Latest
    <3>2. t.at \in Nat /\ s.at \in Nat
      BY <3>1 DEF Inv, GInv, StoreTypes, SubmissionRows
    <3>3. t.at = o.at
      BY <3>1, <3>2
    <3> QED
      BY <1>2, <3>1, <3>3
  <2> QED
    BY <2>1, <2>2 DEF LatestPassed
<1>6. ASSUME NEW f \in Areas \ n.left
      PROVE  LatestPassed(o.e, f)' <=> f \in o.passes
  <2>1. CASE f = d
    BY <1>5, <2>1
  <2>2. CASE f # d
    <3>1. LatestPassed(o.e, f) <=> f \in o.passes
      BY <2>2 DEF GoodRows
    <3>2. Latest(o.e, f)' = Latest(o.e, f)
      BY <1>1, <2>2
    <3> QED
      BY <3>1, <3>2 DEF LatestPassed
  <2> QED
    BY <2>1, <2>2
<1> QED
  BY <1>3, <1>4, <1>6 DEF GoodRows, Areas

LEMMA RecordKeeps ==
  ASSUME LearnerAssumption, Inv, NEW q \in Requests, Record(q)
  PROVE  Inv'
<1>1. req[q].pc = "record" /\ req[q].pc \notin Early \cup Ended
  BY DEF Record, Early, Ended
<1>2. PICK o \in ReqStates : o = req[q] /\ Placed(o) /\ Holds(o) /\ Says(q, o)
  BY <1>1, WorkOf
<1>3. /\ o.copy \in EnrollmentRows /\ Lone(q) /\ Exists(o.e) /\ o.e \in Ids
      /\ (serial => OneExists /\ Turns /\ Good(q, o)) /\ o.at \in Nat /\ o.left \subseteq Areas
  BY <1>1, <1>2, WorkOf DEF Placed, Copied, ReqStates
<1>4. PICK d \in o.left :
        /\ submissions' = submissions \cup
             {[e |-> o.e, d |-> d, at |-> o.at, passed |-> d \in o.passes]}
        /\ Do(q, [o EXCEPT !.left = o.left \ {d},
                           !.pc = IF o.left = {d} THEN "progress" ELSE "record"])
  BY <1>2 DEF Record
<1>5. UNCHANGED <<serial, enrollments, sessions, messages, world, clock, crashed>>
  BY DEF Record
<1>6. PICK s \in SubmissionRows :
        /\ s = [e |-> o.e, d |-> d, at |-> o.at, passed |-> d \in o.passes]
        /\ s.e = o.e /\ s.d = d /\ s.at = o.at /\ (s.passed <=> d \in o.passes)
  <2> DEFINE r == [e |-> o.e, d |-> d, at |-> o.at, passed |-> d \in o.passes]
  <2>1. d \in Areas /\ (d \in o.passes) \in BOOLEAN
    BY <1>3
  <2>2. r \in SubmissionRows
    BY <1>3, <2>1 DEF SubmissionRows
  <2>3. r.e = o.e /\ r.d = d /\ r.at = o.at /\ (r.passed <=> d \in o.passes)
    OBVIOUS
  <2> QED
    BY <2>2, <2>3
<1>7. s.at \in 1..clock
  BY <1>2, <1>6 DEF Holds
<1>8. submissions' = submissions \cup {s}
  BY <1>4, <1>6
<1>9. /\ Grows /\ StoreTypes' /\ Rows' /\ Tops' /\ Transcript'
      /\ \A e \in Ids, f \in Areas : e # s.e \/ f # s.d => Latest(e, f)' = Latest(e, f)
  BY <1>3, <1>5, <1>6, <1>7, <1>8, SubmissionSaved
<1>10. PICK n \in ReqStates :
         /\ req' = [req EXCEPT ![q] = n]
         /\ n.pc = IF o.left = {d} THEN "progress" ELSE "record"
         /\ n.e = o.e /\ n.copy = o.copy /\ n.passes = o.passes /\ n.left = o.left \ {d}
         /\ n.at = o.at /\ n.failure = o.failure
  <2> DEFINE pc == IF o.left = {d} THEN "progress" ELSE "record"
             r == [o EXCEPT !.left = o.left \ {d}, !.pc = pc]
  <2>1. pc \in PCs
    BY DEF PCs, Copied
  <2>2. req' = [req EXCEPT ![q] = r]
    BY <1>4 DEF Do
  <2> HIDE DEF pc
  <2>3. r \in ReqStates
    BY <2>1 DEF ReqStates
  <2>4. /\ r.pc = pc /\ r.e = o.e /\ r.copy = o.copy /\ r.passes = o.passes
        /\ r.left = o.left \ {d} /\ r.at = o.at /\ r.failure = o.failure
    BY DEF ReqStates
  <2> QED
    BY <2>2, <2>3, <2>4 DEF pc
<1>11. /\ n.pc \in {"record", "progress"} /\ n.pc \in Saving /\ o.pc \in Saving
       /\ n.pc \notin Early \cup Ended \cup Viewing \cup Starting
       /\ o.pc \notin Early \cup Ended \cup Viewing \cup Starting \cup {"reply"}
  BY <1>1, <1>2, <1>10 DEF Early, Ended, Viewing, Starting, Saving
<1>12. Placed(n)
  BY <1>3, <1>10, <1>11 DEF Placed, Early
<1>13. Says(q, n)
  BY <1>2, <1>11, SilentStays
<1>14. Holds(n)'
  <2>1. Exists(n.e)' /\ Claims(n.e, n.copy)'
    BY <1>2, <1>3, <1>9, <1>10, ClaimsStay DEF Grows, Holds
  <2>2. ASSUME NEW f \in n.passes \ n.left
        PROVE  Earned(n.e, f)'
    <3>1. CASE f = d
      BY <1>6, <1>8, <1>10, <2>2, <3>1 DEF Earned
    <3>2. CASE f # d
      <4>1. Earned(o.e, f)
        BY <1>2, <1>10, <2>2, <3>2 DEF Holds
      <4> QED
        BY <1>8, <1>10, <4>1 DEF Earned
    <3> QED
      BY <3>1, <3>2
  <2>3. n.left # {} => n.at \in 1..clock'
    BY <1>5, <1>6, <1>7, <1>10
  <2>4. n.failure # 0 => FailedAt(n.e, n.failure)'
    BY <1>2, <1>8, <1>10 DEF Holds, FailedAt
  <2> QED
    BY <1>11, <2>1, <2>2, <2>3, <2>4 DEF Holds
<1>15. Spoken'
  BY <1>5, <1>10, <1>13, SpokenStep DEF Inv, GInv
<1>16. Watched'
  <2>1. ~crashed => q \notin Graders
    BY <1>1, NoService
  <2>2. crashed' = crashed /\ Graders' = Graders
    BY <1>5 DEF world, docker, Running, Graders, DockerTypes
  <2> QED
    BY <1>10, <2>1, <2>2, WatchedStep DEF Inv, GInv
<1>17. ASSUME serial
       PROVE  OneExists' /\ Turns' /\ After(q, n)'
  <2>1. OneExists' /\ Turns'
    BY <1>3, <1>5, <1>17 DEF OneExists, Exists, None, Turns
  <2>2. ASSUME ~crashed
        PROVE  GoodEditors(n)' /\ GoodRows(n)'
    <3>1. GoodEditors(o) /\ GoodRows(o)
      BY <1>3, <1>17, <2>2 DEF Good
    <3>2. Remembered'
      BY <1>5, <1>11, <3>1, EditorsKept DEF GoodEditors, world, docker, Running, Graders, DockerTypes
    <3>3. GoodRows(n)'
      BY <1>5, <1>6, <1>8, <1>9, <1>10, <1>11, <3>1, RowsSaved
    <3> QED
      BY <1>11, <3>2, <3>3 DEF GoodEditors
  <2>3. Good(q, n)'
    BY <1>5, <1>11, <2>2 DEF Good
  <2>4. n.pc \notin Ended \cup {"idle"}
    BY <1>11
  <2> QED
    BY <2>1, <2>3, <2>4 DEF After
<1>18. serial' = serial
  BY <1>5
<1> QED
  BY <1>3, <1>9, <1>10, <1>12, <1>14, <1>15, <1>16, <1>17, <1>18, StepKeeps

-----------------------------------------------------------------------------
(* The tutor *)

LEMMA AskKeeps ==
  ASSUME LearnerAssumption, Inv, NEW q \in Requests, Ask(q)
  PROVE  Inv'
<1>1. req[q].pc = "ask" /\ req[q].pc \notin Early \cup Ended
  BY DEF Ask, Early, Ended
<1>2. PICK o \in ReqStates : o = req[q] /\ Placed(o) /\ Holds(o) /\ Says(q, o)
  BY <1>1, WorkOf
<1>3. Still /\ Grows /\ Running' = Running /\ Graders' = Graders
  BY StoreStays DEF Ask
<1>4. PICK failure \in LatestFailure(o.e) :
        Do(q, [o EXCEPT !.failure = failure, !.pc = "call"])
  BY <1>2 DEF Ask
<1>5. failure \in Nat /\ (failure # 0 => FailedAt(o.e, failure))
  BY <1>4 DEF LatestFailure, FailedAt, Inv, GInv, StoreTypes, SubmissionRows
<1>6. PICK n \in ReqStates :
        /\ n = [o EXCEPT !.failure = failure, !.pc = "call"]
        /\ n.pc = "call" /\ n.e = o.e /\ n.copy = o.copy /\ n.passes = o.passes
        /\ n.left = o.left /\ n.at = o.at /\ n.failure = failure
  <2> DEFINE r == [o EXCEPT !.failure = failure, !.pc = "call"]
  <2>1. r \in ReqStates
    BY <1>5 DEF ReqStates, PCs, Chatting
  <2>2. /\ r.pc = "call" /\ r.e = o.e /\ r.copy = o.copy /\ r.passes = o.passes
        /\ r.left = o.left /\ r.at = o.at /\ r.failure = failure
    BY DEF ReqStates
  <2> QED
    BY <2>1, <2>2
<1>7. req' = [req EXCEPT ![q] = n]
  BY <1>4, <1>6 DEF Do
<1>8. Placed(n) /\ Says(q, n)
  BY <1>1, <1>2, <1>6, SilentStays DEF Placed, Early, Viewing, Copied, Ended
<1>9. Holds(n)
  BY <1>1, <1>2, <1>5, <1>6 DEF Holds
<1>10. Holds(n)'
  BY <1>3, <1>9, HoldsStays
<1>11. ~crashed => q \notin Graders
  BY <1>1, NoService
<1>12. /\ o.pc \notin Ended \cup {"idle"} \cup Saving \cup Starting
       /\ n.pc \notin {"idle", "create", "question", "reply"} \cup Saving \cup Starting
       /\ n.pc # "plant"
  BY <1>1, <1>2, <1>6 DEF Ended, Saving, Starting
<1> QED
  BY <1>2, <1>3, <1>6, <1>7, <1>8, <1>10, <1>11, <1>12, CarryKeeps

LEMMA AnsweredKeeps ==
  ASSUME LearnerAssumption, Inv, NEW q \in Requests, Answered(q)
  PROVE  Inv'
<1>1. req[q].pc = "call" /\ req[q].pc \notin Early \cup Ended
  BY DEF Answered, Early, Ended
<1>2. PICK o \in ReqStates : o = req[q] /\ Placed(o) /\ Holds(o) /\ Says(q, o)
  BY <1>1, WorkOf
<1>3. Lone(q) /\ Exists(o.e) /\ (serial => OneExists /\ Good(q, o))
  BY <1>1, <1>2, WorkOf
<1>4. /\ UNCHANGED <<serial, enrollments, submissions, sessions, messages, crashed>>
      /\ Running' = Running /\ Graders' = Graders /\ files' = files /\ DockerTypes'
  BY DEF Answered, store, world, docker, Running, Graders, DockerTypes, Inv, GInv, StoreTypes
<1>5. /\ DockerTypes' /\ files' \in {"missing", "seed", "work"}
      /\ clock \in Nat
  BY <1>4 DEF Inv, GInv, StoreTypes
<1>s. ~crashed => q \notin Graders
  BY <1>1, NoService
<1>6. CASE Go(q, "failed") /\ clock' = clock
  <2>1. Still /\ Grows
    BY <1>4, <1>5, <1>6, StillIsPlain, PlainGrows DEF Still, Inv, GInv
  <2>2. /\ "failed" \in PCs /\ "failed" \notin Viewing \cup Copied
        /\ "failed" \notin Early \cup {"question", "reply", "gone"} \cup Saving \cup Starting
        /\ o.pc \notin Early \cup Ended \cup {"reply"} \cup Saving \cup Starting
    BY <1>1, <1>2 DEF PCs, Copied, Viewing, Early, Ended, Saving, Starting
  <2> QED
    BY <1>2, <1>4, <1>6, <1>s, <2>1, <2>2, GoKeeps
<1>7. CASE ~(Go(q, "failed") /\ clock' = clock)
  <2>1. clock' = clock + 2 /\ Do(q, [o EXCEPT !.at = clock + 2, !.pc = "question"])
    BY <1>2, <1>7 DEF Answered
  <2>2. clock' \in Nat /\ clock + 1 < clock' /\ clock < clock' /\ clock <= clock'
    BY <1>5, <2>1
  <2>3. Still
    BY <1>4, <1>5, <2>2 DEF Still
  <2>4. Plain /\ Grows /\ (serial => OneExists')
    BY <1>3, <2>3, StillPlain, StillIsPlain, PlainGrows DEF Inv, GInv
  <2>5. PICK n \in ReqStates :
          /\ n = [o EXCEPT !.at = clock + 2, !.pc = "question"]
          /\ n.pc = "question" /\ n.e = o.e /\ n.copy = o.copy /\ n.passes = o.passes
          /\ n.left = o.left /\ n.at = clock' /\ n.failure = o.failure
    <3> DEFINE r == [o EXCEPT !.at = clock + 2, !.pc = "question"]
    <3>1. clock + 2 \in Nat /\ "question" \in PCs
      BY <1>5 DEF PCs, Chatting
    <3>2. r \in ReqStates
      BY <3>1 DEF ReqStates
    <3>3. /\ r.pc = "question" /\ r.e = o.e /\ r.copy = o.copy /\ r.passes = o.passes
          /\ r.left = o.left /\ r.at = clock' /\ r.failure = o.failure
      BY <2>1 DEF ReqStates
    <3> QED
      BY <3>2, <3>3
  <2>6. req' = [req EXCEPT ![q] = n]
    BY <2>1, <2>5 DEF Do
  <2>7. /\ o.pc \notin Early \cup Ended \cup {"reply"} \cup Saving \cup Starting
        /\ n.pc \notin Early \cup Ended \cup Viewing \cup Copied \cup Saving \cup Starting
        /\ n.pc \notin {"reply", "record", "progress"}
    BY <1>1, <1>2, <2>5 DEF Early, Ended, Viewing, Copied, Saving, Starting
  <2>8. Placed(n) /\ Says(q, n)
    <3>1. Says(q, n)
      BY <1>2, <2>7, SilentStays
    <3> QED
      BY <2>5, <2>7, <3>1 DEF Placed, Early
  <2>9. Holds(n)'
    <3>1. Claims(n.e, n.copy)'
      BY <1>2, <2>4, <2>5, ClaimsStay DEF Holds
    <3>2. Exists(n.e)'
      BY <1>3, <1>4, <2>5 DEF Exists, None
    <3>3. n.failure # 0 => FailedAt(n.e, n.failure)'
      BY <1>2, <1>4, <2>5 DEF Holds, FailedAt
    <3>4. \A d \in n.passes \ n.left : Earned(n.e, d)'
      BY <1>2, <1>4, <2>5 DEF Holds, Earned
    <3>5. n.at \in 1..clock' /\ n.at <= clock'
      BY <1>5, <2>1, <2>2, <2>5
    <3> QED
      BY <3>1, <3>2, <3>3, <3>4, <3>5 DEF Holds
  <2>10. ASSUME serial, ~crashed
         PROVE  GoodEditors(n)' /\ GoodRows(n)'
    <3>1. GoodEditors(o) /\ GoodRows(o)
      BY <1>3, <2>10 DEF Good
    <3>2. Remembered'
      BY <1>4, <2>3, <2>7, <3>1, StillRemembered DEF GoodEditors
    <3>3. clock < n.at /\ n.left \in {{}, Areas}
      BY <2>2, <2>5, <2>7, <3>1 DEF GoodRows
    <3>4. GoodRows(n)'
      BY <2>3, <2>5, <2>7, <3>1, <3>3, RowsAnew DEF Inv, GInv
    <3> QED
      BY <2>7, <3>2, <3>4 DEF GoodEditors
  <2>11. \A m \in messages : m.at < n.at
    <3>1. ASSUME NEW m \in messages
          PROVE  m.at \in Nat /\ m.at <= clock + 1
      BY DEF Inv, GInv, Transcript, StoreTypes, MessageRows
    <3> QED
      BY <1>5, <2>2, <2>5, <3>1
  <2>12. n.pc \notin {"idle", "create", "plant"}
    BY <2>5
  <2> QED
    BY <1>3, <1>4, <1>s, <2>4, <2>5, <2>6, <2>8, <2>9, <2>10, <2>11, <2>12, WorkKeeps
<1> QED
  BY <1>6, <1>7

\* A turn goes on when all of the others are over: they are not mixed.
LEMMA TurnsStay ==
  ASSUME Turns, StoreTypes, NEW x \in MessageRows, messages' = messages \cup {x}, NEW at \in Nat,
         \A m \in messages : m.q # x.q => m.at < at,
         \A m \in messages : m.q = x.q => at <= m.at,
         at <= x.at
  PROVE  Turns'
<1> SUFFICES ASSUME NEW m \in messages', NEW n \in messages', m.q # n.q, m.at <= n.at,
                    NEW o \in messages', o.q = m.q
             PROVE  o.at < n.at
  BY DEF Turns
<1>1. \A y \in messages' : y.at \in Nat
  BY DEF StoreTypes, MessageRows
<1>2. CASE m.q = x.q
  <2>1. at <= m.at /\ n.at < at
    BY <1>2
  <2> QED
    BY <1>1, <2>1
<1>3. CASE n.q = x.q
  <2>1. at <= n.at /\ o.at < at
    BY <1>3
  <2> QED
    BY <1>1, <2>1
<1>4. CASE m.q # x.q /\ n.q # x.q
  BY <1>4 DEF Turns
<1> QED
  BY <1>2, <1>3, <1>4

\* The request q keeps a message, and goes on in state n.
LEMMA SayKeeps ==
  ASSUME LearnerAssumption, Inv, NEW q \in Requests, NEW o \in ReqStates, o = req[q],
         o.pc \in {"question", "reply"},
         NEW x \in MessageRows, x.q = q, x.e = o.e, x.failure = o.failure,
         IF o.pc = "question" THEN x.role = "user" /\ x.at = o.at
                              ELSE x.role = "tutor" /\ x.at = o.at + 1,
         messages' = messages \cup {x},
         UNCHANGED <<serial, enrollments, submissions, sessions, world, clock, crashed>>,
         NEW pc \in {"reply", "done"}, pc = "reply" => o.pc = "question", Go(q, pc)
  PROVE  Inv'
<1>1. /\ Placed(o) /\ Holds(o) /\ Says(q, o) /\ Lone(q) /\ Exists(o.e) /\ o.e \in Ids
      /\ (serial => OneExists /\ Turns /\ Good(q, o)) /\ o.at \in Nat
  BY WorkOf DEF Early, Ended, ReqStates
<1>2. /\ UNCHANGED <<serial, enrollments, submissions, sessions, crashed>>
      /\ Running' = Running /\ Graders' = Graders /\ files' = files /\ clock' = clock
      /\ clock \in Nat /\ DockerTypes'
  BY DEF world, docker, Running, Graders, DockerTypes, Inv, GInv, StoreTypes
<1>3. Grows
  BY <1>2 DEF Grows, Exists, None
<1>4. StoreTypes'
  BY <1>2 DEF Inv, GInv, StoreTypes
<1>5. Rows' /\ Tops'
  BY <1>2 DEF Inv, GInv, Rows, Tops, Latest, Claims, Earned, Exists, None
<1>6. PICK n \in ReqStates :
        /\ n = Went(q, o, pc) /\ n.pc = pc /\ n.copy \in {o.copy, None}
        /\ n.copy # None => n.e = o.e
        /\ n.left # {} => n.left = o.left /\ n.at = o.at /\ n.e = o.e
        /\ n.failure # 0 => n.failure = o.failure /\ n.e = o.e
        /\ n.passes = {} \/ (n.passes = o.passes /\ n.left = o.left /\ n.e = o.e)
        /\ pc = "reply" => n.e = o.e /\ n.at = o.at
  <2>1. pc \in PCs
    BY DEF PCs, Ended, Chatting
  <2>2. CASE pc = "done"
    BY <2>1, <2>2, WentState
  <2>3. CASE pc = "reply"
    BY <2>1, <2>3, WentState
  <2> QED
    BY <2>2, <2>3
<1>7. req' = [req EXCEPT ![q] = n]
  BY <1>6, GoIs
<1>8. /\ n.pc \notin Early \cup Viewing \cup Copied \cup Saving \cup Starting
      /\ o.pc \notin Early \cup Viewing \cup Copied \cup Saving \cup Starting \cup Ended
      /\ n.pc \notin {"idle", "create", "plant", "question", "record", "progress"}
  BY <1>6 DEF Early, Viewing, Copied, Saving, Starting, Ended
<1>9. Placed(n)
  BY <1>8 DEF Placed, Early, Viewing
<1>10. Holds(n)
  <2>1. Claims(n.e, n.copy)
    BY <1>1, <1>6, NoneIsNoRow DEF Holds, Claims
  <2>2. n.pc \notin Early \cup Ended => Exists(n.e)
    BY <1>1, <1>6 DEF Ended
  <2>3. \A d \in n.passes \ n.left : Earned(n.e, d)
    BY <1>1, <1>6 DEF Holds
  <2>4. n.left # {} => n.at \in 1..clock
    BY <1>1, <1>6 DEF Holds
  <2>5. n.failure # 0 => FailedAt(n.e, n.failure)
    BY <1>1, <1>6 DEF Holds
  <2>6. n.pc \in {"question", "reply"} => n.at <= clock
    BY <1>1, <1>6 DEF Holds
  <2> QED
    BY <2>1, <2>2, <2>3, <2>4, <2>5, <2>6 DEF Holds
<1>11. Holds(n)'
  BY <1>3, <1>10, HoldsStays
<1>12. \A m \in messages : m.q = q => o.pc = "reply" /\ m.at = o.at
  BY <1>1 DEF Says, Ended
<1>13. Transcript'
  <2>1. o.at <= clock /\ x.at <= clock + 1 /\ x.at \in Nat
    <3>1. o.at <= clock /\ x.at \in {o.at, o.at + 1}
      BY <1>1 DEF Holds
    <3> QED
      BY <1>1, <1>2, <3>1
  <2>2. \A m \in messages' : m.at <= clock' + 1
    BY <1>2, <2>1 DEF Inv, GInv, Transcript
  <2>3. o.pc = "reply" =>
          \E m \in messages : m.role = "user" /\ m.q = x.q /\ m.e = x.e /\ m.at < x.at
    BY <1>1 DEF Says
  <2>4. ASSUME NEW m \in messages', m.role = "tutor"
        PROVE  \E y \in messages' : y.role = "user" /\ y.q = m.q /\ y.e = m.e /\ y.at < m.at
    <3>1. CASE m = x
      BY <2>3, <2>4, <3>1
    <3>2. CASE m \in messages
      BY <2>4, <3>2 DEF Inv, GInv, Transcript
    <3> QED
      BY <3>1, <3>2
  <2>5. ASSUME NEW m \in messages', m.failure # 0
        PROVE  FailedAt(m.e, m.failure)'
    <3>1. CASE m = x
      BY <1>1, <1>2, <2>5, <3>1 DEF Holds, FailedAt
    <3>2. CASE m \in messages
      BY <1>2, <2>5, <3>2 DEF Inv, GInv, Transcript, FailedAt
    <3> QED
      BY <3>1, <3>2
  <2> QED
    BY <2>2, <2>4, <2>5 DEF Transcript
<1>14. Spoken'
  <2>1. ASSUME NEW p \in Requests, p # q
        PROVE  Says(p, req[p])'
    <3>1. req'[p] = req[p] /\ Says(p, req[p])
      BY <1>7, <2>1 DEF Inv, GInv, ReqTypes, Spoken
    <3>2. \A m \in messages' : m.q = p => m \in messages
      BY <2>1
    <3> QED
      BY <3>1, <3>2 DEF Says
  <2>2. req'[q] = n
    BY <1>7 DEF Inv, GInv, ReqTypes
  <2>3. pc = "reply" =>
          /\ \E m \in messages' : m.role = "user" /\ m.q = q /\ m.e = n.e /\ m.at = n.at
          /\ \A m \in messages' : m.q = q => m.at = n.at
    <3>1. pc = "reply" => o.pc = "question" /\ n.e = o.e /\ n.at = o.at
      BY <1>6
    <3> QED
      BY <1>12, <3>1
  <2>4. Says(q, n)'
    BY <1>6, <2>3 DEF Says, Ended
  <2> QED
    BY <2>1, <2>2, <2>4 DEF Spoken
<1>15. Watched'
  <2>1. ~crashed => q \notin Graders
    BY NoService
  <2> QED
    BY <1>2, <1>7, <2>1, WatchedStep DEF Inv, GInv
<1>16. ASSUME serial
       PROVE  OneExists' /\ Turns' /\ After(q, n)'
  <2>1. OneExists'
    BY <1>1, <1>2, <1>16 DEF OneExists, Exists, None
  <2>2. \A m \in messages : m.q # q => m.at < o.at
    BY <1>1, <1>16 DEF Good
  <2>3. Turns'
    <3>1. \A m \in messages : m.q = q => o.at <= m.at
      BY <1>1, <1>12
    <3>2. o.at <= x.at
      BY <1>1
    <3> QED
      BY <1>1, <1>16, <2>2, <3>1, <3>2, TurnsStay DEF Inv, GInv
  <2>4. ASSUME ~crashed
        PROVE  /\ GoodEditors(n)' /\ GoodRows(n)'
               /\ Remembered' /\ \A e \in Ids : RightRow(e)'
    <3>1. GoodEditors(o) /\ GoodRows(o)
      BY <1>1, <1>16, <2>4 DEF Good
    <3>2. Remembered'
      BY <1>2, <1>8, <3>1, EditorsKept DEF GoodEditors
    <3>3. GoodRows(n)'
      BY <1>2, <1>6, <1>8, <3>1, RowsKept
    <3> QED
      BY <1>8, <3>2, <3>3 DEF GoodEditors, GoodRows
  <2>5. CASE pc = "done"
    <3>1. Rest'
      BY <1>2, <2>4 DEF Rest
    <3> QED
      BY <1>6, <2>1, <2>3, <2>5, <3>1 DEF After, Ended
  <2>6. CASE pc = "reply"
    <3>1. \A m \in messages' : m.q # q => m.at < n.at
      BY <1>6, <2>2, <2>6
    <3>2. Good(q, n)'
      BY <1>2, <1>8, <2>4, <3>1 DEF Good
    <3>3. n.pc \notin Ended \cup {"idle"}
      BY <1>6, <2>6 DEF Ended
    <3> QED
      BY <2>1, <2>3, <3>2, <3>3 DEF After
  <2> QED
    BY <2>5, <2>6
<1> QED
  BY <1>1, <1>2, <1>3, <1>4, <1>5, <1>6, <1>7, <1>9, <1>11, <1>13, <1>14, <1>15, <1>16, StepKeeps

LEMMA KeepQuestionKeeps ==
  ASSUME LearnerAssumption, Inv, NEW q \in Requests, KeepQuestion(q)
  PROVE  Inv'
<1>1. req[q].pc = "question" /\ req[q].pc \notin Early \cup Ended
  BY DEF KeepQuestion, Early, Ended
<1>2. PICK o \in ReqStates : o = req[q]
  BY <1>1, WorkOf
<1>3. UNCHANGED <<serial, enrollments, submissions, sessions, world, clock, crashed>>
  BY DEF KeepQuestion
<1>4. CASE messages' = messages \cup {Message(q, "user", o.at)} /\ Go(q, "reply")
  <2>1. PICK x \in MessageRows :
          /\ x = Message(q, "user", o.at)
          /\ x.q = q /\ x.e = o.e /\ x.role = "user" /\ x.at = o.at /\ x.failure = o.failure
    <3> DEFINE r == [q |-> q, e |-> o.e, role |-> "user", at |-> o.at, failure |-> o.failure]
    <3>1. r \in MessageRows
      BY DEF ReqStates, MessageRows
    <3>2. r = Message(q, "user", o.at)
      BY <1>2 DEF Message
    <3>3. r.q = q /\ r.e = o.e /\ r.role = "user" /\ r.at = o.at /\ r.failure = o.failure
      OBVIOUS
    <3> QED
      BY <3>1, <3>2, <3>3
  <2>2. o.pc = "question" /\ o.pc \in {"question", "reply"}
    BY <1>1, <1>2
  <2>3. messages' = messages \cup {x}
    BY <1>4, <2>1
  <2> QED
    BY <1>2, <1>3, <1>4, <2>1, <2>2, <2>3, SayKeeps
<1>5. CASE messages' = messages /\ Go(q, "done")
  <2>1. UNCHANGED <<serial, store, world, clock, crashed>>
    BY <1>3, <1>5 DEF store
  <2>2. Still /\ Grows /\ Running' = Running /\ Graders' = Graders
    BY <2>1, StoreStays
  <2>3. /\ "done" \in PCs /\ "done" \notin Viewing \cup Copied
        /\ "done" \notin Early \cup {"question", "reply", "gone"} \cup Saving \cup Starting
        /\ o.pc \notin Early \cup Ended \cup {"reply"} \cup Saving \cup Starting
    BY <1>1, <1>2 DEF PCs, Copied, Viewing, Early, Ended, Saving, Starting
  <2>4. ~crashed => q \notin Graders
    BY <1>1, NoService
  <2> QED
    BY <1>2, <1>5, <2>2, <2>3, <2>4, GoKeeps
<1> QED
  BY <1>2, <1>4, <1>5 DEF KeepQuestion

LEMMA KeepReplyKeeps ==
  ASSUME LearnerAssumption, Inv, NEW q \in Requests, KeepReply(q)
  PROVE  Inv'
<1>1. req[q].pc = "reply" /\ req[q].pc \notin Early \cup Ended
  BY DEF KeepReply, Early, Ended
<1>2. PICK o \in ReqStates : o = req[q] /\ Placed(o) /\ Holds(o) /\ Says(q, o)
  BY <1>1, WorkOf
<1>3. UNCHANGED <<serial, enrollments, submissions, sessions, world, clock, crashed>>
  BY DEF KeepReply
<1>4. Go(q, "done")
  BY DEF KeepReply
<1>5. CASE messages' = messages \cup {Message(q, "tutor", o.at + 1)}
  <2>1. PICK x \in MessageRows :
          /\ x = Message(q, "tutor", o.at + 1)
          /\ x.q = q /\ x.e = o.e /\ x.role = "tutor" /\ x.at = o.at + 1
          /\ x.failure = o.failure
    <3> DEFINE r == [q |-> q, e |-> o.e, role |-> "tutor", at |-> o.at + 1,
                     failure |-> o.failure]
    <3>1. r \in MessageRows
      BY DEF ReqStates, MessageRows
    <3>2. r = Message(q, "tutor", o.at + 1)
      BY <1>2 DEF Message
    <3>3. /\ r.q = q /\ r.e = o.e /\ r.role = "tutor" /\ r.at = o.at + 1
          /\ r.failure = o.failure
      OBVIOUS
    <3> QED
      BY <3>1, <3>2, <3>3
  <2>2. o.pc # "question" /\ o.pc \in {"question", "reply"}
    BY <1>1, <1>2
  <2>3. messages' = messages \cup {x}
    BY <1>5, <2>1
  <2> QED
    BY <1>2, <1>3, <1>4, <2>1, <2>2, <2>3, SayKeeps
<1>6. CASE messages' = messages
  <2>1. UNCHANGED <<serial, store, world, clock, crashed>>
    BY <1>3, <1>6 DEF store
  <2>2. Still /\ Grows /\ Running' = Running /\ Graders' = Graders
    BY <2>1, StoreStays
  <2>3. /\ "done" \in PCs /\ "done" \in Ended
        /\ "done" \notin Early \cup {"question", "reply"} \cup Saving \cup Starting
        /\ "done" \notin Viewing \cup Copied
        /\ o.pc \notin Early \cup Ended \cup Saving \cup Starting
    BY <1>1, <1>2 DEF PCs, Copied, Viewing, Early, Ended, Saving, Starting
  <2>4. PICK n \in ReqStates :
          n = Went(q, o, "done") /\ n.pc = "done" /\ n.copy = None /\ n.left = {}
    BY <2>3, WentState
  <2>5. req' = [req EXCEPT ![q] = n]
    BY <1>2, <1>4, <2>4, GoIs
  <2>6. Placed(n) /\ Holds(n) /\ Says(q, n)
    <3>1. Placed(n)
      BY <2>3, <2>4, WentPlaced
    <3>2. Holds(n)
      BY <1>2, <2>3, <2>4, WentHolds
    <3>3. Says(q, n)
      BY <2>3, <2>4 DEF Says
    <3> QED
      BY <3>1, <3>2, <3>3
  <2>7. Holds(n)'
    BY <2>2, <2>6, HoldsStays
  <2>8. ~crashed => q \notin Graders
    BY <1>1, NoService
  <2>9. /\ o.pc \notin Ended \cup {"idle"} \cup Saving \cup Starting
        /\ n.pc \notin {"idle", "create", "question", "reply"} \cup Saving \cup Starting
        /\ n.pc # "plant"
    BY <2>3, <2>4 DEF Early
  <2> QED
    BY <1>2, <2>2, <2>4, <2>5, <2>6, <2>7, <2>8, <2>9, CarryKeeps
<1> QED
  BY <1>2, <1>5, <1>6 DEF KeepReply

-----------------------------------------------------------------------------
(* Steps of no request *)

\* A step that leaves the requests as they are.
LEMMA AloneKeeps ==
  ASSUME LearnerAssumption, Inv, req' = req, Plain, Graders' = Graders,
         serial =>
           /\ OneExists'
           /\ \A q \in Requests : ~Idle(q) => Good(q, req[q])'
           /\ (\A q \in Requests : Idle(q)) => Rest'
  PROVE  Inv'
<1>1. Grows
  BY PlainGrows DEF Inv, GInv
<1>2. ReqTypes'
  <2>1. (req \in [Requests -> ReqStates])' <=> req' \in [Requests -> ReqStates]
    BY DEF ReqStates, EnrollmentRows, Ids, Areas
  <2>2. (\A q \in Requests : Placed(req[q]))' <=> \A q \in Requests : Placed(req'[q])
    BY DEF Placed
  <2> QED
    BY <2>1, <2>2 DEF Inv, GInv, ReqTypes
<1>3. ASSUME NEW q \in Requests
      PROVE  Holds(req[q])'
  <2>1. PICK o \in ReqStates : o = req[q] /\ Holds(o)
    BY DEF Inv, GInv, ReqTypes, Requested
  <2>2. Holds(o)'
    BY <1>1, <2>1, HoldsStays
  <2> QED
    BY <2>1, <2>2
<1>4. Requested'
  BY <1>3 DEF Requested
<1>5. StoreTypes' /\ Rows' /\ Tops' /\ Transcript'
  BY PlainStore DEF Inv, GInv, StoreTypes
<1>6. Spoken'
  BY DEF Plain, Inv, GInv, Spoken, Says
<1>7. Watched'
  BY DEF Plain, Inv, GInv, Watched
<1>8. ASSUME serial
      PROVE  SerialBody'
  <2>1. \A q \in Requests : Idle(q)' <=> Idle(q)
    BY DEF Idle
  <2>2. OneActive'
    BY <1>8, <2>1 DEF Inv, SerialInv, SerialBody, OneActive
  <2>3. Turns'
    BY <1>8 DEF Plain, Inv, SerialInv, SerialBody, Turns
  <2> QED
    BY <1>8, <2>1, <2>2, <2>3 DEF SerialBody
<1>9. SerialInv'
  BY <1>8 DEF SerialInv, Plain
<1> QED
  BY <1>2, <1>4, <1>5, <1>6, <1>7, <1>9 DEF Inv, GInv

\* The rows that are good stay so when the store does.
LEMMA GoodRowsStay ==
  ASSUME enrollments' = enrollments, submissions' = submissions, NEW o, GoodRows(o)
  PROVE  GoodRows(o)'
BY DEF GoodRows, RightRow, Right, AllPassed, LatestPassed, Latest, Exists, None, Areas

\* Editors stop by themselves, and nothing else happens.
LEMMA EditorsStop ==
  ASSUME LearnerAssumption, Inv, Running' \subseteq Running,
         DockerTypes', Graders' = Graders,
         UNCHANGED <<serial, store, files, req, clock, crashed>>
  PROVE  Inv'
<1>1. /\ Running' \subseteq Running /\ req' = req
      /\ UNCHANGED <<serial, store, files, clock, crashed>>
  OBVIOUS
<1>2. /\ UNCHANGED <<serial, enrollments, submissions, sessions, messages, crashed>>
      /\ files' = files
  BY <1>1 DEF store
<1>3. DockerTypes' /\ files' \in {"missing", "seed", "work"}
  BY <1>1 DEF Inv, GInv, StoreTypes
<1>4. Still
  BY <1>1, <1>3, WorldChanges
<1>5. Plain
  BY <1>4, StillIsPlain
<1>6. ASSUME serial
      PROVE  /\ OneExists'
             /\ \A q \in Requests : ~Idle(q) => Good(q, req[q])'
             /\ (\A q \in Requests : Idle(q)) => Rest'
  <2>1. OneExists'
    BY <1>4, <1>6, StillPlain DEF Inv, SerialInv, SerialBody
  <2>2. Remembered => Remembered'
    BY <1>1, <1>2, EditorsKept
  <2>3. ASSUME NEW q \in Requests, ~Idle(q)
        PROVE  Good(q, req[q])'
    <3>1. PICK o \in ReqStates : o = req[q] /\ Good(q, o)
      BY <1>6, <2>3 DEF Inv, GInv, ReqTypes, SerialInv, SerialBody
    <3>2. GoodEditors(o) => GoodEditors(o)'
      BY <1>1, <2>2 DEF GoodEditors
    <3>3. GoodRows(o) => GoodRows(o)'
      BY <1>2, GoodRowsStay
    <3>4. (\A e \in Ids : ~Exists(e)) => \A e \in Ids : ~Exists(e)'
      BY <1>2 DEF Exists, None
    <3>5. Good(q, o)'
      BY <1>2, <3>1, <3>2, <3>3, <3>4 DEF Good
    <3> QED
      BY <1>1, <3>1, <3>5
  <2>4. ASSUME \A q \in Requests : Idle(q)
        PROVE  Rest'
    <3>1. Rest
      BY <1>6, <2>4 DEF Inv, SerialInv, SerialBody
    <3>2. (\A e \in Ids : RightRow(e)) => \A e \in Ids : RightRow(e)'
      BY <1>2 DEF RightRow, Right, AllPassed, LatestPassed, Latest, Exists, None
    <3> QED
      BY <1>2, <2>2, <3>1, <3>2 DEF Rest
  <2> QED
    BY <2>1, <2>3, <2>4
<1> QED
  BY <1>1, <1>5, <1>6, AloneKeeps

LEMMA EditorDiesKeeps ==
  ASSUME LearnerAssumption, Inv, NEW s \in Requests, EditorDies(s)
  PROVE  Inv'
<1>1. Running' \subseteq Running /\ DockerTypes' /\ Graders' = Graders
  BY DEF EditorDies, Running, Graders, DockerTypes, Inv, GInv, StoreTypes
<1> QED
  BY <1>1, EditorsStop DEF EditorDies

LEMMA LookKeeps ==
  ASSUME LearnerAssumption, Inv, NEW e \in Ids, Look(e)
  PROVE  Inv'
<1>1. /\ \A q \in Requests : Idle(q)
      /\ UNCHANGED <<serial, submissions, sessions, messages, req, clock, crashed>>
      /\ Running' = Running /\ Graders' = Graders /\ files' = files /\ Exists(e)
  BY DEF Look, world, docker, Running, Graders, DockerTypes
<1>2. PICK old \in EnrollmentRows : old = enrollments[e] /\ Claims(e, old)
  BY <1>1 DEF Inv, GInv, StoreTypes, Rows, Exists
<1>3. PICK row \in EnrollmentRows : row = Refreshed(e, old) /\ Claims(e, row)
  BY <1>2, RefreshClaims
<1>4. enrollments' = [enrollments EXCEPT ![e] = row]
  BY <1>2, <1>3 DEF Look, Inv, GInv, StoreTypes
<1>5. Plain
  <2>1. clock' \in Nat /\ clock <= clock'
    BY <1>1 DEF Inv, GInv, StoreTypes
  <2>2. DockerTypes' /\ files' \in {"missing", "seed", "work"}
    BY <1>1 DEF Look, world, docker, DockerTypes, Inv, GInv, StoreTypes
  <2> QED
    BY <1>1, <1>3, <1>4, <2>1, <2>2 DEF Plain, Saves
<1>6. ASSUME serial
      PROVE  OneExists' /\ Rest'
  <2>1. OneExists /\ Rest
    BY <1>1, <1>6 DEF Inv, SerialInv, SerialBody
  <2>2. OneExists'
    BY <1>1, <1>4, <2>1, SavedRow DEF Inv, GInv
  <2>3. ASSUME ~crashed
        PROVE  Remembered' /\ \A f \in Ids : RightRow(f)'
    <3>1. Remembered'
      BY <1>1, <2>1, <2>3, EditorsKept DEF Rest
    <3>2. \A f \in Ids : RightRow(f)
      BY <2>1, <2>3 DEF Rest
    <3>3. Right(e, row)
      BY <1>1, <1>2, <1>3, <3>2, RefreshRight DEF RightRow, Inv, GInv
    <3>4. \A f \in Ids : RightRow(f)'
      BY <1>1, <1>4, <3>2, <3>3, SavedRight DEF Inv, GInv
    <3> QED
      BY <3>1, <3>4
  <2> QED
    BY <1>1, <2>2, <2>3 DEF Rest
<1> QED
  BY <1>1, <1>5, <1>6, AloneKeeps

LEMMA RestartKeeps ==
  ASSUME LearnerAssumption, Inv, Restart
  PROVE  Inv'
<1>1. /\ crashed' = TRUE /\ clock' = clock + 1
      /\ UNCHANGED <<serial, enrollments, submissions, messages, files>>
      /\ DockerTypes'
  BY DEF Restart, DockerTypes, Inv, GInv, StoreTypes
<1>2. clock \in Nat /\ clock' \in Nat /\ clock <= clock'
  BY <1>1 DEF Inv, GInv, StoreTypes
<1>3. Grows /\ \A e \in Ids : Exists(e)' <=> Exists(e)
  BY <1>1, <1>2 DEF Grows, Exists, None
<1>4. ASSUME NEW q \in Requests
      PROVE  \E n \in ReqStates : n = req'[q] /\ Placed(n) /\ Holds(n) /\ n.pc \in Ended \cup {"idle"}
                                  /\ (n.pc = "idle" => n = req[q])
  <2>1. CASE Idle(q)
    <3>1. req'[q] = req[q]
      BY <2>1 DEF Restart
    <3> QED
      BY <2>1, <3>1, KnownOf DEF Idle, Ended
  <2>2. CASE ~Idle(q)
    <3>1. req'[q] = Fresh(q, "gone")
      BY <2>2 DEF Restart
    <3>2. "gone" \in PCs
      BY DEF PCs, Ended
    <3>3. PICK n \in ReqStates :
            /\ n = Fresh(q, "gone") /\ n.pc = "gone" /\ n.copy = None /\ n.passes = {}
            /\ n.left = {} /\ n.failure = 0
      BY <3>2, FreshState
    <3>4. n.pc \notin Early \cup Viewing \cup Copied /\ n.pc \in Ended
      BY <3>3 DEF Early, Viewing, Copied, Ended
    <3>5. Placed(n)
      BY <3>3, <3>4 DEF Placed
    <3>6. Holds(n)
      BY <3>3, <3>4, NoneIsNoRow DEF Holds, Claims
    <3> QED
      BY <3>1, <3>3, <3>4, <3>5, <3>6
  <2> QED
    BY <2>1, <2>2
<1>5. ReqTypes'
  <2>1. req' = [q \in Requests |-> req'[q]]
    BY DEF Restart
  <2>2. req' \in [Requests -> ReqStates]
    BY <1>4, <2>1
  <2>3. (req \in [Requests -> ReqStates])' <=> req' \in [Requests -> ReqStates]
    BY DEF ReqStates, EnrollmentRows, Ids, Areas
  <2>4. (\A q \in Requests : Placed(req[q]))' <=> \A q \in Requests : Placed(req'[q])
    BY DEF Placed
  <2> QED
    BY <1>4, <2>2, <2>3, <2>4 DEF ReqTypes
<1>6. Requested'
  <2>1. ASSUME NEW q \in Requests
        PROVE  Holds(req[q])'
    <3>1. PICK n \in ReqStates : n = req'[q] /\ Holds(n)
      BY <1>4
    <3>2. Holds(n)'
      BY <1>3, <3>1, HoldsStays
    <3> QED
      BY <3>1, <3>2
  <2> QED
    BY <2>1 DEF Requested
<1>7. ASSUME NEW s \in Requests
      PROVE  \/ sessions'[s] = sessions[s]
             \/ /\ sessions[s] # None /\ sessions'[s] \in SessionRows
                /\ sessions'[s].e = sessions[s].e /\ sessions'[s].at = clock'
  <2>1. CASE sessions[s].status = "running" /\ s \notin containers'
    <3>1. sessions[s] # None
      BY <2>1, NoneIsNoRow
    <3>2. PICK row \in SessionRows : row = sessions[s]
      BY <3>1 DEF Inv, GInv, StoreTypes
    <3> DEFINE new == [row EXCEPT !.status = "stopped", !.at = clock + 1]
    <3>3. sessions'[s] = new
      BY <2>1, <3>2 DEF Restart
    <3>4. clock + 1 \in Nat
      BY <1>1, <1>2
    <3>5. new \in SessionRows
      BY <3>4 DEF SessionRows
    <3>6. new.e = row.e /\ new.at = clock + 1
      BY DEF SessionRows
    <3> QED
      BY <1>1, <3>1, <3>2, <3>3, <3>5, <3>6
  <2>2. CASE ~(sessions[s].status = "running" /\ s \notin containers')
    BY <2>2 DEF Restart
  <2> QED
    BY <2>1, <2>2
<1>8. StoreTypes'
  <2>1. sessions' = [s \in Requests |-> sessions'[s]]
    BY DEF Restart
  <2>2. sessions' \in [Requests -> SessionRows \cup {None}]
    BY <1>7, <2>1 DEF Inv, GInv, StoreTypes
  <2> QED
    BY <1>1, <1>2, <2>2 DEF Inv, GInv, StoreTypes
<1>9. Rows'
  <2>1. ASSUME NEW e \in Ids
        PROVE  Claims(e, enrollments[e])'
    BY <1>1, <1>3, ClaimsStay DEF Inv, GInv, Rows
  <2>2. ASSUME NEW t \in submissions
        PROVE  t.at \in 1..clock' /\ Exists(t.e)'
    <3>1. t.at \in 1..clock /\ Exists(t.e) /\ t.e \in Ids
      BY DEF Inv, GInv, Rows, StoreTypes, SubmissionRows
    <3> QED
      BY <1>2, <1>3, <3>1
  <2>3. ASSUME NEW t \in Requests, sessions'[t] # None
        PROVE  enrollments'[sessions'[t].e] # None /\ sessions'[t].at <= clock'
    <3>1. sessions[t] # None
      BY <1>7, <2>3
    <3>2. PICK row \in SessionRows : row = sessions[t]
      BY <3>1 DEF Inv, GInv, StoreTypes
    <3>3. row.at \in Nat /\ row.at <= clock /\ Exists(row.e)
      BY <3>1, <3>2 DEF Inv, GInv, Rows, SessionRows
    <3>4. enrollments'[row.e] # None
      BY <1>1, <3>3 DEF Exists
    <3>5. sessions'[t].e = row.e
      BY <1>7, <3>2
    <3>6. sessions'[t].at \in {row.at, clock'}
      BY <1>7, <3>2
    <3>7. sessions'[t].at <= clock'
      BY <1>2, <3>3, <3>6
    <3> QED
      BY <3>4, <3>5, <3>7
  <2>4. \A t \in Requests :
          /\ (sessions[t] # None)' <=> sessions'[t] # None
          /\ Exists(sessions[t].e)' <=> enrollments'[sessions'[t].e] # None
    BY DEF None, Exists
  <2>5. \A t \in Requests : sessions'[t] # None =>
          Exists(sessions[t].e)' /\ sessions'[t].at <= clock'
    BY <2>3, <2>4
  <2> QED
    BY <1>1, <2>1, <2>2, <2>4, <2>5 DEF Rows
<1>10. Tops'
  BY <1>1 DEF Inv, GInv, Tops, Latest
<1>11. Transcript'
  <2>1. \A m \in messages : m.at \in Nat /\ m.at <= clock + 1
    BY DEF Inv, GInv, Transcript, StoreTypes, MessageRows
  <2>2. \A m \in messages : m.at <= clock' + 1
    BY <1>2, <2>1
  <2>3. \A m \in messages : m.failure # 0 => FailedAt(m.e, m.failure)'
    BY <1>1 DEF Inv, GInv, Transcript, FailedAt
  <2>4. \A m \in messages : m.role = "tutor" =>
          \E n \in messages : n.role = "user" /\ n.q = m.q /\ n.e = m.e /\ n.at < m.at
    BY DEF Inv, GInv, Transcript
  <2> QED
    BY <1>1, <2>2, <2>3, <2>4 DEF Transcript
<1>12. Spoken'
  <2>1. ASSUME NEW q \in Requests
        PROVE  Says(q, req[q])'
    <3>1. PICK n \in ReqStates :
            /\ n = req'[q] /\ n.pc \in Ended \cup {"idle"}
            /\ n.pc = "idle" => n = req[q]
      BY <1>4
    <3>2. Says(q, n)
      BY <3>1, KnownOf DEF Says, Ended
    <3> QED
      BY <1>1, <3>1, <3>2 DEF Says
  <2> QED
    BY <2>1 DEF Spoken
<1>13. Watched'
  BY <1>1 DEF Watched
<1>14. ASSUME serial
       PROVE  SerialBody'
  <2>1. OneExists /\ Turns
    BY <1>14 DEF Inv, SerialInv, SerialBody
  <2>2. OneExists' /\ Turns'
    BY <1>1, <1>3, <2>1 DEF OneExists, Turns
  <2>3. \A q \in Requests : Idle(q)'
    BY <1>4 DEF Idle, Ended
  <2>4. OneActive'
    BY <2>3 DEF OneActive
  <2>5. Rest'
    BY <1>1 DEF Rest
  <2> QED
    BY <2>2, <2>3, <2>4, <2>5 DEF SerialBody
<1>15. SerialInv'
  BY <1>1, <1>14 DEF SerialInv
<1> QED
  BY <1>5, <1>6, <1>8, <1>9, <1>10, <1>11, <1>12, <1>13, <1>15 DEF Inv, GInv

-----------------------------------------------------------------------------
(* The specification *)

LEMMA InitHolds ==
  ASSUME LearnerAssumption, Init
  PROVE  Inv
<1>d. DockerTypes /\ Running = {} /\ Graders = {}
  BY DEF Init, DockerTypes, Running, Graders
<1>1. /\ submissions = {} /\ messages = {} /\ Running = {} /\ Graders = {}
      /\ sessions = [s \in Requests |-> None] /\ clock = 0 /\ crashed = FALSE
      /\ serial \in BOOLEAN /\ files \in {"missing", "seed", "work"}
      /\ req = [q \in Requests |-> Fresh(q, "idle")]
  BY <1>d DEF Init
<1>2. PICK row \in EnrollmentRows : row = New(0) /\ row.status = "active" /\ row.passed = {}
  BY NewRow
<1>3. /\ enrollments \in [Ids -> {None, row}]
      /\ \A e \in Ids : Exists(e) => e = Enrolled /\ enrollments[e] = row
  BY <1>2, NoneIsNoRow DEF Init, Exists
<1>4. StoreTypes
  BY <1>1, <1>3, <1>2, <1>d DEF StoreTypes
<1>5. ASSUME NEW q \in Requests
      PROVE  \E o \in ReqStates :
               /\ o = req[q] /\ o.pc = "idle" /\ o.copy = None /\ o.passes = {} /\ o.left = {}
               /\ o.failure = 0
  <2>1. "idle" \in PCs
    BY DEF PCs, Early
  <2> QED
    BY <1>1, <2>1, FreshState
<1>6. ASSUME NEW o \in ReqStates, o.pc = "idle", o.copy = None, o.passes = {}, o.left = {},
             o.failure = 0
      PROVE  Placed(o) /\ Holds(o)
  BY <1>6, NoneIsNoRow DEF Placed, Holds, Claims, Early, Viewing, Copied
<1>7. ReqTypes /\ Requested
  <2>1. req \in [Requests -> ReqStates]
    BY <1>1, <1>5
  <2>2. \A q \in Requests : Placed(req[q]) /\ Holds(req[q])
    BY <1>5, <1>6
  <2> QED
    BY <2>1, <2>2 DEF ReqTypes, Requested
<1>8. \A e \in Ids : Claims(e, enrollments[e])
  BY <1>2, <1>3, NoneIsNoRow DEF Claims
<1>9. Rows /\ Tops /\ Transcript
  BY <1>1, <1>8 DEF Rows, Tops, Transcript
<1>10. Spoken /\ Watched
  <2>1. ASSUME NEW q \in Requests
        PROVE  Says(q, req[q])
    <3>1. req[q].pc = "idle"
      BY <1>5
    <3> QED
      BY <1>1, <3>1 DEF Says
  <2> QED
    BY <1>1, <2>1 DEF Spoken, Watched
<1>11. SerialBody
  <2>1. \A q \in Requests : Idle(q)
    BY <1>5 DEF Idle
  <2>2. OneActive /\ OneExists /\ Turns
    BY <1>1, <1>3, <2>1 DEF OneActive, OneExists, Turns
  <2>3. Remembered
    BY <1>1, Numbers DEF Remembered
  <2>4. ASSUME NEW e \in Ids, Exists(e)
        PROVE  Right(e, enrollments[e])
    <3>1. ~AllPassed(e)
      BY <1>1, Numbers DEF AllPassed, LatestPassed, Latest
    <3>2. enrollments[e].status # "completed"
      BY <1>2, <1>3, <2>4
    <3> QED
      BY <3>1, <3>2 DEF Right
  <2> QED
    BY <2>1, <2>2, <2>3, <2>4 DEF SerialBody, Rest, RightRow
<1> QED
  BY <1>4, <1>7, <1>9, <1>10, <1>11 DEF Inv, GInv, SerialInv

LEMMA StutterKeeps ==
  ASSUME LearnerAssumption, Inv, UNCHANGED vars
  PROVE  Inv'
<1>1. Running' = Running /\ Graders' = Graders /\ DockerTypes'
  BY DEF vars, world, docker, Running, Graders, DockerTypes, Inv, GInv, StoreTypes
<1> QED
  BY <1>1, EditorsStop DEF vars, world

LEMMA NextKeeps ==
  ASSUME LearnerAssumption, Inv, [Next]_vars
  PROVE  Inv'
<1>1. CASE \E q \in Requests : Begin(q) \/ Step(q)
  <2>1. PICK q \in Requests : Begin(q) \/ Step(q)
    BY <1>1
  <2>2. CASE Begin(q)
    BY <2>2, BeginKeeps
  <2>3. CASE Find(q)
    BY <2>3, FindKeeps
  <2>4. CASE Create(q)
    BY <2>4, CreateKeeps
  <2>5. CASE Read(q)
    BY <2>5, ReadKeeps
  <2>6. CASE Refresh(q)
    BY <2>6, RefreshKeeps
  <2>7. CASE Heal(q)
    BY <2>7, HealKeeps
  <2>8. CASE Seed(q)
    BY <2>8, SeedKeeps
  <2>9. CASE Plant(q)
    BY <2>9, PlantKeeps
  <2>10. CASE Write(q)
    BY <2>10, WriteKeeps
  <2>11. CASE OpenSession(q)
    BY <2>11, OpenSessionKeeps
  <2>12. CASE Boot(q)
    BY <2>12, BootKeeps
  <2>13. CASE Wait(q)
    BY <2>13, WaitKeeps
  <2>14. CASE KeepSession(q)
    BY <2>14, KeepSessionKeeps
  <2>15. CASE Move(q)
    BY <2>15, MoveKeeps
  <2>16. CASE StartGrader(q)
    BY <2>16, StartGraderKeeps
  <2>17. CASE Grade(q)
    BY <2>17, GradeKeeps
  <2>18. CASE StopGrader(q)
    BY <2>18, StopGraderKeeps
  <2>19. CASE Record(q)
    BY <2>19, RecordKeeps
  <2>20. CASE Progress(q)
    BY <2>20, ProgressKeeps
  <2>21. CASE Ask(q)
    BY <2>21, AskKeeps
  <2>22. CASE Answered(q)
    BY <2>22, AnsweredKeeps
  <2>23. CASE KeepQuestion(q)
    BY <2>23, KeepQuestionKeeps
  <2>24. CASE KeepReply(q)
    BY <2>24, KeepReplyKeeps
  <2> QED
    BY <2>1, <2>2, <2>3, <2>4, <2>5, <2>6, <2>7, <2>8, <2>9, <2>10, <2>11, <2>12, <2>13,
       <2>14, <2>15, <2>16, <2>17, <2>18, <2>19, <2>20, <2>21, <2>22, <2>23, <2>24 DEF Step
<1>2. CASE \E s \in Requests : EditorDies(s)
  BY <1>2, EditorDiesKeeps
<1>3. CASE \E e \in Ids : Look(e)
  BY <1>3, LookKeeps
<1>4. CASE Restart
  BY <1>4, RestartKeeps
<1>5. CASE UNCHANGED vars
  BY <1>5, StutterKeeps
<1> QED
  BY <1>1, <1>2, <1>3, <1>4, <1>5 DEF Next

\* However requests overlap and whenever the server is restarted, the copies and
\* the rows claim what was earned; and while a learner waits for each answer, the
\* rows are right but for what the one request that is under way has not done yet.
THEOREM Invariance == Spec => []Inv
<1>1. Init => Inv
  BY LearnerAssumption, InitHolds
<1>2. Inv /\ [Next]_vars => Inv'
  BY LearnerAssumption, NextKeeps
<1> QED
  BY <1>1, <1>2, PTL DEF Spec

-----------------------------------------------------------------------------
(* What the invariant says *)

LEMMA RowTypes ==
  ASSUME Inv
  PROVE  TypeOK
<1>1. submissions \subseteq [e : Ids, d : Areas, at : 1..clock, passed : BOOLEAN]
  <2> SUFFICES ASSUME NEW s \in submissions
               PROVE  s \in [e : Ids, d : Areas, at : 1..clock, passed : BOOLEAN]
    OBVIOUS
  <2>1. s \in SubmissionRows /\ s.at \in 1..clock
    BY DEF Inv, GInv, StoreTypes, Rows
  <2> QED
    BY <2>1 DEF SubmissionRows
<1>2. ASSUME NEW s \in Requests, sessions[s] # None
      PROVE  sessions[s].status \in {"running", "stopped"} /\ Exists(sessions[s].e)
  <2>1. sessions[s] \in SessionRows
    BY <1>2 DEF Inv, GInv, StoreTypes
  <2>2. sessions[s].status \in {"running", "stopped"}
    BY <2>1 DEF SessionRows
  <2> QED
    BY <1>2, <2>2 DEF Inv, GInv, Rows
<1> QED
  BY <1>1, <1>2 DEF Inv, GInv, StoreTypes, DockerTypes, TypeOK, MessageRows

LEMMA OneIsEnrolled ==
  ASSUME LearnerAssumption, Inv, serial
  PROVE  Cardinality({e \in Ids : Exists(e)}) <= 1
<1> DEFINE mine == {e \in Ids : Exists(e)}
<1>1. CASE mine = {}
  BY <1>1, FS_EmptySet
<1>2. CASE mine # {}
  <2>1. PICK e \in mine : TRUE
    BY <1>2
  <2>2. mine = {e}
    BY <2>1 DEF Inv, SerialInv, SerialBody, OneExists
  <2>3. Cardinality({e}) = 1
    BY FS_Singleton
  <2> QED
    BY <2>2, <2>3
<1> QED
  BY <1>1, <1>2

\* However requests overlap and whenever the server stops, a completed enrollment
\* has a passing submission of each deliverable, a learner who waits has one
\* enrollment, and the transcript can be read (lms_service.py's get_enrollment and
\* enroll, learner_studio_service.py's submissions, tutor_service.py's
\* _persist_turn).
THEOREM RowsSound == Spec => []RowsAreSound
<1>1. ASSUME Inv
      PROVE  RowsAreSound
  <2>1. TypeOK
    BY <1>1, RowTypes
  <2>2. CompletedWasPassed
    BY <1>1 DEF Inv, GInv, Rows, Claims, Earned, CompletedWasPassed
  <2>3. OneEnrollment
    BY <1>1, LearnerAssumption, OneIsEnrolled DEF OneEnrollment
  <2>4. TranscriptReads
    BY <1>1 DEF Inv, GInv, Transcript, FailedAt, SerialInv, SerialBody, Turns, TranscriptReads
  <2> QED
    BY <2>1, <2>2, <2>3, <2>4 DEF RowsAreSound
<1>2. Inv => RowsAreSound
  BY <1>1
<1> QED
  BY <1>2, Invariance, PTL

\* A learner who waits for each answer comes back to a status that is that of the
\* latest submissions and to an editor that is known, with its services; and,
\* unless the server was restarted, no service of a submission that is over goes on
\* running, however it ended - but for what a docker command that failed or was
\* late has left (lms_service.py's get_enrollment, learner_studio_service.py's
\* launch_editor, grade_assignment and _remove_container).
THEOREM ComeBack == Spec => []ComeBackToLatest
<1>1. ASSUME Inv
      PROVE  ComeBackToLatest
  <2>1. ASSUME serial, ~crashed, Quiet
        PROVE  Remembered /\ \A e \in Ids : RightRow(e)
    BY <1>1, <2>1 DEF Inv, SerialInv, SerialBody, Rest, Quiet
  <2>2. StatusIsLatest
    <3>1. ASSUME NEW e \in Ids, ~Exists(e)
          PROVE  enrollments[e].status # "completed"
      BY <3>1, NoneIsNoRow DEF Exists
    <3> QED
      BY <2>1, <3>1 DEF RightRow, Right, StatusIsLatest
  <2>3. EditorRemembered
    BY <2>1 DEF Remembered, EditorRemembered
  <2>4. NoGraderLeft
    <3>1. ASSUME ~crashed, Quiet, NEW q \in Graders
          PROVE  FALSE
      <4>1. q \in Requests /\ req[q].pc \in {"graded", "ungrade"} /\ Idle(q)
        BY <1>1, <3>1 DEF Inv, GInv, StoreTypes, DockerTypes, Graders, Watched, Quiet
      <4> QED
        BY <4>1 DEF Idle
    <3> QED
      BY <3>1 DEF NoGraderLeft, Graders
  <2> QED
    BY <2>2, <2>3, <2>4 DEF ComeBackToLatest
<1>2. Inv => ComeBackToLatest
  BY <1>1
<1> QED
  BY <1>2, Invariance, PTL

\* Seeding the workspace never overwrites what the learner wrote, if requests do
\* not overlap (learner_package_runtime.py's seed_workspace_from_snapshot): only
\* a request that found nothing writes, and nobody has written since.
THEOREM WorkKept == Spec => WorkIsKept
<1>1. ASSUME Inv, [Next]_vars, serial, files = "work"
      PROVE  files' = "work"
  <2>1. ASSUME NEW q \in Requests
        PROVE  ~Plant(q)
    <3>1. ASSUME req[q].pc = "plant"
          PROVE  files = "missing"
      BY <1>1, <3>1 DEF Inv, SerialInv, SerialBody, Good, Idle
    <3> QED
      BY <1>1, <3>1 DEF Plant
  <2> QED
    BY <1>1, <2>1 DEF Next, Begin, Step, Find, Create, Read, Refresh, Heal, Seed, Write,
       OpenSession, Boot, Wait, KeepSession, Move, StartGrader, Grade, StopGrader, Record,
       Progress, Ask, Answered, KeepQuestion, KeepReply, EditorDies, Look, Restart, vars, world
<1>2. Inv /\ [Next]_vars => [serial /\ files = "work" => files' = "work"]_files
  BY <1>1
<1> QED
  BY <1>2, Invariance, PTL DEF Spec, WorkIsKept

=============================================================================
