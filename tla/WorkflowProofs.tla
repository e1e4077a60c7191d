--------------------------- MODULE WorkflowProofs ---------------------------
(***************************************************************************)
(* What holds of workflow runs for any number of requests.                 *)
(*                                                                         *)
(* Whatever requests do to each other, the rows and the copies of them are *)
(* such that no run created or revised today passes gate 2 (RowOK), and    *)
(* the numbers in a log have no gap (Numbered).  The rest is about         *)
(* requests that come one at a time: there is at most one under way, and   *)
(* the row, the log and the directory are as they should be but for what   *)
(* that one has not done yet (SerialInv).                                  *)
(***************************************************************************)
EXTENDS Workflow, Integers, FiniteSetTheorems, TLAPS

-----------------------------------------------------------------------------
(* The invariant of all requests *)

Kinds == {"created", "completed", "revision", "approved", "rejected", "materialized"}

EventLists ==
  {<<>>, <<"created">>, <<"completed">>, <<"revision">>, <<"approved">>, <<"rejected">>,
   <<"materialized">>, <<"created", "completed">>}

PCs == {"idle", "wipe", "write", "check", "save", "select", "insert", "done", "failed", "gone"}

ReqStates ==
  [pc : PCs, run : Ids, copy : Row \cup {None}, events : EventLists, next : Nat,
   overwrite : BOOLEAN]

\* At these places a request has a copy of the row to write back.
Holding == {"wipe", "write", "check", "save"}

\* At these its row is written and events are still to be appended.
Telling == {"select", "insert"}

\* A row of the run id: what is created or revised today has no evidence, and
\* what waits at a gate has one to wait at.
RowOK(id, row) ==
  /\ row \in Row
  /\ row.stage \in {"gate", "needs_revision"} <=> row.gate # 0
  /\ id # Legacy => ~row.evidence /\ row.gate # 3 /\ row.stage # "published"
  /\ row.stage = "published" => row.evidence

ReqOK(s) ==
  /\ s \in ReqStates
  /\ s.pc \in Holding => RowOK(s.run, s.copy)
  /\ s.pc \in {"wipe", "write", "check"} => s.events = <<>>
  /\ s.pc \in Telling => s.events # <<>>
  /\ s.pc = "write" => s.next \in 1..Files

Entries == [no : Nat \ {0}, kind : Kinds]

Shape ==
  /\ serial \in BOOLEAN /\ crashed \in BOOLEAN
  /\ runs \in [Ids -> Row \cup {None}]
  /\ \A id \in Ids : Exists(id) => RowOK(id, runs[id])
  /\ log \in [Ids -> Seq(Entries)]
  /\ disk \in [Ids -> SUBSET (0..Files)] /\ torn \in SUBSET Ids
  /\ req \in [Requests -> ReqStates]
  /\ \A q \in Requests : ReqOK(req[q])

\* Nothing is told of runs that are not there, and a request that works on one
\* creates it or found it.
Begun ==
  /\ \A id \in Ids : ~Exists(id) => log[id] = <<>>
  /\ \A q \in Requests :
       /\ At(q, "idle") => ~Exists(q)
       /\ req[q].pc \in Holding => req[q].run = q \/ Exists(req[q].run)
       /\ req[q].pc \in Telling => Exists(req[q].run)

\* A request with one event, or none, left to append, and one with none.
LastEvent(s) ==
  s.pc \in {"done", "failed", "gone"} \/ (s.pc \in Telling /\ Tail(s.events) = <<>>)

Over(s) == s.pc \in {"done", "failed", "gone"}

\* The events requests have behind them, two for each.
Spent ==
  {u \in Requests \X {1, 2} : IF u[2] = 1 THEN LastEvent(req[u[1]]) ELSE Over(req[u[1]])}

\* The numbers of a log have no gap, an insert leaves none, and no number is
\* larger than the count of events behind the requests.
Numbered ==
  \A id \in Ids : \E n \in Nat :
    /\ n <= Cardinality(Spent)
    /\ Numbers(id) = 1..n
    /\ \A q \in Requests : At(q, "insert") /\ req[q].run = id => req[q].next \in 1..(n + 1)

GInv == Shape /\ Begun /\ Numbered

-----------------------------------------------------------------------------
(* The invariant of requests that come one at a time *)

\* How many of these events are approvals still to be told of: the first of
\* them, if any.
Adds(events) == IF events # <<>> /\ Head(events) = "approved" THEN 1 ELSE 0

Approvals(id) == Cardinality({i \in DOMAIN log[id] : log[id][i].kind = "approved"})

\* A request in state o that has a published run in hand will leave it so.
Finally(o) ==
  o.pc \in Holding /\ Exists(o.run) /\ runs[o.run].stage = "published"
    => o.copy.stage = "published"

InOrder(o) ==
  /\ \A id \in Ids : \A i \in DOMAIN log[id] : log[id][i].no = i
  /\ o.pc = "insert" => o.next = Len(log[o.run]) + 1

\* The directories, but for those that are torn and the one a request in state o
\* is writing.
Whole(o) ==
  /\ \A id \in Ids \ torn :
       Exists(id) /\ runs[id].bundle /\ ~(o.pc = "write" /\ o.run = id) => disk[id] = 0..Files
  /\ o.pc = "write" => 0..(o.next - 1) \subseteq disk[o.run]
  /\ o.pc = "check" => disk[o.run] = 0..Files
  /\ o.pc = "save" /\ o.copy.bundle /\ o.run \notin torn => disk[o.run] = 0..Files

\* The gates and the approvals told, but for those a request in state o has
\* still to tell of.
Told(o) ==
  ~crashed =>
    /\ \A id \in Requests :
         Exists(id) /\ runs[id].gate # 0 =>
           runs[id].gate = 1 + Approvals(id)
             + (IF o.pc \in Telling /\ o.run = id THEN Adds(o.events) ELSE 0)
    /\ o.pc \in Holding /\ o.run # Legacy /\ o.copy.gate # 0 =>
         o.copy.gate = 1 + Approvals(o.run) + Adds(o.events)

Good(o) == Finally(o) /\ InOrder(o) /\ Whole(o) /\ Told(o)

\* The one request that is under way is in state o, or there is none.
Alone(o) ==
  \/ o = Fresh("idle") /\ \A q \in Requests : Ended(q)
  \/ \E q \in Requests :
       req[q] = o /\ ~Ended(q) /\ \A p \in Requests \ {q} : Ended(p)

SerialInv == serial => \E o \in ReqStates : Alone(o) /\ Good(o)

Inv == GInv /\ SerialInv

-----------------------------------------------------------------------------
(* Lemmas about states of requests *)

LEMMA NoneIsNoRow == None \notin Row /\ None.stage = "none"
BY DEF None, Row

LEMMA GateNumbers == 0 \in 0..3 /\ 1 \in 0..3
OBVIOUS

\* A row with another stage and another gate, and one without evidence and
\* bundle.
Moved(r, stage, gate) == [r EXCEPT !.stage = stage, !.gate = gate]

Cleared(r) ==
  [r EXCEPT !.stage = "gate", !.gate = 1, !.evidence = FALSE, !.bundle = FALSE]

LEMMA RowMoved ==
  ASSUME NEW r \in Row,
         NEW stage \in {"gate", "needs_revision", "published", "blocked"}, NEW gate \in 0..3
  PROVE  /\ Moved(r, stage, gate) \in Row
         /\ Moved(r, stage, gate).stage = stage /\ Moved(r, stage, gate).gate = gate
         /\ Moved(r, stage, gate).evidence = r.evidence
         /\ Moved(r, stage, gate).bundle = r.bundle
<1>1. Moved(r, stage, gate) \in Row
  BY DEF Moved, Row
<1>2. Moved(r, stage, gate).stage = stage /\ Moved(r, stage, gate).gate = gate
  BY DEF Moved, Row
<1>3. Moved(r, stage, gate).evidence = r.evidence
  BY DEF Moved, Row
<1>4. Moved(r, stage, gate).bundle = r.bundle
  BY DEF Moved, Row
<1> QED BY <1>1, <1>2, <1>3, <1>4

LEMMA RowCleared ==
  ASSUME NEW r \in Row
  PROVE  /\ Cleared(r) \in Row /\ Cleared(r).stage = "gate" /\ Cleared(r).gate = 1
         /\ ~Cleared(r).evidence /\ ~Cleared(r).bundle
<1>1. PICK m \in Row : m = Moved(r, "gate", 1) /\ m.stage = "gate" /\ m.gate = 1
  BY RowMoved, GateNumbers
<1>2. Cleared(r) = [m EXCEPT !.evidence = FALSE, !.bundle = FALSE]
  BY <1>1 DEF Cleared, Moved
<1>3. Cleared(r) \in Row
  BY <1>2 DEF Row
<1>4. Cleared(r).stage = "gate" /\ Cleared(r).gate = 1
  BY DEF Cleared, Row
<1>5. ~Cleared(r).evidence
  BY DEF Cleared, Row
<1>6. ~Cleared(r).bundle
  BY DEF Cleared, Row
<1> QED BY <1>3, <1>4, <1>5, <1>6

LEMMA FreshState ==
  ASSUME NEW pc \in PCs
  PROVE  /\ Fresh(pc) \in ReqStates /\ Fresh(pc).pc = pc /\ Fresh(pc).run = Legacy
         /\ Fresh(pc).events = <<>> /\ Fresh(pc).next = 0 /\ Fresh(pc).copy = None
BY DEF Fresh, ReqStates, EventLists, Ids, PCs

LEMMA EndedIsOK ==
  ASSUME NEW pc \in {"idle", "done", "failed", "gone"}
  PROVE  ReqOK(Fresh(pc)) /\ Fresh(pc).pc = pc
<1>1. Fresh(pc) \in ReqStates /\ Fresh(pc).pc = pc
  BY FreshState DEF PCs
<1> QED BY <1>1 DEF ReqOK, Holding, Telling

\* What SaveRow makes of a request.
Saved(id, row, events) ==
  [Fresh("save") EXCEPT !.run = id, !.copy = row, !.events = events]

LEMMA SavedState ==
  ASSUME NEW id \in Ids, NEW row, RowOK(id, row), NEW events \in EventLists
  PROVE  /\ ReqOK(Saved(id, row, events))
         /\ Saved(id, row, events).pc = "save" /\ Saved(id, row, events).run = id
         /\ Saved(id, row, events).copy = row /\ Saved(id, row, events).events = events
<1>1. row \in Row
  BY DEF RowOK
<1>2. Saved(id, row, events) \in ReqStates
  BY <1>1 DEF Saved, Fresh, ReqStates, PCs
<1>3. /\ Saved(id, row, events).pc = "save" /\ Saved(id, row, events).run = id
      /\ Saved(id, row, events).copy = row /\ Saved(id, row, events).events = events
  BY DEF Saved, Fresh
<1>4. ReqOK(Saved(id, row, events))
  BY <1>1, <1>2, <1>3 DEF ReqOK, Telling
<1> QED BY <1>3, <1>4

\* A request of an existing shape with another place to be at.
LEMMA Typed ==
  ASSUME Shape, NEW q \in Requests
  PROVE  /\ req[q] \in ReqStates /\ ReqOK(req[q]) /\ req[q].run \in Ids
         /\ req[q].copy \in Row \cup {None}
         /\ q \in Ids /\ runs[req[q].run] \in Row \cup {None}
BY DEF Shape, Ids, ReqStates

LEMMA ListFacts ==
  ASSUME NEW e \in EventLists
  PROVE  /\ Adds(e) \in {0, 1} /\ Len(e) \in {0, 1, 2}
         /\ e # <<>> => Head(e) \in Kinds /\ Tail(e) \in EventLists /\ Adds(Tail(e)) = 0
         /\ e # <<>> => Len(Tail(e)) = Len(e) - 1 /\ Len(e) # 0
         /\ Tail(e) # <<>> /\ e # <<>> => Tail(Tail(e)) = <<>>
<1>1. CASE e = <<>>
  BY <1>1 DEF Adds
<1>2. CASE e = <<"created", "completed">>
  BY <1>2 DEF Adds, Kinds, EventLists
<1>3. ASSUME NEW k \in Kinds, e = <<k>>
      PROVE  /\ Adds(e) \in {0, 1} /\ Len(e) = 1 /\ Head(e) \in Kinds /\ Tail(e) = <<>>
             /\ Adds(Tail(e)) = 0
  <2>1. Head(e) = k /\ Tail(e) = <<>> /\ Len(e) = 1
    BY <1>3
  <2> QED BY <2>1 DEF Adds
<1> QED BY <1>1, <1>2, <1>3 DEF EventLists, Kinds

-----------------------------------------------------------------------------
(* What each kind of step does *)

\* Request q comes in and goes on as s: refused, about to create its own run,
\* or with what becomes of the row of a run there is.
Arrival(q, s) ==
  /\ ReqOK(s) /\ req' = [req EXCEPT ![q] = s]
  /\ Arrives(q) /\ UNCHANGED <<serial, runs, log, disk, torn, crashed>>
  /\ \/ s = Fresh("failed")
     \/ /\ s.pc = "save" /\ s.run = q /\ s.events # <<>> /\ Adds(s.events) = 0
        /\ ~s.copy.bundle /\ s.copy.gate \in {0, 1}
     \/ /\ s.pc \in {"save", "wipe"} /\ Exists(s.run)
        /\ s.copy.bundle = runs[s.run].bundle
        /\ runs[s.run].stage = "published" => s.copy.stage = "published"
        /\ runs[s.run].gate = 0 => s.copy.gate = 0
        /\ s.run # Legacy => s.copy.gate = runs[s.run].gate + Adds(s.events)

\* A row as it is saved by q.
LEMMA NewRun ==
  ASSUME Shape, NEW q \in Requests, Arrives(q), UNCHANGED <<serial, runs, log, disk, torn, crashed>>,
         NEW row, RowOK(q, row), NEW events \in EventLists, SaveRow(q, q, row, events),
         ~row.bundle, row.gate \in {0, 1}, events # <<>>, Head(events) # "approved"
  PROVE  \E s : Arrival(q, s)
<1>1. q \in Ids
  BY DEF Ids
<1>2. PICK s : s = Saved(q, row, events)
  OBVIOUS
<1>5. ReqOK(s) /\ s.pc = "save" /\ s.run = q /\ s.copy = row /\ s.events = events
  BY <1>1, <1>2, SavedState
<1>3. req' = [req EXCEPT ![q] = s]
  BY <1>2 DEF SaveRow, Do, Saved
<1>4. Adds(s.events) = 0
  <2>1. Adds(events) = 0
    BY DEF Adds
  <2> QED BY <1>5, <2>1
<1> QED BY <1>3, <1>4, <1>5 DEF Arrival

LEMMA OldRun ==
  ASSUME Shape, NEW q \in Requests, Arrives(q), UNCHANGED <<serial, runs, log, disk, torn, crashed>>,
         NEW id \in Ids, Exists(id),
         NEW row, RowOK(id, row), NEW events \in EventLists, SaveRow(q, id, row, events),
         row.bundle = runs[id].bundle,
         runs[id].stage = "published" => row.stage = "published",
         runs[id].gate = 0 => row.gate = 0,
         id # Legacy => row.gate = runs[id].gate + Adds(events)
  PROVE  \E s : Arrival(q, s)
<1>1. PICK s : s = Saved(id, row, events)
  OBVIOUS
<1>5. ReqOK(s) /\ s.pc = "save" /\ s.run = id /\ s.copy = row /\ s.events = events
  BY <1>1, SavedState
<1>2. req' = [req EXCEPT ![q] = s]
  BY <1>1 DEF SaveRow, Do, Saved
<1> QED BY <1>2, <1>5 DEF Arrival

LEMMA Refused ==
  ASSUME NEW q \in Requests, Arrives(q), UNCHANGED <<serial, runs, log, disk, torn, crashed>>,
         Do(q, Fresh("failed"))
  PROVE  \E s : Arrival(q, s)
<1>1. ReqOK(Fresh("failed"))
  BY EndedIsOK
<1> QED BY <1>1 DEF Arrival, Do

LEMMA CreateArrives ==
  ASSUME Shape, NEW q \in Requests, CreateBlocked(q) \/ Create(q)
  PROVE  \E s : Arrival(q, s)
<1>1. Arrives(q) /\ UNCHANGED <<serial, runs, log, disk, torn, crashed>>
  BY DEF CreateBlocked, Create
<1>2. CASE CreateBlocked(q)
  <2>1. PICK row : row = [stage |-> "blocked", gate |-> 0, spec |-> FALSE, valid |-> FALSE,
                         evidence |-> FALSE, bundle |-> FALSE]
    OBVIOUS
  <2>2. row \in Row /\ row.stage = "blocked" /\ row.gate = 0 /\ ~row.evidence /\ ~row.bundle
    <3>1. row \in Row
      BY <2>1 DEF Row
    <3> QED BY <2>1, <3>1
  <2>3. RowOK(q, row)
    BY <2>2 DEF RowOK
  <2>4. <<"created">> \in EventLists /\ <<"created">> # <<>> /\ Head(<<"created">>) # "approved"
    BY DEF EventLists
  <2>5. SaveRow(q, q, row, <<"created">>)
    BY <1>2, <2>1 DEF CreateBlocked
  <2> QED BY <1>1, <2>2, <2>3, <2>4, <2>5, NewRun
<1>3. CASE Create(q)
  <2>1. PICK valid \in BOOLEAN :
          SaveRow(q, q, [stage |-> "gate", gate |-> 1, spec |-> TRUE, valid |-> valid,
                         evidence |-> FALSE, bundle |-> FALSE], <<"created", "completed">>)
    BY <1>3 DEF Create
  <2>2. PICK row : row = [stage |-> "gate", gate |-> 1, spec |-> TRUE, valid |-> valid,
                         evidence |-> FALSE, bundle |-> FALSE]
    OBVIOUS
  <2>3. row \in Row /\ row.stage = "gate" /\ row.gate = 1 /\ ~row.evidence /\ ~row.bundle
    <3>1. row \in Row
      BY <2>2 DEF Row
    <3> QED BY <2>2, <3>1
  <2>4. RowOK(q, row)
    BY <2>3 DEF RowOK
  <2>5. /\ <<"created", "completed">> \in EventLists /\ <<"created", "completed">> # <<>>
        /\ Head(<<"created", "completed">>) # "approved"
    BY DEF EventLists
  <2> QED BY <1>1, <2>1, <2>2, <2>3, <2>4, <2>5, NewRun
<1> QED BY <1>2, <1>3

LEMMA ReviseArrives ==
  ASSUME Shape, NEW q \in Requests, Revise(q)
  PROVE  \E s : Arrival(q, s)
<1>1. Arrives(q) /\ UNCHANGED <<serial, runs, log, disk, torn, crashed>>
  BY DEF Revise
<1>2. PICK id \in Ids :
        /\ Exists(id)
        /\ SaveRow(q, q, [runs[id] EXCEPT !.stage = "gate", !.gate = 1,
                                          !.evidence = FALSE, !.bundle = FALSE],
                   <<"revision">>)
  BY DEF Revise
<1>3. PICK r \in Row : r = runs[id]
  BY <1>2 DEF Shape, RowOK
<1>4. PICK row : row = Cleared(r)
  OBVIOUS
<1>5. row \in Row /\ row.stage = "gate" /\ row.gate = 1 /\ ~row.evidence /\ ~row.bundle
  BY <1>4, RowCleared
<1>6. RowOK(q, row)
  BY <1>5 DEF RowOK
<1>7. <<"revision">> \in EventLists /\ <<"revision">> # <<>> /\ Head(<<"revision">>) # "approved"
  BY DEF EventLists
<1>8. SaveRow(q, q, row, <<"revision">>)
  BY <1>2, <1>3, <1>4 DEF Cleared
<1> QED BY <1>1, <1>5, <1>6, <1>7, <1>8, NewRun

\* Passing a gate takes a run a gate further, and only the third takes it to
\* the end; those without evidence get no further than gate 2.
LEMMA PassedRow ==
  ASSUME NEW id \in Ids, NEW r, RowOK(id, r), r.gate # 0, Allowed(r)
  PROVE  /\ RowOK(id, Passed(r)) /\ Passed(r).bundle = r.bundle
         /\ r.stage # "published"
         /\ id # Legacy => Passed(r).gate = r.gate + 1
<1>1. r \in Row /\ r.gate \in 1..3 /\ r.stage # "published"
  BY DEF RowOK, Row
<1>2. CASE r.gate = 3
  <2>1. PICK n : n = Moved(r, "published", 0)
    OBVIOUS
  <2>2. /\ n \in Row /\ n.stage = "published" /\ n.gate = 0
        /\ n.bundle = r.bundle /\ n.evidence = r.evidence
    BY <1>1, <2>1, RowMoved, GateNumbers
  <2>3. Passed(r) = n /\ r.evidence /\ id = Legacy
    BY <1>2, <2>1 DEF Passed, Moved, Allowed, RowOK
  <2> QED BY <1>1, <2>2, <2>3 DEF RowOK
<1>3. CASE r.gate # 3
  <2>1. r.gate + 1 \in 1..3 /\ r.gate + 1 # 0
    BY <1>1, <1>3
  <2>7. PICK g \in 0..3 : g = r.gate + 1
    BY <2>1
  <2>2. PICK n : n = Moved(r, "gate", g)
    OBVIOUS
  <2>3. /\ n \in Row /\ n.stage = "gate" /\ n.gate = g
        /\ n.bundle = r.bundle /\ n.evidence = r.evidence
    BY <1>1, <2>2, RowMoved
  <2>8. n.gate = r.gate + 1
    BY <2>3, <2>7
  <2>4. Passed(r) = n
    BY <1>3, <2>7, <2>2 DEF Passed, Moved
  <2>5. r.gate = 2 => r.evidence
    BY DEF Allowed
  <2>6. id # Legacy => ~n.evidence /\ n.gate # 3
    <3> SUFFICES ASSUME id # Legacy PROVE ~n.evidence /\ n.gate # 3
      OBVIOUS
    <3>1. ~r.evidence
      BY DEF RowOK
    <3>2. r.gate = 1
      BY <1>1, <1>3, <2>5, <3>1
    <3> QED BY <2>3, <2>8, <3>1, <3>2
  <2> QED BY <1>1, <2>1, <2>3, <2>4, <2>6, <2>8 DEF RowOK
<1> QED BY <1>2, <1>3

LEMMA ApproveArrives ==
  ASSUME Shape, NEW q \in Requests, Approve(q)
  PROVE  \E s : Arrival(q, s)
<1>1. Arrives(q) /\ UNCHANGED <<serial, runs, log, disk, torn, crashed>>
  BY DEF Approve
<1>2. PICK id \in Ids :
        /\ Exists(id) /\ runs[id].gate # 0
        /\ IF Allowed(runs[id])
           THEN SaveRow(q, id, Passed(runs[id]), <<"approved">>)
           ELSE Do(q, Fresh("failed"))
  BY DEF Approve
<1>3. RowOK(id, runs[id])
  BY <1>2 DEF Shape
<1>4. CASE Allowed(runs[id])
  <2>1. /\ RowOK(id, Passed(runs[id])) /\ Passed(runs[id]).bundle = runs[id].bundle
        /\ runs[id].stage # "published"
        /\ id # Legacy => Passed(runs[id]).gate = runs[id].gate + 1
    BY <1>2, <1>3, <1>4, PassedRow
  <2>2. <<"approved">> \in EventLists /\ Adds(<<"approved">>) = 1
    BY DEF EventLists, Adds
  <2>3. SaveRow(q, id, Passed(runs[id]), <<"approved">>)
    BY <1>2, <1>4
  <2> QED BY <1>1, <1>2, <2>1, <2>2, <2>3, OldRun
<1>5. CASE ~Allowed(runs[id])
  BY <1>1, <1>2, <1>5, Refused
<1> QED BY <1>4, <1>5

LEMMA RejectArrives ==
  ASSUME Shape, NEW q \in Requests, Reject(q)
  PROVE  \E s : Arrival(q, s)
<1>1. Arrives(q) /\ UNCHANGED <<serial, runs, log, disk, torn, crashed>>
  BY DEF Reject
<1>2. PICK id \in Ids :
        /\ Exists(id) /\ runs[id].gate # 0
        /\ SaveRow(q, id, [runs[id] EXCEPT !.stage = "needs_revision"], <<"rejected">>)
  BY DEF Reject
<1>3. PICK r \in Row : r = runs[id] /\ RowOK(id, r)
  BY <1>2 DEF Shape, RowOK
<1>4. PICK row \in Row : row = [r EXCEPT !.stage = "needs_revision"]
  BY DEF Row
<1>5. /\ row.stage = "needs_revision" /\ row.gate = r.gate /\ row.evidence = r.evidence
      /\ row.bundle = r.bundle /\ r.gate \in 0..3
  BY <1>4 DEF Row
<1>6. RowOK(id, row) /\ r.stage # "published"
  BY <1>2, <1>3, <1>5 DEF RowOK
<1>7. <<"rejected">> \in EventLists /\ Adds(<<"rejected">>) = 0
  BY DEF EventLists, Adds
<1>8. row.gate = r.gate + Adds(<<"rejected">>)
  BY <1>5, <1>7
<1> QED BY <1>1, <1>2, <1>3, <1>4, <1>5, <1>6, <1>7, <1>8, OldRun

LEMMA MaterializeArrives ==
  ASSUME Shape, NEW q \in Requests, Materialize(q)
  PROVE  \E s : Arrival(q, s)
<1>1. Arrives(q) /\ UNCHANGED <<serial, runs, log, disk, torn, crashed>>
  BY DEF Materialize
<1>2. PICK id \in Ids, overwrite \in BOOLEAN, pc \in {"save", "wipe"} :
        /\ Exists(id)
        /\ Do(q, [Fresh(pc) EXCEPT !.run = id, !.copy = runs[id], !.overwrite = overwrite])
  BY DEF Materialize
<1>3. PICK r \in Row : r = runs[id] /\ RowOK(id, r)
  BY <1>2 DEF Shape, RowOK
<1>4. PICK s \in ReqStates :
        s = [Fresh(pc) EXCEPT !.run = id, !.copy = r, !.overwrite = overwrite]
  BY DEF Fresh, ReqStates, PCs, EventLists
<1>5. s.pc = pc /\ s.run = id /\ s.copy = r /\ s.events = <<>>
  BY <1>4 DEF Fresh
<1>6. ReqOK(s)
  BY <1>3, <1>5 DEF ReqOK, Telling
<1>7. req' = [req EXCEPT ![q] = s]
  BY <1>2, <1>3, <1>4 DEF Do
<1>8. r.gate \in 0..3 /\ r.gate = r.gate + Adds(s.events)
  BY <1>5 DEF Row, Adds
<1> QED BY <1>1, <1>2, <1>3, <1>5, <1>6, <1>7, <1>8 DEF Arrival

\* The rest of what q does: it goes on as s.
Goes(q, s) == ReqOK(s) /\ req' = [req EXCEPT ![q] = s] /\ UNCHANGED <<serial, crashed>>

Same(o, s) == s.run = o.run /\ s.copy = o.copy /\ s.events = o.events

Wiping(q, s) ==
  /\ Goes(q, s) /\ At(q, "wipe") /\ UNCHANGED <<runs, log>>
  /\ \/ s = Fresh("failed") /\ UNCHANGED <<disk, torn>>
     \/ /\ s.pc = "write" /\ s.next = 1 /\ Same(req[q], s)
        /\ disk' = [disk EXCEPT ![req[q].run] = {0}] /\ UNCHANGED torn
     \/ /\ s = Fresh("failed") /\ torn' = torn \cup {req[q].run}
        /\ \E rest \in SUBSET (0..Files) : disk' = [disk EXCEPT ![req[q].run] = rest]

Writing(q, s) ==
  /\ Goes(q, s) /\ At(q, "write") /\ UNCHANGED <<runs, log>>
  /\ \/ /\ Same(req[q], s) /\ s.next = req[q].next + 1
        /\ s.pc = IF req[q].next = Files THEN "check" ELSE "write"
        /\ disk' = [disk EXCEPT ![req[q].run] = @ \cup {0, req[q].next}]
        /\ torn' = IF req[q].next = Files THEN torn \ {req[q].run} ELSE torn
     \/ s = Fresh("failed") /\ torn' = torn \cup {req[q].run} /\ UNCHANGED disk

Checking(q, s) ==
  /\ Goes(q, s) /\ At(q, "check") /\ UNCHANGED <<runs, log, disk, torn>>
  /\ \/ s = Fresh("failed")
     \/ /\ s.pc = "save" /\ s.run = req[q].run /\ s.events # <<>> /\ Adds(s.events) = 0
        /\ s.copy.gate = req[q].copy.gate
        /\ req[q].copy.stage = "published" => s.copy.stage = "published"
        /\ req[q].copy.spec => disk[req[q].run] = 0..Files

Saving(q, s) ==
  /\ Goes(q, s) /\ At(q, "save") /\ UNCHANGED <<log, disk, torn>>
  /\ runs' = [runs EXCEPT ![req[q].run] = req[q].copy]
  /\ \/ s = Fresh("failed") /\ req[q].events = <<>>
     \/ s.pc = "select" /\ Same(req[q], s)

Selecting(q, s) ==
  /\ Goes(q, s) /\ At(q, "select") /\ UNCHANGED <<runs, log, disk, torn>>
  /\ s.pc = "insert" /\ Same(req[q], s) /\ s.next = Last(req[q].run) + 1

Inserting(q, s) ==
  /\ Goes(q, s) /\ At(q, "insert") /\ UNCHANGED <<runs, disk, torn>>
  /\ log' = [log EXCEPT ![req[q].run] =
               Append(@, [no |-> req[q].next, kind |-> Head(req[q].events)])]
  /\ \/ s = Fresh("done") /\ Tail(req[q].events) = <<>>
     \/ /\ s.pc = "select" /\ s.run = req[q].run /\ s.events = Tail(req[q].events)
        /\ s.events # <<>>

\* A request at another place, with another number.
Went(o, pc, next) == [o EXCEPT !.pc = pc, !.next = next]

LEMMA WentState ==
  ASSUME NEW o \in ReqStates, NEW pc \in PCs, NEW next \in Nat
  PROVE  /\ Went(o, pc, next) \in ReqStates /\ Same(o, Went(o, pc, next))
         /\ Went(o, pc, next).pc = pc /\ Went(o, pc, next).next = next
BY DEF Went, ReqStates, Same

LEMMA WipeGoes ==
  ASSUME Shape, NEW q \in Requests, Wipe(q)
  PROVE  \E s : Wiping(q, s)
<1>1. At(q, "wipe") /\ UNCHANGED <<serial, runs, log, crashed>>
  BY DEF Wipe
<1>2. PICK o \in ReqStates : o = req[q] /\ o.pc = "wipe" /\ ReqOK(o)
  BY <1>1, Typed DEF At
<1>3. \/ Do(q, Fresh("failed")) /\ UNCHANGED <<disk, torn>>
      \/ /\ disk' = [disk EXCEPT ![o.run] = {0}] /\ UNCHANGED torn
         /\ Do(q, [o EXCEPT !.pc = "write", !.next = 1])
      \/ /\ Do(q, Fresh("failed")) /\ torn' = torn \cup {o.run}
         /\ \E rest \in {{}} \cup {{0} \cup some : some \in SUBSET disk[o.run]} :
              disk' = [disk EXCEPT ![o.run] = rest]
  BY <1>2 DEF Wipe
<1>4. CASE \/ Do(q, Fresh("failed")) /\ UNCHANGED <<disk, torn>>
           \/ /\ Do(q, Fresh("failed")) /\ torn' = torn \cup {o.run}
              /\ \E rest \in {{}} \cup {{0} \cup some : some \in SUBSET disk[o.run]} :
                   disk' = [disk EXCEPT ![o.run] = rest]
  <2>1. Goes(q, Fresh("failed"))
    BY <1>1, <1>4, EndedIsOK DEF Goes, Do
  <2>2. disk[o.run] \subseteq 0..Files /\ 0 \in 0..Files
    BY <1>2, WorkflowAssumption DEF Shape, ReqStates
  <2>3. {{}} \cup {{0} \cup some : some \in SUBSET disk[o.run]} \subseteq SUBSET (0..Files)
    BY <2>2
  <2> QED BY <1>1, <1>2, <1>4, <2>1, <2>3 DEF Wiping
<1>5. CASE disk' = [disk EXCEPT ![o.run] = {0}] /\ UNCHANGED torn /\ Do(q, [o EXCEPT !.pc = "write", !.next = 1])
  <2>1. PICK s : s = Went(o, "write", 1)
    OBVIOUS
  <2>5. "write" \in PCs /\ 1 \in Nat
    BY DEF PCs
  <2>2. s \in ReqStates /\ Same(o, s) /\ s.pc = "write" /\ s.next = 1
    BY <2>1, <2>5, WentState
  <2>3. ReqOK(s)
    BY <1>2, <2>2, WorkflowAssumption DEF ReqOK, Same, Holding, Telling
  <2>4. req' = [req EXCEPT ![q] = s]
    BY <1>5, <2>1 DEF Do, Went
  <2> QED BY <1>1, <1>2, <1>5, <2>2, <2>3, <2>4 DEF Wiping, Goes
<1> QED BY <1>3, <1>4, <1>5

LEMMA WriteGoes ==
  ASSUME Shape, NEW q \in Requests, WriteFile(q)
  PROVE  \E s : Writing(q, s)
<1>1. At(q, "write") /\ UNCHANGED <<serial, runs, log, crashed>>
  BY DEF WriteFile
<1>2. PICK o \in ReqStates : o = req[q] /\ o.pc = "write" /\ ReqOK(o)
  BY <1>1, Typed DEF At
<1>3. PICK next \in Nat, pc \in {"check", "write"} :
        next = o.next + 1 /\ pc = IF o.next = Files THEN "check" ELSE "write"
  BY <1>2 DEF ReqOK
<1>4. PICK s : s = Went(o, pc, next)
  OBVIOUS
<1>10. pc \in PCs
  BY DEF PCs
<1>5. s \in ReqStates /\ Same(o, s) /\ s.pc = pc /\ s.next = next
  BY <1>4, <1>10, WentState
<1>6. pc = "write" => next \in 1..Files
  BY <1>2, <1>3, WorkflowAssumption DEF ReqOK
<1>7. ReqOK(s)
  BY <1>2, <1>5, <1>6 DEF ReqOK, Same, Holding, Telling
<1>8. req' = [req EXCEPT ![q] = s]
  BY <1>2, <1>3, <1>4 DEF WriteFile, Do, Went
<1>9. /\ disk' = [disk EXCEPT ![req[q].run] = @ \cup {0, req[q].next}]
      /\ torn' = IF req[q].next = Files THEN torn \ {req[q].run} ELSE torn
  BY DEF WriteFile
<1> QED BY <1>1, <1>2, <1>3, <1>5, <1>7, <1>8, <1>9 DEF Writing, Goes

LEMMA FailGoes ==
  ASSUME NEW q \in Requests, WriteFails(q)
  PROVE  \E s : Writing(q, s)
<1>1. Goes(q, Fresh("failed"))
  BY EndedIsOK DEF WriteFails, Goes, Do
<1> QED BY <1>1 DEF WriteFails, Writing

LEMMA CheckGoes ==
  ASSUME Shape, NEW q \in Requests, CheckBundle(q)
  PROVE  \E s : Checking(q, s)
<1>1. At(q, "check") /\ UNCHANGED <<serial, runs, log, disk, torn, crashed>>
  BY DEF CheckBundle
<1>2. PICK o \in ReqStates : o = req[q] /\ o.pc = "check" /\ ReqOK(o) /\ o.run \in Ids
  BY <1>1, Typed DEF At
<1>3. PICK r \in Row : r = o.copy /\ RowOK(o.run, r)
  BY <1>2 DEF ReqOK, Holding, RowOK
<1>4. CASE Do(q, Fresh("failed"))
  BY <1>1, <1>4, EndedIsOK DEF Checking, Goes, Do
<1>5. CASE /\ o.copy.spec => disk[o.run] = 0..Files
           /\ SaveRow(q, o.run, [o.copy EXCEPT !.bundle = TRUE], <<"materialized">>)
  <2>1. PICK n : n = [r EXCEPT !.bundle = TRUE]
    OBVIOUS
  <2>2. n \in Row
    BY <2>1 DEF Row
  <2>3. n.stage = r.stage /\ n.gate = r.gate /\ n.evidence = r.evidence
    BY <2>1 DEF Row
  <2>4. RowOK(o.run, n)
    BY <1>3, <2>2, <2>3 DEF RowOK
  <2>5. <<"materialized">> \in EventLists /\ Adds(<<"materialized">>) = 0
        /\ <<"materialized">> # <<>>
    BY DEF EventLists, Adds
  <2>6. PICK s : s = Saved(o.run, n, <<"materialized">>)
    OBVIOUS
  <2>7. ReqOK(s) /\ s.pc = "save" /\ s.run = o.run /\ s.copy = n /\ s.events = <<"materialized">>
    BY <1>2, <2>4, <2>5, <2>6, SavedState
  <2>8. req' = [req EXCEPT ![q] = s]
    BY <1>3, <1>5, <2>1, <2>6 DEF SaveRow, Do, Saved
  <2>9. Goes(q, s)
    BY <1>1, <2>7, <2>8 DEF Goes
  <2>10. Adds(s.events) = 0 /\ s.events # <<>>
    BY <2>5, <2>7
  <2> QED BY <1>1, <1>2, <1>3, <1>5, <2>3, <2>7, <2>9, <2>10 DEF Checking
<1> QED BY <1>2, <1>4, <1>5 DEF CheckBundle

LEMMA SaveGoes ==
  ASSUME Shape, NEW q \in Requests, Save(q)
  PROVE  \E s : Saving(q, s)
<1>1. /\ At(q, "save") /\ UNCHANGED <<serial, log, disk, torn, crashed>>
      /\ runs' = [runs EXCEPT ![req[q].run] = req[q].copy]
  BY DEF Save
<1>2. PICK o \in ReqStates : o = req[q] /\ o.pc = "save" /\ ReqOK(o)
  BY <1>1, Typed DEF At
<1>3. CASE o.events = <<>>
  <2>1. Do(q, Fresh("failed"))
    BY <1>2, <1>3 DEF Save
  <2> QED BY <1>1, <1>2, <1>3, <2>1, EndedIsOK DEF Saving, Goes, Do
<1>4. CASE o.events # <<>>
  <2>4. PICK s : s = [o EXCEPT !.pc = "select"]
    OBVIOUS
  <2>1. s \in ReqStates /\ s.pc = "select" /\ Same(o, s)
    BY <2>4 DEF ReqStates, PCs, Same
  <2>2. ReqOK(s)
    BY <1>4, <2>1 DEF ReqOK, Same, Holding
  <2>3. req' = [req EXCEPT ![q] = s]
    BY <1>2, <1>4, <2>4 DEF Save, Do
  <2> QED BY <1>1, <1>2, <2>1, <2>2, <2>3 DEF Saving, Goes
<1> QED BY <1>3, <1>4

LEMMA SelectGoes ==
  ASSUME Shape, NEW q \in Requests, Select(q), Last(req[q].run) \in Nat
  PROVE  \E s : Selecting(q, s)
<1>1. At(q, "select") /\ UNCHANGED <<serial, runs, log, disk, torn, crashed>>
  BY DEF Select
<1>2. PICK o \in ReqStates : o = req[q] /\ o.pc = "select" /\ ReqOK(o)
  BY <1>1, Typed DEF At
<1>3. PICK next \in Nat : next = Last(req[q].run) + 1
  OBVIOUS
<1>4. PICK s : s = Went(o, "insert", next)
  OBVIOUS
<1>8. "insert" \in PCs
  BY DEF PCs
<1>5. s \in ReqStates /\ Same(o, s) /\ s.pc = "insert" /\ s.next = next
  BY <1>4, <1>8, WentState
<1>6. ReqOK(s)
  BY <1>2, <1>5 DEF ReqOK, Same, Holding, Telling
<1>7. req' = [req EXCEPT ![q] = s]
  BY <1>2, <1>3, <1>4 DEF Select, Do, Went
<1> QED BY <1>1, <1>2, <1>3, <1>5, <1>6, <1>7 DEF Selecting, Goes

LEMMA InsertGoes ==
  ASSUME Shape, NEW q \in Requests, Insert(q)
  PROVE  \E s : Inserting(q, s)
<1>1. /\ At(q, "insert") /\ UNCHANGED <<serial, runs, disk, torn, crashed>>
      /\ log' = [log EXCEPT ![req[q].run] =
                   Append(@, [no |-> req[q].next, kind |-> Head(req[q].events)])]
  BY DEF Insert
<1>2. PICK o \in ReqStates : o = req[q] /\ o.pc = "insert" /\ ReqOK(o)
  BY <1>1, Typed DEF At
<1>3. PICK left \in EventLists : left = Tail(o.events)
  BY <1>2, ListFacts DEF ReqOK, Telling, ReqStates
<1>4. CASE left = <<>>
  <2>1. Do(q, Fresh("done"))
    BY <1>2, <1>3, <1>4 DEF Insert
  <2> QED BY <1>1, <1>2, <1>3, <1>4, <2>1, EndedIsOK DEF Inserting, Goes, Do
<1>5. CASE left # <<>>
  <2>4. PICK s : s = [o EXCEPT !.pc = "select", !.events = left]
    OBVIOUS
  <2>1. s \in ReqStates /\ s.pc = "select" /\ s.run = o.run /\ s.events = left
    BY <2>4 DEF ReqStates, PCs
  <2>2. ReqOK(s)
    BY <1>5, <2>1 DEF ReqOK, Holding
  <2>3. req' = [req EXCEPT ![q] = s]
    BY <1>2, <1>3, <1>5, <2>4 DEF Insert, Do
  <2> QED BY <1>1, <1>2, <1>3, <1>5, <2>1, <2>2, <2>3 DEF Inserting, Goes
<1> QED BY <1>4, <1>5

-----------------------------------------------------------------------------
(* The invariant of all requests is preserved *)

\* Two for each request are no more than that.
LEMMA TwoForEach ==
  ASSUME NEW S \in SUBSET (Requests \X {1, 2})
  PROVE  /\ IsFiniteSet(S) /\ Cardinality(S) \in Nat
         /\ Cardinality(S) <= 2 * Cardinality(Requests)
<1>1. IsFiniteSet({1, 2}) /\ Cardinality({1, 2}) = 2
  <2>1. IsFiniteSet({1}) /\ Cardinality({1}) = 1
    BY FS_Singleton
  <2>2. {1, 2} = {1} \cup {2} /\ 2 \notin {1}
    OBVIOUS
  <2> QED BY <2>1, <2>2, FS_AddElement
<1>2. /\ IsFiniteSet(Requests \X {1, 2})
      /\ Cardinality(Requests \X {1, 2}) = Cardinality(Requests) * 2
  BY <1>1, FS_Product, WorkflowAssumption
<1>3. IsFiniteSet(S) /\ Cardinality(S) <= Cardinality(Requests) * 2
  BY <1>2, FS_Subset
<1>4. Cardinality(S) \in Nat /\ Cardinality(Requests) \in Nat
  BY <1>3, FS_CardinalityType, WorkflowAssumption
<1> QED BY <1>3, <1>4

LEMMA SpentFinite ==
  /\ IsFiniteSet(Spent) /\ Cardinality(Spent) \in Nat
  /\ Cardinality(Spent) <= 2 * Cardinality(Requests)
BY TwoForEach DEF Spent

LEMMA SpentFiniteNext ==
  /\ IsFiniteSet(Spent') /\ Cardinality(Spent') \in Nat
  /\ Cardinality(Spent') <= 2 * Cardinality(Requests)
<1>1. Spent' \in SUBSET (Requests \X {1, 2})
  BY DEF Spent
<1> QED BY <1>1, TwoForEach

\* What is behind a request stays behind it.
LEMMA SpentGrows ==
  ASSUME \A q \in Requests :
           (LastEvent(req[q]) => LastEvent(req'[q])) /\ (Over(req[q]) => Over(req'[q]))
  PROVE  Spent \subseteq Spent' /\ Cardinality(Spent) <= Cardinality(Spent')
<1>1. Spent \subseteq Spent'
  BY DEF Spent
<1> QED BY <1>1, SpentFiniteNext, FS_Subset

\* The largest number of a log.
LEMMA LastIs ==
  ASSUME NEW id, NEW n \in Nat, Numbers(id) = 1..n
  PROVE  Last(id) = n
<1>1. n \in Numbers(id) \cup {0} /\ \A m \in Numbers(id) : m <= n
  OBVIOUS
<1>2. ASSUME NEW k \in Numbers(id) \cup {0}, \A m \in Numbers(id) : m <= k
      PROVE  k = n
  <2>1. k \in Nat /\ k <= n
    BY <1>2
  <2>2. n <= k
    BY <1>1, <1>2, <2>1
  <2> QED BY <2>1, <2>2
<1> QED BY <1>1, <1>2 DEF Last

\* A request goes on as s.
LEMMA OneMoves ==
  ASSUME Shape, NEW q \in Requests, NEW s, Goes(q, s),
         runs' \in [Ids -> Row \cup {None}], \A id \in Ids : Exists(id)' => RowOK(id, runs'[id]),
         log' \in [Ids -> Seq(Entries)], disk' \in [Ids -> SUBSET (0..Files)], torn' \in SUBSET Ids
  PROVE  /\ Shape' /\ req'[q] = s /\ \A p \in Requests \ {q} : req'[p] = req[p]
<1>1. ReqOK(s) /\ s \in ReqStates /\ req' = [req EXCEPT ![q] = s] /\ req \in [Requests -> ReqStates]
  BY DEF Goes, ReqOK, Shape
<1>2. req' \in [Requests -> ReqStates] /\ req'[q] = s /\ \A p \in Requests \ {q} : req'[p] = req[p]
  BY <1>1
<1>3. \A p \in Requests : ReqOK(req'[p])
  BY <1>1, <1>2 DEF Shape
<1>4. serial' \in BOOLEAN /\ crashed' \in BOOLEAN
  BY DEF Goes, Shape
<1> QED BY <1>2, <1>3, <1>4 DEF Shape

\* Numbers stay in order when nothing is appended and nothing about to be.
LEMMA NothingAppended ==
  ASSUME Numbered, NEW q \in Requests, NEW s, UNCHANGED log,
         req'[q] = s, \A p \in Requests \ {q} : req'[p] = req[p],
         LastEvent(req[q]) => LastEvent(s), Over(req[q]) => Over(s),
         s.pc = "insert" => \E n \in Nat : Numbers(s.run) = 1..n /\ s.next = n + 1
  PROVE  Numbered'
<1>1. Cardinality(Spent) <= Cardinality(Spent')
  BY SpentGrows
<1>2. Cardinality(Spent) \in Nat /\ Cardinality(Spent') \in Nat
  BY SpentFinite, SpentFiniteNext
<1>3. ASSUME NEW id \in Ids
      PROVE  \E n \in Nat :
               /\ n <= Cardinality(Spent') /\ Numbers(id)' = 1..n
               /\ \A p \in Requests : At(p, "insert")' /\ req'[p].run = id
                                        => req'[p].next \in 1..(n + 1)
  <2>1. PICK n \in Nat :
          /\ n <= Cardinality(Spent) /\ Numbers(id) = 1..n
          /\ \A p \in Requests : At(p, "insert") /\ req[p].run = id => req[p].next \in 1..(n + 1)
    BY DEF Numbered
  <2>2. Numbers(id)' = 1..n
    BY <2>1 DEF Numbers
  <2>3. ASSUME NEW p \in Requests, At(p, "insert")', req'[p].run = id
        PROVE  req'[p].next \in 1..(n + 1)
    <3>1. CASE p # q
      BY <2>1, <2>3, <3>1 DEF At
    <3>2. CASE p = q
      <4>1. PICK m \in Nat : Numbers(id) = 1..m /\ s.next = m + 1
        BY <2>3, <3>2 DEF At
      <4>2. m = n
        BY <2>1, <4>1, LastIs
      <4> QED BY <3>2, <4>1, <4>2
    <3> QED BY <3>1, <3>2
  <2>4. n <= Cardinality(Spent')
    BY <1>1, <1>2, <2>1
  <2> QED BY <2>2, <2>3, <2>4
<1> QED BY <1>3 DEF Numbered

\* Steps that leave the rows and the logs alone.
LEMMA QuietKeeps ==
  ASSUME GInv, NEW q \in Requests, NEW s, Goes(q, s), UNCHANGED <<runs, log>>,
         disk' \in [Ids -> SUBSET (0..Files)], torn' \in SUBSET Ids,
         ~LastEvent(req[q]), s.pc # "idle",
         s.pc = "insert" => \E n \in Nat : Numbers(s.run) = 1..n /\ s.next = n + 1,
         s.pc \in Holding => s.run = q \/ Exists(s.run),
         s.pc \in Telling => Exists(s.run)
  PROVE  GInv'
<1>1. /\ runs' \in [Ids -> Row \cup {None}] /\ \A id \in Ids : Exists(id)' => RowOK(id, runs'[id])
      /\ log' \in [Ids -> Seq(Entries)]
  BY DEF GInv, Shape, Exists
<1>2. Shape' /\ req'[q] = s /\ \A p \in Requests \ {q} : req'[p] = req[p]
  BY <1>1, OneMoves DEF GInv
<1>3. Numbered'
  <2>1. ~Over(req[q])
    BY DEF Over, LastEvent
  <2> QED BY <1>2, <2>1, NothingAppended DEF GInv
<1>4. Begun'
  <2>1. ASSUME NEW p \in Requests
        PROVE  /\ At(p, "idle")' => ~Exists(p)'
               /\ req'[p].pc \in Holding => req'[p].run = p \/ Exists(req[p].run)'
               /\ req'[p].pc \in Telling => Exists(req[p].run)'
    <3>1. CASE p = q
      BY <1>2, <3>1 DEF At, Exists
    <3>2. CASE p # q
      BY <1>2, <3>2 DEF GInv, Begun, At, Exists
    <3> QED BY <3>1, <3>2
  <2> QED BY <2>1 DEF GInv, Begun, Exists
<1> QED BY <1>2, <1>3, <1>4 DEF GInv

LEMMA ArrivalKeeps ==
  ASSUME GInv, NEW q \in Requests, NEW s, Arrival(q, s)
  PROVE  GInv'
<1>1. Goes(q, s) /\ UNCHANGED <<runs, log, disk, torn>> /\ At(q, "idle")
  BY DEF Arrival, Goes, Arrives
<1>2. ~LastEvent(req[q])
  BY <1>1 DEF At, LastEvent, Telling
<1>3. s.pc \in {"failed", "save", "wipe"} /\ (s.pc \in Holding => s.run = q \/ Exists(s.run))
  BY EndedIsOK DEF Arrival, Holding
<1>4. disk' \in [Ids -> SUBSET (0..Files)] /\ torn' \in SUBSET Ids
  BY <1>1 DEF GInv, Shape
<1> QED BY <1>1, <1>2, <1>3, <1>4, QuietKeeps DEF Telling

\* A request with a copy in hand knows its run, or creates it.
LEMMA BundleKeeps ==
  ASSUME GInv, NEW q \in Requests, NEW s,
         Wiping(q, s) \/ Writing(q, s) \/ Checking(q, s)
  PROVE  GInv'
<1>1. Goes(q, s) /\ UNCHANGED <<runs, log>> /\ req[q].pc \in {"wipe", "write", "check"}
  BY DEF Wiping, Writing, Checking, At
<1>2. ~LastEvent(req[q])
  BY <1>1 DEF LastEvent, Telling
<1>3. PICK o \in ReqStates : o = req[q] /\ ReqOK(o) /\ o.run \in Ids /\ (o.run = q \/ Exists(o.run))
  BY <1>1, Typed DEF GInv, Begun, Holding
<1>4. s = Fresh("failed") \/ s.run = o.run
  BY <1>3 DEF Wiping, Writing, Checking, Same
<1>5. s.pc \in {"failed", "write", "check", "save"}
  BY EndedIsOK DEF Wiping, Writing, Checking
<1>6. disk \in [Ids -> SUBSET (0..Files)] /\ torn \in SUBSET Ids /\ Files \in Nat \ {0}
  BY WorkflowAssumption DEF GInv, Shape
<1>7. disk' \in [Ids -> SUBSET (0..Files)]
  <2>1. CASE Wiping(q, s)
    <3>1. 0 \in 0..Files
      BY <1>6
    <3>2. CASE UNCHANGED disk
      BY <1>6, <3>2
    <3>3. CASE disk' = [disk EXCEPT ![o.run] = {0}]
      BY <1>3, <1>6, <3>1, <3>3
    <3>4. CASE \E rest \in SUBSET (0..Files) : disk' = [disk EXCEPT ![o.run] = rest]
      BY <1>3, <1>6, <3>4
    <3> QED BY <1>3, <2>1, <3>2, <3>3, <3>4 DEF Wiping
  <2>2. CASE Writing(q, s)
    <3>1. {0, o.next} \subseteq 0..Files
      BY <1>3, <1>6, <2>2 DEF Writing, At, ReqOK
    <3> QED BY <1>3, <1>6, <2>2, <3>1 DEF Writing
  <2>3. CASE Checking(q, s)
    BY <1>6, <2>3 DEF Checking
  <2> QED BY <2>1, <2>2, <2>3
<1>8. s.pc \in Holding => s.run = q \/ Exists(s.run)
  BY <1>3, <1>4, EndedIsOK DEF Holding
<1>9. torn' \in SUBSET Ids
  BY <1>3, <1>6 DEF Wiping, Writing, Checking
<1> QED BY <1>1, <1>2, <1>5, <1>7, <1>8, <1>9, QuietKeeps DEF Telling

LEMMA SavingKeeps ==
  ASSUME GInv, NEW q \in Requests, NEW s, Saving(q, s)
  PROVE  GInv'
<1>1. PICK o \in ReqStates :
        /\ o = req[q] /\ o.pc = "save" /\ ReqOK(o) /\ o.run \in Ids
        /\ (o.run = q \/ Exists(o.run)) /\ o.copy \in Row /\ RowOK(o.run, o.copy)
  BY Typed DEF Saving, At, GInv, Begun, Holding, ReqOK, RowOK
<1>2. Goes(q, s) /\ runs' = [runs EXCEPT ![o.run] = o.copy] /\ UNCHANGED <<log, disk, torn>>
  BY <1>1 DEF Saving
<1>3. runs \in [Ids -> Row \cup {None}] /\ o.copy # None
  BY <1>1, NoneIsNoRow DEF GInv, Shape
<1>4. /\ runs' \in [Ids -> Row \cup {None}]
      /\ runs'[o.run] = o.copy /\ \A id \in Ids \ {o.run} : runs'[id] = runs[id]
  BY <1>1, <1>2, <1>3
<1>5. /\ \A id \in Ids : Exists(id)' => RowOK(id, runs'[id])
      /\ log' \in [Ids -> Seq(Entries)] /\ disk' \in [Ids -> SUBSET (0..Files)] /\ torn' \in SUBSET Ids
  BY <1>1, <1>2, <1>4 DEF GInv, Shape, Exists
<1>6. Shape' /\ req'[q] = s /\ \A p \in Requests \ {q} : req'[p] = req[p]
  BY <1>2, <1>4, <1>5, OneMoves DEF GInv
<1>7. s.pc \in {"failed", "select"} /\ (s.pc = "select" => s.run = o.run)
  BY <1>1, EndedIsOK DEF Saving, Same
<1>8. Numbered'
  <2>1. ~LastEvent(req[q]) /\ ~Over(req[q])
    BY <1>1 DEF LastEvent, Over, Telling
  <2> QED BY <1>2, <1>6, <1>7, <2>1, NothingAppended DEF GInv
<1>9. \A id \in Ids : Exists(id) => Exists(id)'
  BY <1>3, <1>4 DEF Exists
<1>10. Exists(o.run)'
  BY <1>3, <1>4 DEF Exists
<1>11. ASSUME NEW id \in Ids, ~Exists(id)' PROVE log'[id] = <<>>
  BY <1>2, <1>9, <1>11 DEF GInv, Begun
<1>12. ASSUME NEW p \in Requests
       PROVE  /\ At(p, "idle")' => ~Exists(p)'
              /\ req'[p].pc \in Holding => req'[p].run = p \/ Exists(req[p].run)'
              /\ req'[p].pc \in Telling => Exists(req[p].run)'
  <2>1. CASE p = q
    BY <1>6, <1>7, <1>10, <2>1 DEF At, Holding, Telling, Exists
  <2>2. CASE p # q
    <3>1. req'[p] = req[p] /\ req[p].run \in Ids /\ p \in Ids
      BY <1>6, <2>2, Typed DEF GInv
    <3>2. At(p, "idle") => o.run # p
      BY <1>1, <2>2 DEF GInv, Begun
    <3>3. At(p, "idle")' => ~Exists(p)'
      BY <1>4, <3>1, <3>2 DEF GInv, Begun, At, Exists
    <3>4. Exists(req[p].run) => Exists(req[p].run)'
      BY <1>9, <3>1 DEF Exists
    <3> QED BY <3>1, <3>3, <3>4 DEF GInv, Begun
  <2> QED BY <2>1, <2>2
<1>13. Begun'
  BY <1>11, <1>12 DEF Begun
<1> QED BY <1>6, <1>8, <1>13 DEF GInv

LEMMA SelectingKeeps ==
  ASSUME GInv, NEW q \in Requests, NEW s, Selecting(q, s)
  PROVE  GInv'
<1>1. PICK o \in ReqStates :
        /\ o = req[q] /\ o.pc = "select" /\ ReqOK(o) /\ o.run \in Ids /\ Exists(o.run)
  BY Typed DEF Selecting, At, GInv, Begun, Telling
<1>2. /\ Goes(q, s) /\ UNCHANGED <<runs, log, disk, torn>> /\ s.pc = "insert" /\ s.run = o.run
      /\ s.events = o.events /\ s.next = Last(o.run) + 1
  BY <1>1 DEF Selecting, Same
<1>3. PICK n \in Nat : Numbers(o.run) = 1..n
  BY <1>1 DEF GInv, Numbered
<1>4. Last(o.run) = n
  BY <1>3, LastIs
<1>5. /\ runs' \in [Ids -> Row \cup {None}] /\ \A id \in Ids : Exists(id)' => RowOK(id, runs'[id])
      /\ log' \in [Ids -> Seq(Entries)] /\ disk' \in [Ids -> SUBSET (0..Files)] /\ torn' \in SUBSET Ids
  BY <1>2 DEF GInv, Shape, Exists
<1>6. Shape' /\ req'[q] = s /\ \A p \in Requests \ {q} : req'[p] = req[p]
  BY <1>2, <1>5, OneMoves DEF GInv
<1>7. Numbered'
  <2>1. (LastEvent(req[q]) => LastEvent(s)) /\ ~Over(req[q])
    BY <1>1, <1>2 DEF LastEvent, Over, Telling
  <2> QED BY <1>2, <1>3, <1>4, <1>6, <2>1, NothingAppended DEF GInv
<1>8. Begun'
  <2>1. ASSUME NEW p \in Requests
        PROVE  /\ At(p, "idle")' => ~Exists(p)'
               /\ req'[p].pc \in Holding => req'[p].run = p \/ Exists(req[p].run)'
               /\ req'[p].pc \in Telling => Exists(req[p].run)'
    <3>1. CASE p = q
      BY <1>1, <1>2, <1>6, <3>1 DEF At, Exists, Holding
    <3>2. CASE p # q
      BY <1>2, <1>6, <3>2 DEF GInv, Begun, At, Exists
    <3> QED BY <3>1, <3>2
  <2> QED BY <1>2, <2>1 DEF GInv, Begun, Exists
<1> QED BY <1>6, <1>7, <1>8 DEF GInv

\* What appending an entry does to a log.
LEMMA Appended ==
  ASSUME NEW l \in Seq(Entries), NEW e \in Entries
  PROVE  /\ Append(l, e) \in Seq(Entries) /\ Len(l) \in Nat
         /\ DOMAIN l = 1..Len(l) /\ DOMAIN Append(l, e) = 1..(Len(l) + 1)
         /\ Append(l, e)[Len(l) + 1] = e
         /\ \A i \in 1..Len(l) : Append(l, e)[i] = l[i]
OBVIOUS

\* The entry that q appends.
LEMMA EntryTyped ==
  ASSUME GInv, NEW q \in Requests, At(q, "insert")
  PROVE  /\ [no |-> req[q].next, kind |-> Head(req[q].events)] \in Entries
         /\ log[req[q].run] \in Seq(Entries)
<1>1. PICK o \in ReqStates : o = req[q] /\ o.pc = "insert" /\ ReqOK(o) /\ o.run \in Ids
  BY Typed DEF GInv, At
<1>2. PICK n \in Nat : o.next \in 1..(n + 1)
  BY <1>1 DEF GInv, Numbered
<1>3. o.next \in Nat \ {0}
  BY <1>2
<1>4. Head(o.events) \in Kinds
  BY <1>1, ListFacts DEF ReqOK, Telling, ReqStates
<1> QED BY <1>1, <1>3, <1>4 DEF Entries, GInv, Shape

\* An event is behind q that was not.
LEMMA OneMoreSpent ==
  ASSUME GInv, NEW q \in Requests, NEW s, Inserting(q, s),
         req'[q] = s, \A p \in Requests \ {q} : req'[p] = req[p]
  PROVE  Cardinality(Spent) + 1 <= Cardinality(Spent')
<1>1. PICK o \in ReqStates :
        /\ o = req[q] /\ o.pc = "insert" /\ ReqOK(o) /\ o.events \in EventLists /\ o.events # <<>>
  BY Typed DEF Inserting, At, GInv, ReqOK, Telling, ReqStates
<1>2. ~Over(o)
  BY <1>1 DEF Over
<1>3. LastEvent(s) /\ (LastEvent(o) => Over(s))
  <2>1. CASE s = Fresh("done")
    BY <2>1, EndedIsOK DEF LastEvent, Over
  <2>2. CASE s.pc = "select" /\ s.events = Tail(o.events) /\ s.events # <<>>
    BY <1>1, <2>2, ListFacts DEF LastEvent, Over, Telling
  <2> QED BY <1>1, <2>1, <2>2 DEF Inserting
<1>4. Spent \subseteq Spent'
  BY <1>1, <1>2, <1>3, SpentGrows
<1>5. \E u : u \in Spent' /\ u \notin Spent
  <2>1. CASE LastEvent(o)
    <3>1. <<q, 2>> \in Spent' /\ <<q, 2>> \notin Spent
      BY <1>1, <1>2, <1>3, <2>1 DEF Spent
    <3> QED BY <3>1
  <2>2. CASE ~LastEvent(o)
    <3>1. <<q, 1>> \in Spent' /\ <<q, 1>> \notin Spent
      BY <1>1, <1>3, <2>2 DEF Spent
    <3> QED BY <3>1
  <2> QED BY <2>1, <2>2
<1>6. PICK u : u \in Spent' /\ u \notin Spent
  BY <1>5
<1>7. Spent \cup {u} \in SUBSET Spent'
  BY <1>4, <1>6
<1>8. Cardinality(Spent \cup {u}) = Cardinality(Spent) + 1
  BY <1>6, SpentFinite, FS_AddElement
<1>9. Cardinality(Spent \cup {u}) <= Cardinality(Spent')
  BY <1>7, SpentFiniteNext, FS_Subset
<1> QED BY <1>8, <1>9

LEMMA InsertingKeeps ==
  ASSUME GInv, NEW q \in Requests, NEW s, Inserting(q, s)
  PROVE  GInv'
<1>1. PICK o \in ReqStates :
        /\ o = req[q] /\ o.pc = "insert" /\ ReqOK(o) /\ o.run \in Ids /\ Exists(o.run)
  BY Typed DEF Inserting, At, GInv, Begun, Telling
<1>2. PICK e \in Entries : e = [no |-> o.next, kind |-> Head(o.events)] /\ e.no = o.next
  BY <1>1, EntryTyped DEF Inserting
<1>3. /\ Goes(q, s) /\ UNCHANGED <<runs, disk, torn>>
      /\ log' = [log EXCEPT ![o.run] = Append(log[o.run], e)]
      /\ s.pc \in {"done", "select"} /\ (s.pc = "select" => s.run = o.run)
  BY <1>1, <1>2, EndedIsOK DEF Inserting
<1>4. log \in [Ids -> Seq(Entries)] /\ log[o.run] \in Seq(Entries)
  BY <1>1 DEF GInv, Shape
<1>5. /\ log' \in [Ids -> Seq(Entries)] /\ log'[o.run] = Append(log[o.run], e)
      /\ \A id \in Ids \ {o.run} : log'[id] = log[id]
  BY <1>1, <1>3, <1>4, Appended
<1>6. /\ runs' \in [Ids -> Row \cup {None}] /\ \A id \in Ids : Exists(id)' => RowOK(id, runs'[id])
      /\ disk' \in [Ids -> SUBSET (0..Files)] /\ torn' \in SUBSET Ids
  BY <1>3 DEF GInv, Shape, Exists
<1>7. Shape' /\ req'[q] = s /\ \A p \in Requests \ {q} : req'[p] = req[p]
  BY <1>3, <1>5, <1>6, OneMoves DEF GInv
<1>8. Cardinality(Spent) + 1 <= Cardinality(Spent')
  BY <1>7, OneMoreSpent
<1>9. Cardinality(Spent) \in Nat /\ Cardinality(Spent') \in Nat
  BY SpentFinite, SpentFiniteNext
<1>10. ASSUME NEW id \in Ids
       PROVE  \E n \in Nat :
                /\ n <= Cardinality(Spent') /\ Numbers(id)' = 1..n
                /\ \A p \in Requests : At(p, "insert")' /\ req'[p].run = id
                                         => req'[p].next \in 1..(n + 1)
  <2>1. PICK n \in Nat :
          /\ n <= Cardinality(Spent) /\ Numbers(id) = 1..n
          /\ \A p \in Requests : At(p, "insert") /\ req[p].run = id => req[p].next \in 1..(n + 1)
    BY DEF GInv, Numbered
  <2>2. \A p \in Requests : At(p, "insert")' /\ req'[p].run = id => req'[p].next \in 1..(n + 1)
    BY <1>3, <1>7, <2>1 DEF At
  <2>3. CASE id # o.run
    <3>1. Numbers(id)' = 1..n
      BY <1>5, <2>1, <2>3 DEF Numbers
    <3>2. n <= Cardinality(Spent')
      BY <1>8, <1>9, <2>1
    <3> QED BY <2>2, <3>1, <3>2
  <2>4. CASE id = o.run
    <3>1. Numbers(id)' = Numbers(id) \cup {o.next}
      <4>1. /\ DOMAIN log[id] = 1..Len(log[id]) /\ DOMAIN log'[id] = 1..(Len(log[id]) + 1)
            /\ log'[id][Len(log[id]) + 1] = e /\ Len(log[id]) \in Nat
            /\ \A i \in 1..Len(log[id]) : log'[id][i] = log[id][i]
        <5>1. PICK l \in Seq(Entries) : l = log[id] /\ log'[id] = Append(l, e)
          BY <1>4, <1>5, <2>4
        <5>2. /\ Len(l) \in Nat /\ DOMAIN l = 1..Len(l) /\ DOMAIN Append(l, e) = 1..(Len(l) + 1)
              /\ Append(l, e)[Len(l) + 1] = e /\ \A i \in 1..Len(l) : Append(l, e)[i] = l[i]
          BY Appended
        <5> QED BY <5>1, <5>2
      <4>2. ASSUME NEW i \in DOMAIN log'[id] PROVE log'[id][i].no \in Numbers(id) \cup {o.next}
        <5>1. i \in DOMAIN log[id] \/ i = Len(log[id]) + 1
          BY <4>1
        <5> QED BY <1>2, <4>1, <5>1 DEF Numbers
      <4>3. ASSUME NEW m \in Numbers(id) \cup {o.next} PROVE m \in Numbers(id)'
        <5>1. CASE m = o.next
          <6>1. Len(log[id]) + 1 \in DOMAIN log'[id] /\ log'[id][Len(log[id]) + 1].no = o.next
            BY <1>2, <4>1
          <6> QED BY <5>1, <6>1 DEF Numbers
        <5>2. CASE m \in Numbers(id)
          <6>1. PICK i \in DOMAIN log[id] : m = log[id][i].no
            BY <5>2 DEF Numbers
          <6>2. i \in DOMAIN log'[id] /\ m = log'[id][i].no
            BY <4>1, <6>1
          <6> QED BY <6>2 DEF Numbers
        <5> QED BY <5>1, <5>2
      <4> QED BY <4>2, <4>3 DEF Numbers
    <3>2. o.next \in 1..(n + 1)
      BY <1>1, <2>1, <2>4 DEF At
    <3>3. CASE o.next \in 1..n
      <4>1. Numbers(id)' = 1..n
        BY <2>1, <3>1, <3>3
      <4>2. n <= Cardinality(Spent')
        BY <1>8, <1>9, <2>1
      <4> QED BY <2>2, <4>1, <4>2
    <3>4. CASE o.next = n + 1
      <4>1. PICK k \in Nat : k = n + 1
        OBVIOUS
      <4>2. Numbers(id)' = 1..k
        BY <2>1, <3>1, <3>4, <4>1
      <4>3. k <= Cardinality(Spent')
        BY <1>8, <1>9, <2>1, <4>1
      <4>4. 1..(n + 1) \subseteq 1..(k + 1)
        BY <4>1
      <4> QED BY <2>2, <4>2, <4>3, <4>4
    <3> QED BY <3>2, <3>3, <3>4
  <2> QED BY <2>3, <2>4
<1>11. Numbered'
  BY <1>10 DEF Numbered
<1>12. Begun'
  <2>1. ASSUME NEW p \in Requests
        PROVE  /\ At(p, "idle")' => ~Exists(p)'
               /\ req'[p].pc \in Holding => req'[p].run = p \/ Exists(req[p].run)'
               /\ req'[p].pc \in Telling => Exists(req[p].run)'
    <3>1. CASE p = q
      BY <1>1, <1>3, <1>7, <3>1 DEF At, Exists, Holding, Telling
    <3>2. CASE p # q
      BY <1>3, <1>7, <3>2 DEF GInv, Begun, At, Exists
    <3> QED BY <3>1, <3>2
  <2>2. \A id \in Ids : ~Exists(id)' => log'[id] = <<>>
    BY <1>1, <1>3, <1>5 DEF GInv, Begun, Exists
  <2> QED BY <2>1, <2>2 DEF Begun
<1> QED BY <1>7, <1>11, <1>12 DEF GInv

\* A restart ends what was under way.
LEMMA RestartKeeps ==
  ASSUME GInv, Restart
  PROVE  GInv'
<1>1. /\ req' = [q \in Requests |-> IF Ended(q) THEN req[q] ELSE Fresh("gone")]
      /\ UNCHANGED <<serial, runs, log, disk>> /\ crashed' = TRUE
      /\ torn' \in SUBSET Ids
  BY Typed DEF Restart, GInv, Shape, ReqStates
<1>2. ReqOK(Fresh("gone")) /\ Fresh("gone").pc = "gone"
  BY EndedIsOK
<1>3. ASSUME NEW q \in Requests
      PROVE  /\ ReqOK(req'[q]) /\ req'[q] \in ReqStates
             /\ req'[q].pc \notin Holding /\ req'[q].pc \notin Telling
             /\ At(q, "idle")' => At(q, "idle")
             /\ LastEvent(req[q]) => LastEvent(req'[q])
             /\ Over(req[q]) => Over(req'[q])
  <2>1. CASE Ended(q)
    <3>1. req'[q] = req[q]
      BY <1>1, <2>1
    <3> QED BY <2>1, <3>1, Typed DEF GInv, Ended, At, Holding, Telling
  <2>2. CASE ~Ended(q)
    <3>1. req'[q] = Fresh("gone")
      BY <1>1, <2>2
    <3> QED BY <1>2, <3>1 DEF At, Holding, Telling, LastEvent, Over, ReqOK
  <2> QED BY <2>1, <2>2
<1>4. Shape'
  <2>1. req' \in [Requests -> ReqStates]
    BY <1>1, <1>3
  <2> QED BY <1>1, <1>3, <2>1 DEF GInv, Shape, Exists
<1>5. Begun'
  BY <1>1, <1>3 DEF GInv, Begun, Exists
<1>6. Numbered'
  <2>1. Cardinality(Spent) <= Cardinality(Spent')
    BY <1>3, SpentGrows
  <2>2. Cardinality(Spent) \in Nat /\ Cardinality(Spent') \in Nat
    BY SpentFinite, SpentFiniteNext
  <2>3. ASSUME NEW id \in Ids
        PROVE  \E n \in Nat :
                 /\ n <= Cardinality(Spent') /\ Numbers(id)' = 1..n
                 /\ \A p \in Requests : At(p, "insert")' /\ req'[p].run = id
                                          => req'[p].next \in 1..(n + 1)
    <3>1. PICK n \in Nat : n <= Cardinality(Spent) /\ Numbers(id) = 1..n
      BY DEF GInv, Numbered
    <3>2. Numbers(id)' = 1..n
      BY <1>1, <3>1 DEF Numbers
    <3>3. n <= Cardinality(Spent')
      BY <2>1, <2>2, <3>1
    <3>4. \A p \in Requests : ~At(p, "insert")'
      BY <1>3 DEF At, Telling
    <3> QED BY <3>2, <3>3, <3>4
  <2> QED BY <2>3 DEF Numbered
<1> QED BY <1>4, <1>5, <1>6 DEF GInv

\* Every step of a request is one of these.
LEMMA Steps ==
  ASSUME GInv, NEW q \in Requests, Step(q)
  PROVE  \E s : \/ Arrival(q, s) \/ Wiping(q, s) \/ Writing(q, s) \/ Checking(q, s)
                \/ Saving(q, s) \/ Selecting(q, s) \/ Inserting(q, s)
<1>1. Last(req[q].run) \in Nat
  <2>1. PICK n \in Nat : Numbers(req[q].run) = 1..n
    BY Typed DEF GInv, Numbered
  <2> QED BY <2>1, LastIs
<1> QED BY <1>1, CreateArrives, ReviseArrives, ApproveArrives, RejectArrives, MaterializeArrives,
           WipeGoes, WriteGoes, FailGoes, CheckGoes, SaveGoes, SelectGoes, InsertGoes DEF Step, GInv

LEMMA GInvStays == GInv /\ [Next]_vars => GInv'
<1> SUFFICES ASSUME GInv, [Next]_vars PROVE GInv'
  OBVIOUS
<1>1. ASSUME NEW q \in Requests, Step(q) PROVE GInv'
  BY <1>1, Steps, ArrivalKeeps, BundleKeeps, SavingKeeps, SelectingKeeps, InsertingKeeps
<1>2. CASE UNCHANGED vars
  <2>1. /\ UNCHANGED <<serial, runs, log, disk, torn, req, crashed>> /\ Spent' = Spent
        /\ \A id : Numbers(id)' = Numbers(id)
    BY <1>2 DEF vars, Spent, Numbers
  <2>2. Shape' /\ Begun'
    BY <2>1 DEF GInv, Shape, Begun, Exists, At
  <2>3. Numbered'
    BY <2>1 DEF GInv, Numbered, At
  <2> QED BY <2>2, <2>3 DEF GInv
<1> QED BY <1>1, <1>2, RestartKeeps DEF Next

LEMMA GInvInit == Init => GInv
<1> SUFFICES ASSUME Init PROVE GInv
  OBVIOUS
<1>1. ReqOK(Fresh("idle")) /\ Fresh("idle").pc = "idle" /\ Fresh("idle") \in ReqStates
  BY EndedIsOK DEF ReqOK
<1>2. \A q \in Requests : req[q] = Fresh("idle")
  BY DEF Init
<1>3. /\ runs \in [Ids -> Row \cup {None}] /\ \A id \in Requests : runs[id] = None
      /\ Exists(Legacy) => RowOK(Legacy, runs[Legacy])
  <2>1. PICK g \in Gates, proof \in BOOLEAN :
          \/ runs = [id \in Ids |-> None]
          \/ runs = [id \in Ids |-> IF id = Legacy
                     THEN [stage |-> "gate", gate |-> g, spec |-> TRUE, valid |-> TRUE,
                           evidence |-> proof, bundle |-> FALSE]
                     ELSE None]
    BY DEF Init
  <2>2. PICK r : r = [stage |-> "gate", gate |-> g, spec |-> TRUE, valid |-> TRUE,
                      evidence |-> proof, bundle |-> FALSE]
    OBVIOUS
  <2>3. g \in 0..3 /\ g # 0
    BY DEF Gates
  <2>4. r \in Row
    BY <2>2, <2>3 DEF Row
  <2>5. r.stage = "gate" /\ r.gate = g
    BY <2>2
  <2>6. RowOK(Legacy, r)
    BY <2>3, <2>4, <2>5 DEF RowOK
  <2>7. Legacy \in Ids /\ \A id \in Requests : id \in Ids /\ id # Legacy
    BY WorkflowAssumption DEF Ids
  <2>8. CASE runs = [id \in Ids |-> None]
    BY <2>7, <2>8 DEF Exists
  <2>9. CASE runs = [id \in Ids |-> IF id = Legacy THEN r ELSE None]
    BY <2>4, <2>6, <2>7, <2>9 DEF Exists
  <2> QED BY <2>1, <2>2, <2>8, <2>9
<1>4. Shape
  <2>1. \A id \in Ids : Exists(id) => RowOK(id, runs[id])
    BY <1>3 DEF Ids, Exists
  <2>2. <<>> \in Seq(Entries) /\ {} \in SUBSET (0..Files)
    OBVIOUS
  <2> QED BY <1>1, <1>2, <1>3, <2>1, <2>2 DEF Shape, Init
<1>5. Begun
  BY <1>1, <1>2, <1>3 DEF Begun, Init, Exists, Holding, Telling
<1>6. Numbered
  <2>1. ASSUME NEW id \in Ids PROVE Numbers(id) = 1..0
    BY DEF Numbers, Init
  <2>2. \A q \in Requests : ~At(q, "insert")
    BY <1>1, <1>2 DEF At
  <2> QED BY <2>1, <2>2, SpentFinite DEF Numbered
<1> QED BY <1>4, <1>5, <1>6 DEF GInv

-----------------------------------------------------------------------------
(* Requests that come one at a time *)

\* The request that steps is the one under way, or there is none.
LEMMA TheOne ==
  ASSUME GInv, SerialInv, serial, NEW q \in Requests, Arrives(q) \/ ~Ended(q)
  PROVE  \E o \in ReqStates :
           /\ Good(o) /\ o.pc = req[q].pc /\ (~Ended(q) => o = req[q])
           /\ \A p \in Requests \ {q} : Ended(p)
<1>1. PICK o \in ReqStates : Alone(o) /\ Good(o)
  BY DEF SerialInv
<1>2. CASE Arrives(q)
  <2>1. At(q, "idle") /\ \A p \in Requests : Ended(p)
    BY <1>2 DEF Arrives
  <2>2. o = Fresh("idle")
    BY <1>1, <2>1 DEF Alone
  <2> QED BY <1>1, <2>1, <2>2, EndedIsOK DEF At
<1>3. CASE ~Ended(q)
  BY <1>1, <1>3 DEF Alone
<1> QED BY <1>2, <1>3

\* What is good with a request that has ended is good without it.
LEMMA GoodAtTheEnd ==
  ASSUME NEW s, Good(s)', s.pc \in {"idle", "done", "failed", "gone"}
  PROVE  Good(Fresh("idle"))'
<1>1. Fresh("idle").pc = "idle"
  BY EndedIsOK
<1>2. Finally(Fresh("idle"))'
  BY <1>1 DEF Finally, Holding
<1>3. InOrder(Fresh("idle"))'
  BY <1>1 DEF Good, InOrder
<1>4. Whole(Fresh("idle"))'
  BY <1>1 DEF Good, Whole
<1>5. Told(Fresh("idle"))'
  BY <1>1 DEF Good, Told, Holding, Telling
<1> QED BY <1>2, <1>3, <1>4, <1>5 DEF Good

\* The one that stepped is again the only one.
LEMMA StillTheOne ==
  ASSUME GInv, NEW q \in Requests, NEW s \in ReqStates, Good(s)', req' = [req EXCEPT ![q] = s],
         \A p \in Requests \ {q} : Ended(p)
  PROVE  SerialInv'
<1>1. req'[q] = s /\ \A p \in Requests \ {q} : Ended(p)'
  BY DEF GInv, Shape, Ended
<1>2. Fresh("idle") \in ReqStates
  BY EndedIsOK DEF ReqOK
<1>3. CASE Ended(q)'
  <2>1. s.pc \in {"idle", "done", "failed", "gone"}
    BY <1>1, <1>3 DEF Ended
  <2>2. Good(Fresh("idle"))'
    BY <2>1, GoodAtTheEnd
  <2>3. Alone(Fresh("idle"))'
    BY <1>1, <1>3 DEF Alone
  <2> QED BY <1>2, <2>2, <2>3 DEF SerialInv
<1>4. CASE ~Ended(q)'
  <2>1. Alone(s)'
    BY <1>1, <1>4 DEF Alone
  <2> QED BY <2>1 DEF SerialInv
<1> QED BY <1>3, <1>4

LEMMA ApprovalsTyped ==
  ASSUME GInv, NEW id \in Ids
  PROVE  Approvals(id) \in Nat /\ IsFiniteSet({i \in DOMAIN log[id] : log[id][i].kind = "approved"})
<1>1. PICK l \in Seq(Entries) : l = log[id]
  BY DEF GInv, Shape
<1>2. DOMAIN l = 1..Len(l) /\ Len(l) \in Nat
  OBVIOUS
<1>3. IsFiniteSet(DOMAIN l)
  BY <1>2, FS_Interval
<1>4. {i \in DOMAIN l : l[i].kind = "approved"} \in SUBSET (DOMAIN l)
  OBVIOUS
<1>5. IsFiniteSet({i \in DOMAIN l : l[i].kind = "approved"})
  BY <1>3, <1>4, FS_Subset
<1> QED BY <1>1, <1>5, FS_CardinalityType DEF Approvals

LEMMA ArrivalGood ==
  ASSUME GInv, NEW q \in Requests, NEW o \in ReqStates, Good(o), o.pc = "idle",
         NEW s, Arrival(q, s)
  PROVE  Good(s)'
<1>1. UNCHANGED <<serial, runs, log, disk, torn, crashed>> /\ s.pc \in {"failed", "save", "wipe"}
      /\ ReqOK(s) /\ s.run \in Ids
  BY EndedIsOK DEF Arrival, ReqOK, ReqStates
<1>2. CASE s = Fresh("failed")
  <2>1. s.pc = "failed"
    BY <1>2, EndedIsOK
  <2>2. Finally(s)' /\ InOrder(s)'
    BY <1>1, <2>1 DEF Finally, InOrder, Good, Holding
  <2>3. Whole(s)'
    BY <1>1, <2>1 DEF Whole, Good, Exists
  <2>4. Told(s)'
    BY <1>1, <2>1 DEF Told, Good, Exists, Approvals, Holding, Telling
  <2> QED BY <2>2, <2>3, <2>4 DEF Good
<1>3. CASE /\ s.pc = "save" /\ s.run = q /\ s.events # <<>> /\ Adds(s.events) = 0
           /\ ~s.copy.bundle /\ s.copy.gate \in {0, 1}
  <2>1. ~Exists(q) /\ log[q] = <<>> /\ q \in Ids
    BY DEF Arrival, Arrives, GInv, Begun, Ids
  <2>2. Finally(s)' /\ InOrder(s)'
    BY <1>1, <1>3, <2>1 DEF Finally, InOrder, Good, Exists
  <2>3. Whole(s)'
    BY <1>1, <1>3 DEF Whole, Good, Exists
  <2>4. Approvals(q) = 0
    BY <2>1, FS_EmptySet DEF Approvals
  <2>5. s.copy.gate # 0 => s.copy.gate = 1 + Approvals(s.run) + Adds(s.events)
    BY <1>3, <2>4
  <2>6. Told(s)'
    BY <1>1, <1>3, <2>5 DEF Told, Good, Exists, Approvals, Telling
  <2> QED BY <2>2, <2>3, <2>6 DEF Good
<1>4. CASE /\ s.pc \in {"save", "wipe"} /\ Exists(s.run)
           /\ s.copy.bundle = runs[s.run].bundle
           /\ runs[s.run].stage = "published" => s.copy.stage = "published"
           /\ runs[s.run].gate = 0 => s.copy.gate = 0
           /\ s.run # Legacy => s.copy.gate = runs[s.run].gate + Adds(s.events)
  <2>1. Finally(s)' /\ InOrder(s)'
    BY <1>1, <1>4 DEF Finally, InOrder, Good, Exists
  <2>2. Whole(s)'
    BY <1>1, <1>4 DEF Whole, Good, Exists
  <2>3. ASSUME ~crashed, s.run # Legacy, s.copy.gate # 0
        PROVE  s.copy.gate = 1 + Approvals(s.run) + Adds(s.events)
    <3>1. s.run \in Requests /\ runs[s.run].gate # 0
      BY <1>1, <1>4, <2>3 DEF Ids
    <3>2. runs[s.run].gate = 1 + Approvals(s.run) + 0
      BY <1>4, <2>3, <3>1 DEF Good, Told, Telling
    <3>3. PICK a \in Nat, d \in Nat : a = Approvals(s.run) /\ d = Adds(s.events)
      BY <1>1, ApprovalsTyped, ListFacts DEF ReqOK, ReqStates
    <3> QED BY <1>4, <2>3, <3>2, <3>3
  <2>4. Told(s)'
    BY <1>1, <1>4, <2>3 DEF Told, Good, Exists, Approvals, Telling
  <2> QED BY <2>1, <2>2, <2>4 DEF Good
<1> QED BY <1>2, <1>3, <1>4 DEF Arrival

\* The request wipes, or fails and the run is torn.
LEMMA WipingGood ==
  ASSUME GInv, NEW q \in Requests, NEW o \in ReqStates, Good(o), o = req[q],
         NEW s, Wiping(q, s)
  PROVE  Good(s)'
<1>1. UNCHANGED <<serial, runs, log, crashed>> /\ o.pc = "wipe" /\ o.run \in Ids
      /\ disk \in [Ids -> SUBSET (0..Files)]
  BY DEF Wiping, Goes, At, ReqStates, GInv, Shape
<1>2. CASE s = Fresh("failed")
  <2>1. s.pc = "failed"
    BY <1>2, EndedIsOK
  <2>2. Finally(s)' /\ InOrder(s)'
    BY <1>1, <2>1 DEF Finally, InOrder, Good, Holding
  <2>3. \A id \in Ids \ torn' : id \notin torn /\ disk'[id] = disk[id]
    <3>1. CASE UNCHANGED <<disk, torn>>
      BY <3>1
    <3>2. CASE /\ torn' = torn \cup {o.run}
               /\ \E rest \in SUBSET (0..Files) : disk' = [disk EXCEPT ![o.run] = rest]
      BY <1>1, <3>2
    <3> QED BY <1>2, <2>1, <3>1, <3>2 DEF Wiping
  <2>4. Whole(s)'
    BY <1>1, <2>1, <2>3 DEF Whole, Good, Exists
  <2>5. Told(s)'
    BY <1>1, <2>1 DEF Told, Good, Exists, Approvals, Holding, Telling
  <2> QED BY <2>2, <2>4, <2>5 DEF Good
<1>3. CASE /\ s.pc = "write" /\ s.next = 1 /\ Same(o, s)
           /\ disk' = [disk EXCEPT ![o.run] = {0}] /\ UNCHANGED torn
  <2>1. disk'[o.run] = {0} /\ \A id \in Ids \ {o.run} : disk'[id] = disk[id]
    BY <1>1, <1>3
  <2>2. Finally(s)' /\ InOrder(s)'
    BY <1>1, <1>3 DEF Finally, InOrder, Good, Holding, Same, Exists
  <2>3. Whole(s)'
    <3>1. 0..(s.next - 1) = {0}
      BY <1>3
    <3> QED BY <1>1, <1>3, <2>1, <3>1 DEF Whole, Good, Exists, Same
  <2>4. Told(s)'
    BY <1>1, <1>3 DEF Told, Good, Exists, Approvals, Holding, Telling, Same
  <2> QED BY <2>2, <2>3, <2>4 DEF Good
<1> QED BY <1>2, <1>3 DEF Wiping

\* The manifest is the last file, and with it the run is whole again.
LEMMA WritingGood ==
  ASSUME GInv, NEW q \in Requests, NEW o \in ReqStates, Good(o), o = req[q],
         NEW s, Writing(q, s)
  PROVE  Good(s)'
<1>1. /\ UNCHANGED <<serial, runs, log, crashed>> /\ o.pc = "write" /\ o.run \in Ids
      /\ disk \in [Ids -> SUBSET (0..Files)] /\ o.next \in 1..Files /\ Files \in Nat
  BY WorkflowAssumption DEF Writing, Goes, At, ReqStates, GInv, Shape, ReqOK
<1>2. CASE s = Fresh("failed") /\ torn' = torn \cup {o.run} /\ UNCHANGED disk
  <2>1. s.pc = "failed"
    BY <1>2, EndedIsOK
  <2>2. Finally(s)' /\ InOrder(s)'
    BY <1>1, <2>1 DEF Finally, InOrder, Good, Holding
  <2>3. Whole(s)'
    BY <1>1, <1>2, <2>1 DEF Whole, Good, Exists
  <2>4. Told(s)'
    BY <1>1, <2>1 DEF Told, Good, Exists, Approvals, Holding, Telling
  <2> QED BY <2>2, <2>3, <2>4 DEF Good
<1>3. CASE /\ Same(o, s) /\ s.next = o.next + 1
           /\ s.pc = IF o.next = Files THEN "check" ELSE "write"
           /\ disk' = [disk EXCEPT ![o.run] = disk[o.run] \cup {0, o.next}]
           /\ torn' = IF o.next = Files THEN torn \ {o.run} ELSE torn
  <2>1. disk'[o.run] = disk[o.run] \cup {0, o.next} /\ \A id \in Ids \ {o.run} : disk'[id] = disk[id]
    BY <1>1, <1>3
  <2>2. Finally(s)' /\ InOrder(s)'
    BY <1>1, <1>3 DEF Finally, InOrder, Good, Holding, Same, Exists
  <2>3. 0..o.next \subseteq disk'[o.run]
    <3>1. 0..o.next = (0..(o.next - 1)) \cup {o.next}
      BY <1>1
    <3> QED BY <1>1, <2>1, <3>1 DEF Good, Whole
  <2>4. s.pc = "check" => disk'[o.run] = 0..Files
    <3>1. disk[o.run] \subseteq 0..Files /\ o.next \in 0..Files /\ 0 \in 0..Files
      BY <1>1
    <3> QED BY <1>1, <1>3, <2>1, <2>3, <3>1
  <2>5. Whole(s)'
    <3>1. s.next - 1 = o.next /\ s.run = o.run /\ s.pc \in {"check", "write"}
      BY <1>1, <1>3 DEF Same
    <3>2. ASSUME NEW id \in Ids \ torn', Exists(id), runs[id].bundle,
                 ~(s.pc = "write" /\ s.run = id)
          PROVE  disk'[id] = 0..Files
      <4>1. CASE id = o.run
        BY <2>4, <3>1, <3>2, <4>1
      <4>2. CASE id # o.run
        BY <1>3, <2>1, <3>2, <4>2 DEF Good, Whole
      <4> QED BY <4>1, <4>2
    <3> QED BY <1>1, <2>3, <2>4, <3>1, <3>2 DEF Whole, Exists
  <2>6. Told(s)'
    BY <1>1, <1>3 DEF Told, Good, Exists, Approvals, Holding, Telling, Same
  <2> QED BY <2>2, <2>5, <2>6 DEF Good
<1> QED BY <1>2, <1>3 DEF Writing

\* What is recorded was just validated; a run without a spec has its files too.
LEMMA CheckingGood ==
  ASSUME GInv, NEW q \in Requests, NEW o \in ReqStates, Good(o), o = req[q],
         NEW s, Checking(q, s)
  PROVE  Good(s)'
<1>1. /\ UNCHANGED <<serial, runs, log, disk, torn, crashed>> /\ o.pc = "check" /\ o.events = <<>>
  BY DEF Checking, Goes, At, GInv, Shape, ReqOK
<1>2. CASE s = Fresh("failed")
  <2>1. s.pc = "failed"
    BY <1>2, EndedIsOK
  <2>2. Finally(s)' /\ InOrder(s)'
    BY <1>1, <2>1 DEF Finally, InOrder, Good, Holding
  <2>3. Whole(s)'
    BY <1>1, <2>1 DEF Whole, Good, Exists
  <2>4. Told(s)'
    BY <1>1, <2>1 DEF Told, Good, Exists, Approvals, Holding, Telling
  <2> QED BY <2>2, <2>3, <2>4 DEF Good
<1>3. CASE /\ s.pc = "save" /\ s.run = o.run /\ s.events # <<>> /\ Adds(s.events) = 0
           /\ s.copy.gate = o.copy.gate
           /\ o.copy.stage = "published" => s.copy.stage = "published"
  <2>1. Finally(s)' /\ InOrder(s)'
    BY <1>1, <1>3 DEF Finally, InOrder, Good, Holding, Exists
  <2>2. Whole(s)'
    BY <1>1, <1>3 DEF Whole, Good, Exists
  <2>3. Adds(o.events) = 0
    BY <1>1 DEF Adds
  <2>4. Told(s)'
    BY <1>1, <1>3, <2>3 DEF Told, Good, Exists, Approvals, Holding, Telling
  <2> QED BY <2>1, <2>2, <2>4 DEF Good
<1> QED BY <1>2, <1>3 DEF Checking

LEMMA SavingGood ==
  ASSUME GInv, NEW q \in Requests, NEW o \in ReqStates, Good(o), o = req[q],
         NEW s, Saving(q, s)
  PROVE  Good(s)'
<1>1. /\ UNCHANGED <<serial, log, disk, torn, crashed>> /\ o.pc = "save" /\ o.run \in Ids
      /\ runs' = [runs EXCEPT ![o.run] = o.copy] /\ runs \in [Ids -> Row \cup {None}]
  BY DEF Saving, Goes, At, ReqStates, GInv, Shape
<1>2. runs'[o.run] = o.copy /\ \A id \in Ids \ {o.run} : runs'[id] = runs[id]
  BY <1>1
<1>3. \/ s.pc = "failed" /\ o.events = <<>>
      \/ s.pc = "select" /\ Same(o, s)
  BY EndedIsOK DEF Saving
<1>4. Finally(s)' /\ InOrder(s)'
  BY <1>1, <1>3 DEF Finally, InOrder, Good, Holding
<1>5. Whole(s)'
  BY <1>1, <1>2, <1>3 DEF Whole, Good, Exists
<1>6. Told(s)'
  <2>1. ASSUME ~crashed, NEW id \in Requests, Exists(id)', runs'[id].gate # 0
        PROVE  runs'[id].gate = 1 + Approvals(id)
                 + (IF s.pc \in Telling /\ s.run = id THEN Adds(s.events) ELSE 0)
    <3>1. id \in Ids /\ id # Legacy
      BY WorkflowAssumption DEF Ids
    <3>2. CASE id # o.run
      BY <1>1, <1>2, <1>3, <2>1, <3>1, <3>2 DEF Good, Told, Exists, Same, Telling
    <3>3. CASE id = o.run
      <4>1. o.copy.gate = 1 + Approvals(id) + Adds(o.events)
        BY <1>1, <1>2, <2>1, <3>1, <3>3 DEF Good, Told, Holding
      <4>2. o.events = <<>> => Adds(o.events) = 0
        BY DEF Adds
      <4> QED BY <1>2, <1>3, <3>3, <4>1, <4>2 DEF Same, Telling
    <3> QED BY <3>2, <3>3
  <2> QED BY <1>1, <1>3, <2>1 DEF Told, Approvals, Holding
<1> QED BY <1>4, <1>5, <1>6 DEF Good

LEMMA SelectingGood ==
  ASSUME GInv, NEW q \in Requests, NEW o \in ReqStates, Good(o), o = req[q],
         NEW s, Selecting(q, s)
  PROVE  Good(s)'
<1>1. /\ UNCHANGED <<serial, runs, log, disk, torn, crashed>> /\ o.pc = "select" /\ o.run \in Ids
      /\ s.pc = "insert" /\ Same(o, s) /\ s.next = Last(o.run) + 1
  BY DEF Selecting, Goes, At, ReqStates
<1>2. Last(o.run) = Len(log[o.run])
  <2>1. PICK l \in Seq(Entries) : l = log[o.run]
    BY <1>1 DEF GInv, Shape
  <2>2. DOMAIN l = 1..Len(l) /\ Len(l) \in Nat /\ \A i \in DOMAIN l : l[i].no = i
    BY <1>1, <2>1 DEF Good, InOrder
  <2>3. Numbers(o.run) = 1..Len(l)
    BY <2>1, <2>2 DEF Numbers
  <2> QED BY <2>1, <2>2, <2>3, LastIs
<1>3. Finally(s)' /\ InOrder(s)'
  BY <1>1, <1>2 DEF Finally, InOrder, Good, Holding, Same
<1>4. Whole(s)'
  BY <1>1 DEF Whole, Good, Exists
<1>5. Told(s)'
  BY <1>1 DEF Told, Good, Exists, Approvals, Holding, Telling, Same
<1> QED BY <1>3, <1>4, <1>5 DEF Good

LEMMA InsertingGood ==
  ASSUME GInv, NEW q \in Requests, NEW o \in ReqStates, Good(o), o = req[q],
         NEW s, Inserting(q, s)
  PROVE  Good(s)'
<1>1. /\ UNCHANGED <<serial, runs, disk, torn, crashed>> /\ o.pc = "insert" /\ o.run \in Ids
      /\ ReqOK(o) /\ o.events \in EventLists /\ o.events # <<>>
      /\ log \in [Ids -> Seq(Entries)]
  BY DEF Inserting, Goes, At, ReqStates, GInv, Shape, ReqOK, Telling
<1>2. PICK e \in Entries : e = [no |-> o.next, kind |-> Head(o.events)] /\ e.no = o.next
                           /\ e.kind = Head(o.events)
  BY EntryTyped DEF Inserting
<1>3. log' = [log EXCEPT ![o.run] = Append(log[o.run], e)]
  BY <1>2 DEF Inserting
<1>4. PICK l \in Seq(Entries) : l = log[o.run] /\ log'[o.run] = Append(l, e)
  BY <1>1, <1>3
<1>5. \A id \in Ids \ {o.run} : log'[id] = log[id]
  BY <1>1, <1>3
<1>6. /\ Len(l) \in Nat /\ DOMAIN l = 1..Len(l) /\ DOMAIN Append(l, e) = 1..(Len(l) + 1)
      /\ Append(l, e)[Len(l) + 1] = e /\ \A i \in 1..Len(l) : Append(l, e)[i] = l[i]
  BY Appended
<1>7. s.pc \in {"done", "select"} /\ (s.pc = "select" => Adds(s.events) = 0)
  BY <1>1, EndedIsOK, ListFacts DEF Inserting
<1>8. InOrder(s)'
  <2>1. o.next = Len(l) + 1 /\ \A id \in Ids : \A i \in DOMAIN log[id] : log[id][i].no = i
    BY <1>1, <1>4 DEF Good, InOrder
  <2>2. ASSUME NEW i \in DOMAIN log'[o.run] PROVE log'[o.run][i].no = i
    <3>1. i \in 1..Len(l) \/ i = Len(l) + 1
      BY <1>4, <1>6
    <3> QED BY <1>1, <1>2, <1>4, <1>6, <2>1, <3>1
  <2> QED BY <1>5, <1>7, <2>1, <2>2 DEF InOrder
<1>9. Finally(s)' /\ Whole(s)'
  BY <1>1, <1>7 DEF Finally, Whole, Good, Exists, Holding
<1>10. Approvals(o.run)' = Approvals(o.run) + Adds(o.events)
  <2> DEFINE A == {i \in DOMAIN l : l[i].kind = "approved"}
  <2>1. Approvals(o.run) = Cardinality(A) /\ IsFiniteSet(A) /\ Cardinality(A) \in Nat
    BY <1>1, <1>4, ApprovalsTyped DEF Approvals
  <2>2. Len(l) + 1 \notin A
    BY <1>6
  <2>3. CASE Head(o.events) = "approved"
    <3>1. {i \in DOMAIN Append(l, e) : Append(l, e)[i].kind = "approved"} = A \cup {Len(l) + 1}
      BY <1>2, <1>6, <2>3
    <3>2. Adds(o.events) = 1
      BY <1>1, <2>3 DEF Adds
    <3>3. Cardinality(A \cup {Len(l) + 1}) = Cardinality(A) + 1
      BY <2>1, <2>2, FS_AddElement
    <3> QED BY <1>4, <2>1, <3>1, <3>2, <3>3 DEF Approvals
  <2>4. CASE Head(o.events) # "approved"
    <3>1. {i \in DOMAIN Append(l, e) : Append(l, e)[i].kind = "approved"} = A
      BY <1>2, <1>6, <2>4
    <3>2. Adds(o.events) = 0
      BY <1>1, <2>4 DEF Adds
    <3>3. Approvals(o.run)' = Cardinality(A)
      BY <1>4, <3>1 DEF Approvals
    <3>4. Cardinality(A) + 0 = Cardinality(A)
      BY <2>1
    <3> QED BY <2>1, <3>2, <3>3, <3>4
  <2> QED BY <2>3, <2>4
<1>11. Told(s)'
  <2>1. ASSUME ~crashed, NEW id \in Requests, Exists(id), runs[id].gate # 0
        PROVE  runs[id].gate = 1 + Approvals(id)'
                 + (IF s.pc \in Telling /\ s.run = id THEN Adds(s.events) ELSE 0)
    <3>1. id \in Ids
      BY DEF Ids
    <3>2. runs[id].gate = 1 + Approvals(id)
            + (IF o.pc \in Telling /\ o.run = id THEN Adds(o.events) ELSE 0)
      BY <2>1 DEF Good, Told
    <3>3. (IF s.pc \in Telling /\ s.run = id THEN Adds(s.events) ELSE 0) = 0
      BY <1>7 DEF Telling
    <3>4. PICK a \in Nat, d \in Nat : a = Approvals(id) /\ d = Adds(o.events)
      BY <1>1, <3>1, ApprovalsTyped, ListFacts
    <3>5. CASE id = o.run
      <4>1. runs[id].gate = 1 + a + d /\ Approvals(id)' = a + d
        BY <1>1, <1>10, <3>2, <3>4, <3>5 DEF Telling
      <4> QED BY <3>3, <3>4, <4>1
    <3>6. CASE id # o.run
      <4>1. Approvals(id)' = a
        BY <1>5, <3>1, <3>4, <3>6 DEF Approvals
      <4>2. runs[id].gate = 1 + a + 0
        BY <3>2, <3>4, <3>6
      <4> QED BY <3>3, <4>1, <4>2
    <3> QED BY <3>5, <3>6
  <2> QED BY <1>1, <1>7, <2>1 DEF Told, Exists, Holding
<1> QED BY <1>8, <1>9, <1>11 DEF Good

LEMMA RestartGood ==
  ASSUME GInv, SerialInv, Restart
  PROVE  SerialInv'
<1>1. /\ req' = [q \in Requests |-> IF Ended(q) THEN req[q] ELSE Fresh("gone")]
      /\ UNCHANGED <<serial, runs, log, disk>> /\ crashed' = TRUE
  BY DEF Restart
<1>2. SUFFICES ASSUME serial
               PROVE  Alone(Fresh("idle"))' /\ Good(Fresh("idle"))' /\ Fresh("idle") \in ReqStates
  BY <1>1 DEF SerialInv
<1>3. PICK o : Good(o) /\ Alone(o)
  BY <1>2 DEF SerialInv
<1>4. Fresh("idle").pc = "idle" /\ Fresh("gone").pc = "gone" /\ Fresh("idle") \in ReqStates
  BY EndedIsOK DEF ReqOK
<1>5. Alone(Fresh("idle"))'
  BY <1>1, <1>4 DEF Alone, Ended
<1>6. \A id \in Ids \ torn' : id \notin torn /\ ~(o.pc = "write" /\ o.run = id)
  BY <1>3, EndedIsOK DEF Restart, Alone, At
<1>7. Whole(Fresh("idle"))'
  BY <1>1, <1>3, <1>4, <1>6 DEF Good, Whole, Exists
<1>8. Good(Fresh("idle"))'
  BY <1>1, <1>3, <1>4, <1>7 DEF Good, Finally, InOrder, Told, Holding
<1> QED BY <1>4, <1>5, <1>8

LEMMA SerialStays == GInv /\ SerialInv /\ [Next]_vars => SerialInv'
<1> SUFFICES ASSUME GInv, SerialInv, [Next]_vars PROVE SerialInv'
  OBVIOUS
<1>1. ASSUME NEW q \in Requests, Step(q) PROVE SerialInv'
  <2>1. PICK s : \/ Arrival(q, s) \/ Wiping(q, s) \/ Writing(q, s) \/ Checking(q, s)
                 \/ Saving(q, s) \/ Selecting(q, s) \/ Inserting(q, s)
    BY <1>1, Steps
  <2>2. s \in ReqStates /\ req' = [req EXCEPT ![q] = s] /\ serial' = serial
    BY <2>1 DEF Arrival, Wiping, Writing, Checking, Saving, Selecting, Inserting, Goes, ReqOK
  <2>3. Arrival(q, s) => Arrives(q) /\ req[q].pc = "idle"
    BY DEF Arrival, Arrives, At
  <2>4. Wiping(q, s) \/ Writing(q, s) \/ Checking(q, s) \/ Saving(q, s) \/ Selecting(q, s)
        \/ Inserting(q, s) => ~Ended(q)
    BY DEF Wiping, Writing, Checking, Saving, Selecting, Inserting, At, Ended
  <2>5. CASE ~serial
    BY <2>2, <2>5 DEF SerialInv
  <2>6. CASE serial
    <3>1. PICK o \in ReqStates :
            /\ Good(o) /\ o.pc = req[q].pc /\ (~Ended(q) => o = req[q])
            /\ \A p \in Requests \ {q} : Ended(p)
      BY <2>1, <2>3, <2>4, <2>6, TheOne
    <3>2. Good(s)'
      BY <2>1, <2>3, <2>4, <3>1, ArrivalGood, WipingGood, WritingGood, CheckingGood, SavingGood,
         SelectingGood, InsertingGood
    <3> QED BY <2>2, <3>1, <3>2, StillTheOne
  <2> QED BY <2>5, <2>6
<1>2. CASE UNCHANGED vars
  <2>1. UNCHANGED <<serial, runs, log, disk, torn, req, crashed>>
    BY <1>2 DEF vars
  <2>2. ASSUME NEW o \in ReqStates, Alone(o), Good(o) PROVE Alone(o)' /\ Good(o)'
    <3>1. Alone(o)'
      BY <2>1, <2>2 DEF Alone, Ended
    <3>2. Finally(o)' /\ InOrder(o)' /\ Whole(o)'
      BY <2>1, <2>2 DEF Good, Finally, InOrder, Whole, Exists
    <3>3. Told(o)'
      BY <2>1, <2>2 DEF Good, Told, Exists, Approvals
    <3> QED BY <3>1, <3>2, <3>3 DEF Good
  <2> QED BY <2>1, <2>2 DEF SerialInv
<1> QED BY <1>1, <1>2, RestartGood DEF Next

LEMMA SerialInit == Init => SerialInv
<1> SUFFICES ASSUME Init PROVE SerialInv
  OBVIOUS
<1>1. Fresh("idle").pc = "idle" /\ Fresh("idle") \in ReqStates
  BY EndedIsOK DEF ReqOK
<1>2. Alone(Fresh("idle"))
  BY <1>1 DEF Init, Alone, Ended
<1>3. Finally(Fresh("idle")) /\ InOrder(Fresh("idle"))
  BY <1>1 DEF Finally, InOrder, Init, Holding
<1>4. \A id \in Ids : Exists(id) => id = Legacy /\ ~runs[id].bundle
  <2>1. PICK g \in Gates, proof \in BOOLEAN :
          \/ runs = [id \in Ids |-> None]
          \/ runs = [id \in Ids |-> IF id = Legacy
                     THEN [stage |-> "gate", gate |-> g, spec |-> TRUE, valid |-> TRUE,
                           evidence |-> proof, bundle |-> FALSE]
                     ELSE None]
    BY DEF Init
  <2> QED BY <2>1 DEF Exists
<1>5. Whole(Fresh("idle"))
  BY <1>1, <1>4 DEF Whole
<1>6. Told(Fresh("idle"))
  BY <1>1, <1>4, WorkflowAssumption DEF Told, Holding, Ids
<1> QED BY <1>1, <1>2, <1>3, <1>5, <1>6 DEF SerialInv, Good

-----------------------------------------------------------------------------
(* Theorems *)

\* The invariant holds in every behaviour.
THEOREM Invariance == Spec => []Inv
<1>1. Init => Inv
  BY GInvInit, SerialInit DEF Inv
<1>2. Inv /\ [Next]_vars => Inv'
  BY GInvStays, SerialStays DEF Inv
<1> QED BY <1>1, <1>2, PTL DEF Spec

\* No run that is created or revised today passes gate 2, however requests
\* overlap and wherever they are cut off by a restart, and no run of before is
\* published without evidence.
THEOREM Evidence == Spec => []PublishedHadEvidence
<1>1. Inv => PublishedHadEvidence
  <2> SUFFICES ASSUME Inv PROVE PublishedHadEvidence
    OBVIOUS
  <2>1. \A id \in Ids : Exists(id) => RowOK(id, runs[id])
    BY DEF Inv, GInv, Shape
  <2>2. Legacy \in Ids /\ \A id \in Requests : id \in Ids /\ id # Legacy
    BY WorkflowAssumption DEF Ids
  <2> QED BY <2>1, <2>2 DEF PublishedHadEvidence, RowOK
<1> QED BY <1>1, Invariance, PTL

\* The numbers of the events of a run have no gap, and are the places of the
\* events when requests wait for each other; and the log of a run can then be
\* replayed, unless a crash lost an event.
THEOREM LogSound == Spec => []LogIsSound
<1>1. Inv => TypeOK
  <2> SUFFICES ASSUME Inv PROVE TypeOK
    OBVIOUS
  <2>1. ASSUME NEW id \in Ids, NEW i \in DOMAIN log[id]
        PROVE  log[id][i] \in [no : 1..(2 * Cardinality(Requests)), kind : Kinds]
    <3>1. PICK l \in Seq(Entries) : l = log[id]
      BY DEF Inv, GInv, Shape
    <3>2. PICK e \in Entries : e = log[id][i]
      BY <2>1, <3>1
    <3>3. PICK n \in Nat : n <= Cardinality(Spent) /\ Numbers(id) = 1..n
      BY DEF Inv, GInv, Numbered
    <3>4. e.no \in 1..n
      BY <2>1, <3>2, <3>3 DEF Numbers
    <3>5. Cardinality(Requests) \in Nat
      BY FS_CardinalityType, WorkflowAssumption
    <3>6. e.no \in 1..(2 * Cardinality(Requests))
      BY <3>3, <3>4, <3>5, SpentFinite
    <3> QED BY <3>2, <3>6 DEF Entries
  <2>2. ASSUME NEW q \in Requests
        PROVE  req[q].copy \in Row \cup {None} /\ req[q].pc \in PCs
    BY Typed DEF Inv, GInv, ReqStates
  <2> QED BY <2>1, <2>2 DEF Inv, GInv, Shape, TypeOK, Kinds, PCs
<1>2. Inv => EventNumbers
  <2> SUFFICES ASSUME Inv, NEW id \in Ids
               PROVE  /\ Numbers(id) = 1..Last(id)
                      /\ serial => \A i \in DOMAIN log[id] : log[id][i].no = i
    BY DEF EventNumbers
  <2>1. PICK n \in Nat : Numbers(id) = 1..n
    BY DEF Inv, GInv, Numbered
  <2>2. Last(id) = n
    BY <2>1, LastIs
  <2>3. serial => \A i \in DOMAIN log[id] : log[id][i].no = i
    BY DEF Inv, SerialInv, Good, InOrder
  <2> QED BY <2>1, <2>2, <2>3
<1>3. Inv => LogTellsGate
  <2> SUFFICES ASSUME Inv, serial, ~crashed, \A q \in Requests : Ended(q),
                      NEW id \in Requests, Exists(id), runs[id].stage \in {"gate", "needs_revision"}
               PROVE  runs[id].gate = 1 + Approvals(id)
    BY DEF LogTellsGate, Approvals
  <2>1. PICK o \in ReqStates : Alone(o) /\ Good(o)
    BY DEF Inv, SerialInv
  <2>2. o = Fresh("idle") /\ o.pc = "idle"
    BY <2>1, EndedIsOK DEF Alone
  <2>3. id \in Ids /\ RowOK(id, runs[id])
    BY DEF Inv, GInv, Shape, Ids
  <2>4. runs[id].gate # 0
    BY <2>3 DEF RowOK
  <2>5. runs[id].gate = 1 + Approvals(id) + 0
    BY <2>1, <2>2, <2>4 DEF Good, Told, Telling
  <2>6. Approvals(id) \in Nat
    BY <2>3, ApprovalsTyped DEF Inv
  <2> QED BY <2>5, <2>6
<1>4. Inv => LogIsSound
  BY <1>1, <1>2, <1>3 DEF LogIsSound
<1> QED BY <1>4, Invariance, PTL

\* When requests wait for each other, what a run says was materialized is on
\* disk, all of it, but for a run whose last materialization an error or a
\* restart cut off while it wrote; the next one that writes to the end mends it.
THEOREM BundleWhole == Spec => []RecordedBundleIsWhole
<1>1. Inv => RecordedBundleIsWhole
  <2> SUFFICES ASSUME Inv, serial, NEW id \in Ids \ torn, Exists(id), runs[id].bundle,
                      \A q \in Requests : req[q].run = id => ~At(q, "write")
               PROVE  disk[id] = 0..Files
    BY DEF RecordedBundleIsWhole
  <2>1. PICK o \in ReqStates : Alone(o) /\ Good(o)
    BY DEF Inv, SerialInv
  <2>2. ~(o.pc = "write" /\ o.run = id)
    BY <2>1, EndedIsOK DEF Alone, At
  <2> QED BY <2>1, <2>2 DEF Good, Whole
<1> QED BY <1>1, Invariance, PTL

\* When requests wait for each other, a published run stays published.
THEOREM PublicationFinal == Spec => PublishedIsFinal
<1>1. Inv /\ [Next]_vars =>
        [\A id \in Ids :
           serial /\ Exists(id) /\ runs[id].stage = "published"
             => runs'[id].stage = "published"]_vars
  <2> SUFFICES ASSUME Inv, Next, NEW id \in Ids,
                      serial, Exists(id), runs[id].stage = "published"
               PROVE  runs'[id].stage = "published"
    BY DEF vars
  <2>1. CASE UNCHANGED runs
    BY <2>1
  <2>2. ASSUME NEW q \in Requests, NEW s, Saving(q, s)
        PROVE  runs'[id].stage = "published"
    <3>1. ~Ended(q) /\ req[q].pc = "save" /\ runs' = [runs EXCEPT ![req[q].run] = req[q].copy]
      BY <2>2 DEF Saving, At, Ended
    <3>2. Good(req[q])
      BY <3>1, TheOne DEF Inv
    <3>3. runs \in [Ids -> Row \cup {None}]
      BY DEF Inv, GInv, Shape
    <3>4. CASE id = req[q].run
      BY <3>1, <3>2, <3>3, <3>4 DEF Good, Finally, Holding
    <3>5. CASE id # req[q].run
      BY <3>1, <3>3, <3>5
    <3> QED BY <3>4, <3>5
  <2>3. ASSUME NEW q \in Requests, Step(q)
        PROVE  UNCHANGED runs \/ \E s : Saving(q, s)
    BY <2>3, Steps DEF Inv, Arrival, Wiping, Writing, Checking, Selecting, Inserting
  <2> QED BY <2>1, <2>2, <2>3 DEF Next, Restart
<1> QED BY <1>1, Invariance, PTL DEF Spec, PublishedIsFinal

=============================================================================
