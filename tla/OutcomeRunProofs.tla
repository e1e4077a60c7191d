-------------------------- MODULE OutcomeRunProofs --------------------------
(***************************************************************************)
(* The theorems of OutcomeRun, for any number of workers, snapshots and    *)
(* restarts, in three parts: what holds however the handlers overlap       *)
(* (Inv); what holds when requests come one at a time (SerialInv); and     *)
(* that the row then follows GateFlow (FlowInv). Restarts may come         *)
(* anywhere in all three.                                                  *)
(*                                                                         *)
(* With overlaps, copies of the row and of the graph's state may be        *)
(* arbitrarily old, and any of them may be saved over a newer one. The     *)
(* argument is that a copy is as good as what it was read from: approvals  *)
(* and snapshots are only ever added, so what was once earned (Earned,     *)
(* Linked) stays earned.                                                   *)
(*                                                                         *)
(* One at a time, nobody but the one handler under way changes the row, so *)
(* what it has read is still what is saved, and the gate it decides is the *)
(* gate the saved run is paused at until its decision is written back.     *)
(*                                                                         *)
(* For the refinement, a decision that takes eight reads and saves of the  *)
(* row, any of which may be the last before a restart, looks to the        *)
(* reviewer like one step of the gate flow, or like none. Approve is the   *)
(* guard of the resume (LoadRow); Advance, Fail and Reject are the saves   *)
(* of what the execution or the rejection left (KickOffSave, PersistSave); *)
(* Abandon is an exception or a restart. Every other step stutters.        *)
(***************************************************************************)
EXTENDS OutcomeRun, TLAPS

-----------------------------------------------------------------------------
(***************************************************************************)
(* Handlers that overlap                                                   *)
(***************************************************************************)

(* The inductive invariant *)

\* A state of the graph whose gates are among a.
Earned(s, a) ==
  /\ \A g \in Gates : s.phase > g => g \in a
  /\ s.status = "published" => s.phase = Published

\* A copy of the row that links one of the snapshots n, if it has to.
Linked(r, n) ==
  /\ r.snapshot # NoSnapshot => r.snapshot \in n
  /\ r.blob.status = "published" => r.snapshot # NoSnapshot

\* The places of a handler that holds a state of the graph.
Holding == {"execute", "kickoff_save", "load_row", "reload", "persist", "respond"}

\* An execution starts behind an approved gate, or is the first one; only
\* then may it walk to the next.
Sound(q, a, n) ==
  /\ Earned(q.state, a) /\ Earned(q.copy.blob, a) /\ Linked(q.copy, n)
  /\ q.pc \in Holding => q.state # NoBlob
  /\ q.pc \in {"route", "load_state", "load_row"} => q.gate \in Gates
  /\ q.pc = "execute" =>
       /\ q.state.phase < Published
       /\ q.gate = 0 => q.state.phase = 0
       /\ q.state.phase # 0 => q.state.phase \in a
  /\ q.pc = "kickoff_save" => q.state.status # "published"

Inv ==
  /\ TypeOK
  /\ Earned(row.blob, approvals) /\ Linked(row, snapshots)
  /\ \A w \in Workers : Sound(request[w], approvals, snapshots)
  /\ snapshots # {} => approvals = Gates

-----------------------------------------------------------------------------
(* Lemmas *)

\* What is sound stays so when there are more approvals and snapshots.
LEMMA SoundStays ==
  ASSUME NEW a, NEW b, a \subseteq b, NEW m, NEW n, m \subseteq n
  PROVE  /\ \A s : Earned(s, a) => Earned(s, b)
         /\ \A r : Linked(r, m) => Linked(r, n)
         /\ \A q : Sound(q, a, m) => Sound(q, b, n)
BY DEF Earned, Linked, Sound

\* A worker that waits for a request holds nothing.
LEMMA IdleIsSound ==
  /\ Idle \in Requests /\ Idle.pc = "idle"
  /\ \A a, n : Sound(Idle, a, n)
BY RunAssumption
   DEF Idle, Requests, PCs, Blobs, NoBlob, Rows, Placeholder, NoSnapshot, Sound, Earned,
       Linked, Gates, Published, Holding

\* What a worker finds, by their types.
LEMMA Held ==
  ASSUME Inv, NEW w \in Workers
  PROVE  /\ request[w] \in Requests /\ Sound(request[w], approvals, snapshots)
         /\ row \in Rows /\ Earned(row.blob, approvals) /\ Linked(row, snapshots)
BY DEF Inv, TypeOK

\* A step of one worker: it is left sound, and so is the row.
LEMMA WorkerStep ==
  ASSUME Inv, NEW w \in Workers, NEW q \in Requests, Go(w, q),
         approvals \subseteq approvals', approvals' \subseteq Gates,
         snapshots \subseteq snapshots', snapshots' \subseteq 1..MaxSnapshots,
         snapshots' # {} => approvals' = Gates,
         Sound(q, approvals', snapshots'),
         row' \in Rows, Earned(row'.blob, approvals'), Linked(row', snapshots'),
         applied' \in [Gates -> 0..2], UNCHANGED <<restarts, serial>>
  PROVE  Inv'
<1>1. /\ request' \in [Workers -> Requests]
      /\ \A u \in Workers : request'[u] = IF u = w THEN q ELSE request[u]
  BY DEF Go, Inv, TypeOK
<1>2. TypeOK'
  BY <1>1 DEF Inv, TypeOK
<1>3. ASSUME NEW u \in Workers PROVE Sound(request'[u], approvals', snapshots')
  <2>1. CASE u = w
    BY <1>1, <2>1
  <2>2. CASE u # w
    <3>1. Sound(request[u], approvals, snapshots)
      BY DEF Inv
    <3> QED BY <1>1, <2>2, <3>1, SoundStays
  <2> QED BY <2>1, <2>2
<1> QED BY <1>2, <1>3 DEF Inv

\* Going on as q, with nothing else changed.
LEMMA GoKeeps ==
  ASSUME Inv, NEW w \in Workers, NEW q \in Requests, Go(w, q),
         Sound(q, approvals, snapshots),
         UNCHANGED <<row, snapshots, approvals, applied, restarts, serial>>
  PROVE  Inv'
<1>1. /\ approvals' \subseteq Gates /\ snapshots' \subseteq 1..MaxSnapshots
      /\ snapshots' # {} => approvals' = Gates
      /\ row' \in Rows /\ applied' \in [Gates -> 0..2]
  BY DEF Inv, TypeOK
<1> QED BY <1>1, Held, WorkerStep

\* Saving r and going on as q.
LEMMA SaveKeeps ==
  ASSUME Inv, NEW w \in Workers, NEW q \in Requests, Go(w, q),
         Sound(q, approvals, snapshots),
         NEW r \in Rows, row' = r, Earned(r.blob, approvals), Linked(r, snapshots),
         applied' \in [Gates -> 0..2],
         UNCHANGED <<snapshots, approvals, restarts, serial>>
  PROVE  Inv'
<1>1. /\ approvals' \subseteq Gates /\ snapshots' \subseteq 1..MaxSnapshots
      /\ snapshots' # {} => approvals' = Gates
  BY DEF Inv, TypeOK
<1> QED BY <1>1, WorkerStep

\* A state of the graph whose status alone is set.
LEMMA Restated ==
  ASSUME NEW s \in Blobs, NEW t \in {"running", "blocked"}
  PROVE  \E u \in Blobs : /\ u = [s EXCEPT !.status = t]
                          /\ u.phase = s.phase /\ u.status = t /\ u # NoBlob
<1>1. s \in [phase : 0..Published,
             status : {"running", "awaiting_human", "blocked", "published", "none"}]
  BY DEF Blobs, NoBlob, Published
<1>2. PICK u : u = [s EXCEPT !.status = t]
  OBVIOUS
<1>3. u.phase = s.phase /\ u.status = t
  BY <1>1, <1>2
<1>4. u \in Blobs
  BY <1>1, <1>2 DEF Blobs
<1>5. u # NoBlob
  BY <1>3 DEF NoBlob
<1> QED BY <1>2, <1>3, <1>4, <1>5

-----------------------------------------------------------------------------
(* Every step preserves the invariant *)

LEMMA InitKeeps == Init => Inv
<1> SUFFICES ASSUME Init PROVE Inv
  OBVIOUS
<1>1. Placeholder \in Rows /\ Earned(Placeholder.blob, {}) /\ Linked(Placeholder, {})
  BY RunAssumption
     DEF Placeholder, Rows, Blobs, NoBlob, NoSnapshot, Earned, Linked, Gates, Published
<1>2. \A w \in Workers : request[w] \in Requests /\ Sound(request[w], {}, {})
  <2>1. NoBlob \in Blobs
    BY DEF Blobs
  <2>2. PICK begun \in Blobs :
          /\ begun = [NoBlob EXCEPT !.status = "running"]
          /\ begun.phase = NoBlob.phase /\ begun.status = "running" /\ begun # NoBlob
    BY <2>1, Restated
  <2>3. PICK idle \in Requests : idle = Idle
    BY IdleIsSound
  <2>4. PICK q \in Requests : q = [idle EXCEPT !.pc = "execute", !.state = begun]
    BY DEF Requests, PCs
  <2>5. q.pc = "execute" /\ q.state = begun /\ q.copy = idle.copy /\ q.gate = idle.gate
    BY <2>4 DEF Requests
  <2>6. begun.phase = 0 /\ Earned(begun, {}) /\ idle.gate = 0
    BY <2>2, <2>3 DEF NoBlob, Idle, Earned, Gates
  <2>7. Sound(q, {}, {})
    BY <2>2, <2>3, <2>5, <2>6, IdleIsSound DEF Sound, Published
  <2>8. \A w \in Workers : request[w] \in {q, Idle}
    BY <2>2, <2>3, <2>4 DEF Init
  <2> QED BY <2>8, <2>7, IdleIsSound
<1>3. TypeOK
  <2>1. request \in [Workers -> Requests]
    BY <1>2 DEF Init
  <2> QED BY <1>1, <2>1, RunAssumption DEF Init, TypeOK, Gates
<1> QED BY <1>1, <1>2, <1>3 DEF Init, Inv

\* An execution walks to the next gate at most, and only past an approved one.
LEMMA ExecuteKeeps ==
  ASSUME Inv, NEW w \in Workers, Execute(w), UNCHANGED serial
  PROVE  Inv'
<1>1. PICK q \in Requests : q = request[w]
  BY Held
<1>2. Sound(q, approvals, snapshots) /\ q.pc = "execute"
  BY <1>1, Held DEF Execute, At
<1>3. UNCHANGED <<row, snapshots, approvals, applied, restarts, serial>>
  BY DEF Execute, History
<1> DEFINE next == IF q.gate = 0 THEN "kickoff_save" ELSE "reload"
           walked == [phase |-> q.state.phase + 1,
                      status |-> IF q.state.phase = 3 THEN "published" ELSE "awaiting_human"]
<1>4. CASE Go(w, [q EXCEPT !.pc = next, !.state = walked])
  <2>1. q.state.phase \in 0..3
    BY <1>2 DEF Sound, Requests, Blobs, NoBlob, Published
  <2>2. walked \in Blobs
    BY <2>1 DEF Blobs, Published
  <2>3. Earned(walked, approvals)
    <3>1. ASSUME NEW g \in Gates, q.state.phase + 1 > g PROVE g \in approvals
      <4>1. CASE q.state.phase = g
        BY <1>2, <4>1 DEF Sound, Gates
      <4>2. CASE q.state.phase > g
        BY <1>2, <4>2 DEF Sound, Earned
      <4> QED BY <2>1, <3>1, <4>1, <4>2 DEF Gates
    <3> QED BY <2>1, <3>1 DEF Earned, Published
  <2>4. next = "kickoff_save" => walked.status # "published"
    BY <1>2 DEF Sound
  <2>5. next \in {"kickoff_save", "reload"} /\ walked # NoBlob
    BY DEF NoBlob
  <2> HIDE DEF next, walked
  <2>6. PICK p \in Requests : p = [q EXCEPT !.pc = next, !.state = walked]
    BY <2>2, <2>5 DEF Requests, PCs
  <2>7. p.pc = next /\ p.state = walked /\ p.copy = q.copy /\ p.gate = q.gate
    BY <2>6 DEF Requests
  <2>8. Sound(p, approvals, snapshots)
    BY <1>2, <2>5, <2>3, <2>4, <2>7 DEF Sound
  <2> QED BY <1>3, <1>4, <2>6, <2>8, GoKeeps
<1>5. CASE Go(w, [q EXCEPT !.pc = next, !.state = [q.state EXCEPT !.status = "blocked"]])
  <2>1. PICK s \in Blobs : /\ s = [q.state EXCEPT !.status = "blocked"]
                           /\ s.phase = q.state.phase /\ s.status = "blocked"
                           /\ s # NoBlob
    BY Restated DEF Requests
  <2>2. next \in {"kickoff_save", "reload"}
    OBVIOUS
  <2> HIDE DEF next
  <2>3. PICK p \in Requests : p = [q EXCEPT !.pc = next, !.state = s]
    BY <2>2 DEF Requests, PCs
  <2>4. p.pc = next /\ p.copy = q.copy /\ p.state = s /\ p.gate = q.gate
    BY <2>3 DEF Requests
  <2>5. Earned(s, approvals)
    BY <1>2, <2>1 DEF Sound, Earned
  <2>6. Sound(p, approvals, snapshots)
    BY <1>2, <2>1, <2>2, <2>4, <2>5 DEF Sound
  <2> QED BY <1>3, <1>5, <2>1, <2>3, <2>6, GoKeeps
<1>6. CASE Go(w, Idle)
  BY <1>3, <1>6, IdleIsSound, GoKeeps
<1> QED BY <1>1, <1>4, <1>5, <1>6 DEF Execute

\* What a state of the graph shows as is a status of the row.
LEMMA SurfaceIsStatus ==
  ASSUME NEW s \in Blobs, s # NoBlob
  PROVE  Surface(s.status) \in {"active", "awaiting_human", "blocked", "published"}
BY DEF Blobs, NoBlob, Surface

\* The kick-off never publishes, so the copy it saves needs no snapshot.
LEMMA KickOffSaveKeeps ==
  ASSUME Inv, NEW w \in Workers, KickOffSave(w), UNCHANGED serial
  PROVE  Inv'
<1>1. PICK q \in Requests : q = request[w]
  BY Held
<1>2. /\ Sound(q, approvals, snapshots) /\ q.pc = "kickoff_save"
      /\ q.copy \in Rows /\ q.state \in Blobs
  BY <1>1, Held DEF KickOffSave, At, Requests
<1>3. Surface(q.state.status) \in {"active", "awaiting_human", "blocked", "published"}
  BY <1>2, SurfaceIsStatus DEF Sound, Holding
<1>4. PICK r \in Rows : r = [q.copy EXCEPT !.status = Surface(q.state.status),
                                           !.op = "none", !.blob = q.state]
  BY <1>2, <1>3 DEF Rows
<1>5. r.blob = q.state /\ r.snapshot = q.copy.snapshot
  BY <1>2, <1>4 DEF Rows
<1>6. Earned(r.blob, approvals) /\ Linked(r, snapshots)
  BY <1>2, <1>5 DEF Sound, Linked
<1>7. /\ row' = r /\ Go(w, Idle) /\ UNCHANGED <<snapshots, approvals, restarts, serial>>
      /\ applied' \in [Gates -> 0..2]
  BY <1>1, <1>4 DEF KickOffSave, History, Inv, TypeOK
<1> QED BY <1>6, <1>7, IdleIsSound, SaveKeeps

\* What a decision that arrives is held as.
LEMMA Posted ==
  ASSUME NEW w \in Workers, PostDecision(w)
  PROVE  \E q \in Requests : /\ Go(w, q) /\ q.pc = "route" /\ q.gate \in Gates
                             /\ q.state = Idle.state /\ q.copy = Idle.copy
<1>1. PICK g \in Gates, approve \in BOOLEAN :
        Go(w, [pc |-> "route", gate |-> g, approve |-> approve, state |-> NoBlob,
               copy |-> Placeholder])
  BY DEF PostDecision
<1>2. Idle \in Requests /\ Idle.state = NoBlob /\ Idle.copy = Placeholder
  BY IdleIsSound DEF Idle
<1>3. NoBlob \in Blobs /\ Placeholder \in Rows
  BY <1>2 DEF Requests
<1>4. g \in 0..3 /\ "route" \in PCs
  BY DEF Gates, PCs
<1>5. [pc |-> "route", gate |-> g, approve |-> approve, state |-> NoBlob,
       copy |-> Placeholder] \in Requests
  BY <1>3, <1>4, Zenon DEF Requests
<1>6. PICK q \in Requests :
        q = [pc |-> "route", gate |-> g, approve |-> approve, state |-> NoBlob,
             copy |-> Placeholder]
  BY <1>5, Zenon
<1>7. q.pc = "route" /\ q.state = NoBlob /\ q.copy = Placeholder /\ q.gate \in Gates
  BY <1>6
<1> QED BY <1>1, <1>2, <1>6, <1>7

LEMMA PostDecisionKeeps ==
  ASSUME Inv, NEW w \in Workers, PostDecision(w), UNCHANGED serial
  PROVE  Inv'
<1>1. PICK q \in Requests : /\ Go(w, q) /\ q.pc = "route" /\ q.gate \in Gates
                            /\ q.state = Idle.state /\ q.copy = Idle.copy
  BY Posted
<1>2. Sound(q, approvals, snapshots)
  BY <1>1, IdleIsSound DEF Sound, Holding
<1>3. UNCHANGED <<row, snapshots, approvals, applied, restarts, serial>>
  BY DEF PostDecision, History
<1> QED BY <1>1, <1>2, <1>3, GoKeeps

LEMMA RouteKeeps ==
  ASSUME Inv, NEW w \in Workers, Route(w), UNCHANGED serial
  PROVE  Inv'
<1>1. PICK q \in Requests : q = request[w] /\ Sound(q, approvals, snapshots)
  BY Held
<1>2. PICK p \in Requests : p = [q EXCEPT !.pc = "load_state"]
  BY DEF Requests, PCs
<1>3. p.pc = "load_state" /\ p.state = q.state /\ p.copy = q.copy /\ p.gate = q.gate
  BY <1>2 DEF Requests
<1>4. Sound(p, approvals, snapshots)
  BY <1>1, <1>3 DEF Sound, Holding, Route, At
<1>5. Go(w, p) \/ Go(w, Idle)
  BY <1>1, <1>2 DEF Route
<1>6. UNCHANGED <<row, snapshots, approvals, applied, restarts, serial>>
  BY DEF Route, History
<1> QED BY <1>4, <1>5, <1>6, IdleIsSound, GoKeeps

\* The state that is loaded is as good as the row it is in.
LEMMA LoadStateKeeps ==
  ASSUME Inv, NEW w \in Workers, LoadState(w), UNCHANGED serial
  PROVE  Inv'
<1>1. PICK q \in Requests : q = request[w] /\ Sound(q, approvals, snapshots)
  BY Held
<1>2. UNCHANGED <<row, snapshots, approvals, applied, restarts, serial>>
  BY DEF LoadState, History
<1>3. CASE row.blob = NoBlob
  <2>1. Go(w, Idle)
    BY <1>3 DEF LoadState
  <2> QED BY <1>2, <2>1, IdleIsSound, GoKeeps
<1>4. CASE row.blob # NoBlob
  <2>1. PICK p \in Requests : p = [q EXCEPT !.pc = "load_row", !.state = row.blob]
    BY Held DEF Requests, PCs, Rows
  <2>2. p.pc = "load_row" /\ p.state = row.blob /\ p.copy = q.copy /\ p.gate = q.gate
    BY <2>1 DEF Requests
  <2>3. Sound(p, approvals, snapshots)
    BY <1>1, <1>4, <2>2, Held DEF Sound, LoadState, At
  <2>4. Go(w, p)
    BY <1>1, <1>4, <2>1 DEF LoadState
  <2> QED BY <1>2, <2>3, <2>4, GoKeeps
<1> QED BY <1>3, <1>4

\* An approval that passes the guard is of the gate the state is paused at.
LEMMA LoadRowKeeps ==
  ASSUME Inv, NEW w \in Workers, LoadRow(w), UNCHANGED serial
  PROVE  Inv'
<1>1. PICK q \in Requests : q = request[w] /\ Sound(q, approvals, snapshots)
  BY Held
<1>2. q.state \in Blobs /\ q.state # NoBlob /\ q.copy \in Rows /\ q.gate \in 0..3
  BY <1>1 DEF LoadRow, At, Sound, Holding, Requests
<1>3. UNCHANGED <<row, snapshots, applied, restarts, serial>>
  BY DEF LoadRow
<1>4. CASE Go(w, [q EXCEPT !.pc = "respond", !.copy = row]) /\ UNCHANGED approvals
  <2>1. PICK p \in Requests : p = [q EXCEPT !.pc = "respond", !.copy = row]
    BY Held DEF Requests, PCs
  <2>2. p.pc = "respond" /\ p.state = q.state /\ p.copy = row
    BY <2>1 DEF Requests
  <2>3. Sound(p, approvals, snapshots)
    BY <1>1, <1>2, <2>2, Held DEF Sound
  <2> QED BY <1>3, <1>4, <2>1, <2>3, GoKeeps
<1>5. CASE /\ PausedAt(q.state, q.gate)
           /\ Go(w, [q EXCEPT !.pc = "execute",
                       !.state = [q.state EXCEPT !.status = "running"]])
           /\ approvals' = approvals \cup {q.gate}
  <2>1. q.gate \in Gates /\ q.state.phase = q.gate
    BY <1>1, <1>5 DEF PausedAt, Sound, LoadRow, At
  <2>2. PICK s \in Blobs : /\ s = [q.state EXCEPT !.status = "running"]
                           /\ s.phase = q.state.phase /\ s.status = "running"
    BY <1>2, Restated
  <2>3. PICK p \in Requests : p = [q EXCEPT !.pc = "execute", !.state = s]
    BY DEF Requests, PCs
  <2>4. /\ p.pc = "execute" /\ p.copy = q.copy /\ p.gate = q.gate
        /\ p.state.phase = q.state.phase /\ p.state.status = "running"
    BY <2>2, <2>3 DEF Requests
  <2>5. approvals \subseteq approvals' /\ approvals' \subseteq Gates
    BY <1>5, <2>1 DEF Inv, TypeOK
  <2>6. Sound(q, approvals', snapshots) /\ Earned(row.blob, approvals')
    BY <1>1, <2>5, Held, SoundStays
  <2>7. Sound(p, approvals', snapshots)
    <3>1. Earned(p.state, approvals') /\ Earned(p.copy.blob, approvals')
          /\ Linked(p.copy, snapshots)
      BY <2>4, <2>6 DEF Sound, Earned
    <3>2. p.state.phase \in approvals' /\ p.state.phase < Published /\ p.gate # 0
      BY <1>5, <2>1, <2>4 DEF Gates, Published
    <3>3. p.state # NoBlob
      BY <2>4 DEF NoBlob
    <3> QED BY <2>4, <3>1, <3>2, <3>3 DEF Sound
  <2>8. /\ snapshots' # {} => approvals' = Gates
        /\ snapshots' \subseteq 1..MaxSnapshots /\ applied' \in [Gates -> 0..2]
    BY <1>3, <2>5 DEF Inv, TypeOK
  <2>9. row' \in Rows /\ Earned(row'.blob, approvals') /\ Linked(row', snapshots')
    BY <1>3, <2>6, Held
  <2> QED BY <1>3, <1>5, <2>2, <2>3, <2>5, <2>7, <2>8, <2>9, WorkerStep
<1>6. CASE /\ Go(w, [q EXCEPT !.pc = "reload",
                       !.state = [q.state EXCEPT !.status = "blocked"]])
           /\ UNCHANGED approvals
  <2>1. PICK s \in Blobs : /\ s = [q.state EXCEPT !.status = "blocked"]
                           /\ s.phase = q.state.phase /\ s.status = "blocked"
    BY <1>2, Restated
  <2>2. PICK p \in Requests : p = [q EXCEPT !.pc = "reload", !.state = s]
    BY DEF Requests, PCs
  <2>3. /\ p.pc = "reload" /\ p.copy = q.copy
        /\ p.state.phase = q.state.phase /\ p.state.status = "blocked"
    BY <2>1, <2>2 DEF Requests
  <2>4. Sound(p, approvals, snapshots)
    BY <1>1, <2>3 DEF Sound, Earned, NoBlob
  <2> QED BY <1>3, <1>6, <2>1, <2>2, <2>4, GoKeeps
<1> QED BY <1>1, <1>4, <1>5, <1>6 DEF LoadRow

\* The row is read again; a snapshot is only due when every gate was approved.
LEMMA ReloadKeeps ==
  ASSUME Inv, NEW w \in Workers, Reload(w), UNCHANGED serial
  PROVE  Inv'
<1>1. PICK q \in Requests : q = request[w] /\ Sound(q, approvals, snapshots)
  BY Held
<1>2. /\ q.pc = "reload" /\ q.state \in Blobs /\ q.state # NoBlob
      /\ Earned(q.state, approvals)
  BY <1>1 DEF Reload, At, Sound, Holding, Requests
<1>3. UNCHANGED <<row, approvals, applied, restarts, serial>>
  BY DEF Reload, History
<1>4. Merged(w) = [row EXCEPT !.blob = q.state] /\ row \in Rows
  BY <1>1, Held DEF Merged
<1>5. PICK m \in Rows : /\ m = Merged(w) /\ m.blob = q.state
                        /\ m.snapshot = row.snapshot
  BY <1>2, <1>4 DEF Rows
<1>6. ASSUME NEW r \in Rows, Go(w, [q EXCEPT !.pc = "persist", !.copy = r]),
             Earned(r.blob, approvals), snapshots \subseteq snapshots',
             Linked(r, snapshots'), snapshots' \subseteq 1..MaxSnapshots,
             snapshots' # {} => approvals = Gates
      PROVE  Inv'
  <2>1. PICK p \in Requests : p = [q EXCEPT !.pc = "persist", !.copy = r]
    BY DEF Requests, PCs
  <2>2. p.pc = "persist" /\ p.state = q.state /\ p.copy = r
    BY <2>1 DEF Requests
  <2>3. Sound(p, approvals', snapshots')
    BY <1>2, <1>3, <1>6, <2>2 DEF Sound
  <2>4. /\ approvals \subseteq approvals' /\ approvals' \subseteq Gates
        /\ row' \in Rows /\ applied' \in [Gates -> 0..2]
    BY <1>3 DEF Inv, TypeOK
  <2>5. Earned(row'.blob, approvals') /\ Linked(row', snapshots')
    BY <1>3, <1>6, Held, SoundStays
  <2> QED BY <1>3, <1>6, <2>1, <2>3, <2>4, <2>5, WorkerStep
<1>7. snapshots \subseteq 1..MaxSnapshots /\ (snapshots # {} => approvals = Gates)
  BY DEF Inv, TypeOK
<1>8. CASE /\ ~NeedsSnapshot(w) /\ UNCHANGED snapshots
           /\ Go(w, [q EXCEPT !.pc = "persist", !.copy = Merged(w)])
  <2>1. Linked(m, snapshots)
    BY <1>1, <1>5, <1>8, Held DEF Linked, NeedsSnapshot
  <2> QED BY <1>2, <1>5, <1>6, <1>7, <1>8, <2>1
<1>9. CASE /\ NeedsSnapshot(w)
           /\ \E id \in {Cardinality(snapshots), Cardinality(snapshots) + 1}
                          \cap (1..MaxSnapshots) :
                /\ snapshots' = snapshots \cup {id}
                /\ Go(w, [q EXCEPT !.pc = "persist",
                            !.copy = [Merged(w) EXCEPT !.snapshot = id]])
  <2>1. PICK id \in 1..MaxSnapshots :
          /\ snapshots' = snapshots \cup {id}
          /\ Go(w, [q EXCEPT !.pc = "persist", !.copy = [Merged(w) EXCEPT !.snapshot = id]])
    BY <1>9
  <2>2. id \in 0..MaxSnapshots
    OBVIOUS
  <2>3. PICK r \in Rows : r = [m EXCEPT !.snapshot = id]
    BY <2>2 DEF Rows
  <2>4. r.blob = q.state /\ r.snapshot = id
    BY <1>5, <2>3 DEF Rows
  <2>5. Linked(r, snapshots')
    BY RunAssumption, <2>1, <2>4 DEF Linked, NoSnapshot
  <2>6. approvals = Gates
    <3>1. q.state.phase = Published
      BY <1>1, <1>2, <1>9 DEF NeedsSnapshot, Earned
    <3>2. \A g \in Gates : g \in approvals
      BY <1>2, <3>1 DEF Earned, Gates, Published
    <3>3. approvals \subseteq Gates
      BY DEF Inv, TypeOK
    <3> QED BY <3>2, <3>3
  <2>7. Go(w, [q EXCEPT !.pc = "persist", !.copy = r])
    BY <1>5, <2>1, <2>3
  <2>8. /\ Earned(r.blob, approvals) /\ snapshots \subseteq snapshots'
        /\ snapshots' \subseteq 1..MaxSnapshots
    BY <1>2, <1>7, <2>1, <2>4
  <2> QED BY <1>6, <2>3, <2>5, <2>6, <2>7, <2>8
<1>10. CASE /\ UNCHANGED snapshots
           /\ Go(w, [q EXCEPT !.pc = "persist",
                       !.copy = [Merged(w) EXCEPT !.status = "awaiting_human",
                                                  !.blob = [@ EXCEPT !.status = "blocked"]]])
  <2>1. PICK s \in Blobs : /\ s = [q.state EXCEPT !.status = "blocked"]
                           /\ s.phase = q.state.phase /\ s.status = "blocked"
    BY <1>2, Restated
  <2>2. PICK r \in Rows : r = [m EXCEPT !.status = "awaiting_human", !.blob = s]
    BY DEF Rows
  <2>3. r.blob = s /\ r.snapshot = row.snapshot
    BY <1>5, <2>2 DEF Rows
  <2>4. Earned(r.blob, approvals) /\ Linked(r, snapshots)
    BY <1>2, <2>1, <2>3, Held DEF Earned, Linked
  <2>5. Go(w, [q EXCEPT !.pc = "persist", !.copy = r])
    BY <1>5, <1>10, <2>1, <2>2
  <2> QED BY <1>6, <1>7, <1>10, <2>2, <2>4, <2>5
<1> QED BY <1>1, <1>8, <1>9, <1>10 DEF Reload

LEMMA PersistSaveKeeps ==
  ASSUME Inv, NEW w \in Workers, PersistSave(w), UNCHANGED serial
  PROVE  Inv'
<1>1. PICK q \in Requests : q = request[w] /\ Sound(q, approvals, snapshots)
  BY Held
<1>2. PICK p \in Requests : p = [q EXCEPT !.pc = "respond"]
  BY DEF Requests, PCs
<1>3. p.pc = "respond" /\ p.state = q.state /\ p.copy = q.copy /\ p.gate = q.gate
  BY <1>2 DEF Requests
<1>4. q.copy \in Rows /\ Earned(q.copy.blob, approvals) /\ Linked(q.copy, snapshots)
  BY <1>1 DEF Requests, Sound
<1>5. Sound(p, approvals, snapshots)
  BY <1>1, <1>3 DEF Sound, Holding, PersistSave, At
<1>6. applied' \in [Gates -> 0..2]
  <2> DEFINE g == request[w].gate
             more == IF applied[g] < 2 THEN applied[g] + 1 ELSE applied[g]
  <2>1. applied \in [Gates -> 0..2]
    BY DEF Inv, TypeOK
  <2>2. applied' = [applied EXCEPT ![g] = more]
    BY DEF PersistSave
  <2>3. g \in Gates => more \in 0..2
    <3>1. SUFFICES ASSUME g \in Gates PROVE more \in 0..2
      OBVIOUS
    <3>2. applied[g] \in 0..2
      BY <2>1, <3>1
    <3> QED BY <3>2
  <2> HIDE DEF g, more
  <2> QED BY <2>1, <2>2, <2>3
<1>7. /\ row' = q.copy /\ Go(w, p)
      /\ UNCHANGED <<snapshots, approvals, restarts, serial>>
  BY <1>1, <1>2 DEF PersistSave
<1> QED BY <1>4, <1>5, <1>6, <1>7, SaveKeeps

LEMMA RespondKeeps ==
  ASSUME Inv, NEW w \in Workers, Respond(w), UNCHANGED serial
  PROVE  Inv'
<1>1. PICK q \in Requests : q = request[w] /\ Sound(q, approvals, snapshots)
  BY Held
<1>2. q.copy \in Rows /\ q.state \in Blobs /\ q.state # NoBlob
  BY <1>1 DEF Requests, Sound, Holding, Respond, At
<1>3. Surface(q.state.status) \in {"active", "awaiting_human", "blocked", "published"}
  BY <1>2, SurfaceIsStatus
<1>4. PICK r \in Rows : r = [q.copy EXCEPT !.status = Surface(q.state.status)]
  BY <1>2, <1>3 DEF Rows
<1>5. r.blob = q.copy.blob /\ r.snapshot = q.copy.snapshot
  BY <1>2, <1>4 DEF Rows
<1>6. Earned(r.blob, approvals) /\ Linked(r, snapshots)
  BY <1>1, <1>5 DEF Sound, Linked
<1>7. /\ row' = r /\ Go(w, Idle) /\ UNCHANGED <<snapshots, approvals, restarts, serial>>
      /\ applied' \in [Gates -> 0..2]
  BY <1>1, <1>4 DEF Respond, History, Inv, TypeOK
<1> QED BY <1>6, <1>7, IdleIsSound, SaveKeeps

\* A refreshed copy shows, locks and links what the row does.
LEMMA RefreshedRow ==
  ASSUME NEW s \in Rows
  PROVE  \E r \in Rows : /\ r = Refreshed(s) /\ r.blob = s.blob /\ r.op = s.op
                         /\ r.snapshot = s.snapshot
<1>1. s.blob \in Blobs
  BY DEF Rows
<1>2. CASE s.blob = NoBlob
  BY <1>2 DEF Refreshed
<1>3. CASE s.blob # NoBlob
  <2>1. Surface(s.blob.status) \in {"active", "awaiting_human", "blocked", "published"}
    BY <1>1, <1>3, SurfaceIsStatus
  <2>2. Refreshed(s) = [s EXCEPT !.status = Surface(s.blob.status)]
    BY <1>3 DEF Refreshed
  <2> QED BY <2>1, <2>2 DEF Rows
<1> QED BY <1>2, <1>3

LEMMA RefreshReadKeeps ==
  ASSUME Inv, NEW w \in Workers, RefreshRead(w), UNCHANGED serial
  PROVE  Inv'
<1>1. PICK r \in Rows : /\ r = Refreshed(row) /\ r.blob = row.blob
                        /\ r.snapshot = row.snapshot
  BY Held, RefreshedRow
<1>2. PICK idle \in Requests : idle = Idle
  BY IdleIsSound
<1>3. PICK q \in Requests : q = [idle EXCEPT !.pc = "refresh_save", !.copy = r]
  BY DEF Requests, PCs
<1>4. q.pc = "refresh_save" /\ q.state = idle.state /\ q.copy = r
  BY <1>3 DEF Requests
<1>5. Earned(r.blob, approvals) /\ Linked(r, snapshots)
  BY <1>1, Held DEF Linked
<1>6. Sound(q, approvals, snapshots)
  BY <1>2, <1>4, <1>5, IdleIsSound DEF Sound, Holding
<1>7. Go(w, q) /\ UNCHANGED <<row, snapshots, approvals, applied, restarts, serial>>
  BY <1>1, <1>2, <1>3 DEF RefreshRead, History
<1> QED BY <1>6, <1>7, GoKeeps

LEMMA RefreshSaveKeeps ==
  ASSUME Inv, NEW w \in Workers, RefreshSave(w), UNCHANGED serial
  PROVE  Inv'
<1>1. PICK q \in Requests : q = request[w] /\ Sound(q, approvals, snapshots)
  BY Held
<1>2. q.copy \in Rows /\ Earned(q.copy.blob, approvals) /\ Linked(q.copy, snapshots)
  BY <1>1 DEF Requests, Sound
<1>3. /\ row' = q.copy /\ Go(w, Idle)
      /\ UNCHANGED <<snapshots, approvals, restarts, serial>>
      /\ applied' \in [Gates -> 0..2]
  BY <1>1 DEF RefreshSave, History, Inv, TypeOK
<1> QED BY <1>2, <1>3, IdleIsSound, SaveKeeps

\* A restart forgets every copy and leaves the row what it had earned.
LEMMA RestartKeeps ==
  ASSUME Inv, Restart, UNCHANGED serial
  PROVE  Inv'
<1>1. row \in Rows /\ Earned(row.blob, approvals) /\ Linked(row, snapshots)
  BY DEF Inv, TypeOK
<1>2. row' \in Rows /\ row'.blob = row.blob /\ row'.snapshot = row.snapshot
  BY <1>1 DEF Restart, Rows
<1>3. Earned(row'.blob, approvals) /\ Linked(row', snapshots)
  BY <1>1, <1>2 DEF Linked
<1>4. /\ request' \in [Workers -> Requests]
      /\ \A w \in Workers : request'[w] = Idle
  BY IdleIsSound DEF Restart
<1>5. restarts' \in 0..MaxRestarts
  BY RunAssumption DEF Restart, Inv, TypeOK
<1>6. UNCHANGED <<snapshots, approvals, applied, serial>>
  BY DEF Restart
<1>7. TypeOK'
  BY <1>2, <1>4, <1>5, <1>6 DEF Inv, TypeOK
<1> QED BY <1>3, <1>4, <1>6, <1>7, IdleIsSound DEF Inv

LEMMA NextKeeps == Inv /\ [Next]_vars => Inv'
<1> SUFFICES ASSUME Inv, [Next]_vars PROVE Inv'
  OBVIOUS
<1>1. ASSUME UNCHANGED serial, NEW w \in Workers,
             PostDecision(w) \/ RefreshRead(w) \/ Handle(w)
      PROVE  Inv'
  BY <1>1, ExecuteKeeps, KickOffSaveKeeps, PostDecisionKeeps, RouteKeeps, LoadStateKeeps,
     LoadRowKeeps, ReloadKeeps, PersistSaveKeeps, RespondKeeps, RefreshReadKeeps,
     RefreshSaveKeeps
     DEF Handle
<1>2. CASE UNCHANGED vars
  BY <1>2 DEF vars, Inv, TypeOK
<1> QED BY <1>1, <1>2, RestartKeeps DEF Next

-----------------------------------------------------------------------------
(* Theorems *)

\* In every execution, for any number of workers, snapshots and restarts, copies of the
\* row and of the graph's state are as good as what they were read from.
THEOREM Invariance == Spec => []Inv
BY InitKeeps, NextKeeps, PTL DEF Spec

\* The row, the snapshots and what the workers hold keep their types.
THEOREM TypeCorrect == Spec => []TypeOK
<1>1. Inv => TypeOK
  BY DEF Inv
<1> QED BY <1>1, Invariance, PTL

\* Whatever overlaps, dies or is overwritten, the saved run is past a gate, or learners
\* are given a snapshot of it, only when that gate and all before it were approved.
THEOREM GatesApproved == Spec => []EveryGateApproved
<1>1. Inv => EveryGateApproved
  BY DEF Inv, Earned, EveryGateApproved
<1> QED BY <1>1, Invariance, PTL

\* Whatever overlaps, dies or fails to be packaged, a row, and every copy of it that may
\* be saved, links a snapshot that was saved, and links one when its graph is published.
THEOREM PublishedPackaged == Spec => []PublishedGraphIsPackaged
<1>1. Inv => PublishedGraphIsPackaged
  BY DEF Inv, Sound, Linked, PublishedGraphIsPackaged
<1> QED BY <1>1, Invariance, PTL

-----------------------------------------------------------------------------
(***************************************************************************)
(* One request at a time                                                   *)
(***************************************************************************)

(* The inductive invariant *)

\* A decision on g shows in b: the run went on past g or stopped there.
Settled(b, g) == b.phase > g \/ (b.phase = g /\ b.status = "blocked")

\* How what a lone handler holds belongs to the saved row r.
InStep(q, r) ==
  /\ q.pc = "execute" /\ q.gate = 0 => r.blob = NoBlob
  /\ q.pc = "kickoff_save" => r.blob = NoBlob
  /\ q.pc = "load_row" => q.state = r.blob
  /\ q.pc = "execute" /\ q.gate # 0 => PausedAt(r.blob, q.gate) /\ q.state.phase = q.gate
  /\ q.pc \in {"reload", "persist"} => q.gate \in Gates /\ PausedAt(r.blob, q.gate)
  /\ q.pc = "reload" => Settled(q.state, q.gate)
  /\ q.pc = "persist" => Settled(q.copy.blob, q.gate)
  /\ q.pc \in {"persist", "respond", "refresh_save"} => q.copy.op = r.op
  /\ q.pc \in {"respond", "refresh_save"} => q.copy.blob = r.blob

\* The decisions applied so far show in the row.
Counted(a, r) ==
  \A g \in Gates : a[g] <= 1 /\ (a[g] >= 1 => Settled(r.blob, g))

Alone == \A u, v \in Workers : ~At(u, "idle") /\ ~At(v, "idle") => u = v

SerialInv ==
  serial => /\ Alone
            /\ \A w \in Workers : InStep(request[w], row)
            /\ Counted(applied, row)
            /\ LockReleased

-----------------------------------------------------------------------------
(* Lemmas *)

\* The step of a lone handler, or of the first one, that goes on as q.
LEMMA LoneStep ==
  ASSUME Inv, SerialInv, serial, serial',
         NEW w \in Workers, ~At(w, "idle") \/ Quiet,
         NEW q \in Requests, Go(w, q), InStep(q, row'), Counted(applied', row'),
         row'.blob # NoBlob => row'.op = "none"
  PROVE  SerialInv'
<1>1. \A u \in Workers : request'[u] = IF u = w THEN q ELSE request[u]
  BY DEF Go, Inv, TypeOK
<1>2. ASSUME NEW u \in Workers, u # w PROVE request'[u].pc = "idle"
  <2>1. request[u].pc = "idle"
    BY <1>2 DEF SerialInv, Alone, Quiet, At
  <2> QED BY <1>1, <1>2, <2>1
<1>3. Alone'
  BY <1>2 DEF Alone, At
<1>4. ASSUME NEW u \in Workers PROVE InStep(request'[u], row')
  <2>1. CASE u = w
    BY <1>1, <2>1
  <2>2. CASE u # w
    <3>1. request'[u].pc = "idle"
      BY <1>2, <2>2
    <3> QED BY <3>1 DEF InStep
  <2> QED BY <2>1, <2>2
<1> QED BY <1>3, <1>4 DEF SerialInv, LockReleased

\* The same when the row stays as it is.
LEMMA LoneRead ==
  ASSUME Inv, SerialInv, serial, UNCHANGED <<serial, row, applied>>,
         NEW w \in Workers, ~At(w, "idle") \/ Quiet,
         NEW q \in Requests, Go(w, q), InStep(q, row)
  PROVE  SerialInv'
<1>1. Counted(applied, row) /\ (row.blob # NoBlob => row.op = "none")
  BY DEF SerialInv, LockReleased
<1>2. row' = row /\ applied' = applied /\ serial'
  OBVIOUS
<1>3. InStep(q, row') /\ Counted(applied', row') /\ (row'.blob # NoBlob => row'.op = "none")
  BY <1>1, <1>2
<1> QED BY <1>2, <1>3, LoneStep

\* A worker that waits belongs to any row.
LEMMA IdleInStep == \A r : InStep(Idle, r)
BY IdleIsSound DEF InStep

\* A row with the graph's state and lock of row leaves everything in step.
LEMMA CountedStays ==
  ASSUME NEW a, NEW r, Counted(a, r), NEW s, s.blob = r.blob
  PROVE  Counted(a, s)
BY DEF Counted

-----------------------------------------------------------------------------
(* Every step preserves it *)

LEMMA InitInStep == Init => SerialInv
<1> SUFFICES ASSUME Init PROVE SerialInv
  OBVIOUS
<1>1. Inv /\ row = Placeholder /\ row.blob = NoBlob
  BY InitKeeps DEF Init, Placeholder
<1>2. \A w \in Workers : w # KickOffWorker => request[w] = Idle
  BY DEF Init
<1>3. Alone
  BY <1>2, IdleIsSound DEF Alone, At
<1>4. ASSUME NEW w \in Workers PROVE InStep(request[w], row)
  <2>1. CASE w # KickOffWorker
    BY <1>2, <2>1, IdleInStep
  <2>2. CASE w = KickOffWorker
    <3>1. PICK idle \in Requests : idle = Idle
      BY IdleIsSound
    <3>2. request[w] = [idle EXCEPT !.pc = "execute",
                                    !.state = [NoBlob EXCEPT !.status = "running"]]
      BY <2>2, <3>1 DEF Init
    <3>3. request[w].pc = "execute" /\ request[w].gate = idle.gate
      BY <3>2 DEF Requests
    <3>4. idle.gate = 0
      BY <3>1 DEF Idle
    <3> QED BY <1>1, <3>3, <3>4 DEF InStep
  <2> QED BY <2>1, <2>2
<1>5. Counted(applied, row)
  BY DEF Init, Counted
<1>6. LockReleased
  BY <1>1 DEF LockReleased
<1> QED BY <1>3, <1>4, <1>5, <1>6 DEF SerialInv

LEMMA ExecuteInStep ==
  ASSUME Inv, SerialInv, serial, NEW w \in Workers, Execute(w), UNCHANGED serial
  PROVE  SerialInv'
<1>1. PICK q \in Requests : q = request[w]
  BY Held
<1>2. q.pc = "execute" /\ ~At(w, "idle") /\ InStep(q, row) /\ q.state \in Blobs
  BY <1>1 DEF Execute, At, SerialInv, Requests
<1>3. UNCHANGED <<serial, row, applied>>
  BY DEF Execute, History
<1>4. q.gate \in 0..3 /\ (q.gate # 0 => q.gate \in Gates)
  BY DEF Requests, Gates
<1> DEFINE next == IF q.gate = 0 THEN "kickoff_save" ELSE "reload"
\* Whatever comes out of the execution of a decision shows the decision.
<1>5. ASSUME NEW s \in Blobs, Go(w, [q EXCEPT !.pc = next, !.state = s]),
             q.gate # 0 => Settled(s, q.gate)
      PROVE  SerialInv'
  <2>1. PICK p \in Requests : p = [q EXCEPT !.pc = next, !.state = s]
    BY DEF Requests, PCs
  <2>2. p.pc = next /\ p.state = s /\ p.gate = q.gate
    BY <2>1 DEF Requests
  <2>3. InStep(p, row)
    <3>1. CASE q.gate = 0
      BY <1>2, <2>2, <3>1 DEF InStep
    <3>2. CASE q.gate # 0
      BY <1>2, <1>4, <1>5, <2>2, <3>2 DEF InStep
    <3> QED BY <3>1, <3>2
  <2> QED BY <1>2, <1>3, <1>5, <2>1, <2>3, LoneRead
<1>6. CASE Go(w, [q EXCEPT !.pc = next, !.state =
                    [phase |-> q.state.phase + 1,
                     status |-> IF q.state.phase = 3 THEN "published" ELSE "awaiting_human"]])
  <2>1. q.state.phase \in 0..3
    BY <1>1, <1>2, Held DEF Sound, Blobs, NoBlob, Published
  <2> DEFINE walked == [phase |-> q.state.phase + 1,
                        status |-> IF q.state.phase = 3 THEN "published" ELSE "awaiting_human"]
  <2>2. walked \in Blobs /\ walked.phase = q.state.phase + 1
    BY <2>1 DEF Blobs, Published
  <2> HIDE DEF walked
  <2>3. q.gate # 0 => Settled(walked, q.gate)
    BY <1>2, <1>4, <2>2 DEF InStep, Settled, Gates
  <2>4. Go(w, [q EXCEPT !.pc = next, !.state = walked])
    BY <1>6 DEF walked
  <2> QED BY <1>5, <2>2, <2>3, <2>4
<1>7. CASE Go(w, [q EXCEPT !.pc = next, !.state = [q.state EXCEPT !.status = "blocked"]])
  <2>1. PICK s \in Blobs : /\ s = [q.state EXCEPT !.status = "blocked"]
                           /\ s.phase = q.state.phase /\ s.status = "blocked"
    BY <1>2, Restated
  <2>2. q.gate # 0 => Settled(s, q.gate)
    BY <1>2, <2>1 DEF InStep, Settled
  <2>3. Go(w, [q EXCEPT !.pc = next, !.state = s])
    BY <1>7, <2>1
  <2> QED BY <1>5, <2>2, <2>3
<1>8. CASE Go(w, Idle)
  BY <1>2, <1>3, <1>8, IdleIsSound, IdleInStep, LoneRead
<1> QED BY <1>1, <1>6, <1>7, <1>8 DEF Execute

\* Nothing was decided before the kick-off's first save.
LEMMA KickOffSaveInStep ==
  ASSUME Inv, SerialInv, serial, NEW w \in Workers, KickOffSave(w), UNCHANGED serial
  PROVE  SerialInv'
<1>1. ~At(w, "idle") /\ row.blob = NoBlob /\ Counted(applied, row)
  BY DEF KickOffSave, At, SerialInv, InStep
<1>2. \A g \in Gates : ~Settled(row.blob, g)
  BY <1>1 DEF Settled, NoBlob, Gates
<1>3. applied \in [Gates -> 0..2] /\ applied' = applied
  BY DEF KickOffSave, History, Inv, TypeOK
<1>4. Counted(applied', row')
  BY <1>1, <1>2, <1>3 DEF Counted
<1>5. PICK c \in Rows : c = request[w].copy
  BY Held DEF Requests
<1>6. row' = [c EXCEPT !.status = Surface(request[w].state.status),
                       !.op = "none", !.blob = request[w].state]
  BY <1>5 DEF KickOffSave
<1>7. row'.op = "none"
  BY <1>6 DEF Rows
<1>8. Go(w, Idle)
  BY DEF KickOffSave
<1> QED BY <1>1, <1>4, <1>7, <1>8, IdleIsSound, IdleInStep, LoneStep

LEMMA PostDecisionInStep ==
  ASSUME Inv, SerialInv, serial, NEW w \in Workers, PostDecision(w), UNCHANGED serial
  PROVE  SerialInv'
<1>1. PICK q \in Requests : Go(w, q) /\ q.pc = "route"
  BY Posted DEF PostDecision
<1>2. InStep(q, row)
  BY <1>1 DEF InStep
<1>3. Quiet /\ UNCHANGED <<serial, row, applied>>
  BY DEF PostDecision, MayCome, History
<1> QED BY <1>1, <1>2, <1>3, LoneRead

LEMMA RouteInStep ==
  ASSUME Inv, SerialInv, serial, NEW w \in Workers, Route(w), UNCHANGED serial
  PROVE  SerialInv'
<1>1. PICK q \in Requests : q = request[w]
  BY Held
<1>2. PICK p \in Requests : p = [q EXCEPT !.pc = "load_state"]
  BY DEF Requests, PCs
<1>3. p.pc = "load_state"
  BY <1>2 DEF Requests
<1>4. InStep(p, row)
  BY <1>3 DEF InStep
<1>5. Go(w, p) \/ Go(w, Idle)
  BY <1>1, <1>2 DEF Route
<1>6. ~At(w, "idle") /\ UNCHANGED <<serial, row, applied>>
  BY DEF Route, At, History
<1> QED BY <1>4, <1>5, <1>6, IdleIsSound, IdleInStep, LoneRead

LEMMA LoadStateInStep ==
  ASSUME Inv, SerialInv, serial, NEW w \in Workers, LoadState(w), UNCHANGED serial
  PROVE  SerialInv'
<1>1. PICK q \in Requests : q = request[w]
  BY Held
<1>2. ~At(w, "idle") /\ UNCHANGED <<serial, row, applied>>
  BY DEF LoadState, At, History
<1>3. CASE row.blob = NoBlob
  <2>1. Go(w, Idle)
    BY <1>3 DEF LoadState
  <2> QED BY <1>2, <2>1, IdleIsSound, IdleInStep, LoneRead
<1>4. CASE row.blob # NoBlob
  <2>1. PICK p \in Requests : p = [q EXCEPT !.pc = "load_row", !.state = row.blob]
    BY Held DEF Requests, PCs, Rows
  <2>2. p.pc = "load_row" /\ p.state = row.blob
    BY <2>1 DEF Requests
  <2>3. InStep(p, row)
    BY <2>2 DEF InStep
  <2>4. Go(w, p)
    BY <1>1, <1>4, <2>1 DEF LoadState
  <2> QED BY <1>2, <2>3, <2>4, LoneRead
<1> QED BY <1>3, <1>4

\* What the guard compares with the gate is what is saved.
LEMMA LoadRowInStep ==
  ASSUME Inv, SerialInv, serial, NEW w \in Workers, LoadRow(w), UNCHANGED serial
  PROVE  SerialInv'
<1>1. PICK q \in Requests : q = request[w]
  BY Held
<1>2. q.pc = "load_row" /\ ~At(w, "idle") /\ q.state = row.blob /\ q.state \in Blobs
  BY <1>1 DEF LoadRow, At, SerialInv, InStep, Requests
<1>3. q.gate \in Gates /\ q.gate # 0
  BY <1>1, <1>2, Held DEF Sound, Gates
<1>4. UNCHANGED <<serial, row, applied>>
  BY DEF LoadRow
<1>5. CASE Go(w, [q EXCEPT !.pc = "respond", !.copy = row])
  <2>1. PICK p \in Requests : p = [q EXCEPT !.pc = "respond", !.copy = row]
    BY Held DEF Requests, PCs
  <2>2. p.pc = "respond" /\ p.copy = row
    BY <2>1 DEF Requests
  <2>3. InStep(p, row)
    BY <2>2 DEF InStep
  <2> QED BY <1>2, <1>4, <1>5, <2>1, <2>3, LoneRead
<1>6. CASE /\ PausedAt(q.state, q.gate)
           /\ Go(w, [q EXCEPT !.pc = "execute",
                       !.state = [q.state EXCEPT !.status = "running"]])
  <2>1. PICK s \in Blobs : /\ s = [q.state EXCEPT !.status = "running"]
                           /\ s.phase = q.state.phase
    BY <1>2, Restated
  <2>2. PICK p \in Requests : p = [q EXCEPT !.pc = "execute", !.state = s]
    BY DEF Requests, PCs
  <2>3. p.pc = "execute" /\ p.state = s /\ p.gate = q.gate
    BY <2>2 DEF Requests
  <2>4. InStep(p, row)
    BY <1>2, <1>3, <1>6, <2>1, <2>3 DEF InStep, PausedAt
  <2> QED BY <1>2, <1>4, <1>6, <2>1, <2>2, <2>4, LoneRead
<1>7. CASE /\ PausedAt(q.state, q.gate)
           /\ Go(w, [q EXCEPT !.pc = "reload",
                       !.state = [q.state EXCEPT !.status = "blocked"]])
  <2>1. PICK s \in Blobs : /\ s = [q.state EXCEPT !.status = "blocked"]
                           /\ s.phase = q.state.phase /\ s.status = "blocked"
    BY <1>2, Restated
  <2>2. PICK p \in Requests : p = [q EXCEPT !.pc = "reload", !.state = s]
    BY DEF Requests, PCs
  <2>3. p.pc = "reload" /\ p.state = s /\ p.gate = q.gate
    BY <2>2 DEF Requests
  <2>4. InStep(p, row)
    BY <1>2, <1>3, <1>7, <2>1, <2>3 DEF InStep, PausedAt, Settled
  <2> QED BY <1>2, <1>4, <1>7, <2>1, <2>2, <2>4, LoneRead
<1> QED BY <1>1, <1>5, <1>6, <1>7 DEF LoadRow

\* The copy that is built shows the decision and holds the row's lock.
LEMMA ReloadInStep ==
  ASSUME Inv, SerialInv, serial, NEW w \in Workers, Reload(w), UNCHANGED serial
  PROVE  SerialInv'
<1>1. PICK q \in Requests : q = request[w]
  BY Held
<1>2. /\ q.pc = "reload" /\ ~At(w, "idle") /\ q.state \in Blobs
      /\ q.gate \in Gates /\ PausedAt(row.blob, q.gate) /\ Settled(q.state, q.gate)
  BY <1>1 DEF Reload, At, SerialInv, InStep, Requests
<1>3. UNCHANGED <<serial, row, applied>>
  BY DEF Reload, History
<1>4. Merged(w) = [row EXCEPT !.blob = q.state] /\ row \in Rows
  BY <1>1, Held DEF Merged
<1>5. PICK m \in Rows : m = Merged(w) /\ m.blob = q.state /\ m.op = row.op
  BY <1>2, <1>4 DEF Rows
<1>6. ASSUME NEW r \in Rows, Go(w, [q EXCEPT !.pc = "persist", !.copy = r]),
             Settled(r.blob, q.gate), r.op = row.op
      PROVE  SerialInv'
  <2>1. PICK p \in Requests : p = [q EXCEPT !.pc = "persist", !.copy = r]
    BY DEF Requests, PCs
  <2>2. p.pc = "persist" /\ p.gate = q.gate /\ p.copy = r
    BY <2>1 DEF Requests
  <2>3. InStep(p, row)
    BY <1>2, <1>6, <2>2 DEF InStep
  <2> QED BY <1>2, <1>3, <1>6, <2>1, <2>3, LoneRead
<1>7. CASE Go(w, [q EXCEPT !.pc = "persist", !.copy = Merged(w)])
  BY <1>2, <1>5, <1>6, <1>7
<1>8. CASE \E id \in 1..MaxSnapshots :
             Go(w, [q EXCEPT !.pc = "persist", !.copy = [Merged(w) EXCEPT !.snapshot = id]])
  <2>1. PICK id \in 1..MaxSnapshots :
          Go(w, [q EXCEPT !.pc = "persist", !.copy = [Merged(w) EXCEPT !.snapshot = id]])
    BY <1>8
  <2>2. id \in 0..MaxSnapshots
    OBVIOUS
  <2>3. PICK r \in Rows : r = [m EXCEPT !.snapshot = id]
    BY <2>2 DEF Rows
  <2>4. r.blob = q.state /\ r.op = row.op
    BY <1>5, <2>3 DEF Rows
  <2>5. Go(w, [q EXCEPT !.pc = "persist", !.copy = r])
    BY <1>5, <2>1, <2>3
  <2> QED BY <1>2, <1>6, <2>4, <2>5
<1>9. CASE Go(w, [q EXCEPT !.pc = "persist",
                    !.copy = [Merged(w) EXCEPT !.status = "awaiting_human",
                                               !.blob = [@ EXCEPT !.status = "blocked"]]])
  <2>1. PICK s \in Blobs : /\ s = [q.state EXCEPT !.status = "blocked"]
                           /\ s.phase = q.state.phase /\ s.status = "blocked"
    BY <1>2, Restated
  <2>2. PICK r \in Rows : r = [m EXCEPT !.status = "awaiting_human", !.blob = s]
    BY DEF Rows
  <2>3. r.blob = s /\ r.op = row.op
    BY <1>5, <2>2 DEF Rows
  <2>4. Go(w, [q EXCEPT !.pc = "persist", !.copy = r])
    BY <1>5, <1>9, <2>1, <2>2
  <2>5. Settled(r.blob, q.gate)
    BY <1>2, <2>1, <2>3 DEF Settled
  <2> QED BY <1>6, <2>3, <2>4, <2>5
<1> QED BY <1>1, <1>7, <1>8, <1>9 DEF Reload

\* The decision is counted once: the saved run was paused at its gate until now.
LEMMA PersistSaveInStep ==
  ASSUME Inv, SerialInv, serial, NEW w \in Workers, PersistSave(w), UNCHANGED serial
  PROVE  SerialInv'
<1>1. PICK q \in Requests : q = request[w]
  BY Held
<1>2. /\ q.pc = "persist" /\ ~At(w, "idle") /\ q.copy \in Rows
      /\ q.gate \in Gates /\ PausedAt(row.blob, q.gate)
      /\ Settled(q.copy.blob, q.gate) /\ q.copy.op = row.op
  BY <1>1 DEF PersistSave, At, SerialInv, InStep, Requests
<1>3. Counted(applied, row) /\ row.op = "none"
  BY <1>2 DEF SerialInv, LockReleased, PausedAt, NoBlob
<1>4. row' = q.copy
  BY <1>1 DEF PersistSave
<1>5. applied \in [Gates -> 0..2]
  BY DEF Inv, TypeOK
<1>6. applied[q.gate] = 0
  BY <1>2, <1>3, <1>5 DEF Counted, Settled, PausedAt, Gates
<1>7. ASSUME NEW g \in Gates
      PROVE  applied'[g] <= 1 /\ (applied'[g] >= 1 => Settled(row'.blob, g))
  <2>1. applied'[g] = IF g = q.gate THEN 1 ELSE applied[g]
    BY <1>1, <1>5, <1>6 DEF PersistSave
  <2>2. CASE g = q.gate
    BY <1>2, <1>4, <2>1, <2>2
  <2>3. CASE g # q.gate
    <3>1. applied[g] <= 1 /\ (applied[g] >= 1 => Settled(row.blob, g))
      BY <1>3 DEF Counted
    <3>2. Settled(row.blob, g) => g < q.gate
      BY <1>2, <2>3 DEF Settled, PausedAt, Gates
    <3>3. q.copy.blob.phase \in 0..4
      BY <1>2 DEF Rows, Blobs, NoBlob, Published
    <3>4. g < q.gate => q.copy.blob.phase > g
      BY <1>2, <3>3 DEF Settled, Gates
    <3> QED BY <1>4, <2>1, <2>3, <3>1, <3>2, <3>4 DEF Settled
  <2> QED BY <2>2, <2>3
<1>8. PICK p \in Requests : p = [q EXCEPT !.pc = "respond"]
  BY DEF Requests, PCs
<1>9. p.pc = "respond" /\ p.copy = q.copy
  BY <1>8 DEF Requests
<1>10. InStep(p, row')
  BY <1>4, <1>9 DEF InStep
<1>11. Go(w, p) /\ serial'
  BY <1>1, <1>8 DEF PersistSave
<1> QED BY <1>2, <1>3, <1>4, <1>7, <1>10, <1>11, LoneStep DEF Counted

\* A save of a copy that has the row's graph state and lock.
LEMMA SameSave ==
  ASSUME Inv, SerialInv, serial, UNCHANGED <<serial, applied>>,
         NEW w \in Workers, ~At(w, "idle"), Go(w, Idle),
         row'.blob = row.blob, row'.op = row.op
  PROVE  SerialInv'
<1>1. Counted(applied', row') /\ (row'.blob # NoBlob => row'.op = "none") /\ serial'
  BY DEF SerialInv, Counted, LockReleased
<1> QED BY <1>1, IdleIsSound, IdleInStep, LoneStep

LEMMA RespondInStep ==
  ASSUME Inv, SerialInv, serial, NEW w \in Workers, Respond(w), UNCHANGED serial
  PROVE  SerialInv'
<1>1. PICK q \in Requests : q = request[w]
  BY Held
<1>2. q.copy \in Rows /\ q.copy.blob = row.blob /\ q.copy.op = row.op /\ ~At(w, "idle")
  BY <1>1 DEF Requests, Respond, At, SerialInv, InStep
<1>3. row' = [q.copy EXCEPT !.status = Surface(q.state.status)]
  BY <1>1 DEF Respond
<1>4. row'.blob = row.blob /\ row'.op = row.op
  BY <1>2, <1>3 DEF Rows
<1>5. Go(w, Idle) /\ UNCHANGED applied
  BY DEF Respond, History
<1> QED BY <1>2, <1>4, <1>5, SameSave

LEMMA RefreshReadInStep ==
  ASSUME Inv, SerialInv, serial, NEW w \in Workers, RefreshRead(w), UNCHANGED serial
  PROVE  SerialInv'
<1>1. row \in Rows
  BY Held
<1>2. PICK r \in Rows : r = Refreshed(row) /\ r.blob = row.blob /\ r.op = row.op
  BY <1>1, RefreshedRow
<1>3. PICK idle \in Requests : idle = Idle
  BY IdleIsSound
<1>4. PICK q \in Requests : q = [idle EXCEPT !.pc = "refresh_save", !.copy = r]
  BY DEF Requests, PCs
<1>5. q.pc = "refresh_save" /\ q.copy = r
  BY <1>4 DEF Requests
<1>6. InStep(q, row)
  BY <1>2, <1>5 DEF InStep
<1>7. Go(w, q) /\ Quiet /\ UNCHANGED <<serial, row, applied>>
  BY <1>2, <1>3, <1>4 DEF RefreshRead, MayCome, History
<1> QED BY <1>6, <1>7, LoneRead

LEMMA RefreshSaveInStep ==
  ASSUME Inv, SerialInv, serial, NEW w \in Workers, RefreshSave(w), UNCHANGED serial
  PROVE  SerialInv'
<1>1. /\ request[w].copy.blob = row.blob /\ request[w].copy.op = row.op
      /\ ~At(w, "idle")
  BY DEF RefreshSave, At, SerialInv, InStep
<1>2. row' = request[w].copy /\ Go(w, Idle) /\ UNCHANGED applied
  BY DEF RefreshSave, History
<1> QED BY <1>1, <1>2, SameSave

\* Everybody forgets; the lock is cleared, the graph's state stays.
LEMMA RestartInStep ==
  ASSUME Inv, SerialInv, serial, Restart, UNCHANGED serial
  PROVE  SerialInv'
<1>1. row \in Rows
  BY DEF Inv, TypeOK
<1>2. row'.blob = row.blob /\ row'.op = "none"
  BY <1>1 DEF Restart, Rows
<1>3. \A w \in Workers : request'[w] = Idle
  BY DEF Restart
<1>4. Alone' /\ \A w \in Workers : InStep(request'[w], row')
  BY <1>3, IdleIsSound, IdleInStep DEF Alone, At
<1>5. Counted(applied', row')
  BY <1>2 DEF Restart, SerialInv, Counted
<1> QED BY <1>2, <1>4, <1>5 DEF SerialInv, LockReleased

LEMMA NextInStep == Inv /\ SerialInv /\ [Next]_vars => SerialInv'
<1> SUFFICES ASSUME Inv, SerialInv, [Next]_vars PROVE SerialInv'
  OBVIOUS
<1>1. CASE ~serial
  BY <1>1 DEF Next, vars, SerialInv
<1>2. ASSUME serial, UNCHANGED serial, NEW w \in Workers,
             PostDecision(w) \/ RefreshRead(w) \/ Handle(w)
      PROVE  SerialInv'
  BY <1>2, ExecuteInStep, KickOffSaveInStep, PostDecisionInStep, RouteInStep,
     LoadStateInStep, LoadRowInStep, ReloadInStep, PersistSaveInStep, RespondInStep,
     RefreshReadInStep, RefreshSaveInStep
     DEF Handle
<1>3. CASE UNCHANGED vars
  <2>1. UNCHANGED <<serial, row, request, applied>>
    BY <1>3 DEF vars
  <2> QED BY <2>1 DEF SerialInv, Alone, At, Counted, LockReleased
<1> QED BY <1>1, <1>2, <1>3, RestartInStep DEF Next

\* What a lone handler saves over the graph's state is a state of the graph.
LEMMA StateStays ==
  Inv /\ SerialInv /\ [Next]_vars
    => (serial /\ row.blob # NoBlob => row'.blob # NoBlob)
<1> SUFFICES ASSUME Inv, SerialInv, [Next]_vars, serial, row.blob # NoBlob
             PROVE  row'.blob # NoBlob
  OBVIOUS
<1>1. ASSUME NEW w \in Workers, KickOffSave(w) PROVE FALSE
  BY <1>1 DEF KickOffSave, At, SerialInv, InStep
<1>2. ASSUME NEW w \in Workers, PersistSave(w) PROVE row'.blob # NoBlob
  <2>1. row' = request[w].copy /\ request[w].gate \in Gates
        /\ Settled(request[w].copy.blob, request[w].gate)
    BY <1>2 DEF PersistSave, At, SerialInv, InStep
  <2> QED BY <2>1 DEF Settled, Gates, NoBlob
<1>3. ASSUME NEW w \in Workers, Respond(w) PROVE row'.blob = row.blob
  <2>1. PICK q \in Requests : q = request[w]
    BY Held
  <2>2. q.copy \in Rows /\ q.copy.blob = row.blob
    BY <1>3, <2>1 DEF Requests, Respond, At, SerialInv, InStep
  <2>3. row' = [q.copy EXCEPT !.status = Surface(q.state.status)]
    BY <1>3, <2>1 DEF Respond
  <2> QED BY <2>2, <2>3 DEF Rows
<1>4. ASSUME NEW w \in Workers, RefreshSave(w) PROVE row'.blob = row.blob
  BY <1>4 DEF RefreshSave, At, SerialInv, InStep
<1>5. CASE Restart
  BY <1>5 DEF Restart, Rows, Inv, TypeOK
<1>6. ASSUME NEW w \in Workers,
             \/ Execute(w) \/ PostDecision(w) \/ Route(w) \/ LoadState(w) \/ LoadRow(w)
             \/ Reload(w) \/ RefreshRead(w)
      PROVE  row' = row
  BY <1>6 DEF Execute, PostDecision, Route, LoadState, LoadRow, Reload, RefreshRead
<1>7. CASE UNCHANGED vars
  BY <1>7 DEF vars
<1> QED BY <1>1, <1>2, <1>3, <1>4, <1>5, <1>6, <1>7 DEF Next, Handle

-----------------------------------------------------------------------------
(* Theorems *)

\* For any number of workers, what a handler holds when requests come one at a time
\* belongs to the row it will save.
THEOREM SerialInvariance == Spec => [](Inv /\ SerialInv)
<1>1. Init => Inv /\ SerialInv
  BY InitKeeps, InitInStep
<1>2. Inv /\ SerialInv /\ [Next]_vars => (Inv /\ SerialInv)'
  BY NextKeeps, NextInStep
<1> QED BY <1>1, <1>2, PTL DEF Spec

\* The row of an outcome-mode course is sound, for any number of workers, snapshots and
\* restarts: whatever overlaps, no run is past a gate that nobody approved; and when
\* requests come one at a time a decision is applied once and the lock is let go.
THEOREM RowSound == Spec => []RowIsSound
<1>1. Inv /\ SerialInv => RowIsSound
  BY DEF Inv, SerialInv, Counted, Earned, RowIsSound, EveryGateApproved,
         DecisionAppliedOnce, LockReleased
<1> QED BY <1>1, SerialInvariance, PTL

\* When requests come one at a time, the graph's state, once saved, stays in the row
\* through decisions, refreshes, restarts and failures to package.
THEOREM SerialStateStays == Spec => SerialStateSurvives
<1>1. Inv /\ SerialInv /\ [Next]_vars
        => [serial /\ row.blob # NoBlob => row'.blob # NoBlob]_row
  BY StateStays
<1> QED BY <1>1, SerialInvariance, PTL DEF Spec, SerialStateSurvives

-----------------------------------------------------------------------------
(***************************************************************************)
(* The refinement of GateFlow                                              *)
(***************************************************************************)

(* The inductive invariant *)

\* What deciding gate g makes of the graph's state: it stops there, or goes on
\* to the next pause when the decision was an approval.
Walked(s, g, approved) ==
  \/ s.phase = g /\ s.status = "blocked"
  \/ approved /\ s.phase = g + 1 /\ s.status # "blocked"

\* A published state that could not be packaged.
Demoted(s, g, approved) ==
  approved /\ g = 3 /\ s.phase = Published /\ s.status = "blocked"

\* What a handler holds is what its decision, or the kick-off, makes of the state.
Local(q) ==
  /\ q.pc = "execute" /\ q.gate # 0 => q.approve /\ q.state.phase = q.gate
  /\ q.pc = "kickoff_save" => Walked(q.state, 0, TRUE)
  /\ q.pc = "reload" => Walked(q.state, q.gate, q.approve)
  /\ q.pc = "persist" => \/ Walked(q.copy.blob, q.gate, q.approve)
                         \/ Demoted(q.copy.blob, q.gate, q.approve)

FlowInv == \A w \in Workers : Local(request[w])

-----------------------------------------------------------------------------
(* Every step preserves it *)

LEMMA IdleIsLocal == Local(Idle)
BY IdleIsSound DEF Local

\* A step of one worker to what is local.
LEMMA LocalStep ==
  ASSUME Inv, FlowInv, NEW w \in Workers, NEW q, Go(w, q), Local(q)
  PROVE  FlowInv'
<1>1. \A u \in Workers : request'[u] = IF u = w THEN q ELSE request[u]
  BY DEF Go, Inv, TypeOK
<1>2. ASSUME NEW u \in Workers PROVE Local(request'[u])
  BY <1>1 DEF FlowInv
<1> QED BY <1>2 DEF FlowInv

LEMMA ExecuteIsLocal ==
  ASSUME Inv, FlowInv, NEW w \in Workers, Execute(w)
  PROVE  FlowInv'
<1>1. PICK q \in Requests : q = request[w] /\ Local(q) /\ Sound(q, approvals, snapshots)
  BY Held DEF FlowInv
<1>2. /\ q.pc = "execute" /\ q.state \in Blobs /\ q.gate \in 0..3
      /\ q.gate = 0 => q.state.phase = 0
  BY <1>1 DEF Execute, At, Requests, Sound
<1> DEFINE next == IF q.gate = 0 THEN "kickoff_save" ELSE "reload"
<1>3. ASSUME NEW s \in Blobs, Go(w, [q EXCEPT !.pc = next, !.state = s]),
             Walked(s, q.state.phase, TRUE)
      PROVE  FlowInv'
  <2>1. next \in PCs /\ (next = "kickoff_save" <=> q.gate = 0)
        /\ (next = "reload" <=> q.gate # 0)
    BY DEF PCs
  <2> HIDE DEF next
  <2>2. PICK p \in Requests : p = [q EXCEPT !.pc = next, !.state = s]
    BY <2>1 DEF Requests
  <2>3. p.pc = next /\ p.state = s /\ p.gate = q.gate /\ p.approve = q.approve
    BY <2>2 DEF Requests
  <2>4. Local(p)
    <3>1. CASE q.gate = 0
      BY <1>2, <1>3, <2>1, <2>3, <3>1 DEF Local
    <3>2. CASE q.gate # 0
      <4>1. q.approve /\ q.state.phase = q.gate
        BY <1>1, <1>2, <3>2 DEF Local
      <4>2. Walked(s, q.gate, q.approve)
        BY <1>3, <4>1 DEF Walked
      <4> QED BY <2>1, <2>3, <3>2, <4>2 DEF Local
    <3> QED BY <3>1, <3>2
  <2> QED BY <1>3, <2>2, <2>4, LocalStep
<1>4. CASE Go(w, [q EXCEPT !.pc = next, !.state =
                    [phase |-> q.state.phase + 1,
                     status |-> IF q.state.phase = 3 THEN "published" ELSE "awaiting_human"]])
  <2>1. q.state.phase \in 0..3
    BY <1>1, <1>2 DEF Sound, Blobs, NoBlob, Published
  <2> DEFINE walked == [phase |-> q.state.phase + 1,
                        status |-> IF q.state.phase = 3 THEN "published" ELSE "awaiting_human"]
  <2>2. walked \in Blobs /\ walked.phase = q.state.phase + 1 /\ walked.status # "blocked"
    BY <2>1 DEF Blobs, Published
  <2>3. Go(w, [q EXCEPT !.pc = next, !.state = walked])
    BY <1>4
  <2> HIDE DEF walked
  <2>4. Walked(walked, q.state.phase, TRUE)
    BY <2>2 DEF Walked
  <2> QED BY <1>3, <2>2, <2>3, <2>4
<1>5. CASE Go(w, [q EXCEPT !.pc = next, !.state = [q.state EXCEPT !.status = "blocked"]])
  <2>1. PICK s \in Blobs : /\ s = [q.state EXCEPT !.status = "blocked"]
                           /\ s.phase = q.state.phase /\ s.status = "blocked"
    BY <1>2, Restated
  <2>2. Go(w, [q EXCEPT !.pc = next, !.state = s])
    BY <1>5, <2>1
  <2> QED BY <1>3, <2>1, <2>2 DEF Walked
<1>6. CASE Go(w, Idle)
  BY <1>6, IdleIsLocal, LocalStep
<1> QED BY <1>1, <1>4, <1>5, <1>6 DEF Execute

LEMMA LoadRowIsLocal ==
  ASSUME Inv, FlowInv, NEW w \in Workers, LoadRow(w)
  PROVE  FlowInv'
<1>1. PICK q \in Requests : q = request[w] /\ q.state \in Blobs
  BY Held DEF Requests
<1>2. CASE Go(w, [q EXCEPT !.pc = "respond", !.copy = row])
  <2>1. PICK p \in Requests : p = [q EXCEPT !.pc = "respond", !.copy = row]
    BY Held DEF Requests, PCs
  <2>2. p.pc = "respond"
    BY <2>1 DEF Requests
  <2> QED BY <1>2, <2>1, <2>2, LocalStep DEF Local
<1>3. CASE /\ PausedAt(q.state, q.gate) /\ q.approve
           /\ Go(w, [q EXCEPT !.pc = "execute",
                       !.state = [q.state EXCEPT !.status = "running"]])
  <2>1. PICK s \in Blobs : /\ s = [q.state EXCEPT !.status = "running"]
                           /\ s.phase = q.state.phase
    BY <1>1, Restated
  <2>2. PICK p \in Requests : p = [q EXCEPT !.pc = "execute", !.state = s]
    BY DEF Requests, PCs
  <2>3. /\ p.pc = "execute" /\ p.state = s /\ p.gate = q.gate /\ p.approve = q.approve
    BY <2>2 DEF Requests
  <2>4. Local(p)
    BY <1>3, <2>1, <2>3 DEF Local, PausedAt
  <2> QED BY <1>3, <2>1, <2>2, <2>4, LocalStep
<1>4. CASE /\ PausedAt(q.state, q.gate)
           /\ Go(w, [q EXCEPT !.pc = "reload",
                       !.state = [q.state EXCEPT !.status = "blocked"]])
  <2>1. PICK s \in Blobs : /\ s = [q.state EXCEPT !.status = "blocked"]
                           /\ s.phase = q.state.phase /\ s.status = "blocked"
    BY <1>1, Restated
  <2>2. PICK p \in Requests : p = [q EXCEPT !.pc = "reload", !.state = s]
    BY DEF Requests, PCs
  <2>3. p.pc = "reload" /\ p.state = s /\ p.gate = q.gate
    BY <2>2 DEF Requests
  <2>4. Local(p)
    BY <1>4, <2>1, <2>3 DEF Local, PausedAt, Walked
  <2> QED BY <1>4, <2>1, <2>2, <2>4, LocalStep
<1> QED BY <1>1, <1>2, <1>3, <1>4 DEF LoadRow

LEMMA ReloadIsLocal ==
  ASSUME Inv, FlowInv, NEW w \in Workers, Reload(w)
  PROVE  FlowInv'
<1>1. PICK q \in Requests : q = request[w] /\ Local(q) /\ Sound(q, approvals, snapshots)
  BY Held DEF FlowInv
<1>2. q.pc = "reload" /\ q.state \in Blobs /\ Walked(q.state, q.gate, q.approve)
  BY <1>1 DEF Reload, At, Requests, Local
<1>3. Merged(w) = [row EXCEPT !.blob = q.state] /\ row \in Rows
  BY <1>1, Held DEF Merged
<1>4. PICK m \in Rows : m = Merged(w) /\ m.blob = q.state
  BY <1>2, <1>3 DEF Rows
<1>5. ASSUME NEW r \in Rows, Go(w, [q EXCEPT !.pc = "persist", !.copy = r]),
             Walked(r.blob, q.gate, q.approve) \/ Demoted(r.blob, q.gate, q.approve)
      PROVE  FlowInv'
  <2>1. PICK p \in Requests : p = [q EXCEPT !.pc = "persist", !.copy = r]
    BY DEF Requests, PCs
  <2>2. p.pc = "persist" /\ p.gate = q.gate /\ p.approve = q.approve /\ p.copy = r
    BY <2>1 DEF Requests
  <2>3. Local(p)
    BY <1>5, <2>2 DEF Local
  <2> QED BY <1>5, <2>1, <2>3, LocalStep
<1>6. CASE Go(w, [q EXCEPT !.pc = "persist", !.copy = Merged(w)])
  BY <1>2, <1>4, <1>5, <1>6
<1>7. CASE \E id \in 1..MaxSnapshots :
             Go(w, [q EXCEPT !.pc = "persist", !.copy = [Merged(w) EXCEPT !.snapshot = id]])
  <2>1. PICK id \in 1..MaxSnapshots :
          Go(w, [q EXCEPT !.pc = "persist", !.copy = [Merged(w) EXCEPT !.snapshot = id]])
    BY <1>7
  <2>2. id \in 0..MaxSnapshots
    OBVIOUS
  <2>3. PICK r \in Rows : r = [m EXCEPT !.snapshot = id]
    BY <2>2 DEF Rows
  <2>4. r.blob = q.state
    BY <1>4, <2>3 DEF Rows
  <2>5. Go(w, [q EXCEPT !.pc = "persist", !.copy = r])
    BY <1>4, <2>1, <2>3
  <2> QED BY <1>2, <1>5, <2>4, <2>5
<1>8. CASE /\ NeedsSnapshot(w)
           /\ Go(w, [q EXCEPT !.pc = "persist",
                       !.copy = [Merged(w) EXCEPT !.status = "awaiting_human",
                                                  !.blob = [@ EXCEPT !.status = "blocked"]]])
  <2>1. PICK s \in Blobs : /\ s = [q.state EXCEPT !.status = "blocked"]
                           /\ s.phase = q.state.phase /\ s.status = "blocked"
    BY <1>2, Restated
  <2>2. PICK r \in Rows : r = [m EXCEPT !.status = "awaiting_human", !.blob = s]
    BY DEF Rows
  <2>3. r.blob = s
    BY <1>4, <2>2 DEF Rows
  <2>4. Go(w, [q EXCEPT !.pc = "persist", !.copy = r])
    BY <1>4, <1>8, <2>1, <2>2
  <2>5. q.state.phase = Published /\ q.gate \in 0..3
    BY <1>1, <1>8 DEF NeedsSnapshot, Sound, Earned, Requests
  <2>6. q.approve /\ q.gate = 3
    BY <1>1, <1>2, <1>8, <2>5 DEF Walked, NeedsSnapshot, Published
  <2> QED BY <1>5, <2>1, <2>3, <2>4, <2>5, <2>6 DEF Demoted
<1> QED BY <1>1, <1>6, <1>7, <1>8 DEF Reload

\* The other steps leave a handler at a place where nothing is decided.
LEMMA NextIsLocal == Inv /\ FlowInv /\ [Next]_vars => FlowInv'
<1> SUFFICES ASSUME Inv, FlowInv, [Next]_vars PROVE FlowInv'
  OBVIOUS
<1>1. ASSUME NEW w \in Workers, Go(w, Idle) PROVE FlowInv'
  BY <1>1, IdleIsLocal, LocalStep
<1>2. ASSUME NEW w \in Workers, KickOffSave(w) \/ Respond(w) \/ RefreshSave(w) PROVE FlowInv'
  BY <1>1, <1>2 DEF KickOffSave, Respond, RefreshSave
<1>3. ASSUME NEW w \in Workers, PostDecision(w) PROVE FlowInv'
  <2>1. PICK q \in Requests : Go(w, q) /\ q.pc = "route"
    BY <1>3, Posted
  <2> QED BY <2>1, LocalStep DEF Local
<1>4. ASSUME NEW w \in Workers, NEW x \in {"load_state", "respond"},
             Go(w, [request[w] EXCEPT !.pc = x])
      PROVE  FlowInv'
  <2>1. PICK q \in Requests : q = request[w]
    BY Held
  <2>2. PICK p \in Requests : p = [q EXCEPT !.pc = x]
    BY DEF Requests, PCs
  <2>3. p.pc = x
    BY <2>2 DEF Requests
  <2>4. Local(p)
    BY <2>3 DEF Local
  <2> QED BY <1>4, <2>1, <2>2, <2>4, LocalStep
<1>5. ASSUME NEW w \in Workers, Route(w) \/ PersistSave(w) PROVE FlowInv'
  <2>1. \/ Go(w, [request[w] EXCEPT !.pc = "load_state"])
        \/ Go(w, [request[w] EXCEPT !.pc = "respond"])
        \/ Go(w, Idle)
    BY <1>5 DEF Route, PersistSave
  <2> QED BY <1>1, <1>4, <2>1
<1>6. ASSUME NEW w \in Workers, LoadState(w) PROVE FlowInv'
  <2>1. CASE row.blob = NoBlob
    BY <1>1, <1>6, <2>1 DEF LoadState
  <2>2. CASE row.blob # NoBlob
    <3>1. PICK q \in Requests : q = request[w]
      BY Held
    <3>2. PICK p \in Requests : p = [q EXCEPT !.pc = "load_row", !.state = row.blob]
      BY Held DEF Requests, PCs, Rows
    <3>3. p.pc = "load_row"
      BY <3>2 DEF Requests
    <3>4. Go(w, p)
      BY <1>6, <2>2, <3>1, <3>2 DEF LoadState
    <3> QED BY <3>3, <3>4, LocalStep DEF Local
  <2> QED BY <2>1, <2>2
<1>7. ASSUME NEW w \in Workers, RefreshRead(w) PROVE FlowInv'
  <2>1. row \in Rows
    BY Held
  <2>2. PICK r \in Rows : r = Refreshed(row)
    BY <2>1, RefreshedRow
  <2>3. PICK idle \in Requests : idle = Idle
    BY IdleIsSound
  <2>4. PICK q \in Requests : q = [idle EXCEPT !.pc = "refresh_save", !.copy = r]
    BY DEF Requests, PCs
  <2>5. q.pc = "refresh_save"
    BY <2>4 DEF Requests
  <2>6. Go(w, q)
    BY <1>7, <2>2, <2>3, <2>4 DEF RefreshRead
  <2> QED BY <2>5, <2>6, LocalStep DEF Local
<1>8. CASE Restart
  BY <1>8, IdleIsLocal DEF Restart, FlowInv
<1>9. CASE UNCHANGED vars
  BY <1>9 DEF vars, FlowInv
<1> QED BY <1>2, <1>3, <1>5, <1>6, <1>7, <1>8, <1>9, ExecuteIsLocal, LoadRowIsLocal,
           ReloadIsLocal DEF Next, Handle

LEMMA InitIsLocal == Init => FlowInv
<1> SUFFICES ASSUME Init, NEW w \in Workers PROVE Local(request[w])
  BY DEF FlowInv
<1>1. CASE w # KickOffWorker
  BY <1>1, IdleIsLocal DEF Init
<1>2. CASE w = KickOffWorker
  <2>1. PICK idle \in Requests : idle = Idle /\ idle.gate = 0
    BY IdleIsSound DEF Idle
  <2>2. request[w] = [idle EXCEPT !.pc = "execute",
                                  !.state = [NoBlob EXCEPT !.status = "running"]]
    BY <1>2, <2>1 DEF Init
  <2>3. request[w].pc = "execute" /\ request[w].gate = 0
    BY <2>1, <2>2 DEF Requests
  <2> QED BY <2>3 DEF Local
<1> QED BY <1>1, <1>2

-----------------------------------------------------------------------------
(* The steps as the reviewer sees them *)

\* An execution, or the save of what an approval led to, is under way for q.
Runs(q) ==
  \/ q.pc \in {"execute", "kickoff_save"}
  \/ q.approve /\ q.pc \in {"reload", "persist"}

\* The lone handler is the one that runs, if any does.
LEMMA LoneRuns ==
  ASSUME Inv, SerialInv, serial, NEW w \in Workers, ~At(w, "idle") \/ Quiet,
         NEW q, Go(w, q)
  PROVE  /\ request'[w] = q
         /\ Running <=> Runs(request[w])
         /\ Running' <=> Runs(q)
<1>1. \A u \in Workers : request'[u] = IF u = w THEN q ELSE request[u]
  BY DEF Go, Inv, TypeOK
<1>2. ASSUME NEW u \in Workers, u # w
      PROVE  request[u].pc = "idle" /\ request'[u].pc = "idle"
  <2>1. request[u].pc = "idle"
    BY <1>2 DEF SerialInv, Alone, Quiet, At
  <2> QED BY <1>1, <1>2, <2>1
<1>3. \A u \in Workers : u # w => ~Runs(request[u]) /\ ~Runs(request'[u])
  BY <1>2 DEF Runs
<1>4. Running <=> \E u \in Workers : Runs(request[u])
  BY DEF Running, Runs, At
<1>5. Running' <=> \E u \in Workers : Runs(request'[u])
  BY DEF Running, Runs, At
<1> QED BY <1>1, <1>3, <1>4, <1>5

\* The flow of a run on which requests come one at a time.
LEMMA Shown ==
  ASSUME serial, serial'
  PROVE  /\ RunningShown <=> Running
         /\ RunningShown' <=> Running'
         /\ BlockedShown <=> row.blob.status = "blocked"
         /\ BlockedShown' <=> row'.blob.status = "blocked"
BY DEF RunningShown, BlockedShown

\* A step after which the run shows as before.
LEMMA Stutters ==
  ASSUME serial, serial', row'.blob = row.blob, Running <=> Running'
  PROVE  UNCHANGED Flow!flowVars
<1>1. PhaseShown' = PhaseShown
  BY DEF PhaseShown
<1>2. RunningShown' = RunningShown
  BY Zenon DEF RunningShown
<1>3. BlockedShown' = BlockedShown
  BY DEF BlockedShown
<1> QED BY <1>1, <1>2, <1>3 DEF Flow!flowVars

\* An execution that ends and leaves the saved run as it was.
LEMMA Abandons ==
  ASSUME serial, serial', row'.blob = row.blob, Running, ~Running'
  PROVE  Flow!Abandon
<1>1. PhaseShown' = PhaseShown
  BY DEF PhaseShown
<1>2. RunningShown /\ ~RunningShown'
  BY Shown
<1>3. BlockedShown' = BlockedShown
  BY DEF BlockedShown
<1>4. RunningShown' = FALSE
  BY <1>2, Zenon DEF RunningShown
<1> QED BY <1>1, <1>2, <1>3, <1>4, Zenon DEF Flow!Abandon

\* A decision, or the kick-off, that is written back, is one step of the flow.
LEMMA Decides ==
  ASSUME serial, serial', row.blob.phase \in 0..3, row.blob.status # "blocked",
         ~Running',
         NEW approved, approved <=> Running,
         \/ Walked(row'.blob, row.blob.phase, approved)
         \/ Demoted(row'.blob, row.blob.phase, approved),
         ~approved => row.blob.phase \in 1..3
  PROVE  Flow!FlowNext
<1>1. RunningShown' = FALSE /\ (RunningShown <=> approved)
  BY Zenon DEF RunningShown
<1>2. BlockedShown = FALSE
  BY Zenon DEF BlockedShown
<1>3. PhaseShown = row.blob.phase
  BY DEF PhaseShown, Published
<1>4. CASE approved /\ row'.blob.phase = row.blob.phase + 1 /\ row'.blob.status # "blocked"
  <2>1. PhaseShown' = PhaseShown + 1
    BY <1>3, <1>4 DEF PhaseShown
  <2>2. BlockedShown' = BlockedShown
    BY <1>2, <1>4, Zenon DEF BlockedShown
  <2> QED BY <1>1, <1>4, <2>1, <2>2, Zenon DEF Flow!FlowNext, Flow!Advance
<1>5. CASE /\ row'.blob.status = "blocked"
           /\ row'.blob.phase = row.blob.phase
              \/ Demoted(row'.blob, row.blob.phase, approved)
  <2>1. PhaseShown' = PhaseShown
    BY <1>3, <1>5 DEF PhaseShown, Published, Demoted
  <2>2. BlockedShown' = TRUE
    BY <1>5, Zenon DEF BlockedShown
  <2>3. CASE approved
    BY <1>1, <2>1, <2>2, <2>3, Zenon DEF Flow!FlowNext, Flow!Fail
  <2>4. CASE ~approved
    <3>1. RunningShown' = RunningShown
      BY <2>4, Zenon DEF RunningShown
    <3>2. Flow!Paused
      BY <1>1, <1>2, <1>3, <2>4 DEF Flow!Paused, Flow!Gates
    <3> QED BY <2>1, <2>2, <3>1, <3>2, Zenon DEF Flow!FlowNext, Flow!Reject
  <2> QED BY <2>3, <2>4
<1> QED BY <1>4, <1>5 DEF Walked, Demoted

\* The guard of the resume is passed by an approval.
LEMMA Approves ==
  ASSUME serial, serial', row' = row, PausedAt(row.blob, row.blob.phase),
         row.blob.phase \in 1..3, ~Running, Running'
  PROVE  Flow!Approve
<1>1. PhaseShown' = PhaseShown /\ PhaseShown = row.blob.phase
  BY DEF PhaseShown, Published
<1>2. BlockedShown = FALSE
  BY Zenon DEF BlockedShown, PausedAt
<1>3. BlockedShown' = FALSE
  BY Zenon DEF BlockedShown, PausedAt
<1>4. RunningShown' = TRUE /\ RunningShown = FALSE
  BY Zenon DEF RunningShown
<1>5. Flow!Paused
  BY <1>1, <1>2, <1>4 DEF Flow!Paused, Flow!Gates
<1> QED BY <1>1, <1>2, <1>3, <1>4, <1>5, Zenon DEF Flow!Approve

\* Going on without a change of what the run shows as.
LEMMA LoneStutters ==
  ASSUME Inv, SerialInv, serial, serial', NEW w \in Workers, ~At(w, "idle") \/ Quiet,
         NEW q, Go(w, q), row'.blob = row.blob, Runs(request[w]) <=> Runs(q)
  PROVE  UNCHANGED Flow!flowVars
<1>1. Running <=> Running'
  BY LoneRuns
<1> QED BY <1>1, Stutters

LEMMA IdleRunsNot == ~Runs(Idle)
BY IdleIsSound DEF Runs

LEMMA ExecuteRefines ==
  ASSUME Inv, SerialInv, FlowInv, serial, serial', NEW w \in Workers, Execute(w)
  PROVE  Flow!FlowNext \/ UNCHANGED Flow!flowVars
<1>1. PICK q \in Requests : q = request[w] /\ Local(q)
  BY Held DEF FlowInv
<1>2. q.pc = "execute" /\ ~At(w, "idle") /\ row' = row /\ Runs(q)
  BY <1>1 DEF Execute, At, Runs
<1> DEFINE next == IF q.gate = 0 THEN "kickoff_save" ELSE "reload"
<1>3. ASSUME NEW s, Go(w, [q EXCEPT !.pc = next, !.state = s])
      PROVE  UNCHANGED Flow!flowVars
  <2>1. next \in {"kickoff_save", "reload"} /\ (next = "reload" => q.gate # 0)
    OBVIOUS
  <2> HIDE DEF next
  <2>2. PICK p : p = [q EXCEPT !.pc = next, !.state = s]
    OBVIOUS
  <2>3. p.pc = next /\ p.approve = q.approve
    BY <2>2 DEF Requests
  <2>4. next = "reload" => q.approve
    BY <1>1, <1>2, <2>1 DEF Local
  <2>5. Runs(p)
    BY <2>1, <2>3, <2>4 DEF Runs
  <2> QED BY <1>1, <1>2, <1>3, <2>2, <2>5, LoneStutters
<1>4. CASE Go(w, Idle)
  <2>1. Running /\ ~Running'
    BY <1>1, <1>2, <1>4, LoneRuns, IdleRunsNot
  <2> QED BY <1>2, <2>1, Abandons DEF Flow!FlowNext
<1> QED BY <1>1, <1>3, <1>4 DEF Execute

LEMMA KickOffSaveRefines ==
  ASSUME Inv, SerialInv, FlowInv, serial, serial', NEW w \in Workers, KickOffSave(w)
  PROVE  Flow!FlowNext
<1>1. PICK q \in Requests : q = request[w] /\ q.copy \in Rows
  BY Held DEF Requests
<1>2. /\ ~At(w, "idle") /\ row.blob = NoBlob /\ Runs(request[w])
      /\ Walked(q.state, 0, TRUE) /\ Go(w, Idle)
  BY <1>1 DEF KickOffSave, At, SerialInv, InStep, Runs, FlowInv, Local
<1>3. row' = [q.copy EXCEPT !.status = Surface(q.state.status),
                            !.op = "none", !.blob = q.state]
  BY <1>1 DEF KickOffSave
<1>4. row'.blob = q.state
  BY <1>1, <1>3 DEF Rows
<1>5. Running /\ ~Running'
  BY <1>2, LoneRuns, IdleRunsNot
<1>6. row.blob.phase = 0 /\ row.blob.phase \in 0..3 /\ row.blob.status # "blocked"
  BY <1>2 DEF NoBlob
<1>7. PICK approved : approved = TRUE
  OBVIOUS
<1>8. approved /\ Walked(row'.blob, row.blob.phase, approved)
  BY <1>2, <1>4, <1>6, <1>7
<1>9. (approved <=> Running) /\ (~approved => row.blob.phase \in 1..3)
  BY <1>5, <1>8
<1> QED BY <1>5, <1>6, <1>8, <1>9, Decides

LEMMA LoadRowRefines ==
  ASSUME Inv, SerialInv, FlowInv, serial, serial', NEW w \in Workers, LoadRow(w)
  PROVE  Flow!FlowNext \/ UNCHANGED Flow!flowVars
<1>1. PICK q \in Requests : q = request[w]
  BY Held
<1>2. /\ q.pc = "load_row" /\ ~At(w, "idle") /\ row' = row /\ q.state = row.blob
      /\ ~Runs(q) /\ q.gate \in 1..3
  BY <1>1, Held DEF LoadRow, At, Runs, SerialInv, InStep, Sound, Gates
<1>3. ASSUME NEW p, Go(w, p), ~Runs(p) PROVE UNCHANGED Flow!flowVars
  BY <1>1, <1>2, <1>3, LoneStutters
<1>4. CASE Go(w, [q EXCEPT !.pc = "respond", !.copy = row])
  <2>1. PICK p : p = [q EXCEPT !.pc = "respond", !.copy = row]
    OBVIOUS
  <2>2. p.pc = "respond"
    BY <2>1 DEF Requests
  <2> QED BY <1>3, <1>4, <2>1, <2>2 DEF Runs
<1>5. CASE /\ PausedAt(q.state, q.gate)
           /\ Go(w, [q EXCEPT !.pc = "execute",
                       !.state = [q.state EXCEPT !.status = "running"]])
  <2>1. PICK s : s = [q.state EXCEPT !.status = "running"]
    OBVIOUS
  <2>2. PICK p : p = [q EXCEPT !.pc = "execute", !.state = s]
    OBVIOUS
  <2>3. p.pc = "execute"
    BY <2>2 DEF Requests
  <2>4. ~Running /\ Running'
    BY <1>1, <1>2, <1>5, <2>1, <2>2, <2>3, LoneRuns DEF Runs
  <2>5. PausedAt(row.blob, row.blob.phase) /\ row.blob.phase \in 1..3
    BY <1>2, <1>5 DEF PausedAt
  <2> QED BY <1>2, <2>4, <2>5, Approves DEF Flow!FlowNext
<1>6. CASE /\ ~q.approve
           /\ Go(w, [q EXCEPT !.pc = "reload",
                       !.state = [q.state EXCEPT !.status = "blocked"]])
  <2>1. PICK s : s = [q.state EXCEPT !.status = "blocked"]
    OBVIOUS
  <2>2. PICK p : p = [q EXCEPT !.pc = "reload", !.state = s]
    OBVIOUS
  <2>3. p.pc = "reload" /\ p.approve = q.approve
    BY <2>2 DEF Requests
  <2> QED BY <1>3, <1>6, <2>1, <2>2, <2>3 DEF Runs
<1> QED BY <1>1, <1>4, <1>5, <1>6 DEF LoadRow

\* The copy is built; the decision is not saved yet.
LEMMA ReloadRefines ==
  ASSUME Inv, SerialInv, FlowInv, serial, serial', NEW w \in Workers, Reload(w)
  PROVE  UNCHANGED Flow!flowVars
<1>1. PICK q \in Requests : q = request[w]
  BY Held
<1>2. q.pc = "reload" /\ ~At(w, "idle") /\ row' = row
  BY <1>1 DEF Reload, At
<1>3. PICK r : Go(w, [q EXCEPT !.pc = "persist", !.copy = r])
  BY <1>1 DEF Reload
<1>4. PICK p : p = [q EXCEPT !.pc = "persist", !.copy = r]
  OBVIOUS
<1>5. p.pc = "persist" /\ p.approve = q.approve
  BY <1>4 DEF Requests
<1>6. Runs(q) <=> Runs(p)
  BY <1>2, <1>5 DEF Runs
<1> QED BY <1>1, <1>2, <1>3, <1>4, <1>6, LoneStutters

LEMMA PersistSaveRefines ==
  ASSUME Inv, SerialInv, FlowInv, serial, serial', NEW w \in Workers, PersistSave(w)
  PROVE  Flow!FlowNext
<1>1. PICK q \in Requests : q = request[w] /\ Local(q)
  BY Held DEF FlowInv
<1>2. /\ q.pc = "persist" /\ ~At(w, "idle") /\ row' = q.copy
      /\ q.gate \in Gates /\ PausedAt(row.blob, q.gate)
  BY <1>1 DEF PersistSave, At, SerialInv, InStep
<1>3. PICK p : p = [q EXCEPT !.pc = "respond"]
  OBVIOUS
<1>4. p.pc = "respond"
  BY <1>3 DEF Requests
<1>5. (Running <=> q.approve) /\ ~Running'
  BY <1>1, <1>2, <1>3, <1>4, LoneRuns DEF PersistSave, Runs
<1>6. /\ row.blob.phase = q.gate /\ row.blob.phase \in 1..3 /\ row.blob.phase \in 0..3
      /\ row.blob.status # "blocked"
  BY <1>2 DEF PausedAt, Gates
<1>7. \/ Walked(row'.blob, row.blob.phase, q.approve)
      \/ Demoted(row'.blob, row.blob.phase, q.approve)
  BY <1>1, <1>2, <1>6 DEF Local
<1> QED BY <1>5, <1>6, <1>7, Decides

\* A save of a copy with the graph's state of the row.
LEMMA SameSaveRefines ==
  ASSUME Inv, SerialInv, FlowInv, serial, serial', NEW w \in Workers,
         Respond(w) \/ RefreshSave(w)
  PROVE  UNCHANGED Flow!flowVars
<1>1. PICK q \in Requests : q = request[w]
  BY Held
<1>2. /\ ~At(w, "idle") /\ ~Runs(request[w]) /\ Go(w, Idle)
      /\ q.copy \in Rows /\ q.copy.blob = row.blob
  BY <1>1 DEF Respond, RefreshSave, At, Runs, SerialInv, InStep, Requests
<1>3. row' = q.copy \/ row' = [q.copy EXCEPT !.status = Surface(q.state.status)]
  BY <1>1 DEF Respond, RefreshSave
<1>4. row'.blob = row.blob
  BY <1>2, <1>3 DEF Rows
<1> QED BY <1>2, <1>4, IdleRunsNot, LoneStutters

\* A request that arrives or is still reading.
LEMMA ReadRefines ==
  ASSUME Inv, SerialInv, FlowInv, serial, serial', NEW w \in Workers,
         PostDecision(w) \/ Route(w) \/ LoadState(w) \/ RefreshRead(w)
  PROVE  UNCHANGED Flow!flowVars
<1>1. /\ row' = row /\ ~Runs(request[w]) /\ (~At(w, "idle") \/ Quiet)
  BY DEF PostDecision, Route, LoadState, RefreshRead, MayCome, At, Runs
<1>2. ASSUME NEW q, Go(w, q), ~Runs(q) PROVE UNCHANGED Flow!flowVars
  BY <1>1, <1>2, LoneStutters
<1>3. CASE PostDecision(w)
  <2>1. PICK q \in Requests : Go(w, q) /\ q.pc = "route"
    BY <1>3, Posted
  <2> QED BY <1>2, <2>1 DEF Runs
<1>4. PICK q \in Requests : q = request[w]
  BY Held
<1>5. CASE Route(w)
  <2>1. PICK p : p = [q EXCEPT !.pc = "load_state"]
    OBVIOUS
  <2>2. p.pc = "load_state"
    BY <2>1 DEF Requests
  <2>3. Go(w, p) \/ Go(w, Idle)
    BY <1>4, <1>5, <2>1 DEF Route
  <2> QED BY <1>2, <2>2, <2>3, IdleRunsNot DEF Runs
<1>6. CASE LoadState(w)
  <2>1. PICK p : p = [q EXCEPT !.pc = "load_row", !.state = row.blob]
    OBVIOUS
  <2>2. p.pc = "load_row"
    BY <2>1 DEF Requests
  <2>3. Go(w, p) \/ Go(w, Idle)
    BY <1>4, <1>6, <2>1 DEF LoadState
  <2> QED BY <1>2, <2>2, <2>3, IdleRunsNot DEF Runs
<1>7. CASE RefreshRead(w)
  <2>1. PICK idle \in Requests : idle = Idle
    BY IdleIsSound
  <2>2. PICK p : p = [idle EXCEPT !.pc = "refresh_save", !.copy = Refreshed(row)]
    OBVIOUS
  <2>3. p.pc = "refresh_save"
    BY <2>2 DEF Requests
  <2>4. Go(w, p)
    BY <1>7, <2>1, <2>2 DEF RefreshRead
  <2> QED BY <1>2, <2>3, <2>4 DEF Runs
<1> QED BY <1>3, <1>5, <1>6, <1>7

LEMMA RestartRefines ==
  ASSUME Inv, serial, serial', Restart
  PROVE  Flow!FlowNext \/ UNCHANGED Flow!flowVars
<1>1. row'.blob = row.blob
  BY DEF Restart, Rows, Inv, TypeOK
<1>2. \A w \in Workers : request'[w] = Idle
  BY DEF Restart
<1>3. ~Running'
  BY <1>2, IdleIsSound DEF Running, At
<1>4. CASE Running
  BY <1>1, <1>3, <1>4, Abandons DEF Flow!FlowNext
<1>5. CASE ~Running
  BY <1>1, <1>3, <1>5, Stutters
<1> QED BY <1>4, <1>5

LEMMA StepRefines ==
  Inv /\ SerialInv /\ FlowInv /\ [Next]_vars => [Flow!FlowNext]_(Flow!flowVars)
<1> SUFFICES ASSUME Inv, SerialInv, FlowInv, [Next]_vars
             PROVE  Flow!FlowNext \/ UNCHANGED Flow!flowVars
  OBVIOUS
<1>1. UNCHANGED serial
  BY DEF Next, vars
<1>2. CASE ~serial
  <2>1. PhaseShown' = PhaseShown
    BY <1>1, <1>2 DEF PhaseShown
  <2>2. RunningShown' = RunningShown
    BY <1>1, <1>2, Zenon DEF RunningShown
  <2>3. BlockedShown' = BlockedShown
    BY <1>1, <1>2, Zenon DEF BlockedShown
  <2> QED BY <2>1, <2>2, <2>3 DEF Flow!flowVars
<1>3. CASE serial /\ UNCHANGED vars
  <2>1. UNCHANGED <<serial, row, request>>
    BY <1>3 DEF vars
  <2>2. Running <=> Running'
    BY <2>1 DEF Running, At
  <2> QED BY <1>1, <1>3, <2>1, <2>2, Stutters
<1>4. CASE serial /\ Restart
  BY <1>1, <1>4, RestartRefines
<1>5. ASSUME serial, NEW w \in Workers, PostDecision(w) \/ RefreshRead(w) \/ Handle(w)
      PROVE  Flow!FlowNext \/ UNCHANGED Flow!flowVars
  BY <1>1, <1>5, ExecuteRefines, KickOffSaveRefines, LoadRowRefines, ReloadRefines,
     PersistSaveRefines, SameSaveRefines, ReadRefines
     DEF Handle
<1> QED BY <1>2, <1>3, <1>4, <1>5 DEF Next

-----------------------------------------------------------------------------
(* Theorem *)

\* For any number of workers, snapshots and restarts, a run on which requests come one
\* at a time follows the gate flow: gates in order, nothing past one that was not
\* approved there, and a request that dies anywhere leaves what was saved before it.
THEOREM Refinement == Spec => ImplementsGateFlow
<1>1. Init => FlowInv
  BY InitIsLocal
<1>2. Inv /\ FlowInv /\ [Next]_vars => FlowInv'
  BY NextIsLocal
<1>3. Spec => [](Inv /\ SerialInv /\ FlowInv)
  BY <1>1, <1>2, SerialInvariance, PTL DEF Spec
<1>4. Init => Flow!FlowInit
  <2> SUFFICES ASSUME Init PROVE Flow!FlowInit
    OBVIOUS
  <2>1. row.blob = NoBlob
    BY DEF Init, Placeholder
  <2>2. PhaseShown = 0 /\ BlockedShown = FALSE
    BY <2>1 DEF PhaseShown, BlockedShown, NoBlob, Published
  <2>3. Running
    <3>1. PICK idle \in Requests : idle = Idle
      BY IdleIsSound
    <3>2. request[KickOffWorker] =
            [idle EXCEPT !.pc = "execute", !.state = [NoBlob EXCEPT !.status = "running"]]
      BY <3>1, RunAssumption DEF Init
    <3>3. request[KickOffWorker].pc = "execute"
      BY <3>2 DEF Requests
    <3> QED BY <3>3, RunAssumption DEF Running, At
  <2>4. RunningShown = TRUE
    BY <2>3, Zenon DEF RunningShown
  <2> QED BY <2>2, <2>4, Zenon DEF Flow!FlowInit
<1> QED BY <1>3, <1>4, StepRefines, PTL DEF Spec, ImplementsGateFlow, Flow!FlowSpec

=============================================================================
