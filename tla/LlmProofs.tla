----------------------------- MODULE LlmProofs -----------------------------
(***************************************************************************)
(* What holds of the program's calls of language models, and of those that *)
(* learners' code makes through the lab proxy.  The two are components of  *)
(* their own and share no state.                                           *)
(*                                                                         *)
(* The lab proxy, for any number of submissions, proxy threads, caps and   *)
(* budgets: the books, the overshoot of the hard stop, and that no token   *)
(* and no environment outlives its submission.  The invariant has three    *)
(* parts, each inductive with the ones before it: GInv holds of one        *)
(* process or two, LockInv (one process) says that a holder of the lock    *)
(* carries the file with its own change in it, SerialInv (serial           *)
(* submissions) says whose the environment is.                             *)
(*                                                                         *)
(* The calls, for any number of callers, parts and attempts: the children, *)
(* the bill, the memory of refused schemas and the costs that are told.    *)
(* Callers share nothing but the memory of refused schemas, so that the    *)
(* invariant speaks of one caller at a time (Sound): how far the counts of *)
(* its attempts, of the answers it was charged and of those it heard can   *)
(* be apart at each place of the caller and of its child.                  *)
(***************************************************************************)
EXTENDS LabLlmProxy, LlmCall, Integers, FiniteSetTheorems, TLAPS

-----------------------------------------------------------------------------
(* The lab proxy: the inductive invariant *)

SubStates ==
  [pc : SubPCs, minted : BOOLEAN, prev : Submissions \cup {NoToken},
   container : Submissions \cup {NoToken}, copy : Stores]

CallStates ==
  [pc : CallPCs, token : Submissions \cup {NoToken}, used : 0..MaxUse, copy : Stores]

Types ==
  /\ oneProcess \in BOOLEAN
  /\ serial \in BOOLEAN
  /\ store \in Stores
  /\ tmp \in Stores \cup {NoFile}
  /\ env \in Submissions \cup {NoToken}
  /\ sub \in [Submissions -> SubStates]
  /\ call \in [Threads -> CallStates]
  /\ billed \in 0..MaxBilled

\* The units a thread will add to the spend it reads.
Owed == Units({"charge"})

\* The units the file does not hold.
Open == Units({"charge", "charge_write", "charge_replace"})

\* The units in flight: a call upstream may use all it is allowed to.
Flight ==
  {u \in Threads \X (1..MaxUse) :
     \/ call[u[1]].pc = "upstream"
     \/ call[u[1]].pc \in {"charge", "charge_write", "charge_replace"} /\ u[2] <= call[u[1]].used}

\* No version of the file, however old, is ahead of the bill by what it says
\* and by what is still to be added to it.
Below(file) == file.spent + Cardinality(Owed) <= billed

NeverAhead ==
  /\ Below(store)
  /\ Below(tmp)
  /\ \A s \in Submissions : Below(sub[s].copy)
  /\ \A t \in Threads : Below(call[t].copy)

Addressed == \A t \in Threads : call[t].pc # "idle" => call[t].token \in Submissions

GInv == Types /\ Addressed /\ NeverAhead

Holding(s) == sub[s].pc \in {"issue_write", "issue_replace", "revoke_write", "revoke_replace"}

Charging(t) == call[t].pc \in {"charge_write", "charge_replace"}

OneHolder ==
  /\ \A s, u \in Submissions : Holding(s) /\ Holding(u) => s = u
  /\ \A t, v \in Threads : Charging(t) /\ Charging(v) => t = v
  /\ \A s \in Submissions, t \in Threads : ~(Holding(s) /\ Charging(t))

WithLeft(s, n) == [store EXCEPT !.left[s] = n]

\* What the holder is about to save is the file with its own change.
Faithful ==
  /\ \A s \in Submissions :
       /\ sub[s].pc = "issue_write" => sub[s].copy = WithLeft(s, Budget)
       /\ sub[s].pc = "issue_replace" => tmp = WithLeft(s, Budget)
       /\ sub[s].pc = "revoke_write" => sub[s].copy = WithLeft(s, Absent)
       /\ sub[s].pc = "revoke_replace" => tmp = WithLeft(s, Absent)
  /\ \A t \in Threads :
       /\ call[t].pc = "charge_write" => call[t].copy = Charged(call[t].token, call[t].used)
       /\ call[t].pc = "charge_replace" => tmp = Charged(call[t].token, call[t].used)

Carrying == {"set_env", "boot", "grading", "revoke", "revoke_write", "revoke_replace"}

\* A token is in the file only while its submission knows that it minted it.
Owned ==
  \A s \in Submissions :
    IF sub[s].pc \in Carrying THEN sub[s].minted ELSE store.left[s] = Absent

Recorded == billed = store.spent + Cardinality(Open)

Bounded == store.spent + Cardinality(Flight) < GlobalCap + Cardinality(Threads) * MaxUse

LockBody == OneHolder /\ Faithful /\ Owned /\ Recorded /\ Bounded

LockInv == oneProcess => LockBody

Active(s) == sub[s].pc \notin {"new", "done"}

Environment ==
  /\ \A s \in Submissions :
       /\ sub[s].container \in {NoToken, s}
       /\ Active(s) => sub[s].prev = NoToken /\ env \in {NoToken, s}
  /\ (\A s \in Submissions : ~Active(s)) => env = NoToken

OneActive == \A s, u \in Submissions : Active(s) /\ Active(u) => s = u

SerialInv == serial => OneActive /\ Environment

-----------------------------------------------------------------------------
(* Lemmas on the file and on counting *)

\* The larger of zero and a number.
LEMMA MaxWithZero ==
  ASSUME NEW n \in Int
  PROVE  Max({0, n}) = IF n < 0 THEN 0 ELSE n
<1> DEFINE m == IF n < 0 THEN 0 ELSE n
<1>1. m \in {0, n} /\ \A y \in {0, n} : m >= y
  OBVIOUS
<1>2. \A x \in {0, n} : (\A y \in {0, n} : x >= y) => x = m
  OBVIOUS
<1> HIDE DEF m
<1>3. Max({0, n}) = m
  BY <1>1, <1>2 DEF Max
<1> QED
  BY <1>3 DEF m

\* A file with a call charged to it: the spend is the sum, and the other
\* tokens, and the ones that are gone, are as they were.
LEMMA ChargedFile ==
  ASSUME store \in Stores, NEW k \in Submissions, NEW n \in 0..MaxUse, MaxUse \in Nat,
         Budget \in Nat, MaxBilled \in Nat
  PROVE  /\ Charged(k, n).spent = store.spent + n
         /\ Charged(k, n).left \in [Submissions -> Absent..Budget]
         /\ \A s \in Submissions : store.left[s] = Absent => Charged(k, n).left[s] = Absent
         /\ store.spent + n <= MaxBilled => Charged(k, n) \in Stores
<1>1. store \in [left : [Submissions -> Absent..Budget], spent : 0..MaxBilled]
  BY DEF Stores
<1>2. PICK l \in [Submissions -> Absent..Budget] : l = store.left
  BY <1>1
<1> DEFINE new == IF l[k] = Absent THEN l ELSE [l EXCEPT ![k] = Max({0, @ - n})]
<1>3. Charged(k, n) = [left |-> new, spent |-> store.spent + n]
  BY <1>2 DEF Charged
<1>4. new \in [Submissions -> Absent..Budget]
  <2>1. l[k] - n \in Int /\ l[k] - n <= Budget
    BY <1>2 DEF Absent
  <2>2. Max({0, l[k] - n}) \in Absent..Budget
    BY <2>1, MaxWithZero DEF Absent
  <2> QED
    BY <2>2
<1>5. \A s \in Submissions : l[s] = Absent => new[s] = Absent
  OBVIOUS
<1> HIDE DEF new
<1>6. store.spent + n \in 0..MaxBilled \/ ~(store.spent + n <= MaxBilled)
  BY <1>1
<1> QED
  BY <1>1, <1>2, <1>3, <1>4, <1>5, <1>6 DEF Stores

\* A file with what is left of one token changed.
LEMMA ChangedFile ==
  ASSUME store \in Stores, NEW s \in Submissions, NEW n \in Absent..Budget
  PROVE  /\ WithLeft(s, n) \in Stores
         /\ WithLeft(s, n).spent = store.spent
         /\ WithLeft(s, n).left[s] = n
         /\ \A u \in Submissions : u # s => WithLeft(s, n).left[u] = store.left[u]
BY DEF Stores, WithLeft

\* A thread's units are as many as it has used.
LEMMA Block ==
  ASSUME NEW t \in Threads, NEW n \in 0..MaxUse, MaxUse \in Nat
  PROVE  IsFiniteSet({t} \X (1..n)) /\ Cardinality({t} \X (1..n)) = n
<1>1. IsFiniteSet(1..n) /\ Cardinality(1..n) = n
  BY FS_Interval
<1>2. IsFiniteSet({t}) /\ Cardinality({t}) = 1
  BY FS_Singleton
<1>3. IsFiniteSet({t} \X (1..n)) /\ Cardinality({t} \X (1..n)) = 1 * n
  BY <1>1, <1>2, FS_Product
<1> QED
  BY <1>3

\* The units of all threads.
LEMMA AllUnits ==
  ASSUME ProxyAssumption
  PROVE  /\ IsFiniteSet(Threads \X (1..MaxUse))
         /\ Cardinality(Threads) \in Nat \ {0}
         /\ Cardinality(Threads \X (1..MaxUse)) = Cardinality(Threads) * MaxUse
<1>1. IsFiniteSet(1..MaxUse) /\ Cardinality(1..MaxUse) = MaxUse
  BY FS_Interval DEF ProxyAssumption
<1>2. IsFiniteSet(Threads)
  BY DEF ProxyAssumption
<1>3. Cardinality(Threads) \in Nat /\ Cardinality(Threads) # 0
  BY <1>2, FS_EmptySet, FS_CardinalityType DEF ProxyAssumption
<1> QED
  BY <1>1, <1>2, <1>3, FS_Product

\* A set of units is counted by a number, a smaller set by a smaller one.
LEMMA Fewer ==
  ASSUME ProxyAssumption, NEW A \in SUBSET (Threads \X (1..MaxUse)), NEW B \in SUBSET A
  PROVE  /\ IsFiniteSet(A)
         /\ Cardinality(A) \in Nat
         /\ Cardinality(A) <= Cardinality(Threads) * MaxUse
         /\ Cardinality(B) \in Nat
         /\ Cardinality(B) <= Cardinality(A)
<1>1. IsFiniteSet(A) /\ Cardinality(A) <= Cardinality(Threads) * MaxUse
  BY AllUnits, FS_Subset
<1>2. IsFiniteSet(B) /\ Cardinality(B) <= Cardinality(A)
  BY <1>1, FS_Subset
<1> QED
  BY <1>1, <1>2, FS_CardinalityType

\* Units of a thread that were not counted add what it has used.
LEMMA Adding ==
  ASSUME ProxyAssumption, NEW A \in SUBSET (Threads \X (1..MaxUse)),
         NEW t \in Threads, NEW n \in 0..MaxUse, A \cap ({t} \X (1..n)) = {}
  PROVE  Cardinality(A \cup ({t} \X (1..n))) = Cardinality(A) + n
<1>1. IsFiniteSet(A) /\ Cardinality(A) \in Nat
  BY Fewer
<1>2. MaxUse \in Nat
  BY DEF ProxyAssumption
<1>3. IsFiniteSet({t} \X (1..n)) /\ Cardinality({t} \X (1..n)) = n
  BY <1>2, Block
<1>4. Cardinality(A \cup ({t} \X (1..n))) = Cardinality(A) + n - Cardinality({})
  BY <1>1, <1>3, FS_Union
<1>5. Cardinality({}) = 0
  BY FS_EmptySet
<1>6. n \in Nat
  BY <1>2
<1>7. Cardinality(A) + n - 0 = Cardinality(A) + n
  BY <1>1, <1>6
<1> QED
  BY <1>4, <1>5, <1>7

-----------------------------------------------------------------------------
(* One process or two *)

\* The units counted are units of the threads.
LEMMA UnitSets ==
  /\ Owed \in SUBSET (Threads \X (1..MaxUse))
  /\ Open \in SUBSET (Threads \X (1..MaxUse))
  /\ Flight \in SUBSET (Threads \X (1..MaxUse))
BY DEF Owed, Open, Flight, Units

LEMMA UnitSetsNext ==
  /\ Owed' \in SUBSET (Threads \X (1..MaxUse))
  /\ Open' \in SUBSET (Threads \X (1..MaxUse))
  /\ Flight' \in SUBSET (Threads \X (1..MaxUse))
BY DEF Owed, Open, Flight, Units

\* The counts are numbers.
LEMMA Counts ==
  ASSUME ProxyAssumption
  PROVE  /\ Cardinality(Owed) \in Nat
         /\ Cardinality(Owed') \in Nat
         /\ Cardinality(Open) \in Nat
         /\ Cardinality(Open') \in Nat
         /\ Cardinality(Flight) \in Nat
         /\ Cardinality(Flight') \in Nat
BY UnitSets, UnitSetsNext, Fewer

\* Nothing is counted otherwise when no call moves.
LEMMA CallsRest ==
  ASSUME UNCHANGED call
  PROVE  Owed' = Owed /\ Open' = Open /\ Flight' = Flight
BY DEF Owed, Open, Flight, Units

\* A step of a submission s to q, the file becoming f and the temporary one g.
LEMMA SubKeeps ==
  ASSUME ProxyAssumption, GInv, NEW s \in Submissions,
         NEW q \in SubStates, sub' = [sub EXCEPT ![s] = q], Below(q.copy),
         NEW f \in Stores, store' = f, Below(f),
         NEW g \in Stores \cup {NoFile}, tmp' = g, Below(g),
         env' \in Submissions \cup {NoToken}, NoCall
  PROVE  GInv'
<1>1. /\ UNCHANGED <<oneProcess, serial, call, billed>>
      /\ Owed' = Owed
  BY CallsRest DEF NoCall, config
<1>2. Types'
  BY <1>1 DEF GInv, Types
<1>3. Addressed'
  BY <1>1 DEF GInv, Addressed
<1>4. sub'[s] = q /\ \A u \in Submissions : u # s => sub'[u] = sub[u]
  BY DEF GInv, Types
<1>5. NeverAhead'
  BY <1>1, <1>4 DEF GInv, NeverAhead, Below
<1> QED
  BY <1>2, <1>3, <1>5 DEF GInv

\* There is no file, and none is ahead of the bill.
LEMMA NoFileBelow ==
  ASSUME ProxyAssumption, GInv
  PROVE  Below(NoFile)
<1>1. store.spent + Cardinality(Owed) <= billed /\ billed \in Int
  BY DEF GInv, NeverAhead, Below, Types
<1>2. store.spent \in Int /\ store.spent >= 0
  BY DEF GInv, Types, Stores
<1>3. NoFile.spent = -1
  BY DEF NoFile
<1>4. -1 + Cardinality(Owed) <= billed
  BY <1>1, <1>2, Counts
<1> QED
  BY <1>3, <1>4 DEF Below

\* A submission reads the file and changes its own token in its copy.
LEMMA SubReads ==
  ASSUME ProxyAssumption, GInv, NEW s \in Submissions, NEW pc \in SubPCs,
         NEW n \in Absent..Budget,
         SubRead(s, pc, WithLeft(s, n)), UNCHANGED <<store, tmp, env>>, NoCall
  PROVE  GInv'
<1>1. PICK x \in Stores : x = WithLeft(s, n) /\ x.spent = store.spent
  BY ChangedFile DEF GInv, Types
<1>2. PICK q \in SubStates : q = [sub[s] EXCEPT !.pc = pc, !.copy = x]
  BY DEF GInv, Types, SubStates
<1>3. sub' = [sub EXCEPT ![s] = q]
  BY <1>1, <1>2 DEF SubRead, GInv, Types, SubStates
<1>4. q.copy = x
  BY <1>2 DEF GInv, Types, SubStates
<1>5. Below(q.copy) /\ Below(store) /\ Below(tmp)
  BY <1>1, <1>4 DEF GInv, NeverAhead, Below
<1>6. store \in Stores /\ tmp \in Stores \cup {NoFile} /\ env \in Submissions \cup {NoToken}
  BY DEF GInv, Types
<1> QED
  BY <1>3, <1>5, <1>6, SubKeeps

\* A submission saves its copy, or moves on, or moves what is saved.
LEMMA SubMoves ==
  ASSUME ProxyAssumption, GInv, NEW s \in Submissions,
         NEW q \in SubStates, sub' = [sub EXCEPT ![s] = q], q.copy = sub[s].copy,
         \/ WriteTmp(sub[s].copy)
         \/ ReplaceStore
         \/ UNCHANGED <<store, tmp>>,
         env' \in Submissions \cup {NoToken}, NoCall
  PROVE  GInv'
<1>1. /\ store \in Stores /\ tmp \in Stores \cup {NoFile}
      /\ Below(store) /\ Below(tmp) /\ Below(NoFile)
  BY NoFileBelow DEF GInv, Types, NeverAhead
<1>2. sub[s].copy \in Stores /\ Below(sub[s].copy) /\ Below(q.copy)
  BY DEF GInv, Types, SubStates, NeverAhead
<1>3. CASE WriteTmp(sub[s].copy)
  <2>1. tmp' = sub[s].copy /\ store' = store
    BY <1>3 DEF WriteTmp
  <2> QED
    BY <1>1, <1>2, <2>1, SubKeeps
<1>4. CASE ReplaceStore
  <2>1. PICK f \in Stores : store' = f /\ Below(f)
    BY <1>1, <1>4 DEF ReplaceStore
  <2>2. tmp' = NoFile
    BY <1>4 DEF ReplaceStore
  <2> QED
    BY <1>1, <1>2, <2>1, <2>2, SubKeeps
<1>5. CASE UNCHANGED <<store, tmp>>
  BY <1>1, <1>2, <1>5, SubKeeps
<1> QED
  BY <1>3, <1>4, <1>5

\* The step of a submission goes to q.
SubGoes(s, q) == sub' = [sub EXCEPT ![s] = q] /\ q.copy = sub[s].copy

\* A submission goes on to pc.
LEMMA SubGoing ==
  ASSUME GInv, NEW s \in Submissions, NEW pc \in SubPCs, SubGo(s, pc)
  PROVE  \E q \in SubStates : SubGoes(s, q)
<1>1. PICK q \in SubStates : q = [sub[s] EXCEPT !.pc = pc]
  BY DEF GInv, Types, SubStates
<1>2. sub' = [sub EXCEPT ![s] = q] /\ q.copy = sub[s].copy
  BY <1>1 DEF SubGo, GInv, Types, SubStates
<1> QED
  BY <1>2 DEF SubGoes

\* GInv is preserved by every step of a submission.
LEMMA GInvSub ==
  ASSUME ProxyAssumption, GInv, NEW s \in Submissions, Submit(s) \/ SubStep(s)
  PROVE  GInv'
<1> USE DEF SubPCs
<1>0. /\ env \in Submissions \cup {NoToken}
      /\ sub[s] \in SubStates
      /\ Budget \in Absent..Budget /\ Absent \in Absent..Budget
  BY DEF GInv, Types, ProxyAssumption, Absent
<1>1. CASE Submit(s)
  <2>1. PICK q \in SubStates : q = [sub[s] EXCEPT !.pc = "issue", !.prev = env]
    BY <1>0 DEF SubStates
  <2>2. sub' = [sub EXCEPT ![s] = q] /\ q.copy = sub[s].copy
    BY <1>1, <2>1 DEF Submit, GInv, Types, SubStates
  <2> QED
    BY <1>0, <1>1, <2>2, SubMoves DEF Submit
<1>2. CASE IssueRead(s)
  BY <1>0, <1>2, SubReads DEF IssueRead, WithLeft
<1>3. CASE IssueWrite(s)
  <2>1. PICK q \in SubStates : SubGoes(s, q)
    BY <1>3, SubGoing DEF IssueWrite
  <2> QED
    BY <1>0, <1>3, <2>1, SubMoves DEF IssueWrite, SubGoes
<1>4. CASE IssueReplace(s)
  <2>1. CASE SubGo(s, "boot")
    <3>1. PICK q \in SubStates : SubGoes(s, q)
      BY <2>1, SubGoing
    <3> QED
      BY <1>0, <1>4, <3>1, SubMoves DEF IssueReplace, SubGoes
  <2>2. CASE sub' = [sub EXCEPT ![s].pc = "set_env", ![s].minted = TRUE]
    <3>1. PICK q \in SubStates : q = [sub[s] EXCEPT !.pc = "set_env", !.minted = TRUE]
      BY <1>0 DEF SubStates
    <3>2. sub' = [sub EXCEPT ![s] = q] /\ q.copy = sub[s].copy
      BY <2>2, <3>1 DEF GInv, Types, SubStates
    <3> QED
      BY <1>0, <1>4, <3>2, SubMoves DEF IssueReplace
  <2> QED
    BY <1>4, <2>1, <2>2 DEF IssueReplace
<1>5. CASE SetEnv(s)
  <2>1. PICK q \in SubStates : SubGoes(s, q)
    BY <1>5, SubGoing DEF SetEnv
  <2> QED
    BY <1>0, <1>5, <2>1, SubMoves DEF SetEnv, SubGoes
<1>6. CASE Boot(s)
  <2>1. PICK q \in SubStates : q = [sub[s] EXCEPT !.pc = "grading", !.container = env]
    BY <1>0 DEF SubStates
  <2>2. sub' = [sub EXCEPT ![s] = q] /\ q.copy = sub[s].copy
    BY <1>6, <2>1 DEF Boot, GInv, Types, SubStates
  <2> QED
    BY <1>0, <1>6, <2>2, SubMoves DEF Boot
<1>7. CASE GradeEnds(s)
  <2>1. PICK q \in SubStates : SubGoes(s, q)
    BY <1>7, SubGoing DEF GradeEnds
  <2> QED
    BY <1>0, <1>7, <2>1, SubMoves DEF GradeEnds, SubGoes
<1>8. CASE RevokeRead(s)
  <2>1. CASE SubGo(s, "restore")
    <3>1. PICK q \in SubStates : SubGoes(s, q)
      BY <2>1, SubGoing
    <3> QED
      BY <1>0, <1>8, <3>1, SubMoves DEF RevokeRead, SubGoes
  <2>2. CASE SubRead(s, "revoke_write", WithLeft(s, Absent))
    BY <1>0, <1>8, <2>2, SubReads DEF RevokeRead
  <2> QED
    BY <1>8, <2>1, <2>2 DEF RevokeRead, WithLeft
<1>9. CASE RevokeWrite(s)
  <2>1. PICK q \in SubStates : SubGoes(s, q)
    BY <1>9, SubGoing DEF RevokeWrite
  <2> QED
    BY <1>0, <1>9, <2>1, SubMoves DEF RevokeWrite, SubGoes
<1>10. CASE RevokeReplace(s)
  <2>1. PICK q \in SubStates : SubGoes(s, q)
    BY <1>10, SubGoing DEF RevokeReplace
  <2> QED
    BY <1>0, <1>10, <2>1, SubMoves DEF RevokeReplace, SubGoes
<1>11. CASE RestoreEnv(s)
  <2>1. PICK q \in SubStates : SubGoes(s, q)
    BY <1>11, SubGoing DEF RestoreEnv
  <2>2. sub[s].prev \in Submissions \cup {NoToken}
    BY <1>0 DEF SubStates
  <2> QED
    BY <1>11, <2>1, <2>2, SubMoves DEF RestoreEnv, SubGoes
<1> QED
  BY <1>1, <1>2, <1>3, <1>4, <1>5, <1>6, <1>7, <1>8, <1>9, <1>10, <1>11 DEF SubStep

-----------------------------------------------------------------------------
(* The calls of the proxy *)

\* The step of a thread goes to r.
CallGoes(t, r) == call' = [call EXCEPT ![t] = r]

LEMMA OneMoves ==
  ASSUME Types, NEW t \in Threads, NEW r \in CallStates, CallGoes(t, r)
  PROVE  /\ call'[t] = r
         /\ \A v \in Threads : v # t => call'[v] = call[v]
         /\ call' \in [Threads -> CallStates]
         /\ call[t] \in CallStates
BY DEF Types, CallGoes

\* The units of a thread that is neither before nor after the step at one of
\* the places pcs, or at both with the same usage, stay as they are.
LEMMA UnitsStay ==
  ASSUME Types, NEW t \in Threads, NEW r \in CallStates, CallGoes(t, r), NEW pcs,
         \/ call[t].pc \notin pcs /\ r.pc \notin pcs
         \/ call[t].pc \in pcs /\ r.pc \in pcs /\ call[t].used = r.used
  PROVE  Units(pcs)' = Units(pcs)
<1>1. call'[t] = r /\ \A v \in Threads : v # t => call'[v] = call[v]
  BY OneMoves
<1>2. ASSUME NEW u \in Threads \X (1..MaxUse)
      PROVE  (call'[u[1]].pc \in pcs /\ u[2] <= call'[u[1]].used)
               <=> (call[u[1]].pc \in pcs /\ u[2] <= call[u[1]].used)
  <2>1. u[1] \in Threads
    OBVIOUS
  <2>2. CASE u[1] = t
    BY <1>1, <2>2
  <2>3. CASE u[1] # t
    BY <1>1, <2>1, <2>3
  <2> QED
    BY <2>2, <2>3
<1> QED
  BY <1>2 DEF Units

\* A thread that comes to one of the places pcs brings what it used.
LEMMA UnitsCome ==
  ASSUME ProxyAssumption, Types, NEW t \in Threads, NEW r \in CallStates, CallGoes(t, r),
         NEW pcs, call[t].pc \notin pcs, r.pc \in pcs
  PROVE  Cardinality(Units(pcs)') = Cardinality(Units(pcs)) + r.used
<1>1. call'[t] = r /\ \A v \in Threads : v # t => call'[v] = call[v]
  BY OneMoves
<1>2. r.used \in 0..MaxUse /\ MaxUse \in Nat
  BY DEF CallStates, ProxyAssumption
<1>3. ASSUME NEW u \in Threads \X (1..MaxUse)
      PROVE  (call'[u[1]].pc \in pcs /\ u[2] <= call'[u[1]].used)
               <=> \/ call[u[1]].pc \in pcs /\ u[2] <= call[u[1]].used
                   \/ u[1] = t /\ u[2] <= r.used
  <2>1. u[1] \in Threads
    OBVIOUS
  <2>2. CASE u[1] = t
    BY <1>1, <2>2
  <2>3. CASE u[1] # t
    BY <1>1, <2>1, <2>3
  <2> QED
    BY <2>2, <2>3
<1>4. ASSUME NEW u
      PROVE  u \in {t} \X (1..r.used)
               <=> u \in Threads \X (1..MaxUse) /\ u[1] = t /\ u[2] <= r.used
  BY <1>2
<1>5. Units(pcs)' = Units(pcs) \cup ({t} \X (1..r.used))
  BY <1>3, <1>4 DEF Units
<1>6. Units(pcs) \cap ({t} \X (1..r.used)) = {}
  BY <1>4 DEF Units
<1>7. Units(pcs) \in SUBSET (Threads \X (1..MaxUse))
  BY DEF Units
<1> QED
  BY <1>2, <1>5, <1>6, <1>7, Adding

\* A thread that leaves the places pcs takes its units with it.
LEMMA UnitsGo ==
  ASSUME ProxyAssumption, Types, NEW t \in Threads, NEW r \in CallStates, CallGoes(t, r),
         NEW pcs, call[t].pc \in pcs, r.pc \notin pcs
  PROVE  Cardinality(Units(pcs)) = Cardinality(Units(pcs)') + call[t].used
<1>1. call'[t] = r /\ (\A v \in Threads : v # t => call'[v] = call[v])
      /\ call[t] \in CallStates
  BY OneMoves
<1>2. PICK n \in 0..MaxUse : n = call[t].used /\ MaxUse \in Nat
  BY <1>1 DEF CallStates, ProxyAssumption
<1>3. ASSUME NEW u \in Threads \X (1..MaxUse)
      PROVE  (call[u[1]].pc \in pcs /\ u[2] <= call[u[1]].used)
               <=> \/ call'[u[1]].pc \in pcs /\ u[2] <= call'[u[1]].used
                   \/ u[1] = t /\ u[2] <= n
  <2>1. u[1] \in Threads
    OBVIOUS
  <2>2. CASE u[1] = t
    BY <1>1, <1>2, <2>2
  <2>3. CASE u[1] # t
    BY <1>1, <2>1, <2>3
  <2> QED
    BY <2>2, <2>3
<1>4. ASSUME NEW u
      PROVE  u \in {t} \X (1..n)
               <=> u \in Threads \X (1..MaxUse) /\ u[1] = t /\ u[2] <= n
  BY <1>2
<1>5. Units(pcs) = Units(pcs)' \cup ({t} \X (1..n))
  BY <1>3, <1>4 DEF Units
<1>6. Units(pcs)' \cap ({t} \X (1..n)) = {}
  BY <1>1, <1>4 DEF Units
<1>7. Units(pcs)' \in SUBSET (Threads \X (1..MaxUse))
  BY DEF Units
<1> QED
  BY <1>2, <1>5, <1>6, <1>7, Adding

\* A step of a thread t to r that leaves as much of the bill unclaimed.
LEMMA CallKeeps ==
  ASSUME ProxyAssumption, GInv, NEW t \in Threads,
         NEW r \in CallStates, CallGoes(t, r), r.pc = "idle" \/ r.token \in Submissions,
         billed' \in 0..MaxBilled,
         billed - Cardinality(Owed) <= billed' - Cardinality(Owed'),
         r.copy.spent + Cardinality(Owed') <= billed',
         NEW f \in Stores, store' = f, Below(f),
         NEW g \in Stores \cup {NoFile}, tmp' = g, Below(g),
         NoSub
  PROVE  GInv'
<1>1. UNCHANGED <<oneProcess, serial, env, sub>>
  BY DEF NoSub, config
<1>2. /\ call'[t] = r
      /\ \A v \in Threads : v # t => call'[v] = call[v]
      /\ call' \in [Threads -> CallStates]
  BY OneMoves DEF GInv
<1>3. Types'
  BY <1>1, <1>2 DEF GInv, Types
<1>4. Addressed'
  BY <1>2 DEF GInv, Addressed
<1>5. ASSUME NEW n \in Int, n + Cardinality(Owed) <= billed
      PROVE  n + Cardinality(Owed') <= billed'
  BY <1>5, Counts DEF GInv, Types
<1>6. /\ NoFile.spent \in Int
      /\ \A x \in Stores : x.spent \in Int
  BY DEF NoFile, Stores
<1>7. f.spent \in Int /\ g.spent \in Int
  BY <1>6
<1>8. Below(store)'
  BY <1>5, <1>7 DEF Below
<1>9. Below(tmp)'
  BY <1>5, <1>7 DEF Below
<1>10. ASSUME NEW s \in Submissions
       PROVE  Below(sub[s].copy)'
  <2>1. sub[s].copy.spent \in Int
    BY <1>6 DEF GInv, Types, SubStates
  <2> QED
    BY <1>1, <1>5, <2>1 DEF GInv, NeverAhead, Below
<1>11. ASSUME NEW v \in Threads
       PROVE  Below(call[v].copy)'
  <2>1. CASE v = t
    BY <1>2, <2>1 DEF Below
  <2>2. CASE v # t
    <3>1. call[v].copy.spent \in Int
      BY <1>6 DEF GInv, Types, CallStates
    <3> QED
      BY <1>2, <1>5, <2>2, <3>1 DEF GInv, NeverAhead, Below
  <2> QED
    BY <2>1, <2>2
<1> QED
  BY <1>3, <1>4, <1>8, <1>9, <1>10, <1>11 DEF GInv, NeverAhead

\* A thread goes to a record r like its own but for the place, the token, the
\* usage and the copy that are given.
Turned(t, r, pc, token, used, copy) ==
  /\ CallGoes(t, r)
  /\ r.pc = pc /\ r.token = token /\ r.used = used /\ r.copy = copy

\* What each step of a thread does to the thread.
LEMMA Admitted ==
  ASSUME Types, NEW t \in Threads, Admit(t)
  PROVE  \E r \in CallStates, k \in Submissions :
           Turned(t, r, "upstream", k, call[t].used, call[t].copy)
<1>1. PICK s \in Submissions :
        /\ sub[s].container # NoToken
        /\ call' = [call EXCEPT ![t].pc = "upstream", ![t].token = sub[s].container]
  BY DEF Admit
<1>2. PICK k \in Submissions : k = sub[s].container
  BY <1>1 DEF Types, SubStates
<1>3. PICK r \in CallStates : r = [call[t] EXCEPT !.pc = "upstream", !.token = k]
  BY DEF Types, CallStates, CallPCs
<1>4. CallGoes(t, r)
  BY <1>1, <1>2, <1>3 DEF CallGoes, Types, CallStates
<1>5. r.pc = "upstream" /\ r.token = k /\ r.used = call[t].used /\ r.copy = call[t].copy
  BY <1>3 DEF Types, CallStates
<1> QED
  BY <1>4, <1>5 DEF Turned

LEMMA Answered ==
  ASSUME ProxyAssumption, Types, NEW t \in Threads, Answer(t)
  PROVE  \/ \E r \in CallStates, n \in 1..MaxUse :
              /\ Turned(t, r, "charge", call[t].token, n, call[t].copy)
              /\ billed + n <= MaxBilled /\ billed' = billed + n
         \/ \E r \in CallStates :
              /\ Turned(t, r, "idle", NoToken, call[t].used, call[t].copy)
              /\ billed' = billed
<1>1. CASE call' = [call EXCEPT ![t].pc = "idle", ![t].token = NoToken] /\ UNCHANGED billed
  <2>1. PICK r \in CallStates : r = [call[t] EXCEPT !.pc = "idle", !.token = NoToken]
    BY DEF Types, CallStates, CallPCs
  <2>2. CallGoes(t, r)
    BY <1>1, <2>1 DEF CallGoes, Types, CallStates
  <2>3. r.pc = "idle" /\ r.token = NoToken /\ r.used = call[t].used /\ r.copy = call[t].copy
    BY <2>1 DEF Types, CallStates
  <2> QED
    BY <1>1, <2>2, <2>3 DEF Turned
<1>2. ASSUME NEW n \in 1..MaxUse,
             billed + n <= MaxBilled, billed' = billed + n,
             call' = [call EXCEPT ![t].pc = "charge", ![t].used = n]
      PROVE  \E r \in CallStates : Turned(t, r, "charge", call[t].token, n, call[t].copy)
  <2>0. n \in 0..MaxUse /\ "charge" \in CallPCs
    BY DEF ProxyAssumption, CallPCs
  <2>1. PICK r \in CallStates : r = [call[t] EXCEPT !.pc = "charge", !.used = n]
    BY <2>0 DEF Types, CallStates
  <2>2. CallGoes(t, r)
    BY <1>2, <2>1 DEF CallGoes, Types, CallStates
  <2>3. r.pc = "charge" /\ r.token = call[t].token /\ r.used = n /\ r.copy = call[t].copy
    BY <2>1 DEF Types, CallStates
  <2> QED
    BY <2>2, <2>3 DEF Turned
<1>3. \/ \E n \in 1..MaxUse :
           /\ billed + n <= MaxBilled
           /\ billed' = billed + n
           /\ call' = [call EXCEPT ![t].pc = "charge", ![t].used = n]
      \/ call' = [call EXCEPT ![t].pc = "idle", ![t].token = NoToken] /\ UNCHANGED billed
  BY DEF Answer
<1> QED
  BY <1>1, <1>2, <1>3

\* The charge a thread reads is a file: it is not ahead of the bill.
LEMMA ChargeIsFile ==
  ASSUME ProxyAssumption, GInv, NEW t \in Threads, call[t].pc = "charge"
  PROVE  /\ Charged(call[t].token, call[t].used) \in Stores
         /\ Charged(call[t].token, call[t].used).spent = store.spent + call[t].used
<1>1. PICK k \in Submissions : k = call[t].token
  BY DEF GInv, Addressed
<1>2. PICK n \in 0..MaxUse : n = call[t].used
  BY DEF GInv, Types, CallStates
<1>3. MaxUse \in Nat /\ Budget \in Nat /\ MaxBilled \in Nat
  BY DEF ProxyAssumption
<1>4. {t} \X (1..n) \in SUBSET Owed
  BY <1>2, <1>3 DEF Owed, Units
<1>5. n <= Cardinality(Owed)
  BY <1>3, <1>4, UnitSets, Fewer, Block
<1>6. store.spent + Cardinality(Owed) <= billed /\ billed <= MaxBilled
  BY <1>3 DEF GInv, NeverAhead, Below, Types
<1>7. store \in Stores /\ store.spent \in Int
  BY DEF GInv, Types, Stores
<1>8. store.spent + n <= MaxBilled
  BY <1>3, <1>5, <1>6, <1>7, Counts DEF GInv, Types
<1> QED
  BY <1>1, <1>2, <1>3, <1>7, <1>8, ChargedFile

LEMMA ChargeIsRead ==
  ASSUME ProxyAssumption, GInv, NEW t \in Threads, ChargeRead(t)
  PROVE  \E r \in CallStates :
           Turned(t, r, "charge_write", call[t].token, call[t].used,
                  Charged(call[t].token, call[t].used))
<1>1. call[t].pc = "charge"
  BY DEF ChargeRead
<1>2. PICK x \in Stores : x = Charged(call[t].token, call[t].used)
  BY <1>1, ChargeIsFile
<1>3. PICK r \in CallStates : r = [call[t] EXCEPT !.pc = "charge_write", !.copy = x]
  BY DEF GInv, Types, CallStates, CallPCs
<1>4. CallGoes(t, r)
  BY <1>2, <1>3 DEF ChargeRead, CallGoes, GInv, Types, CallStates
<1>5. r.pc = "charge_write" /\ r.token = call[t].token /\ r.used = call[t].used /\ r.copy = x
  BY <1>3 DEF GInv, Types, CallStates
<1> QED
  BY <1>2, <1>4, <1>5 DEF Turned

LEMMA ChargeIsWritten ==
  ASSUME Types, NEW t \in Threads, ChargeWrite(t)
  PROVE  \E r \in CallStates :
           Turned(t, r, "charge_replace", call[t].token, call[t].used, call[t].copy)
<1>1. PICK r \in CallStates : r = [call[t] EXCEPT !.pc = "charge_replace"]
  BY DEF Types, CallStates, CallPCs
<1>2. CallGoes(t, r)
  BY <1>1 DEF ChargeWrite, CallGoes
<1>3. /\ r.pc = "charge_replace" /\ r.token = call[t].token /\ r.used = call[t].used
      /\ r.copy = call[t].copy
  BY <1>1 DEF Types, CallStates
<1> QED
  BY <1>2, <1>3 DEF Turned

LEMMA ChargeIsMoved ==
  ASSUME ProxyAssumption, NEW t \in Threads, ChargeReplace(t)
  PROVE  \E r \in CallStates : Turned(t, r, "idle", NoToken, 0, EmptyStore)
<1>1. /\ Absent \in Absent..Budget /\ 0 \in 0..MaxBilled /\ 0 \in 0..MaxUse
      /\ "idle" \in CallPCs
  BY DEF ProxyAssumption, Absent, CallPCs
<1>2. EmptyStore \in Stores
  BY <1>1 DEF EmptyStore, Stores
<1>3. PICK r \in CallStates :
        r = [pc |-> "idle", token |-> NoToken, used |-> 0, copy |-> EmptyStore]
  BY <1>1, <1>2 DEF CallStates
<1>4. CallGoes(t, r)
  BY <1>3 DEF ChargeReplace, CallGoes
<1> QED
  BY <1>3, <1>4 DEF Turned

\* Nobody's debt changes at a step between two places that are not "charge".
LEMMA OwedStays ==
  ASSUME Types, NEW t \in Threads, NEW r \in CallStates, CallGoes(t, r),
         call[t].pc # "charge", r.pc # "charge"
  PROVE  Owed' = Owed
BY UnitsStay DEF Owed

\* GInv is preserved by every step of a call.
LEMMA GInvCall ==
  ASSUME ProxyAssumption, GInv, NEW t \in Threads, Admit(t) \/ CallStep(t)
  PROVE  GInv'
<1>0. /\ store \in Stores /\ tmp \in Stores \cup {NoFile}
      /\ Below(store) /\ Below(tmp) /\ Below(NoFile)
      /\ call[t].copy \in Stores /\ Below(call[t].copy)
      /\ billed \in 0..MaxBilled /\ billed \in Int /\ MaxBilled \in Nat /\ MaxUse \in Nat
      /\ Types
  BY NoFileBelow DEF GInv, Types, NeverAhead, CallStates, ProxyAssumption
<1>1. /\ Cardinality(Owed) \in Nat /\ Cardinality(Owed') \in Nat
      /\ \A x \in Stores : x.spent \in Int /\ x.spent >= 0
      /\ EmptyStore \in Stores /\ EmptyStore.spent = 0
  <2>1. EmptyStore \in Stores
    BY DEF EmptyStore, Stores, Absent, ProxyAssumption
  <2> QED
    BY <2>1, Counts DEF Stores, EmptyStore
<1>2. CASE Admit(t)
  <2>1. PICK r \in CallStates, k \in Submissions :
          Turned(t, r, "upstream", k, call[t].used, call[t].copy)
    BY <1>0, <1>2, Admitted
  <2>2. CallGoes(t, r) /\ r.pc = "upstream" /\ r.token = k /\ r.copy = call[t].copy
    BY <2>1 DEF Turned
  <2>3. call[t].pc = "idle" /\ UNCHANGED <<store, tmp, billed>> /\ NoSub
    BY <1>2 DEF Admit
  <2>4. Owed' = Owed
    BY <1>0, <2>2, <2>3, OwedStays
  <2>5. r.copy.spent + Cardinality(Owed') <= billed'
    BY <1>0, <2>2, <2>3, <2>4 DEF Below
  <2>6. billed - Cardinality(Owed) <= billed' - Cardinality(Owed')
    BY <1>0, <1>1, <2>3, <2>4
  <2> QED
    BY <1>0, <2>2, <2>3, <2>5, <2>6, CallKeeps
<1>3. CASE Answer(t)
  <2>0. call[t].pc = "upstream" /\ UNCHANGED <<store, tmp>> /\ NoSub
    BY <1>3 DEF Answer
  <2>1. ASSUME NEW r \in CallStates, NEW n \in 1..MaxUse,
               Turned(t, r, "charge", call[t].token, n, call[t].copy),
               billed + n <= MaxBilled, billed' = billed + n
        PROVE  GInv'
    <3>1. /\ CallGoes(t, r) /\ r.pc = "charge" /\ r.token = call[t].token /\ r.used = n
          /\ r.copy = call[t].copy
      BY <2>1 DEF Turned
    <3>2. call[t].token \in Submissions
      BY <2>0 DEF GInv, Addressed
    <3>3. Cardinality(Owed') = Cardinality(Owed) + n
      BY <1>0, <2>0, <3>1, UnitsCome DEF Owed
    <3>4. n \in Nat /\ billed' \in 0..MaxBilled
      BY <1>0, <2>1
    <3>5. billed - Cardinality(Owed) <= billed' - Cardinality(Owed')
      BY <1>0, <1>1, <2>1, <3>3, <3>4
    <3>6. call[t].copy.spent + Cardinality(Owed) <= billed /\ call[t].copy.spent \in Int
      BY <1>0, <1>1 DEF Below
    <3>7. r.copy.spent + Cardinality(Owed') <= billed'
      BY <1>0, <1>1, <2>1, <3>1, <3>3, <3>4, <3>6
    <3> QED
      BY <1>0, <2>0, <3>1, <3>2, <3>4, <3>5, <3>7, CallKeeps
  <2>2. ASSUME NEW r \in CallStates,
               Turned(t, r, "idle", NoToken, call[t].used, call[t].copy), billed' = billed
        PROVE  GInv'
    <3>1. CallGoes(t, r) /\ r.pc = "idle" /\ r.copy = call[t].copy
      BY <2>2 DEF Turned
    <3>2. Owed' = Owed
      BY <1>0, <2>0, <3>1, OwedStays
    <3>3. r.copy.spent + Cardinality(Owed') <= billed'
      BY <1>0, <2>2, <3>1, <3>2 DEF Below
    <3>4. billed - Cardinality(Owed) <= billed' - Cardinality(Owed')
      BY <1>0, <1>1, <2>2, <3>2
    <3> QED
      BY <1>0, <2>0, <2>2, <3>1, <3>3, <3>4, CallKeeps
  <2> QED
    BY <1>0, <1>3, <2>1, <2>2, Answered
<1>4. CASE ChargeRead(t)
  <2>0. call[t].pc = "charge" /\ UNCHANGED <<store, tmp, billed>> /\ NoSub
    BY <1>4 DEF ChargeRead
  <2>1. PICK r \in CallStates :
          Turned(t, r, "charge_write", call[t].token, call[t].used,
                 Charged(call[t].token, call[t].used))
    BY <1>4, ChargeIsRead
  <2>2. /\ CallGoes(t, r) /\ r.pc = "charge_write" /\ r.token = call[t].token
        /\ r.copy = Charged(call[t].token, call[t].used)
    BY <2>1 DEF Turned
  <2>3. r.token \in Submissions
    BY <2>0, <2>2 DEF GInv, Addressed
  <2>4. Cardinality(Owed) = Cardinality(Owed') + call[t].used
    BY <1>0, <2>0, <2>2, UnitsGo DEF Owed
  <2>5. r.copy.spent = store.spent + call[t].used
    BY <2>0, <2>2, ChargeIsFile
  <2>6. call[t].used \in Nat
    BY <1>0 DEF Types, CallStates
  <2>7. store.spent + Cardinality(Owed) <= billed /\ store.spent \in Int
    BY <1>0, <1>1 DEF Below
  <2>8. r.copy.spent + Cardinality(Owed') <= billed'
    BY <1>0, <1>1, <2>0, <2>4, <2>5, <2>6, <2>7
  <2>9. billed - Cardinality(Owed) <= billed' - Cardinality(Owed')
    BY <1>0, <1>1, <2>0, <2>4, <2>6
  <2> QED
    BY <1>0, <2>0, <2>2, <2>3, <2>8, <2>9, CallKeeps
<1>5. CASE ChargeWrite(t)
  <2>0. call[t].pc = "charge_write" /\ tmp' = call[t].copy /\ UNCHANGED <<store, billed>> /\ NoSub
    BY <1>5 DEF ChargeWrite, WriteTmp
  <2>1. PICK r \in CallStates :
          Turned(t, r, "charge_replace", call[t].token, call[t].used, call[t].copy)
    BY <1>0, <1>5, ChargeIsWritten
  <2>2. /\ CallGoes(t, r) /\ r.pc = "charge_replace" /\ r.token = call[t].token
        /\ r.copy = call[t].copy
    BY <2>1 DEF Turned
  <2>3. r.token \in Submissions
    BY <2>0, <2>2 DEF GInv, Addressed
  <2>4. Owed' = Owed
    BY <1>0, <2>0, <2>2, OwedStays
  <2>5. r.copy.spent + Cardinality(Owed') <= billed'
    BY <1>0, <2>0, <2>2, <2>4 DEF Below
  <2>6. billed - Cardinality(Owed) <= billed' - Cardinality(Owed')
    BY <1>0, <1>1, <2>0, <2>4
  <2> QED
    BY <1>0, <2>0, <2>2, <2>3, <2>5, <2>6, CallKeeps
<1>6. CASE ChargeReplace(t)
  <2>0. call[t].pc = "charge_replace" /\ ReplaceStore /\ UNCHANGED billed /\ NoSub
    BY <1>6 DEF ChargeReplace
  <2>1. PICK r \in CallStates : Turned(t, r, "idle", NoToken, 0, EmptyStore)
    BY <1>6, ChargeIsMoved
  <2>2. CallGoes(t, r) /\ r.pc = "idle" /\ r.copy = EmptyStore
    BY <2>1 DEF Turned
  <2>3. PICK f \in Stores : store' = f /\ Below(f)
    BY <1>0, <2>0 DEF ReplaceStore
  <2>4. tmp' = NoFile
    BY <2>0 DEF ReplaceStore
  <2>5. Owed' = Owed
    BY <1>0, <2>0, <2>2, OwedStays
  <2>6. store.spent + Cardinality(Owed) <= billed /\ store.spent \in Int /\ store.spent >= 0
    BY <1>0, <1>1 DEF Below
  <2>7. r.copy.spent + Cardinality(Owed') <= billed'
    BY <1>0, <1>1, <2>0, <2>2, <2>5, <2>6
  <2>8. billed - Cardinality(Owed) <= billed' - Cardinality(Owed')
    BY <1>0, <1>1, <2>0, <2>5
  <2>9. billed' \in 0..MaxBilled
    BY <1>0, <2>0
  <2> QED
    BY <1>0, <2>0, <2>2, <2>3, <2>4, <2>7, <2>8, <2>9, CallKeeps
<1> QED
  BY <1>2, <1>3, <1>4, <1>5, <1>6 DEF CallStep

\* GInv holds at the start and is preserved.
LEMMA GInvInit ==
  ASSUME ProxyAssumption, Init
  PROVE  GInv
<1> USE DEF Init
<1>1. /\ Absent \in Absent..Budget /\ 0 \in 0..MaxBilled /\ 0 \in 0..MaxUse
      /\ "idle" \in CallPCs /\ "new" \in SubPCs
  BY DEF ProxyAssumption, Absent, CallPCs, SubPCs
<1>2. EmptyStore \in Stores /\ EmptyStore.spent = 0
  BY <1>1 DEF EmptyStore, Stores
<1>3. Types
  BY <1>1, <1>2 DEF Types, SubStates, CallStates
<1>4. Addressed
  BY DEF Addressed
<1>5. Owed = {}
  BY DEF Owed, Units
<1>6. Cardinality(Owed) = 0
  BY <1>5, FS_EmptySet
<1>7. NoFile.spent = -1
  BY DEF NoFile
<1>8. 0 + Cardinality(Owed) <= billed /\ -1 + Cardinality(Owed) <= billed
  BY <1>6
<1>9. NeverAhead
  BY <1>2, <1>7, <1>8 DEF NeverAhead, Below
<1> QED
  BY <1>3, <1>4, <1>9 DEF GInv

LEMMA GInvStep ==
  ASSUME ProxyAssumption, GInv, [Next]_vars
  PROVE  GInv'
<1>1. CASE UNCHANGED vars
  BY <1>1 DEF vars, config, GInv, Types, Addressed, NeverAhead, Below, Owed, Units
<1>2. CASE Next
  BY <1>2, GInvSub, GInvCall DEF Next
<1> QED
  BY <1>1, <1>2

-----------------------------------------------------------------------------
(* One process: the steps of a submission *)

HoldPCs == {"issue_write", "issue_replace", "revoke_write", "revoke_replace"}

\* One submission s goes to q, the calls rest.
SubTurns(s, q) == sub' = [sub EXCEPT ![s] = q] /\ UNCHANGED <<call, billed>>

LEMMA SubTurned ==
  ASSUME Types, NEW s \in Submissions, NEW q \in SubStates, SubTurns(s, q)
  PROVE  /\ sub'[s] = q
         /\ \A u \in Submissions : u # s => sub'[u] = sub[u]
         /\ call' = call /\ billed' = billed
         /\ Open' = Open /\ Flight' = Flight
BY CallsRest DEF Types, SubTurns

\* The books are the same when no call moves and the spend stays.
LEMMA BooksRest ==
  ASSUME Recorded, Bounded, UNCHANGED <<call, billed>>, store'.spent = store.spent
  PROVE  Recorded' /\ Bounded'
BY CallsRest DEF Recorded, Bounded

\* A step outside of the lock that leaves the file alone.
LEMMA LockPass ==
  ASSUME Types, LockBody, NEW s \in Submissions, NEW q \in SubStates, SubTurns(s, q),
         UNCHANGED <<store, tmp>>, ~Holding(s), q.pc \notin HoldPCs,
         IF q.pc \in Carrying THEN q.minted ELSE store.left[s] = Absent
  PROVE  LockBody'
<1>1. /\ sub'[s] = q /\ \A u \in Submissions : u # s => sub'[u] = sub[u]
      /\ UNCHANGED <<call, billed, store, tmp>>
  BY SubTurned
<1>2. OneHolder'
  BY <1>1 DEF LockBody, OneHolder, Holding, Charging, HoldPCs
<1>3. \A u \in Submissions : WithLeft(u, Budget)' = WithLeft(u, Budget)
                             /\ WithLeft(u, Absent)' = WithLeft(u, Absent)
  BY <1>1 DEF WithLeft, Absent
<1>4. \A t \in Threads :
        Charged(call[t].token, call[t].used)' = Charged(call[t].token, call[t].used)
  BY <1>1 DEF Charged
<1>5. Faithful'
  BY <1>1, <1>3, <1>4 DEF LockBody, Faithful, HoldPCs
<1>6. Owned'
  BY <1>1 DEF LockBody, Owned
<1> QED
  BY <1>1, <1>2, <1>5, <1>6, BooksRest DEF LockBody

\* A submission takes the lock and reads the file.
LEMMA LockTake ==
  ASSUME Types, LockBody, oneProcess, NEW s \in Submissions, NEW q \in SubStates,
         SubTurns(s, q), UNCHANGED <<store, tmp>>, GraderMayLock,
         \/ q.pc = "issue_write" /\ q.copy = WithLeft(s, Budget) /\ store.left[s] = Absent
         \/ q.pc = "revoke_write" /\ q.copy = WithLeft(s, Absent) /\ q.minted
  PROVE  LockBody'
<1>1. /\ sub'[s] = q /\ \A u \in Submissions : u # s => sub'[u] = sub[u]
      /\ UNCHANGED <<call, billed, store, tmp>>
  BY SubTurned
<1>2. /\ \A u \in Submissions : ~Holding(u)
      /\ \A t \in Threads : ~Charging(t)
  BY DEF GraderMayLock, GraderLocked, ProxyLocked, Holding, Charging
<1>3. OneHolder'
  BY <1>1, <1>2 DEF OneHolder, Holding, Charging
<1>4. \A u \in Submissions : WithLeft(u, Budget)' = WithLeft(u, Budget)
                             /\ WithLeft(u, Absent)' = WithLeft(u, Absent)
  BY <1>1 DEF WithLeft, Absent
<1>5. Faithful'
  BY <1>1, <1>2, <1>4 DEF Faithful, Holding, Charging
<1>6. Owned'
  BY <1>1 DEF LockBody, Owned, Carrying
<1> QED
  BY <1>1, <1>3, <1>5, <1>6, BooksRest DEF LockBody

\* The holder saves its copy to the temporary file.
LEMMA LockWrite ==
  ASSUME Types, LockBody, NEW s \in Submissions, NEW q \in SubStates,
         SubTurns(s, q), store' = store, tmp' = sub[s].copy, q.minted = sub[s].minted,
         \/ sub[s].pc = "issue_write" /\ q.pc = "issue_replace"
         \/ sub[s].pc = "revoke_write" /\ q.pc = "revoke_replace"
  PROVE  LockBody'
<1>1. /\ sub'[s] = q /\ \A u \in Submissions : u # s => sub'[u] = sub[u]
      /\ UNCHANGED <<call, billed, store>>
  BY SubTurned
<1>2. /\ \A u \in Submissions : u # s => ~Holding(u)
      /\ \A t \in Threads : ~Charging(t)
  BY DEF LockBody, OneHolder, Holding
<1>3. OneHolder'
  BY <1>1, <1>2 DEF OneHolder, Holding, Charging
<1>4. \A u \in Submissions : WithLeft(u, Budget)' = WithLeft(u, Budget)
                             /\ WithLeft(u, Absent)' = WithLeft(u, Absent)
  BY <1>1 DEF WithLeft, Absent
<1>5. Faithful'
  BY <1>1, <1>2, <1>4 DEF LockBody, Faithful, Holding, Charging
<1>6. Owned'
  BY <1>1 DEF LockBody, Owned, Carrying
<1> QED
  BY <1>1, <1>3, <1>5, <1>6, BooksRest DEF LockBody

\* The holder moves the temporary file, with its token as n, over the store.
LEMMA LockMove ==
  ASSUME Types, LockBody, NEW s \in Submissions, NEW q \in SubStates,
         SubTurns(s, q), Holding(s), NEW n \in Absent..Budget, store' = WithLeft(s, n),
         q.pc \notin HoldPCs, IF q.pc \in Carrying THEN q.minted ELSE n = Absent
  PROVE  LockBody'
<1>1. /\ sub'[s] = q /\ \A u \in Submissions : u # s => sub'[u] = sub[u]
      /\ UNCHANGED <<call, billed>>
  BY SubTurned
<1>2. /\ \A u \in Submissions : u # s => ~Holding(u)
      /\ \A t \in Threads : ~Charging(t)
  BY DEF LockBody, OneHolder
<1>3. OneHolder'
  BY <1>1, <1>2 DEF OneHolder, Holding, Charging, HoldPCs
<1>4. /\ store'.spent = store.spent
      /\ store'.left[s] = n
      /\ \A u \in Submissions : u # s => store'.left[u] = store.left[u]
  BY ChangedFile DEF Types
<1>5. Faithful'
  BY <1>1, <1>2 DEF Faithful, Holding, Charging, HoldPCs
<1>6. Owned'
  BY <1>1, <1>4 DEF LockBody, Owned
<1> QED
  BY <1>1, <1>3, <1>4, <1>5, <1>6, BooksRest DEF LockBody

\* A submission goes on to pc, and keeps all else.
LEMMA SubGoingOn ==
  ASSUME Types, NEW s \in Submissions, NEW pc \in SubPCs, SubGo(s, pc), NoCall
  PROVE  \E q \in SubStates :
           SubTurns(s, q) /\ q.pc = pc /\ q.minted = sub[s].minted
<1>1. PICK q \in SubStates : q = [sub[s] EXCEPT !.pc = pc]
  BY DEF Types, SubStates
<1>2. sub' = [sub EXCEPT ![s] = q] /\ q.pc = pc /\ q.minted = sub[s].minted
  BY <1>1 DEF SubGo, Types, SubStates
<1> QED
  BY <1>2 DEF SubTurns, NoCall

\* A submission reads the file, changes its token in its copy, and goes on.
LEMMA SubReadingOn ==
  ASSUME Types, NEW s \in Submissions, NEW pc \in SubPCs, NEW n \in Absent..Budget,
         SubRead(s, pc, WithLeft(s, n)), NoCall
  PROVE  \E q \in SubStates :
           /\ SubTurns(s, q) /\ q.pc = pc /\ q.minted = sub[s].minted
           /\ q.copy = WithLeft(s, n)
<1>1. PICK x \in Stores : x = WithLeft(s, n)
  BY ChangedFile DEF Types
<1>2. PICK q \in SubStates : q = [sub[s] EXCEPT !.pc = pc, !.copy = x]
  BY DEF Types, SubStates
<1>3. sub' = [sub EXCEPT ![s] = q] /\ q.pc = pc /\ q.minted = sub[s].minted /\ q.copy = x
  BY <1>1, <1>2 DEF SubRead, Types, SubStates
<1> QED
  BY <1>1, <1>3 DEF SubTurns, NoCall

\* A file is never the absence of one.
LEMMA FileIsThere ==
  ASSUME NEW x \in Stores
  PROVE  x # NoFile
<1>1. x.spent >= 0 /\ x.spent \in Int
  BY DEF Stores
<1>2. NoFile.spent = -1
  BY DEF NoFile
<1> QED
  BY <1>1, <1>2

\* LockInv is preserved by every step of a submission.
LEMMA LockSub ==
  ASSUME ProxyAssumption, Types, oneProcess, LockBody, NEW s \in Submissions,
         Submit(s) \/ SubStep(s)
  PROVE  LockBody'
<1>0. /\ sub[s] \in SubStates /\ store \in Stores
      /\ Budget \in Absent..Budget /\ Absent \in Absent..Budget
      /\ IF sub[s].pc \in Carrying THEN sub[s].minted ELSE store.left[s] = Absent
  BY DEF Types, ProxyAssumption, Absent, LockBody, Owned
<1>1. CASE Submit(s)
  <2>1. PICK q \in SubStates : q = [sub[s] EXCEPT !.pc = "issue", !.prev = env]
    BY <1>0 DEF Types, SubStates, SubPCs
  <2>2. sub' = [sub EXCEPT ![s] = q] /\ q.pc = "issue"
    BY <1>1, <2>1 DEF Submit, Types, SubStates
  <2>3. SubTurns(s, q) /\ UNCHANGED <<store, tmp>> /\ sub[s].pc = "new"
    BY <1>1, <2>2 DEF Submit, NoCall, SubTurns
  <2> QED
    BY <1>0, <2>2, <2>3, LockPass DEF Holding, HoldPCs, Carrying
<1>2. CASE IssueRead(s)
  <2>1. /\ SubRead(s, "issue_write", WithLeft(s, Budget)) /\ NoCall
        /\ sub[s].pc = "issue" /\ GraderMayLock /\ UNCHANGED <<store, tmp>>
    BY <1>2 DEF IssueRead, WithLeft
  <2>2. PICK q \in SubStates :
          SubTurns(s, q) /\ q.pc = "issue_write" /\ q.copy = WithLeft(s, Budget)
    BY <1>0, <2>1, SubReadingOn DEF SubPCs
  <2> QED
    BY <1>0, <2>1, <2>2, LockTake DEF Carrying
<1>3. CASE IssueWrite(s)
  <2>1. PICK q \in SubStates :
          SubTurns(s, q) /\ q.pc = "issue_replace" /\ q.minted = sub[s].minted
    BY <1>3, SubGoingOn DEF IssueWrite, SubPCs
  <2> QED
    BY <1>3, <2>1, LockWrite DEF IssueWrite, WriteTmp
<1>4. CASE IssueReplace(s)
  <2>1. sub[s].pc = "issue_replace" /\ tmp = WithLeft(s, Budget) /\ Holding(s)
    BY <1>4 DEF IssueReplace, LockBody, Faithful, Holding
  <2>2. tmp # NoFile
    BY <1>0, <2>1, ChangedFile, FileIsThere
  <2>3. /\ sub' = [sub EXCEPT ![s].pc = "set_env", ![s].minted = TRUE]
        /\ store' = WithLeft(s, Budget) /\ NoCall
    BY <1>4, <2>1, <2>2 DEF IssueReplace, ReplaceStore
  <2>4. PICK q \in SubStates : q = [sub[s] EXCEPT !.pc = "set_env", !.minted = TRUE]
    BY <1>0 DEF SubStates, SubPCs
  <2>5. sub' = [sub EXCEPT ![s] = q] /\ q.pc = "set_env" /\ q.minted
    BY <2>3, <2>4 DEF Types, SubStates
  <2>6. SubTurns(s, q)
    BY <2>3, <2>5 DEF SubTurns, NoCall
  <2> QED
    BY <1>0, <2>1, <2>3, <2>5, <2>6, LockMove DEF HoldPCs, Carrying
<1>5. CASE SetEnv(s)
  <2>1. PICK q \in SubStates :
          SubTurns(s, q) /\ q.pc = "boot" /\ q.minted = sub[s].minted
    BY <1>5, SubGoingOn DEF SetEnv, SubPCs
  <2>2. sub[s].pc = "set_env" /\ UNCHANGED <<store, tmp>>
    BY <1>5 DEF SetEnv
  <2> QED
    BY <1>0, <2>1, <2>2, LockPass DEF Holding, HoldPCs, Carrying
<1>6. CASE Boot(s)
  <2>1. PICK q \in SubStates : q = [sub[s] EXCEPT !.pc = "grading", !.container = env]
    BY <1>0 DEF Types, SubStates, SubPCs
  <2>2. sub' = [sub EXCEPT ![s] = q] /\ q.pc = "grading" /\ q.minted = sub[s].minted
    BY <1>6, <2>1 DEF Boot, Types, SubStates
  <2>3. SubTurns(s, q) /\ UNCHANGED <<store, tmp>> /\ sub[s].pc = "boot"
    BY <1>6, <2>2 DEF Boot, NoCall, SubTurns
  <2> QED
    BY <1>0, <2>2, <2>3, LockPass DEF Holding, HoldPCs, Carrying
<1>7. CASE GradeEnds(s)
  <2>1. sub[s].pc = "grading" /\ sub[s].minted /\ UNCHANGED <<store, tmp>>
    BY <1>0, <1>7 DEF GradeEnds, Carrying
  <2>2. PICK q \in SubStates :
          SubTurns(s, q) /\ q.pc = "revoke" /\ q.minted = sub[s].minted
    BY <1>7, <2>1, SubGoingOn DEF GradeEnds, SubPCs
  <2> QED
    BY <2>1, <2>2, LockPass DEF Holding, HoldPCs, Carrying
<1>8. CASE RevokeRead(s)
  <2>0. sub[s].pc = "revoke" /\ sub[s].minted /\ GraderMayLock /\ UNCHANGED <<store, tmp>>
        /\ NoCall
    BY <1>0, <1>8 DEF RevokeRead, Carrying
  <2>1. CASE store.left[s] = Absent
    <3>1. SubGo(s, "restore")
      BY <1>8, <2>1 DEF RevokeRead
    <3>2. PICK q \in SubStates :
            SubTurns(s, q) /\ q.pc = "restore" /\ q.minted = sub[s].minted
      BY <2>0, <3>1, SubGoingOn DEF SubPCs
    <3> QED
      BY <2>0, <2>1, <3>2, LockPass DEF Holding, HoldPCs, Carrying
  <2>2. CASE store.left[s] # Absent
    <3>1. SubRead(s, "revoke_write", WithLeft(s, Absent))
      BY <1>8, <2>2 DEF RevokeRead, WithLeft
    <3>2. PICK q \in SubStates :
            /\ SubTurns(s, q) /\ q.pc = "revoke_write" /\ q.minted = sub[s].minted
            /\ q.copy = WithLeft(s, Absent)
      <4>1. "revoke_write" \in SubPCs
        BY DEF SubPCs
      <4>2. Absent \in Absent..Budget /\ NoCall
        BY <1>0, <2>0
      <4> QED
        BY <3>1, <4>1, <4>2, SubReadingOn, Zenon
    <3> QED
      BY <2>0, <3>2, LockTake
  <2> QED
    BY <2>1, <2>2
<1>9. CASE RevokeWrite(s)
  <2>1. PICK q \in SubStates :
          SubTurns(s, q) /\ q.pc = "revoke_replace" /\ q.minted = sub[s].minted
    BY <1>9, SubGoingOn DEF RevokeWrite, SubPCs
  <2> QED
    BY <1>9, <2>1, LockWrite DEF RevokeWrite, WriteTmp
<1>10. CASE RevokeReplace(s)
  <2>1. sub[s].pc = "revoke_replace" /\ tmp = WithLeft(s, Absent) /\ Holding(s)
    BY <1>10 DEF RevokeReplace, LockBody, Faithful, Holding
  <2>2. tmp # NoFile
    BY <1>0, <2>1, ChangedFile, FileIsThere
  <2>3. store' = WithLeft(s, Absent)
    BY <1>10, <2>1, <2>2 DEF RevokeReplace, ReplaceStore
  <2>4. PICK q \in SubStates :
          SubTurns(s, q) /\ q.pc = "restore" /\ q.minted = sub[s].minted
    BY <1>10, SubGoingOn DEF RevokeReplace, SubPCs
  <2> QED
    BY <1>0, <2>1, <2>3, <2>4, LockMove DEF HoldPCs, Carrying
<1>11. CASE RestoreEnv(s)
  <2>1. PICK q \in SubStates :
          SubTurns(s, q) /\ q.pc = "done" /\ q.minted = sub[s].minted
    BY <1>11, SubGoingOn DEF RestoreEnv, SubPCs
  <2>2. sub[s].pc = "restore" /\ UNCHANGED <<store, tmp>>
    BY <1>11 DEF RestoreEnv
  <2> QED
    BY <1>0, <2>1, <2>2, LockPass DEF Holding, HoldPCs, Carrying
<1> QED
  BY <1>1, <1>2, <1>3, <1>4, <1>5, <1>6, <1>7, <1>8, <1>9, <1>10, <1>11 DEF SubStep

-----------------------------------------------------------------------------
(* One process: the steps of a call *)

Places == {"charge", "charge_write", "charge_replace"}

\* A thread t turned to r: its lock, the copies of the others.
LEMMA CallTurned ==
  ASSUME Types, NEW t \in Threads, NEW r \in CallStates, CallGoes(t, r), NoSub
  PROVE  /\ call'[t] = r
         /\ \A v \in Threads : v # t => call'[v] = call[v]
         /\ sub' = sub
BY OneMoves DEF NoSub

\* What is in flight does not grow but by an admission.
LEMMA FlightShrinks ==
  ASSUME ProxyAssumption, Types, NEW t \in Threads, NEW r \in CallStates, CallGoes(t, r),
         \/ call[t].pc = "upstream"
         \/ call[t].pc \in Places /\ r.pc \in Places /\ r.used = call[t].used
  PROVE  Cardinality(Flight') <= Cardinality(Flight)
<1>1. call'[t] = r /\ \A v \in Threads : v # t => call'[v] = call[v]
  BY OneMoves
<1>2. ASSUME NEW u \in Flight'
      PROVE  u \in Flight
  <2>1. u \in Threads \X (1..MaxUse) /\ u[1] \in Threads
    BY DEF Flight
  <2>2. CASE u[1] = t
    BY <1>1, <2>1, <2>2 DEF Flight, Places
  <2>3. CASE u[1] # t
    BY <1>1, <2>1, <2>3 DEF Flight
  <2> QED
    BY <2>2, <2>3
<1>3. Flight' \in SUBSET Flight
  BY <1>2
<1> QED
  BY <1>3, UnitSets, Fewer

\* A call that ends takes what it used out of what is in flight.
LEMMA FlightEnds ==
  ASSUME ProxyAssumption, Types, NEW t \in Threads, NEW r \in CallStates, CallGoes(t, r),
         call[t].pc \in Places, r.pc = "idle"
  PROVE  Cardinality(Flight) = Cardinality(Flight') + call[t].used
<1>1. /\ call'[t] = r /\ \A v \in Threads : v # t => call'[v] = call[v]
      /\ call[t] \in CallStates
  BY OneMoves
<1>2. PICK n \in 0..MaxUse : n = call[t].used /\ MaxUse \in Nat
  BY <1>1 DEF CallStates, ProxyAssumption
<1>3. ASSUME NEW u
      PROVE  u \in {t} \X (1..n)
               <=> u \in Threads \X (1..MaxUse) /\ u[1] = t /\ u[2] <= n
  BY <1>2
<1>4. ASSUME NEW u \in Threads \X (1..MaxUse)
      PROVE  u \in Flight <=> u \in Flight' \/ (u[1] = t /\ u[2] <= n)
  <2>1. u[1] \in Threads
    OBVIOUS
  <2>2. CASE u[1] = t
    BY <1>1, <1>2, <2>2 DEF Flight, Places
  <2>3. CASE u[1] # t
    BY <1>1, <2>1, <2>3 DEF Flight
  <2> QED
    BY <2>2, <2>3
<1>5. Flight = Flight' \cup ({t} \X (1..n))
  BY <1>3, <1>4, UnitSets, UnitSetsNext
<1>6. Flight' \cap ({t} \X (1..n)) = {}
  BY <1>1, <1>3 DEF Flight
<1> QED
  BY <1>2, <1>5, <1>6, UnitSetsNext, Adding

\* Who holds the lock, what is about to be saved, and whose tokens there are.
FileOK == OneHolder /\ Faithful /\ Owned

\* A step of a thread outside of the lock that leaves the file alone.
LEMMA CallPass ==
  ASSUME Types, LockBody, NEW t \in Threads, NEW r \in CallStates, CallGoes(t, r), NoSub,
         UNCHANGED <<store, tmp>>, ~Charging(t), r.pc \notin {"charge_write", "charge_replace"}
  PROVE  FileOK'
<1>1. /\ call'[t] = r /\ \A v \in Threads : v # t => call'[v] = call[v]
      /\ UNCHANGED <<sub, store, tmp>>
  BY CallTurned
<1>2. OneHolder'
  BY <1>1 DEF LockBody, OneHolder, Holding, Charging
<1>3. \A u \in Submissions : WithLeft(u, Budget)' = WithLeft(u, Budget)
                             /\ WithLeft(u, Absent)' = WithLeft(u, Absent)
  BY <1>1 DEF WithLeft, Absent
<1>4. \A v \in Threads : v # t =>
        Charged(call[v].token, call[v].used)' = Charged(call[v].token, call[v].used)
  BY <1>1 DEF Charged
<1>5. Faithful'
  BY <1>1, <1>3, <1>4 DEF LockBody, Faithful
<1>6. Owned'
  BY <1>1 DEF LockBody, Owned
<1> QED
  BY <1>2, <1>5, <1>6 DEF FileOK

\* A thread takes the lock, reads the file and charges its copy.
LEMMA CallTake ==
  ASSUME Types, oneProcess, LockBody, NEW t \in Threads, NEW r \in CallStates,
         CallGoes(t, r), NoSub, UNCHANGED <<store, tmp>>, ProxyMayLock,
         r.pc = "charge_write", r.copy = Charged(r.token, r.used)
  PROVE  FileOK'
<1>1. /\ call'[t] = r /\ \A v \in Threads : v # t => call'[v] = call[v]
      /\ UNCHANGED <<sub, store, tmp>>
  BY CallTurned
<1>2. /\ \A u \in Submissions : ~Holding(u)
      /\ \A v \in Threads : ~Charging(v)
  BY DEF ProxyMayLock, GraderLocked, ProxyLocked, Holding, Charging
<1>3. OneHolder'
  BY <1>1, <1>2 DEF OneHolder, Holding, Charging
<1>4. Charged(call[t].token, call[t].used)' = r.copy
  BY <1>1 DEF Charged
<1>5. Faithful'
  BY <1>1, <1>2, <1>4 DEF Faithful, Holding, Charging
<1>6. Owned'
  BY <1>1 DEF LockBody, Owned
<1> QED
  BY <1>3, <1>5, <1>6 DEF FileOK

\* The thread that holds the lock saves its copy to the temporary file.
LEMMA CallWrite ==
  ASSUME Types, LockBody, NEW t \in Threads, NEW r \in CallStates, CallGoes(t, r), NoSub,
         store' = store, tmp' = call[t].copy,
         call[t].pc = "charge_write", r.pc = "charge_replace",
         r.token = call[t].token, r.used = call[t].used
  PROVE  FileOK'
<1>1. /\ call'[t] = r /\ \A v \in Threads : v # t => call'[v] = call[v]
      /\ UNCHANGED <<sub, store>>
  BY CallTurned
<1>2. /\ \A u \in Submissions : ~Holding(u)
      /\ \A v \in Threads : v # t => ~Charging(v)
  BY DEF LockBody, OneHolder, Charging
<1>3. OneHolder'
  BY <1>1, <1>2 DEF OneHolder, Holding, Charging
<1>4. Charged(call[t].token, call[t].used)' = Charged(call[t].token, call[t].used)
  BY <1>1 DEF Charged
<1>5. tmp' = Charged(call[t].token, call[t].used)'
  BY <1>4 DEF LockBody, Faithful
<1>6. Faithful'
  BY <1>1, <1>2, <1>5 DEF Faithful, Holding, Charging
<1>7. Owned'
  BY <1>1 DEF LockBody, Owned
<1> QED
  BY <1>3, <1>6, <1>7 DEF FileOK

\* The thread that holds the lock moves the charged file over the store.
LEMMA CallMove ==
  ASSUME Types, LockBody, NEW t \in Threads, NEW r \in CallStates, CallGoes(t, r), NoSub,
         Charging(t), r.pc = "idle",
         \A s \in Submissions : store.left[s] = Absent => store'.left[s] = Absent
  PROVE  FileOK'
<1>1. /\ call'[t] = r /\ \A v \in Threads : v # t => call'[v] = call[v]
      /\ UNCHANGED sub
  BY CallTurned
<1>2. /\ \A u \in Submissions : ~Holding(u)
      /\ \A v \in Threads : v # t => ~Charging(v)
  BY DEF LockBody, OneHolder
<1>3. OneHolder'
  BY <1>1, <1>2 DEF OneHolder, Holding, Charging
<1>4. Faithful'
  BY <1>1, <1>2 DEF Faithful, Holding, Charging
<1>5. Owned'
  BY <1>1 DEF LockBody, Owned
<1> QED
  BY <1>3, <1>4, <1>5 DEF FileOK

\* LockInv is preserved by every step of a call.
LEMMA LockCall ==
  ASSUME ProxyAssumption, GInv, oneProcess, LockBody, NEW t \in Threads,
         Admit(t) \/ CallStep(t)
  PROVE  LockBody'
<1>0. /\ Types /\ Recorded /\ Bounded
      /\ Cardinality(Open) \in Nat /\ Cardinality(Open') \in Nat
      /\ Cardinality(Flight) \in Nat /\ Cardinality(Flight') \in Nat
      /\ call[t].used \in Nat
      /\ store \in Stores /\ store.spent \in Int /\ billed \in Int
  BY Counts DEF GInv, LockBody, Types, CallStates, Stores
<1>1. PICK top \in Nat : top = GlobalCap + Cardinality(Threads) * MaxUse
  BY AllUnits DEF ProxyAssumption
<1>2. store.spent + Cardinality(Flight) < top
  BY <1>0, <1>1 DEF Bounded
<1>3. ASSUME store' = store, Cardinality(Flight') <= Cardinality(Flight)
      PROVE  Bounded'
  <2>1. store'.spent + Cardinality(Flight') < top
    BY <1>0, <1>2, <1>3
  <2> QED
    BY <1>1, <2>1 DEF Bounded
<1>4. CASE Admit(t)
  <2>1. PICK r \in CallStates, k \in Submissions :
          Turned(t, r, "upstream", k, call[t].used, call[t].copy)
    BY <1>0, <1>4, Admitted
  <2>2. /\ CallGoes(t, r) /\ r.pc = "upstream" /\ call[t].pc = "idle"
        /\ UNCHANGED <<store, tmp, billed>> /\ NoSub /\ store.spent < GlobalCap
    BY <1>4, <2>1 DEF Turned, Admit
  <2>3. FileOK'
    BY <1>0, <2>2, CallPass DEF Charging
  <2>4. Open' = Open
    BY <1>0, <2>2, UnitsStay DEF Open
  <2>5. Recorded'
    BY <2>2, <2>4 DEF LockBody, Recorded
  <2>6. Cardinality(Flight') <= Cardinality(Threads) * MaxUse
    BY UnitSetsNext, Fewer
  <2>7. Cardinality(Threads) * MaxUse \in Nat /\ GlobalCap \in Nat
    BY AllUnits DEF ProxyAssumption
  <2>8. store.spent + Cardinality(Flight') < GlobalCap + Cardinality(Threads) * MaxUse
    BY <1>0, <2>2, <2>6, <2>7
  <2>9. Bounded'
    BY <2>2, <2>8 DEF Bounded
  <2> QED
    BY <2>3, <2>5, <2>9 DEF LockBody, FileOK
<1>5. CASE Answer(t)
  <2>0. call[t].pc = "upstream" /\ UNCHANGED <<store, tmp>> /\ NoSub
    BY <1>5 DEF Answer
  <2>1. ASSUME NEW r \in CallStates, NEW n \in 1..MaxUse,
               Turned(t, r, "charge", call[t].token, n, call[t].copy), billed' = billed + n
        PROVE  LockBody'
    <3>1. CallGoes(t, r) /\ r.pc = "charge" /\ r.used = n
      BY <2>1 DEF Turned
    <3>2. FileOK'
      BY <1>0, <2>0, <3>1, CallPass DEF Charging
    <3>3. Cardinality(Open') = Cardinality(Open) + n
      BY <1>0, <2>0, <3>1, UnitsCome DEF Open
    <3>4. billed' = store'.spent + Cardinality(Open')
      BY <1>0, <2>0, <2>1, <3>3 DEF Recorded
    <3>5. Bounded'
      BY <1>0, <1>3, <2>0, <3>1, FlightShrinks
    <3> QED
      BY <3>2, <3>4, <3>5 DEF LockBody, FileOK, Recorded
  <2>2. ASSUME NEW r \in CallStates,
               Turned(t, r, "idle", NoToken, call[t].used, call[t].copy), billed' = billed
        PROVE  LockBody'
    <3>1. CallGoes(t, r) /\ r.pc = "idle"
      BY <2>2 DEF Turned
    <3>2. FileOK'
      BY <1>0, <2>0, <3>1, CallPass DEF Charging
    <3>3. Open' = Open
      BY <1>0, <2>0, <3>1, UnitsStay DEF Open
    <3>4. Recorded'
      BY <1>0, <2>0, <2>2, <3>3 DEF Recorded
    <3>5. Bounded'
      BY <1>0, <1>3, <2>0, <3>1, FlightShrinks
    <3> QED
      BY <3>2, <3>4, <3>5 DEF LockBody, FileOK
  <2> QED
    BY <1>0, <1>5, <2>1, <2>2, Answered
<1>6. CASE ChargeRead(t)
  <2>0. call[t].pc = "charge" /\ UNCHANGED <<store, tmp, billed>> /\ NoSub /\ ProxyMayLock
    BY <1>6 DEF ChargeRead
  <2>1. PICK r \in CallStates :
          Turned(t, r, "charge_write", call[t].token, call[t].used,
                 Charged(call[t].token, call[t].used))
    BY <1>6, ChargeIsRead
  <2>2. /\ CallGoes(t, r) /\ r.pc = "charge_write" /\ r.used = call[t].used
        /\ r.copy = Charged(r.token, r.used)
    BY <2>1 DEF Turned
  <2>3. FileOK'
    BY <1>0, <2>0, <2>2, CallTake
  <2>4. Open' = Open
    BY <1>0, <2>0, <2>2, UnitsStay DEF Open
  <2>5. Recorded'
    BY <1>0, <2>0, <2>4 DEF Recorded
  <2>6. Bounded'
    BY <1>0, <1>3, <2>0, <2>2, FlightShrinks DEF Places
  <2> QED
    BY <2>3, <2>5, <2>6 DEF LockBody, FileOK
<1>7. CASE ChargeWrite(t)
  <2>0. /\ call[t].pc = "charge_write" /\ tmp' = call[t].copy
        /\ UNCHANGED <<store, billed>> /\ NoSub
    BY <1>7 DEF ChargeWrite, WriteTmp
  <2>1. PICK r \in CallStates :
          Turned(t, r, "charge_replace", call[t].token, call[t].used, call[t].copy)
    BY <1>0, <1>7, ChargeIsWritten
  <2>2. /\ CallGoes(t, r) /\ r.pc = "charge_replace" /\ r.used = call[t].used
        /\ r.token = call[t].token
    BY <2>1 DEF Turned
  <2>3. FileOK'
    BY <1>0, <2>0, <2>2, CallWrite
  <2>4. Open' = Open
    BY <1>0, <2>0, <2>2, UnitsStay DEF Open
  <2>5. Recorded'
    BY <1>0, <2>0, <2>4 DEF Recorded
  <2>6. Bounded'
    BY <1>0, <1>3, <2>0, <2>2, FlightShrinks DEF Places
  <2> QED
    BY <2>3, <2>5, <2>6 DEF LockBody, FileOK
<1>8. CASE ChargeReplace(t)
  <2>0. call[t].pc = "charge_replace" /\ ReplaceStore /\ UNCHANGED billed /\ NoSub
    BY <1>8 DEF ChargeReplace
  <2>1. PICK r \in CallStates : Turned(t, r, "idle", NoToken, 0, EmptyStore)
    BY <1>8, ChargeIsMoved
  <2>2. CallGoes(t, r) /\ r.pc = "idle"
    BY <2>1 DEF Turned
  <2>3. PICK k \in Submissions : k = call[t].token
    BY <2>0 DEF GInv, Addressed
  <2>4. PICK n \in 0..MaxUse : n = call[t].used
    BY <1>0 DEF Types, CallStates
  <2>5. tmp = Charged(k, n)
    BY <2>0, <2>3, <2>4 DEF LockBody, Faithful
  <2>6. /\ Charged(k, n).spent = store.spent + n
        /\ \A s \in Submissions : store.left[s] = Absent => Charged(k, n).left[s] = Absent
    BY <1>0, ChargedFile DEF ProxyAssumption
  <2>7. tmp # NoFile
    <3>1. store.spent >= 0 /\ n >= 0 /\ n \in Int
      BY <1>0, <2>4 DEF Stores, ProxyAssumption
    <3>2. tmp.spent # -1
      BY <1>0, <2>5, <2>6, <3>1
    <3> QED
      BY <3>2 DEF NoFile
  <2>8. store' = Charged(k, n)
    BY <2>0, <2>5, <2>7 DEF ReplaceStore
  <2>9. FileOK'
    BY <1>0, <2>0, <2>2, <2>6, <2>8, CallMove DEF Charging
  <2>10. Cardinality(Open) = Cardinality(Open') + n
    BY <1>0, <2>0, <2>2, <2>4, UnitsGo DEF Open
  <2>11. Cardinality(Flight) = Cardinality(Flight') + n
    BY <1>0, <2>0, <2>2, <2>4, FlightEnds DEF Places
  <2>12. store'.spent = store.spent + n /\ n \in Int
    BY <1>0, <2>4, <2>6, <2>8
  <2>13. billed' = store'.spent + Cardinality(Open')
    BY <1>0, <2>0, <2>10, <2>12 DEF Recorded
  <2>14. store'.spent + Cardinality(Flight') < top
    BY <1>0, <1>2, <2>11, <2>12
  <2>15. Bounded'
    BY <1>1, <2>14 DEF Bounded
  <2> QED
    BY <2>9, <2>13, <2>15 DEF LockBody, FileOK, Recorded
<1> QED
  BY <1>4, <1>5, <1>6, <1>7, <1>8 DEF CallStep

\* LockInv holds at the start and is preserved.
LEMMA LockInit ==
  ASSUME ProxyAssumption, Init
  PROVE  LockInv
<1> USE DEF Init
<1>1. OneHolder /\ Faithful
  BY DEF OneHolder, Faithful, Holding, Charging
<1>2. Owned
  BY DEF Owned, Carrying, EmptyStore
<1>3. Open = {} /\ Flight = {}
  BY DEF Open, Flight, Units
<1>4. Cardinality(Open) = 0 /\ Cardinality(Flight) = 0
  BY <1>3, FS_EmptySet
<1>5. store.spent = 0
  BY DEF EmptyStore
<1>6. Recorded
  BY <1>4, <1>5 DEF Recorded
<1>7. PICK c \in Nat : c = Cardinality(Threads) /\ c > 0
  BY AllUnits
<1>8. MaxUse \in Nat /\ MaxUse > 0 /\ GlobalCap \in Nat
  BY DEF ProxyAssumption
<1>9. c * MaxUse > 0 /\ c * MaxUse \in Nat
  BY <1>7, <1>8
<1>10. 0 < GlobalCap + c * MaxUse
  BY <1>8, <1>9
<1>11. 0 + 0 < GlobalCap + c * MaxUse
  BY <1>10
<1>12. Bounded
  BY <1>4, <1>5, <1>7, <1>11 DEF Bounded
<1> QED
  BY <1>1, <1>2, <1>6, <1>12 DEF LockInv, LockBody

LEMMA LockStep ==
  ASSUME ProxyAssumption, GInv, LockInv, [Next]_vars
  PROVE  LockInv'
<1>1. oneProcess' = oneProcess
  BY DEF vars, config, Next, SubStep, CallStep, NoCall, NoSub, Submit, IssueRead, IssueWrite,
         IssueReplace, SetEnv, Boot, GradeEnds, RevokeRead, RevokeWrite, RevokeReplace,
         RestoreEnv, Admit, Answer, ChargeRead, ChargeWrite, ChargeReplace
<1>2. CASE UNCHANGED vars
  BY <1>2 DEF vars, config, LockInv, LockBody, OneHolder, Faithful, Owned, Recorded, Bounded,
              Holding, Charging, WithLeft, Charged, Open, Flight, Units
<1>3. ASSUME oneProcess, Next
      PROVE  LockBody'
  BY <1>3, LockSub, LockCall DEF Next, GInv, LockInv
<1> QED
  BY <1>1, <1>2, <1>3 DEF LockInv

-----------------------------------------------------------------------------
(* Serial submissions: the environment *)

\* A submission s goes to q; nobody else is active.
LEMMA SerialKeeps ==
  ASSUME Types, Environment, NEW s \in Submissions, NEW q \in SubStates,
         sub' = [sub EXCEPT ![s] = q],
         \A u \in Submissions : Active(u) => u = s,
         q.container \in {NoToken, s},
         IF q.pc \in {"new", "done"} THEN env' = NoToken
         ELSE q.prev = NoToken /\ env' \in {NoToken, s}
  PROVE  OneActive' /\ Environment'
<1>1. sub'[s] = q /\ \A u \in Submissions : u # s => sub'[u] = sub[u]
  BY DEF Types
<1>2. \A u \in Submissions : u # s => ~Active(u)'
  BY <1>1 DEF Active
<1>3. OneActive'
  BY <1>2 DEF OneActive
<1>4. Environment'
  BY <1>1, <1>2 DEF Environment, Active
<1> QED
  BY <1>3, <1>4

\* What every step of a submission after the first does to its environment.
LEMMA SerialSub ==
  ASSUME ProxyAssumption, Types, Environment, OneActive, NEW s \in Submissions, SubStep(s)
  PROVE  OneActive' /\ Environment'
<1>0. Active(s) /\ sub[s] \in SubStates
  BY DEF Types, Active, SubStep, IssueRead, IssueWrite, IssueReplace, SetEnv, Boot, GradeEnds,
         RevokeRead, RevokeWrite, RevokeReplace, RestoreEnv
<1>1. /\ \A u \in Submissions : Active(u) => u = s
      /\ sub[s].container \in {NoToken, s} /\ sub[s].prev = NoToken
      /\ env \in {NoToken, s}
  BY <1>0 DEF OneActive, Environment
<1>2. ASSUME NEW pc \in SubPCs, SubGo(s, pc),
             IF pc = "done" THEN env' = NoToken ELSE env' \in {NoToken, s}, pc # "new"
      PROVE  OneActive' /\ Environment'
  <2>1. PICK q \in SubStates : q = [sub[s] EXCEPT !.pc = pc]
    BY <1>0 DEF SubStates
  <2>2. /\ sub' = [sub EXCEPT ![s] = q]
        /\ q.pc = pc /\ q.container = sub[s].container /\ q.prev = sub[s].prev
    BY <1>2, <2>1 DEF SubGo, Types, SubStates
  <2> QED
    BY <1>1, <1>2, <2>2, SerialKeeps
<1>3. ASSUME NEW pc \in SubPCs, NEW n \in Absent..Budget,
             SubRead(s, pc, WithLeft(s, n)), pc \notin {"new", "done"}, env' = env
      PROVE  OneActive' /\ Environment'
  <2>1. PICK x \in Stores : x = WithLeft(s, n)
    BY ChangedFile DEF Types
  <2>2. PICK q \in SubStates : q = [sub[s] EXCEPT !.pc = pc, !.copy = x]
    BY <1>0 DEF SubStates
  <2>3. /\ sub' = [sub EXCEPT ![s] = q]
        /\ q.pc = pc /\ q.container = sub[s].container /\ q.prev = sub[s].prev
    BY <1>3, <2>1, <2>2 DEF SubRead, Types, SubStates
  <2> QED
    BY <1>1, <1>3, <2>3, SerialKeeps
<1>4. CASE IssueRead(s) \/ RevokeRead(s)
  <2>1. env' = env
    BY <1>4 DEF IssueRead, RevokeRead
  <2>2. \/ SubRead(s, "issue_write", WithLeft(s, Budget))
        \/ SubRead(s, "revoke_write", WithLeft(s, Absent))
        \/ SubGo(s, "restore")
    BY <1>4 DEF IssueRead, RevokeRead, WithLeft
  <2>3. Budget \in Absent..Budget /\ Absent \in Absent..Budget
    BY DEF ProxyAssumption, Absent
  <2>4. {"issue_write", "revoke_write", "restore"} \in SUBSET SubPCs
    BY DEF SubPCs
  <2>5. CASE SubRead(s, "issue_write", WithLeft(s, Budget))
    BY <1>3, <2>1, <2>3, <2>4, <2>5
  <2>6. CASE SubRead(s, "revoke_write", WithLeft(s, Absent))
    BY <1>3, <2>1, <2>3, <2>4, <2>6
  <2>7. CASE SubGo(s, "restore")
    BY <1>1, <1>2, <2>1, <2>4, <2>7
  <2> QED
    BY <2>2, <2>5, <2>6, <2>7
<1>5. CASE IssueWrite(s) \/ GradeEnds(s) \/ RevokeWrite(s) \/ RevokeReplace(s)
  BY <1>1, <1>2, <1>5 DEF IssueWrite, GradeEnds, RevokeWrite, RevokeReplace, SubPCs
<1>6. CASE IssueReplace(s)
  <2>1. env' = env
    BY <1>6 DEF IssueReplace
  <2>2. CASE SubGo(s, "boot")
    BY <1>1, <1>2, <2>1, <2>2 DEF SubPCs
  <2>3. CASE sub' = [sub EXCEPT ![s].pc = "set_env", ![s].minted = TRUE]
    <3>1. PICK q \in SubStates : q = [sub[s] EXCEPT !.pc = "set_env", !.minted = TRUE]
      BY <1>0 DEF SubStates, SubPCs
    <3>2. /\ sub' = [sub EXCEPT ![s] = q]
          /\ q.pc = "set_env" /\ q.container = sub[s].container /\ q.prev = sub[s].prev
      BY <2>3, <3>1 DEF Types, SubStates
    <3> QED
      BY <1>1, <2>1, <3>2, SerialKeeps
  <2> QED
    BY <1>6, <2>2, <2>3 DEF IssueReplace
<1>7. CASE SetEnv(s)
  BY <1>1, <1>2, <1>7 DEF SetEnv, SubPCs
<1>8. CASE Boot(s)
  <2>1. PICK q \in SubStates : q = [sub[s] EXCEPT !.pc = "grading", !.container = env]
    BY <1>0 DEF Types, SubStates, SubPCs
  <2>2. /\ sub' = [sub EXCEPT ![s] = q]
        /\ q.pc = "grading" /\ q.container = env /\ q.prev = sub[s].prev /\ env' = env
    BY <1>8, <2>1 DEF Boot, Types, SubStates
  <2> QED
    BY <1>1, <2>2, SerialKeeps
<1>9. CASE RestoreEnv(s)
  BY <1>1, <1>2, <1>9 DEF RestoreEnv, SubPCs
<1> QED
  BY <1>4, <1>5, <1>6, <1>7, <1>8, <1>9 DEF SubStep

\* A submission is posted when nobody is active, and finds no token.
LEMMA SerialSubmit ==
  ASSUME Types, Environment, serial, NEW s \in Submissions, Submit(s)
  PROVE  OneActive' /\ Environment'
<1>1. (\A u \in Submissions : ~Active(u)) /\ env = NoToken /\ env' = env
  BY DEF Submit, Active, Environment
<1>2. sub[s].container \in {NoToken, s} /\ sub[s] \in SubStates
  BY DEF Environment, Types
<1>3. PICK q \in SubStates : q = [sub[s] EXCEPT !.pc = "issue", !.prev = env]
  BY <1>2 DEF Types, SubStates, SubPCs
<1>4. /\ sub' = [sub EXCEPT ![s] = q]
      /\ q.pc = "issue" /\ q.container = sub[s].container /\ q.prev = env
  BY <1>3 DEF Submit, Types, SubStates
<1> QED
  BY <1>1, <1>2, <1>4, SerialKeeps

LEMMA SerialInit ==
  ASSUME Init
  PROVE  SerialInv
BY DEF Init, SerialInv, OneActive, Environment, Active

LEMMA SerialStep ==
  ASSUME ProxyAssumption, GInv, SerialInv, [Next]_vars
  PROVE  SerialInv'
<1>1. serial' = serial
  BY DEF vars, config, Next, SubStep, CallStep, NoCall, NoSub, Submit, IssueRead, IssueWrite,
         IssueReplace, SetEnv, Boot, GradeEnds, RevokeRead, RevokeWrite, RevokeReplace,
         RestoreEnv, Admit, Answer, ChargeRead, ChargeWrite, ChargeReplace
<1>2. CASE UNCHANGED <<env, sub>>
  BY <1>1, <1>2 DEF SerialInv, OneActive, Environment, Active
<1>3. CASE \E t \in Threads : Admit(t) \/ CallStep(t)
  <2>1. UNCHANGED <<env, sub>>
    BY <1>3 DEF CallStep, NoSub, Admit, Answer, ChargeRead, ChargeWrite, ChargeReplace
  <2> QED
    BY <1>2, <2>1
<1>4. CASE \E s \in Submissions : Submit(s) \/ SubStep(s)
  BY <1>1, <1>4, SerialSub, SerialSubmit DEF GInv, SerialInv
<1> QED
  BY <1>2, <1>3, <1>4 DEF Next, vars

-----------------------------------------------------------------------------
(* The theorems *)

Inv == GInv /\ LockInv /\ SerialInv

\* The invariant: of every file and bill, of the lock that one process has, and
\* of the environment of submissions that do not overlap.
THEOREM Invariance == Spec => []Inv
<1>1. ProxyAssumption
  BY ProxyAssumption
<1>2. Init => Inv
  BY <1>1, GInvInit, LockInit, SerialInit DEF Inv
<1>3. Inv /\ [Next]_vars => Inv'
  BY <1>1, GInvStep, LockStep, SerialStep DEF Inv
<1> QED
  BY <1>2, <1>3, PTL DEF Spec

\* The books balance: the file never records more than the provider billed,
\* whoever overwrites whom, and all of it, less what is on its way, when the
\* proxy and the grader share one lock.
THEOREM Books == Spec => []BooksBalance
<1>1. Inv => BooksBalance
  <2> SUFFICES ASSUME Inv
               PROVE  BooksBalance
    OBVIOUS
  <2>1. TypeOK
    BY DEF Inv, GInv, Types, TypeOK, SubStates, CallStates
  <2>2. store.spent + Cardinality(Owed) <= billed /\ store.spent \in Int /\ billed \in Int
    BY DEF Inv, GInv, NeverAhead, Below, Types, Stores
  <2>3. Cardinality(Owed) \in Nat
    BY ProxyAssumption, Counts
  <2>4. NeverOvercharged
    BY <2>2, <2>3 DEF NeverOvercharged
  <2>5. EveryUseRecorded
    BY DEF Inv, LockInv, LockBody, Recorded, EveryUseRecorded, Unrecorded, Open
  <2> QED
    BY <2>1, <2>4, <2>5 DEF BooksBalance
<1> QED
  BY <1>1, Invariance, PTL

\* The hard stop of the proxy is overshot by less than one call's usage for
\* each of its threads, when it shares the lock with the grader.
THEOREM Overshoot == Spec => []OvershootBounded
<1>1. Inv => OvershootBounded
  <2> SUFFICES ASSUME Inv, oneProcess
               PROVE  billed < GlobalCap + Cardinality(Threads) * MaxUse
    BY DEF OvershootBounded
  <2>1. /\ billed = store.spent + Cardinality(Open)
        /\ store.spent + Cardinality(Flight) < GlobalCap + Cardinality(Threads) * MaxUse
        /\ store.spent \in Int
    BY DEF Inv, GInv, Types, Stores, LockInv, LockBody, Recorded, Bounded
  <2>2. Open \in SUBSET Flight
    BY DEF Open, Flight, Units
  <2>3. Cardinality(Open) <= Cardinality(Flight)
    BY <2>2, ProxyAssumption, UnitSets, Fewer
  <2>4. PICK top \in Nat : top = GlobalCap + Cardinality(Threads) * MaxUse
    BY AllUnits, ProxyAssumption DEF ProxyAssumption
  <2>5. Cardinality(Open) \in Nat /\ Cardinality(Flight) \in Nat
    BY ProxyAssumption, Counts
  <2>6. billed < top
    BY <2>1, <2>3, <2>4, <2>5
  <2> QED
    BY <2>4, <2>6
<1> QED
  BY <1>1, Invariance, PTL

\* Neither a submission's token (one process) nor its place in the environment
\* (serial submissions) outlives the submission.
THEOREM Outlives == Spec => []NothingOutlivesSubmission
<1>1. Inv => NothingOutlivesSubmission
  BY DEF Inv, LockInv, LockBody, Owned, Carrying, SerialInv, Environment, Active,
         NothingOutlivesSubmission, OneLockTokenDies, TokenDiesWithSubmission,
         EnvOnlyWhileGrading
<1> QED
  BY <1>1, Invariance, PTL

-----------------------------------------------------------------------------
(* The calls: the inductive invariant *)

CallerStates ==
  [pc : {"begin", "attempt", "wait", "judge"} \cup Ended,
   attempt : 1..MaxAttempts, part : 1..Parts, cost : Nat]

ChildStates ==
  [at : Running \cup {"gone", "exited"}, refused : BOOLEAN, put : Results]

\* The attempts that the parts done and the attempts begun allow for.
Quota(s) ==
  (s.part - 1) * MaxAttempts + (IF s.pc \in {"begin", "attempt"} THEN s.attempt - 1 ELSE s.attempt)

Telling == {"course planner", "oracle author", "repo author"}

\* A caller s of kind k knows the cost of the h answers it heard.
Tells(k, s, h) ==
  k \in Telling =>
    /\ s.pc \in {"begin", "attempt", "wait", "returned"} => s.cost = h
    /\ s.pc = "judge" => h = s.cost + 1
    /\ k = "course planner" /\ s.pc \notin Ended => s.cost = 0

\* The caller s of kind k, its child p, the children it started, the answers
\* it heard and those it was charged for.
Sound(k, s, p, t, h, b) ==
  /\ IF s.pc = "wait" THEN p.at # "gone" ELSE p = NoChild
  /\ t <= Quota(s)
  /\ h <= b /\ b <= t
  /\ p.at \in {"parse", "create"} => b < t
  /\ p.at \in {"answered", "stuck"} \/ (p.at = "exited" /\ p.put = "answer") => h < b
  /\ p.refused => provider = "anthropic" /\ complex
  /\ Tells(k, s, h)

CallInv ==
  /\ CallTypeOK
  /\ LearnedOnlyIfRefused
  /\ \A c \in Callers : Sound(kind[c], caller[c], child[c], tries[c], heard[c], charged[c])

-----------------------------------------------------------------------------
(* Lemmas *)

\* The step of one caller, or of its child.
LEMMA OneStep ==
  ASSUME CallInv, NEW c \in Callers, UNCHANGED rigid,
         NEW s \in CallerStates, caller' = [caller EXCEPT ![c] = s],
         NEW p \in ChildStates, child' = [child EXCEPT ![c] = p],
         NEW t \in Nat, tries' = [tries EXCEPT ![c] = t],
         NEW h \in Nat, heard' = [heard EXCEPT ![c] = h],
         NEW b \in Nat, charged' = [charged EXCEPT ![c] = b],
         learned' \in BOOLEAN, learned' => provider = "anthropic" /\ complex,
         Sound(kind[c], s, p, t, h, b)
  PROVE  CallInv'
<1>1. /\ caller \in [Callers -> CallerStates] /\ child \in [Callers -> ChildStates]
      /\ tries \in [Callers -> Nat] /\ heard \in [Callers -> Nat] /\ charged \in [Callers -> Nat]
  BY DEF CallInv, CallTypeOK, CallerStates, ChildStates
<1>2. CallTypeOK'
  BY <1>1 DEF CallInv, CallTypeOK, rigid, CallerStates, ChildStates
<1>3. LearnedOnlyIfRefused'
  BY DEF LearnedOnlyIfRefused, rigid
<1>4. ASSUME NEW d \in Callers
      PROVE  Sound(kind[d], caller[d], child[d], tries[d], heard[d], charged[d])'
  <2>1. CASE d = c
    <3>1. /\ caller'[d] = s /\ child'[d] = p /\ tries'[d] = t /\ heard'[d] = h
          /\ charged'[d] = b /\ kind'[d] = kind[c]
          /\ provider' = provider /\ complex' = complex
      BY <1>1, <2>1 DEF rigid
    <3> QED BY <3>1 DEF Sound, Quota
  <2>2. CASE d # c
    <3>1. /\ caller'[d] = caller[d] /\ child'[d] = child[d] /\ tries'[d] = tries[d]
          /\ heard'[d] = heard[d] /\ charged'[d] = charged[d] /\ kind'[d] = kind[d]
          /\ provider' = provider /\ complex' = complex
      BY <1>1, <2>2 DEF rigid
    <3>2. Sound(kind[d], caller[d], child[d], tries[d], heard[d], charged[d])
      BY DEF CallInv
    <3> QED BY <3>1, <3>2 DEF Sound, Quota
  <2> QED BY <2>1, <2>2
<1> QED BY <1>2, <1>3, <1>4 DEF CallInv

\* The same when no count changes and the schema is not learned.
LEMMA QuietStep ==
  ASSUME CallInv, NEW c \in Callers, UNCHANGED <<rigid, learned, history>>,
         NEW s \in CallerStates, caller' = [caller EXCEPT ![c] = s],
         NEW p \in ChildStates, child' = [child EXCEPT ![c] = p],
         Sound(kind[c], s, p, tries[c], heard[c], charged[c])
  PROVE  CallInv'
<1>1. /\ tries \in [Callers -> Nat] /\ heard \in [Callers -> Nat] /\ charged \in [Callers -> Nat]
      /\ learned \in BOOLEAN /\ (learned => provider = "anthropic" /\ complex)
  BY DEF CallInv, CallTypeOK, LearnedOnlyIfRefused
<1>2. PICK t \in Nat, h \in Nat, b \in Nat : t = tries[c] /\ h = heard[c] /\ b = charged[c]
  BY <1>1
<1>3. /\ tries' = [tries EXCEPT ![c] = t] /\ heard' = [heard EXCEPT ![c] = h]
      /\ charged' = [charged EXCEPT ![c] = b] /\ learned' = learned
  BY <1>1, <1>2 DEF history
<1>4. Sound(kind[c], s, p, t, h, b)
  BY <1>2
<1>5. learned' \in BOOLEAN /\ (learned' => provider = "anthropic" /\ complex)
  BY <1>1, <1>3
<1>6. UNCHANGED rigid
  BY DEF rigid
<1> QED BY <1>3, <1>4, <1>5, <1>6, OneStep

\* What there is of a caller.
LEMMA Typed ==
  ASSUME CallInv, NEW c \in Callers
  PROVE  /\ caller[c] \in CallerStates /\ child[c] \in ChildStates
         /\ tries[c] \in Nat /\ heard[c] \in Nat /\ charged[c] \in Nat /\ kind[c] \in Kinds
         /\ caller = [caller EXCEPT ![c] = caller[c]]
         /\ child = [child EXCEPT ![c] = child[c]]
         /\ tries = [tries EXCEPT ![c] = tries[c]]
         /\ heard = [heard EXCEPT ![c] = heard[c]]
         /\ charged = [charged EXCEPT ![c] = charged[c]]
         /\ Sound(kind[c], caller[c], child[c], tries[c], heard[c], charged[c])
BY DEF CallInv, CallTypeOK, CallerStates, ChildStates

\* No child.
LEMMA NoChildTyped == NoChild \in ChildStates /\ NoChild.at = "gone" /\ ~NoChild.refused
BY DEF NoChild, ChildStates, Results, Failures, Running

\* Counting a part more is as much as MaxAttempts attempts more.
LEMMA OnePartMore ==
  ASSUME NEW q \in 1..Parts
  PROVE  /\ (q - 1) * MaxAttempts \in Int
         /\ q * MaxAttempts = (q - 1) * MaxAttempts + MaxAttempts
         /\ q * MaxAttempts <= MaxAttempts * Parts
<1>1. MaxAttempts \in Nat /\ Parts \in Nat /\ q \in Nat /\ q <= Parts
  BY CallAssumption
<1>2. (q - 1) * MaxAttempts \in Int /\ q * MaxAttempts = (q - 1) * MaxAttempts + MaxAttempts
  BY <1>1
<1>3. (Parts - q) * MaxAttempts >= 0
  <2>1. PICK d \in Nat : d = Parts - q
    BY <1>1
  <2>2. d * MaxAttempts \in Nat
    BY <1>1, <2>1
  <2> QED BY <2>1, <2>2
<1>4. MaxAttempts * Parts = q * MaxAttempts + (Parts - q) * MaxAttempts
  BY <1>1
<1>5. q * MaxAttempts \in Int /\ (Parts - q) * MaxAttempts \in Int
  BY <1>1
<1> QED BY <1>2, <1>3, <1>4, <1>5

\* The quota is never more than all the attempts at all the parts.
LEMMA QuotaBounded ==
  ASSUME NEW s \in CallerStates
  PROVE  Quota(s) \in Int /\ Quota(s) <= MaxAttempts * Parts
<1>1. s.part \in 1..Parts /\ s.attempt \in 1..MaxAttempts /\ MaxAttempts \in Nat
  BY CallAssumption DEF CallerStates
<1>2. PICK x \in Int : x = (s.part - 1) * MaxAttempts /\ x + MaxAttempts <= MaxAttempts * Parts
  BY <1>1, OnePartMore
<1>3. MaxAttempts * Parts \in Nat
  BY CallAssumption
<1>4. Quota(s) = x + (IF s.pc \in {"begin", "attempt"} THEN s.attempt - 1 ELSE s.attempt)
  BY <1>2 DEF Quota
<1> QED BY <1>1, <1>2, <1>3, <1>4

\* Nothing is used up before the first attempt.
LEMMA BegunQuota ==
  ASSUME NEW o \in CallerStates, NEW s \in CallerStates,
         o.pc = "begin", s.part = o.part, s.attempt = o.attempt
  PROVE  Quota(o) <= Quota(s)
<1>1. o.part \in 1..Parts /\ o.attempt \in 1..MaxAttempts /\ MaxAttempts \in Nat
  BY CallAssumption DEF CallerStates
<1>2. PICK x \in Int, a \in Int : x = (o.part - 1) * MaxAttempts /\ a = o.attempt
  BY <1>1, OnePartMore
<1>3. Quota(o) = x + (a - 1)
  BY <1>2 DEF Quota
<1>4. Quota(s) = x + (a - 1) \/ Quota(s) = x + a
  BY <1>2 DEF Quota
<1> QED BY <1>3, <1>4

\* s is where a caller goes whose attempt failed, or whose part is done: no
\* quota is lost.
Onward(o, s) ==
  /\ s.pc \in {"attempt"} \cup Ended
  /\ Quota(o) <= Quota(s)

LEMMA RetriedGoesOn ==
  ASSUME CallInv, NEW c \in Callers, MayRetry(c), caller[c].pc # "begin"
  PROVE  /\ Retried(c) \in CallerStates /\ Onward(caller[c], Retried(c))
         /\ Retried(c).pc = "attempt" /\ Retried(c).cost = caller[c].cost
<1>1. PICK o \in CallerStates : o = caller[c]
  BY Typed
<1>2. o.attempt < MaxAttempts /\ o.attempt \in 1..MaxAttempts /\ MaxAttempts \in Nat
      /\ o.part \in 1..Parts
  BY <1>1, CallAssumption DEF MayRetry, CallerStates
<1>3. o.attempt + 1 \in 1..MaxAttempts
  BY <1>2
<1>4. PICK s \in CallerStates : s = [o EXCEPT !.pc = "attempt", !.attempt = o.attempt + 1]
  BY <1>3 DEF CallerStates
<1>5. s.pc = "attempt" /\ s.attempt = o.attempt + 1 /\ s.part = o.part /\ s.cost = o.cost
  BY <1>4 DEF CallerStates
<1>6. PICK x \in Int : x = (o.part - 1) * MaxAttempts
  BY <1>2, OnePartMore
<1>7. Quota(o) <= x + o.attempt /\ Quota(s) = x + o.attempt
  BY <1>2, <1>5, <1>6 DEF Quota
<1>8. Quota(o) \in Int
  BY QuotaBounded
<1>9. Retried(c) = s
  BY <1>1, <1>4 DEF Retried
<1> QED BY <1>1, <1>2, <1>5, <1>6, <1>7, <1>8, <1>9 DEF Onward

\* An end of any kind.
LEMMA EndGoesOn ==
  ASSUME CallInv, NEW c \in Callers, NEW end \in Ended
  PROVE  LET s == [caller[c] EXCEPT !.pc = end]
         IN  /\ s \in CallerStates /\ Onward(caller[c], s)
             /\ s.pc = end /\ s.cost = caller[c].cost
<1>1. PICK o \in CallerStates : o = caller[c]
  BY Typed
<1>2. PICK s \in CallerStates : s = [o EXCEPT !.pc = end]
  BY DEF CallerStates
<1>3. s.pc = end /\ s.attempt = o.attempt /\ s.part = o.part /\ s.cost = o.cost
  BY <1>2 DEF CallerStates
<1>4. o.part \in 1..Parts /\ o.attempt \in 1..MaxAttempts /\ MaxAttempts \in Nat
  BY CallAssumption DEF CallerStates
<1>5. PICK x \in Int : x = (o.part - 1) * MaxAttempts
  BY <1>4, OnePartMore
<1>6. Quota(o) <= x + o.attempt /\ Quota(s) = x + o.attempt
  <2>1. end \notin {"begin", "attempt"}
    BY DEF Ended
  <2>2. Quota(s) = x + o.attempt
    BY <1>3, <1>5, <2>1 DEF Quota
  <2>3. Quota(o) = x + (IF o.pc \in {"begin", "attempt"} THEN o.attempt - 1 ELSE o.attempt)
    BY <1>5 DEF Quota
  <2> QED BY <1>4, <2>2, <2>3
<1>7. Onward(o, s)
  BY <1>3, <1>4, <1>5, <1>6, QuotaBounded DEF Onward
<1> QED BY <1>1, <1>2, <1>3, <1>7

LEMMA NextPartGoesOn ==
  ASSUME CallInv, NEW c \in Callers, NEW end \in Ended
  PROVE  /\ NextPart(c, end) \in CallerStates /\ Onward(caller[c], NextPart(c, end))
         /\ NextPart(c, end).pc \in {"attempt", end}
         /\ NextPart(c, end).cost = caller[c].cost
<1>1. PICK o \in CallerStates : o = caller[c]
  BY Typed
<1>2. CASE o.part < Parts
  <2>1. o.part \in 1..Parts /\ o.attempt \in 1..MaxAttempts /\ MaxAttempts \in Nat
        /\ o.part + 1 \in 1..Parts /\ 1 \in 1..MaxAttempts
    BY <1>2, CallAssumption DEF CallerStates
  <2>2. PICK s \in CallerStates :
          s = [o EXCEPT !.pc = "attempt", !.part = o.part + 1, !.attempt = 1]
    BY <2>1 DEF CallerStates
  <2>3. s.pc = "attempt" /\ s.attempt = 1 /\ s.part = o.part + 1 /\ s.cost = o.cost
    BY <2>2 DEF CallerStates
  <2>4. PICK x \in Int : x = (o.part - 1) * MaxAttempts /\ o.part * MaxAttempts = x + MaxAttempts
    BY <2>1, OnePartMore
  <2>5. s.part - 1 = o.part
    BY <2>1, <2>3
  <2>6. Quota(o) <= x + o.attempt /\ Quota(s) = x + MaxAttempts
    BY <2>1, <2>3, <2>4, <2>5 DEF Quota
  <2>7. Onward(o, s)
    BY <2>1, <2>3, <2>4, <2>6, QuotaBounded DEF Onward
  <2>8. NextPart(c, end) = s
    BY <1>1, <1>2, <2>2 DEF NextPart
  <2> QED BY <1>1, <2>3, <2>7, <2>8
<1>3. CASE ~(o.part < Parts)
  <2>1. NextPart(c, end) = [caller[c] EXCEPT !.pc = end]
    BY <1>1, <1>3 DEF NextPart
  <2> QED BY <2>1, EndGoesOn
<1> QED BY <1>2, <1>3

\* Where a caller goes after a failed attempt: a service that tells its costs
\* retries or raises.
LEMMA FailedGoesOn ==
  ASSUME CallInv, NEW c \in Callers, NEW f, caller[c].pc # "begin", Failed(c, f)
  PROVE  \E s \in CallerStates :
           /\ caller' = [caller EXCEPT ![c] = s]
           /\ Onward(caller[c], s) /\ s.cost = caller[c].cost
           /\ s.pc = "returned" => kind[c] \notin Telling
<1>1. kind[c] \in Kinds /\ "raised" \in Ended /\ "returned" \in Ended /\ "fell back" \in Ended
  BY Typed DEF Ended
<1>2. /\ Raised(c) \in CallerStates /\ Onward(caller[c], Raised(c))
      /\ Raised(c).pc = "raised" /\ Raised(c).cost = caller[c].cost
  BY <1>1, EndGoesOn DEF Raised
<1>3. CASE kind[c] \in {"course planner", "outcome planner", "oracle author", "repo author"}
  <2>1. \/ caller' = [caller EXCEPT ![c] = Raised(c)]
        \/ MayRetry(c) /\ caller' = [caller EXCEPT ![c] = Retried(c)]
    BY <1>3 DEF Failed, PlannerFailed, OutcomePlannerFailed, RepoAuthorFailed
  <2> QED BY <1>2, <2>1, RetriedGoesOn
<1>4. CASE kind[c] = "spec judge"
  <2>1. caller' = [caller EXCEPT ![c] = [caller[c] EXCEPT !.pc = "fell back"]]
    BY <1>4 DEF Failed
  <2> QED BY <1>1, <2>1, EndGoesOn
<1>5. CASE kind[c] = "feedback writer"
  <2>1. caller' = [caller EXCEPT ![c] = NextPart(c, "returned")]
    BY <1>5 DEF Failed, FeedbackFailed
  <2>2. kind[c] \notin Telling
    BY <1>5 DEF Telling
  <2> QED BY <1>1, <2>1, <2>2, NextPartGoesOn
<1> QED BY <1>1, <1>3, <1>4, <1>5 DEF Kinds

\* A caller that was left alone by its child is sound where it goes on to, if
\* it tells what it heard.
LEMMA OnwardIsSound ==
  ASSUME CallInv, NEW c \in Callers, NEW s \in CallerStates, Onward(caller[c], s),
         Tells(kind[c], s, heard[c])
  PROVE  Sound(kind[c], s, NoChild, tries[c], heard[c], charged[c])
<1>1. Sound(kind[c], caller[c], child[c], tries[c], heard[c], charged[c]) /\ tries[c] \in Nat
  BY Typed
<1>2. Quota(caller[c]) \in Int /\ Quota(s) \in Int
  BY Typed, QuotaBounded
<1>3. s.pc # "wait"
  BY DEF Onward, Ended
<1>4. tries[c] <= Quota(s)
  BY <1>1, <1>2 DEF Sound, Onward
<1> QED BY <1>1, <1>3, <1>4, NoChildTyped DEF Sound

\* The cost is put right on the way.
LEMMA Retold ==
  ASSUME NEW o, NEW s \in CallerStates, Onward(o, s), NEW cost \in Nat
  PROVE  LET r == [s EXCEPT !.cost = cost]
         IN  r \in CallerStates /\ Onward(o, r) /\ r.pc = s.pc /\ r.cost = cost
<1>1. PICK r \in CallerStates : r = [s EXCEPT !.cost = cost]
  BY DEF CallerStates
<1>2. r.pc = s.pc /\ r.part = s.part /\ r.attempt = s.attempt /\ r.cost = cost
  BY <1>1 DEF CallerStates
<1>3. Quota(r) = Quota(s)
  BY <1>2 DEF Quota
<1> QED BY <1>1, <1>2, <1>3 DEF Onward

\* A caller without a child goes on as s, and the child, if it had one, is gone.
LEMMA OnwardKeeps ==
  ASSUME CallInv, NEW c \in Callers, UNCHANGED <<rigid, learned, history>>,
         NEW s \in CallerStates, caller' = [caller EXCEPT ![c] = s],
         Onward(caller[c], s), Tells(kind[c], s, heard[c]),
         \/ child' = [child EXCEPT ![c] = NoChild]
         \/ UNCHANGED child /\ caller[c].pc # "wait"
  PROVE  CallInv'
<1>1. child' = [child EXCEPT ![c] = NoChild]
  BY Typed DEF Sound
<1>2. Sound(kind[c], s, NoChild, tries[c], heard[c], charged[c])
  BY OnwardIsSound
<1> QED BY <1>1, <1>2, NoChildTyped, QuietStep

\* A failed attempt.
LEMMA FailedKeeps ==
  ASSUME CallInv, NEW c \in Callers, UNCHANGED <<rigid, learned, history>>,
         NEW f, Failed(c, f),
         \/ caller[c].pc \in {"attempt", "wait"}
         \/ caller[c].pc = "judge" /\ kind[c] \notin Telling,
         \/ child' = [child EXCEPT ![c] = NoChild]
         \/ UNCHANGED child /\ caller[c].pc # "wait"
  PROVE  CallInv'
<1>1. PICK s \in CallerStates :
        /\ caller' = [caller EXCEPT ![c] = s]
        /\ Onward(caller[c], s) /\ s.cost = caller[c].cost
        /\ s.pc = "returned" => kind[c] \notin Telling
  BY FailedGoesOn
<1>2. Tells(kind[c], s, heard[c])
  <2>1. Tells(kind[c], caller[c], heard[c])
    BY Typed DEF Sound
  <2>2. s.pc \in {"attempt", "returned", "raised", "fell back"}
    BY <1>1 DEF Onward, Ended
  <2>3. kind[c] \in Telling =>
          /\ s.pc # "returned" /\ caller[c].cost = heard[c]
          /\ kind[c] = "course planner" => caller[c].cost = 0
    BY <1>1, <2>1 DEF Tells, Ended
  <2> QED BY <1>1, <2>2, <2>3 DEF Tells
<1> QED BY <1>1, <1>2, OnwardKeeps

-----------------------------------------------------------------------------
(* Every step preserves the invariant *)

LEMMA BeginKeeps ==
  ASSUME CallInv, NEW c \in Callers, Begin(c)
  PROVE  CallInv'
<1>1. PICK o \in CallerStates : o = caller[c] /\ o.pc = "begin" /\ Tells(kind[c], o, heard[c])
  BY Typed DEF Begin, Sound
<1>2. UNCHANGED <<rigid, learned, history>> /\ UNCHANGED child
  BY DEF Begin
<1>3. PICK pc \in {"attempt", "raised", "fell back"} : Go(c, pc)
  BY DEF Begin
<1>4. PICK s \in CallerStates : s = [o EXCEPT !.pc = pc]
  BY DEF CallerStates, Ended
<1>5. s.pc = pc /\ s.cost = o.cost /\ s.part = o.part /\ s.attempt = o.attempt
  BY <1>4 DEF CallerStates
<1>6. caller' = [caller EXCEPT ![c] = s]
  BY <1>1, <1>3, <1>4 DEF Go
<1>7. Onward(o, s)
  <2>1. Quota(o) <= Quota(s)
    BY <1>1, <1>5, BegunQuota
  <2> QED BY <1>3, <1>5, <2>1 DEF Onward, Ended
<1>8. Tells(kind[c], s, heard[c])
  BY <1>1, <1>3, <1>5 DEF Tells, Ended
<1> QED BY <1>1, <1>2, <1>6, <1>7, <1>8, OnwardKeeps

\* Without a key the attempt fails at once; with one it is counted.
LEMMA SpawnKeeps ==
  ASSUME CallInv, NEW c \in Callers, Spawn(c)
  PROVE  CallInv'
<1>1. PICK o \in CallerStates :
        /\ o = caller[c] /\ o.pc = "attempt"
        /\ Sound(kind[c], o, child[c], tries[c], heard[c], charged[c])
  BY Typed DEF Spawn
<1>2. CASE ~keyed
  <2>1. /\ Failed(c, "permanent") /\ UNCHANGED <<rigid, learned, history>>
        /\ UNCHANGED child
    BY <1>2 DEF Spawn, history
  <2> QED BY <1>1, <2>1, FailedKeeps
<1>3. CASE keyed
  <2>1. /\ Go(c, "wait") /\ tries' = [tries EXCEPT ![c] = @ + 1]
        /\ UNCHANGED <<rigid, learned, heard, charged>>
        /\ child' = [child EXCEPT ![c] =
             [at |-> IF SkipParse THEN "create" ELSE "parse",
              refused |-> SkipParse, put |-> "nothing"]]
    BY <1>3 DEF Spawn
  <2>2. PICK q \in BOOLEAN, at \in {"create", "parse"} :
          q = SkipParse /\ at = IF SkipParse THEN "create" ELSE "parse"
    BY DEF SkipParse
  <2>3. q => provider = "anthropic" /\ complex
    BY <2>2 DEF SkipParse, CallInv, LearnedOnlyIfRefused
  <2>4. PICK p \in ChildStates : p = [at |-> at, refused |-> q, put |-> "nothing"]
    BY DEF ChildStates, Running, Results
  <2>5. p.at = at /\ p.refused = q
    BY <2>4
  <2>6. PICK s \in CallerStates : s = [o EXCEPT !.pc = "wait"]
    BY DEF CallerStates
  <2>7. s.pc = "wait" /\ s.cost = o.cost /\ s.part = o.part /\ s.attempt = o.attempt
    BY <2>6 DEF CallerStates
  <2>8. PICK t \in Nat, h \in Nat, b \in Nat :
          t = tries[c] + 1 /\ h = heard[c] /\ b = charged[c] /\ h <= b /\ b < t
    BY <1>1, Typed DEF Sound
  <2>9. t <= Quota(s)
    <3>1. o.part \in 1..Parts /\ o.attempt \in 1..MaxAttempts /\ MaxAttempts \in Nat
      BY CallAssumption DEF CallerStates
    <3>2. PICK x \in Int : x = (o.part - 1) * MaxAttempts
      BY <3>1, OnePartMore
    <3>3. Quota(o) = x + (o.attempt - 1) /\ Quota(s) = x + o.attempt
      BY <1>1, <2>7, <3>2 DEF Quota
    <3>4. tries[c] <= Quota(o) /\ tries[c] \in Nat
      BY <1>1, Typed DEF Sound
    <3> QED BY <2>8, <3>1, <3>3, <3>4
  <2>10. Tells(kind[c], s, h)
    <3>1. Tells(kind[c], o, h)
      BY <1>1, <2>8 DEF Sound
    <3> QED BY <1>1, <2>7, <3>1 DEF Tells, Ended
  <2>11. Sound(kind[c], s, p, t, h, b)
    BY <2>3, <2>5, <2>7, <2>8, <2>9, <2>10 DEF Sound
  <2>12. /\ caller' = [caller EXCEPT ![c] = s] /\ child' = [child EXCEPT ![c] = p]
         /\ tries' = [tries EXCEPT ![c] = t]
    BY <1>1, <2>1, <2>2, <2>4, <2>6, <2>8 DEF Go
  <2>13. /\ heard' = [heard EXCEPT ![c] = h] /\ charged' = [charged EXCEPT ![c] = b]
         /\ UNCHANGED rigid
    BY <2>1, <2>8, Typed DEF rigid
  <2>14. learned' \in BOOLEAN /\ (learned' => provider = "anthropic" /\ complex)
    BY <2>1 DEF CallInv, CallTypeOK, LearnedOnlyIfRefused
  <2> QED BY <2>11, <2>12, <2>13, <2>14, OneStep
<1> QED BY <1>2, <1>3

LEMMA DeadlineKeeps ==
  ASSUME CallInv, NEW c \in Callers, Deadline(c)
  PROVE  CallInv'
<1>1. /\ caller[c].pc = "wait" /\ child' = [child EXCEPT ![c] = NoChild]
      /\ Failed(c, "transient") /\ UNCHANGED <<rigid, learned, history>>
  BY DEF Deadline
<1> QED BY <1>1, FailedKeeps

\* An answer that is taken out of the queue was charged for, and not yet heard.
LEMMA ReceiveKeeps ==
  ASSUME CallInv, NEW c \in Callers, Receive(c)
  PROVE  CallInv'
<1>1. PICK o \in CallerStates, p \in ChildStates :
        /\ o = caller[c] /\ o.pc = "wait" /\ p = child[c] /\ p.at = "exited"
        /\ Sound(kind[c], o, p, tries[c], heard[c], charged[c])
  BY Typed DEF Receive
<1>2. /\ child' = [child EXCEPT ![c] = NoChild] /\ UNCHANGED <<rigid, tries, charged>>
      /\ learned' = LearnedFrom(p)
  BY <1>1 DEF Receive
<1>3. CASE p.put # "answer"
  <2>1. learned \in BOOLEAN
    BY DEF CallInv, CallTypeOK
  <2>2. learned' = learned
    BY <1>2, <1>3, <2>1 DEF LearnedFrom
  <2>3. PICK f : Failed(c, f) /\ UNCHANGED heard
    BY <1>1, <1>3 DEF Receive
  <2>4. UNCHANGED <<rigid, learned, history>>
    BY <1>2, <2>2, <2>3 DEF history
  <2> QED BY <1>1, <1>2, <2>3, <2>4, FailedKeeps
<1>4. CASE p.put = "answer"
  <2>1. Go(c, "judge") /\ heard' = [heard EXCEPT ![c] = @ + 1]
    BY <1>1, <1>4 DEF Receive
  <2>2. PICK s \in CallerStates : s = [o EXCEPT !.pc = "judge"]
    BY DEF CallerStates
  <2>3. s.pc = "judge" /\ s.cost = o.cost /\ s.part = o.part /\ s.attempt = o.attempt
    BY <2>2 DEF CallerStates
  <2>4. PICK t \in Nat, h \in Nat, b \in Nat :
          t = tries[c] /\ h = heard[c] + 1 /\ b = charged[c] /\ h <= b /\ b <= t
    BY <1>1, <1>4, Typed DEF Sound
  <2>5. Quota(s) = Quota(o)
    BY <1>1, <2>3 DEF Quota
  <2>6. t <= Quota(s)
    BY <1>1, <2>4, <2>5 DEF Sound
  <2>7. Tells(kind[c], s, h)
    <3>1. Tells(kind[c], o, heard[c])
      BY <1>1 DEF Sound
    <3> QED BY <1>1, <2>3, <2>4, <3>1 DEF Tells, Ended
  <2>8. Sound(kind[c], s, NoChild, t, h, b)
    BY <2>3, <2>4, <2>6, <2>7, NoChildTyped DEF Sound
  <2>9. /\ learned' \in BOOLEAN /\ (learned' => provider = "anthropic" /\ complex)
    BY <1>1, <1>2 DEF LearnedFrom, CallInv, CallTypeOK, LearnedOnlyIfRefused, Sound
  <2>10. /\ caller' = [caller EXCEPT ![c] = s] /\ heard' = [heard EXCEPT ![c] = h]
         /\ tries' = [tries EXCEPT ![c] = t] /\ charged' = [charged EXCEPT ![c] = b]
    BY <1>1, <1>2, <2>1, <2>2, <2>4, Typed DEF Go
  <2>11. UNCHANGED rigid
    BY <1>2
  <2> QED BY <1>2, <2>8, <2>9, <2>10, <2>11, NoChildTyped, OneStep
<1> QED BY <1>3, <1>4

LEMMA JudgeKeeps ==
  ASSUME CallInv, NEW c \in Callers, Judge(c)
  PROVE  CallInv'
<1>1. PICK o \in CallerStates :
        o = caller[c] /\ o.pc = "judge" /\ Tells(kind[c], o, heard[c]) /\ o.cost \in Nat
  BY Typed DEF Judge, PlanCourse, PlanOutcome, AuthorOracle, AuthorRepo, ReviewSpec,
               WriteFeedback, Judging, CallerStates, Sound
<1>2. UNCHANGED <<rigid, learned, history>> /\ UNCHANGED child
  BY DEF Judge, PlanCourse, PlanOutcome, AuthorOracle, AuthorRepo, ReviewSpec, WriteFeedback, Judging
<1>3. "returned" \in Ended /\ "raised" \in Ended /\ "fell back" \in Ended
  BY DEF Ended
<1>4. kind[c] \in Telling => heard[c] = o.cost + 1 /\ (kind[c] = "course planner" => o.cost = 0)
  BY <1>1 DEF Tells, Ended
\* An end is sound if its cost is right, or need not be told.
<1>5. ASSUME NEW end \in Ended, NEW s, s = [o EXCEPT !.pc = end], caller' = [caller EXCEPT ![c] = s],
             kind[c] \in Telling => end # "returned"
      PROVE  CallInv'
  <2>1. s \in CallerStates /\ Onward(o, s) /\ s.pc = end
    BY <1>1, <1>5, EndGoesOn
  <2>2. Tells(kind[c], s, heard[c])
    BY <1>5, <2>1 DEF Tells, Ended
  <2> QED BY <1>1, <1>2, <1>5, <2>1, <2>2, OnwardKeeps
\* The same, or a retry, with the cost of the answer added.
<1>6. ASSUME NEW s \in CallerStates, Onward(o, s),
             NEW r, r = [s EXCEPT !.cost = o.cost + 1], caller' = [caller EXCEPT ![c] = r],
             kind[c] = "course planner" => s.pc \in Ended
      PROVE  CallInv'
  <2>1. PICK cost \in Nat : cost = o.cost + 1
    BY <1>1
  <2>2. r \in CallerStates /\ Onward(o, r) /\ r.pc = s.pc /\ r.cost = o.cost + 1
    BY <1>6, <2>1, Retold
  <2>3. Tells(kind[c], r, heard[c])
    BY <1>4, <1>6, <2>2 DEF Tells, Onward, Ended
  <2> QED BY <1>1, <1>2, <1>6, <2>2, <2>3, OnwardKeeps
<1>7. PICK raised \in CallerStates, returned \in CallerStates :
        /\ raised = [o EXCEPT !.pc = "raised"] /\ Onward(o, raised) /\ raised.pc = "raised"
        /\ returned = [o EXCEPT !.pc = "returned"] /\ Onward(o, returned) /\ returned.pc = "returned"
  BY <1>1, <1>3, EndGoesOn
<1>8. CASE PlanCourse(c)
  <2>1. kind[c] = "course planner" /\ o.cost = 0
    BY <1>4, <1>8 DEF PlanCourse, Judging, Telling
  <2>2. CASE caller' = [caller EXCEPT ![c].pc = "returned", ![c].cost = 1]
    <3>1. PICK r : r = [returned EXCEPT !.cost = o.cost + 1]
      OBVIOUS
    <3>2. caller \in [Callers -> [pc : {"begin", "attempt", "wait", "judge"} \cup Ended,
                                  attempt : 1..MaxAttempts, part : 1..Parts, cost : Nat]]
      BY DEF CallInv, CallTypeOK
    <3>3. caller' = [caller EXCEPT ![c] = [caller[c] EXCEPT !.pc = "returned", !.cost = 1]]
      BY <2>2, <3>2
    <3>4. r = [o EXCEPT !.pc = "returned", !.cost = 1]
      <4>1. returned = [o EXCEPT !.pc = "returned"] /\ r = [returned EXCEPT !.cost = 1]
        <5>1. o.cost + 1 = 1
          <6>1. o.cost = 0
            BY <2>1
          <6>2. 0 + 1 = 1
            OBVIOUS
          <6> QED BY <6>1, <6>2, Zenon
        <5> QED BY <1>7, <3>1, <5>1
      <4> QED BY <4>1
    <3>5. caller' = [caller EXCEPT ![c] = r]
      BY <1>1, <3>3, <3>4
    <3> QED BY <1>3, <1>6, <1>7, <3>1, <3>5
  <2>3. CASE Go(c, "raised")
    BY <1>1, <1>3, <1>5, <1>7, <2>3 DEF Go
  <2> QED BY <1>8, <2>2, <2>3 DEF PlanCourse
<1>9. CASE PlanOutcome(c)
  <2>1. kind[c] \notin Telling
    BY <1>9 DEF PlanOutcome, Judging, Telling
  <2>2. CASE Go(c, "returned")
    BY <1>1, <1>3, <1>5, <1>7, <2>1, <2>2 DEF Go
  <2>3. CASE Failed(c, "permanent")
    BY <1>1, <1>2, <2>1, <2>3, FailedKeeps
  <2> QED BY <1>9, <2>2, <2>3 DEF PlanOutcome
<1>10. CASE AuthorOracle(c)
  <2>1. kind[c] # "course planner"
    BY <1>10 DEF AuthorOracle, Judging
  <2> DEFINE told == [o EXCEPT !.cost = o.cost + 1]
  <2>2. /\ [told EXCEPT !.pc = "returned"] = [returned EXCEPT !.cost = o.cost + 1]
        /\ [told EXCEPT !.pc = "raised"] = [raised EXCEPT !.cost = o.cost + 1]
        /\ [told EXCEPT !.pc = "attempt", !.attempt = o.attempt + 1]
             = [[o EXCEPT !.pc = "attempt", !.attempt = o.attempt + 1] EXCEPT !.cost = o.cost + 1]
        /\ told.attempt = o.attempt
    BY <1>7 DEF CallerStates
  <2>3. \/ caller' = [caller EXCEPT ![c] = [told EXCEPT !.pc = "returned"]]
        \/ MayRetry(c) /\ caller' = [caller EXCEPT ![c] =
             [told EXCEPT !.pc = "attempt", !.attempt = told.attempt + 1]]
        \/ caller' = [caller EXCEPT ![c] = [told EXCEPT !.pc = "raised"]]
    BY <1>1, <1>10 DEF AuthorOracle
  <2>4. PICK r : caller' = [caller EXCEPT ![c] = r] /\
          \/ r = [returned EXCEPT !.cost = o.cost + 1]
          \/ MayRetry(c) /\ r = [Retried(c) EXCEPT !.cost = o.cost + 1]
          \/ r = [raised EXCEPT !.cost = o.cost + 1]
    BY <1>1, <2>2, <2>3 DEF Retried
  <2>5. MayRetry(c) => Retried(c) \in CallerStates /\ Onward(o, Retried(c))
    BY <1>1, RetriedGoesOn
  <2> QED BY <1>6, <1>7, <2>1, <2>4, <2>5
<1>11. CASE AuthorRepo(c)
  <2>1. kind[c] # "course planner"
    BY <1>11 DEF AuthorRepo, Judging
  <2>2. NextPart(c, "returned") \in CallerStates /\ Onward(o, NextPart(c, "returned"))
    BY <1>1, <1>3, NextPartGoesOn
  <2>3. \/ caller' = [caller EXCEPT ![c] = [NextPart(c, "returned") EXCEPT !.cost = o.cost + 1]]
        \/ Go(c, "raised")
    BY <1>1, <1>11 DEF AuthorRepo
  <2>4. CASE Go(c, "raised")
    BY <1>1, <1>3, <1>5, <1>7, <2>4 DEF Go
  <2>5. CASE caller' = [caller EXCEPT ![c] = [NextPart(c, "returned") EXCEPT !.cost = o.cost + 1]]
    BY <1>6, <2>1, <2>2, <2>5
  <2> QED BY <2>3, <2>4, <2>5
<1>12. CASE ReviewSpec(c)
  <2>1. kind[c] \notin Telling
    BY <1>12 DEF ReviewSpec, Judging, Telling
  <2>2. PICK end \in Ended : caller' = [caller EXCEPT ![c] = [o EXCEPT !.pc = end]]
    BY <1>1, <1>3, <1>12 DEF ReviewSpec, Go
  <2> QED BY <1>5, <2>1, <2>2
<1>13. CASE WriteFeedback(c)
  <2>1. kind[c] \notin Telling /\ caller' = [caller EXCEPT ![c] = NextPart(c, "returned")]
    BY <1>13 DEF WriteFeedback, Judging, Telling
  <2>2. NextPart(c, "returned") \in CallerStates /\ Onward(o, NextPart(c, "returned"))
    BY <1>1, <1>3, NextPartGoesOn
  <2>3. Tells(kind[c], NextPart(c, "returned"), heard[c])
    BY <2>1 DEF Tells
  <2> QED BY <1>1, <1>2, <2>1, <2>2, <2>3, OnwardKeeps
<1> QED BY <1>8, <1>9, <1>10, <1>11, <1>12, <1>13 DEF Judge

\* The child does as p tells, its caller waits: what it may still be charged
\* and what it has to hand over.
LEMMA ChildGoesOn ==
  ASSUME CallInv, NEW c \in Callers, UNCHANGED <<rigid, learned, caller, tries, heard>>,
         child[c].at # "gone",
         NEW p \in ChildStates, child' = [child EXCEPT ![c] = p], p.at # "gone",
         p.refused => provider = "anthropic" /\ complex,
         NEW b \in Nat, charged' = [charged EXCEPT ![c] = b], heard[c] <= b, b <= tries[c],
         p.at \in {"parse", "create"} => b < tries[c],
         p.at \in {"answered", "stuck"} \/ (p.at = "exited" /\ p.put = "answer") => heard[c] < b
  PROVE  CallInv'
<1>1. PICK s \in CallerStates :
        s = caller[c] /\ Sound(kind[c], s, child[c], tries[c], heard[c], charged[c])
  BY Typed
<1>2. s.pc = "wait"
  BY <1>1, NoChildTyped DEF Sound
<1>3. Sound(kind[c], s, p, tries[c], heard[c], b)
  BY <1>1, <1>2 DEF Sound
<1>4. /\ caller' = [caller EXCEPT ![c] = s] /\ tries' = [tries EXCEPT ![c] = tries[c]]
      /\ heard' = [heard EXCEPT ![c] = heard[c]] /\ tries[c] \in Nat /\ heard[c] \in Nat
  BY <1>1, Typed
<1>5. learned' \in BOOLEAN /\ (learned' => provider = "anthropic" /\ complex)
  BY DEF CallInv, CallTypeOK, LearnedOnlyIfRefused
<1> QED BY <1>3, <1>4, <1>5, OneStep DEF rigid

\* A child exits, and has an answer to hand over only if it was charged for.
LEMMA ExitKeeps ==
  ASSUME CallInv, NEW c \in Callers, UNCHANGED <<rigid, learned, caller, history>>,
         child[c].at \in Running, NEW r \in Results, Exit(c, r),
         r = "answer" => child[c].at = "answered"
  PROVE  CallInv'
<1>1. PICK o \in ChildStates :
        o = child[c] /\ Sound(kind[c], caller[c], o, tries[c], heard[c], charged[c])
  BY Typed
<1>2. PICK p \in ChildStates : p = [o EXCEPT !.at = "exited", !.put = r]
  BY DEF ChildStates
<1>3. p.at = "exited" /\ p.put = r /\ p.refused = o.refused
  BY <1>2 DEF ChildStates
<1>4. child \in [Callers -> [at : Running \cup {"gone", "exited"}, refused : BOOLEAN, put : Results]]
  BY DEF CallInv, CallTypeOK
<1>5. child' = [child EXCEPT ![c] = p]
  BY <1>1, <1>2, <1>4 DEF Exit
<1>6. PICK b \in Nat : b = charged[c] /\ charged' = [charged EXCEPT ![c] = b]
  BY Typed DEF history
<1>7. /\ p.refused => provider = "anthropic" /\ complex
      /\ heard[c] <= b /\ b <= tries[c] /\ (r = "answer" => heard[c] < b)
  BY <1>1, <1>3, <1>6 DEF Sound
<1>8. child[c].at # "gone"
  BY DEF Running
<1> QED BY <1>3, <1>5, <1>6, <1>7, <1>8, ChildGoesOn DEF history

LEMMA ChildKeeps ==
  ASSUME CallInv, NEW c \in Callers, ChildStep(c)
  PROVE  CallInv'
<1>1. PICK o \in ChildStates :
        o = child[c] /\ Sound(kind[c], caller[c], o, tries[c], heard[c], charged[c])
  BY Typed
<1>2. child \in [Callers -> [at : Running \cup {"gone", "exited"}, refused : BOOLEAN, put : Results]]
  BY DEF CallInv, CallTypeOK
<1>3. tries[c] \in Nat /\ heard[c] \in Nat /\ charged[c] \in Nat
  BY Typed
<1>4. "answer" \in Results /\ "nothing" \in Results /\ Failures \subseteq Results
      /\ "answer" \notin Failures
  BY DEF Results, Failures
<1>5. CASE Fallback(c)
  <2>1. PICK p \in ChildStates : p = [o EXCEPT !.at = "create", !.refused = TRUE]
    BY DEF ChildStates, Running
  <2>2. p.at = "create" /\ p.put = o.put
    BY <2>1 DEF ChildStates
  <2>3. child' = [child EXCEPT ![c] = p]
    BY <1>1, <1>2, <1>5, <2>1 DEF Fallback
  <2>4. PICK b \in Nat : b = charged[c] /\ charged' = [charged EXCEPT ![c] = b]
    BY <1>5, Typed DEF Fallback, history
  <2>5. heard[c] <= b /\ b <= tries[c] /\ b < tries[c]
    BY <1>1, <1>5, <2>4 DEF Sound, Fallback
  <2>6. /\ provider = "anthropic" /\ complex /\ child[c].at = "parse"
        /\ UNCHANGED <<rigid, learned, caller, tries, heard>>
    BY <1>5 DEF Fallback, history
  <2> QED BY <2>2, <2>3, <2>4, <2>5, <2>6, ChildGoesOn
<1>6. CASE Respond(c)
  <2>1. PICK p \in ChildStates : p = [o EXCEPT !.at = "answered"]
    BY DEF ChildStates, Running
  <2>2. p.at = "answered" /\ p.refused = o.refused
    BY <2>1 DEF ChildStates
  <2>3. child' = [child EXCEPT ![c] = p]
    BY <1>1, <1>2, <1>6, <2>1 DEF Respond
  <2>4. PICK b \in Nat : b = charged[c] + 1 /\ charged' = [charged EXCEPT ![c] = b]
    <3>1. charged[c] + 1 \in Nat
      BY <1>3
    <3>2. charged' = [charged EXCEPT ![c] = charged[c] + 1]
      BY <1>6 DEF Respond
    <3> QED BY <3>1, <3>2
  <2>5. child[c].at \in {"parse", "create"} /\ UNCHANGED <<rigid, learned, caller, tries, heard>>
    BY <1>6 DEF Respond
  <2>6. heard[c] < b /\ b <= tries[c] /\ heard[c] <= b
    BY <1>1, <1>3, <2>4, <2>5 DEF Sound
  <2>7. p.refused => provider = "anthropic" /\ complex
    BY <1>1, <2>2 DEF Sound
  <2> QED BY <2>2, <2>3, <2>4, <2>5, <2>6, <2>7, ChildGoesOn
<1>7. CASE RequestFails(c)
  <2>1. PICK f \in Failures : Exit(c, f)
    BY <1>7 DEF RequestFails
  <2>2. child[c].at \in Running /\ UNCHANGED <<rigid, learned, caller, history>>
    BY <1>7 DEF RequestFails, Running
  <2> QED BY <1>4, <2>1, <2>2, ExitKeeps
<1>8. CASE Deliver(c)
  <2>1. /\ child[c].at = "answered" /\ child[c].at \in Running
        /\ UNCHANGED <<rigid, learned, caller, history>>
    BY <1>8 DEF Deliver, Running
  <2>2. ASSUME NEW r \in Results, Exit(c, r) PROVE CallInv'
    <3>1. r = "answer" => child[c].at = "answered"
      BY <2>1
    <3> QED BY <2>1, <2>2, <3>1, ExitKeeps
  <2>3. CASE child' = [child EXCEPT ![c].at = "stuck", ![c].put = "answer"]
    <3>1. PICK p \in ChildStates : p = [o EXCEPT !.at = "stuck", !.put = "answer"]
      BY DEF ChildStates, Running, Results
    <3>2. p.at = "stuck" /\ p.refused = o.refused
      BY <3>1 DEF ChildStates
    <3>3. child' = [child EXCEPT ![c] = p]
      BY <1>1, <1>2, <2>3, <3>1
    <3>4. PICK b \in Nat : b = charged[c] /\ charged' = [charged EXCEPT ![c] = b]
      BY <2>1, Typed DEF history
    <3>5. /\ heard[c] < b /\ b <= tries[c] /\ heard[c] <= b
          /\ p.refused => provider = "anthropic" /\ complex
      BY <1>1, <1>3, <2>1, <3>2, <3>4 DEF Sound
    <3> QED BY <2>1, <3>2, <3>3, <3>4, <3>5, ChildGoesOn DEF history
  <2> QED BY <1>4, <1>8, <2>2, <2>3 DEF Deliver
<1>9. CASE Crash(c)
  <2>1. /\ child[c].at \in Running /\ Exit(c, "nothing")
        /\ UNCHANGED <<rigid, learned, caller, history>>
    BY <1>9 DEF Crash
  <2> QED BY <1>4, <2>1, ExitKeeps
<1> QED BY <1>5, <1>6, <1>7, <1>8, <1>9 DEF ChildStep

LEMMA CallNextKeeps == CallInv /\ [CallNext]_callVars => CallInv'
<1> SUFFICES ASSUME CallInv, [CallNext]_callVars PROVE CallInv'
  OBVIOUS
<1>1. ASSUME NEW c \in Callers, CallerStep(c) PROVE CallInv'
  BY <1>1, BeginKeeps, SpawnKeeps, DeadlineKeeps, ReceiveKeeps, JudgeKeeps DEF CallerStep
<1>2. ASSUME NEW c \in Callers, ChildStep(c) PROVE CallInv'
  BY <1>2, ChildKeeps
<1>3. CASE UNCHANGED callVars
  BY <1>3 DEF callVars, rigid, history, CallInv, CallTypeOK, LearnedOnlyIfRefused, Sound, Tells, Quota
<1> QED BY <1>1, <1>2, <1>3 DEF CallNext

LEMMA CallInitHolds == CallInit => CallInv
<1> SUFFICES ASSUME CallInit PROVE CallInv
  OBVIOUS
<1>1. MaxAttempts \in Nat \ {0} /\ Parts \in Nat \ {0} /\ 1 \in 1..MaxAttempts /\ 1 \in 1..Parts
  BY CallAssumption
<1>2. PICK s \in CallerStates : s = [pc |-> "begin", attempt |-> 1, part |-> 1, cost |-> 0]
  BY <1>1 DEF CallerStates
<1>3. s.pc = "begin" /\ s.attempt = 1 /\ s.part = 1 /\ s.cost = 0
  BY <1>2
<1>4. CallTypeOK
  BY <1>2, NoChildTyped DEF CallInit, CallTypeOK, CallerStates, ChildStates
<1>5. Quota(s) = 0
  BY <1>1, <1>3 DEF Quota
<1>6. ASSUME NEW c \in Callers
      PROVE  Sound(kind[c], caller[c], child[c], tries[c], heard[c], charged[c])
  <2>1. /\ caller[c] = s /\ child[c] = NoChild /\ tries[c] = 0 /\ heard[c] = 0 /\ charged[c] = 0
    BY <1>2 DEF CallInit
  <2>2. Sound(kind[c], s, NoChild, 0, 0, 0)
    BY <1>3, <1>5, NoChildTyped DEF Sound, Tells
  <2> QED BY <2>1, <2>2
<1> QED BY <1>4, <1>6 DEF CallInv, CallInit, LearnedOnlyIfRefused

-----------------------------------------------------------------------------
(* Theorems *)

\* The invariant holds in every behaviour, the types among it.
THEOREM CallInvariance == CallSpec => []CallInv
<1> QED BY CallInitHolds, CallNextKeeps, PTL DEF CallSpec

\* A child runs only while its caller waits for it.
THEOREM NoOrphans == CallSpec => []NoOrphan
<1>1. CallInv => NoOrphan
  BY NoChildTyped DEF CallInv, Sound, NoOrphan
<1> QED BY <1>1, CallInvariance, PTL

\* However attempts, fallbacks, kills and retries follow on each other, the
\* answers heard, the answers paid for, the attempts and the limits of the
\* services are in this order.
THEOREM Paid == CallSpec => []PaidOncePerAttempt
<1>1. ASSUME CallInv, NEW c \in Callers
      PROVE  /\ heard[c] <= charged[c] /\ charged[c] <= tries[c]
             /\ tries[c] <= MaxAttempts * Parts
  <2>1. caller[c] \in CallerStates /\ tries[c] \in Nat
        /\ Sound(kind[c], caller[c], child[c], tries[c], heard[c], charged[c])
    BY <1>1, Typed
  <2>2. PICK q \in Int, m \in Int :
          q = Quota(caller[c]) /\ m = MaxAttempts * Parts /\ q <= m
    BY <2>1, QuotaBounded, CallAssumption
  <2>3. tries[c] <= q
    BY <2>1, <2>2 DEF Sound
  <2>4. tries[c] <= m
    BY <2>1, <2>2, <2>3
  <2> QED BY <2>1, <2>2, <2>4 DEF Sound
<1>2. CallInv => PaidOncePerAttempt
  BY <1>1 DEF PaidOncePerAttempt
<1> QED BY <1>2, CallInvariance, PTL

\* The memory of refused schemas, which all callers share, is never wrong.
THEOREM Learned == CallSpec => []LearnedOnlyIfRefused
<1>1. CallInv => LearnedOnlyIfRefused
  BY DEF CallInv
<1> QED BY <1>1, CallInvariance, PTL

\* A service that reports what it spent reports every answer it heard.
THEOREM CostTold == CallSpec => []CostIsTold
<1>1. CallInv => CostIsTold
  BY DEF CallInv, Sound, Tells, Telling, CostIsTold
<1> QED BY <1>1, CallInvariance, PTL

\* However attempts, fallbacks, kills and retries follow on each other, no more is
\* paid for than was asked, and a service that reports what it spent reports every
\* answer it heard.
THEOREM BillsRight == CallSpec => []BillsAreRight
BY Paid, CostTold, PTL DEF BillsAreRight

=============================================================================
