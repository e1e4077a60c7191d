--------------------------- MODULE SandboxProofs ---------------------------
(***************************************************************************)
(* The sandbox: the books of its LLM proxy, and what an execution returns. *)
(* The two are components of their own and share no state.                 *)
(*                                                                         *)
(* The proxy, for any number of requests and any limits: whatever the      *)
(* requests name, however their handlers overlap and whatever the provider *)
(* uses, the bucket holds what was used and what is reserved, and the      *)
(* budget is exceeded by too low estimates only.  Every step changes one   *)
(* request, so every sum over the requests changes by one term             *)
(* (TotalChanges).  The budget is kept by what is committed: the           *)
(* reservations in flight and, of what was used, the part that was         *)
(* reserved for it.  That never exceeds the bucket, so it passes the check *)
(* of a reservation when the bucket does, although answers may have taken  *)
(* the bucket far beyond its limit.                                        *)
(*                                                                         *)
(* The executions, for any number of them, of ports and of deliverables:   *)
(* the invariant judges each by itself (Good), so a step that leaves the   *)
(* execution it changes good leaves all of them good (Changes).            *)
(***************************************************************************)
EXTENDS SandboxLlmProxy, SandboxRun, Integers, FiniteSetTheorems, TLAPS

-----------------------------------------------------------------------------
(* The proxy: the inductive invariant *)

ReqStates ==
  [pc : PCs, named : Names \cup {NoToken}, projected : Nat, actual : Nat, status : Statuses]

\* The bucket of the run.
Mine == IF FixedSubmissionToken = NoToken THEN StartupBucket ELSE FixedSubmissionToken

Answer(q) == q.pc = "done" /\ q.status = "ok"

Less(m, n) == IF m < n THEN m ELSE n

\* What a request q adds to the sums: its reservation, its usage once it was
\* answered, what is committed to it, the part of its usage that was reserved
\* and the part that was not.
Reserves(q) == IF q.pc \in InFlight THEN q.projected ELSE 0
Spends(q) == IF Answer(q) THEN q.actual ELSE 0
Commits(q) ==
  IF q.pc \in InFlight THEN q.projected
  ELSE IF Answer(q) THEN Less(q.actual, q.projected) ELSE 0
Covers(q) == Less(q.actual, q.projected)
Exceeds(q) == IF q.actual > q.projected THEN q.actual - q.projected ELSE 0

ResF == [r \in Requests |-> Reserves(req[r])]
SpentF == [r \in Requests |-> Spends(req[r])]
ComF == [r \in Requests |-> Commits(req[r])]
UsedF == [r \in Requests |-> req[r].actual]
CovF == [r \in Requests |-> Covers(req[r])]
OverF == [r \in Requests |-> Exceeds(req[r])]

\* Where a request is, it has used nothing, or not more than it may.
Modest(q) ==
  /\ q.pc \in InFlight \cup {"reserve"} \/ Answer(q) =>
       /\ q.projected <= MaxInputTokensPerCall + MaxTokensPerCall
       /\ q.actual <= q.projected + Overrun
  /\ q.pc \in {"unsent", "reserve", "count", "upstream", "release"} => q.actual = 0
  /\ q.pc = "done" /\ q.status # "ok" => q.actual = 0
  /\ q.pc = "release" => q.status # "ok"

Types ==
  /\ counts \in [Buckets -> 0..MaxCallsPerSubmission]
  /\ tokens \in [Buckets -> Nat]
  /\ req \in [Requests -> ReqStates]
  /\ \A r \in Requests : Modest(req[r])

Exact ==
  /\ tokens[Mine] = Total(ResF) + Total(SpentF)
  /\ \A b \in Buckets : b # Mine => tokens[b] = 0

Committed ==
  /\ Total(ComF) <= MaxTokensPerSubmission
  /\ Total(ComF) <= tokens[Mine]

Split == Total(UsedF) = Total(CovF) + Total(OverF)

Inv == Types /\ Exact /\ Committed /\ Split

-----------------------------------------------------------------------------
(* Sums over the requests *)

\* The limits are numbers.
LEMMA Limits ==
  ASSUME ProxyAssumption
  PROVE  /\ MaxUse \in Nat /\ Overrun \in Nat
         /\ MaxInputTokensPerCall \in Nat /\ MaxTokensPerCall \in Nat
         /\ MaxTokensPerSubmission \in Nat /\ MaxCallsPerSubmission \in Nat
BY DEF ProxyAssumption, MaxUse

\* The units of one request are as many as its term.
LEMMA Block ==
  ASSUME ProxyAssumption, NEW r \in Requests, NEW n \in 0..MaxUse
  PROVE  IsFiniteSet({r} \X (1..n)) /\ Cardinality({r} \X (1..n)) = n
<1>1. n \in Nat
  BY Limits
<1>2. IsFiniteSet(1..n) /\ Cardinality(1..n) = n
  BY <1>1, FS_Interval
<1>3. IsFiniteSet({r}) /\ Cardinality({r}) = 1
  BY FS_Singleton
<1>4. /\ IsFiniteSet({r} \X (1..n))
      /\ Cardinality({r} \X (1..n)) = Cardinality({r}) * Cardinality(1..n)
  BY <1>2, <1>3, FS_Product
<1>5. 1 * n = n
  BY <1>1
<1> QED
  BY <1>2, <1>3, <1>4, <1>5

\* A set of units can be counted.
LEMMA UnitsFinite ==
  ASSUME ProxyAssumption, NEW U \in SUBSET (Requests \X (1..MaxUse))
  PROVE  IsFiniteSet(U) /\ Cardinality(U) \in Nat
<1>0. 1 \in Int /\ MaxUse \in Int
  BY Limits
<1>1. IsFiniteSet(1..MaxUse)
  BY <1>0, FS_Interval
<1>2. IsFiniteSet(Requests \X (1..MaxUse))
  BY <1>1, FS_Product DEF ProxyAssumption
<1> QED
  BY <1>2, FS_Subset, FS_CardinalityType

\* A sum is the term of one request and what the others add to it.
LEMMA OneTerm ==
  ASSUME ProxyAssumption, NEW f \in [Requests -> 0..MaxUse], NEW r \in Requests
  PROVE  Total(f) = f[r] + Cardinality({u \in Requests \X (1..MaxUse) :
                                          u[1] # r /\ u[2] <= f[u[1]]})
<1> DEFINE rest == {u \in Requests \X (1..MaxUse) : u[1] # r /\ u[2] <= f[u[1]]}
           all == {u \in Requests \X (1..MaxUse) : u[2] <= f[u[1]]}
<1>1. PICK n \in 0..MaxUse : n = f[r]
  OBVIOUS
<1>2. MaxUse \in Nat
  BY Limits
<1>3. ASSUME NEW u
      PROVE  u \in {r} \X (1..n)
               <=> u \in Requests \X (1..MaxUse) /\ u[1] = r /\ u[2] <= n
  BY <1>2
<1>4. all = rest \cup ({r} \X (1..n))
  BY <1>1, <1>3
<1>5. rest \cap ({r} \X (1..n)) = {}
  BY <1>3
<1>6. rest \in SUBSET (Requests \X (1..MaxUse))
  OBVIOUS
<1> HIDE DEF rest
<1>7. IsFiniteSet(rest) /\ Cardinality(rest) \in Nat
  BY <1>6, UnitsFinite
<1>b. IsFiniteSet({r} \X (1..n)) /\ Cardinality({r} \X (1..n)) = n
  BY Block
<1>8. Cardinality(all) = Cardinality(rest) + n - Cardinality({})
  BY <1>4, <1>5, <1>7, <1>b, FS_Union
<1>9. Cardinality({}) = 0
  BY FS_EmptySet
<1>10. Cardinality(all) = n + Cardinality(rest)
  BY <1>2, <1>7, <1>8, <1>9
<1> QED
  BY <1>1, <1>10 DEF Total, rest

\* When one term becomes n, the sum changes by as much.
LEMMA TotalChanges ==
  ASSUME ProxyAssumption, NEW f \in [Requests -> 0..MaxUse], NEW r \in Requests,
         NEW n \in 0..MaxUse
  PROVE  /\ Total([f EXCEPT ![r] = n]) + f[r] = Total(f) + n
         /\ Total(f) \in Nat
         /\ Total([f EXCEPT ![r] = n]) \in Nat
<1> DEFINE g == [f EXCEPT ![r] = n]
           rest(h) == {u \in Requests \X (1..MaxUse) : u[1] # r /\ u[2] <= h[u[1]]}
<1>1. g \in [Requests -> 0..MaxUse] /\ g[r] = n
  OBVIOUS
<1>2. rest(g) = rest(f)
  OBVIOUS
<1>3. Total(f) = f[r] + Cardinality(rest(f))
  BY OneTerm
<1> HIDE DEF g
<1>4. Total(g) = n + Cardinality(rest(g))
  BY <1>1, OneTerm
<1>5. rest(f) \in SUBSET (Requests \X (1..MaxUse))
  OBVIOUS
<1> HIDE DEF rest
<1>6. Cardinality(rest(f)) \in Nat
  BY <1>5, UnitsFinite
<1>7. f[r] \in Nat /\ n \in Nat
  BY Limits
<1>8. /\ Total(g) + f[r] = Total(f) + n
      /\ Total(f) \in Nat
      /\ Total(g) \in Nat
  BY <1>2, <1>3, <1>4, <1>6, <1>7
<1> QED
  BY <1>8 DEF g

\* The function g is f with n in the place of the term m of request r.
Replaces(g, f, r, m, n) ==
  /\ f \in [Requests -> 0..MaxUse] /\ n \in 0..MaxUse
  /\ m = f[r] /\ g = [f EXCEPT ![r] = n]

LEMMA TotalSteps ==
  ASSUME ProxyAssumption, NEW r \in Requests,
         NEW f, NEW g, NEW m, NEW n, Replaces(g, f, r, m, n)
  PROVE  Total(g) + m = Total(f) + n /\ Total(f) \in Nat /\ Total(g) \in Nat
BY TotalChanges DEF Replaces

\* A sum of smaller terms is smaller.
LEMMA TotalGrows ==
  ASSUME ProxyAssumption, NEW f \in [Requests -> 0..MaxUse], NEW g \in [Requests -> 0..MaxUse],
         \A r \in Requests : f[r] <= g[r]
  PROVE  Total(f) <= Total(g) /\ Total(f) \in Nat /\ Total(g) \in Nat
<1> DEFINE units(h) == {u \in Requests \X (1..MaxUse) : u[2] <= h[u[1]]}
<1>1. MaxUse \in Nat
  BY Limits
<1>2. units(f) \in SUBSET units(g)
  <2> SUFFICES ASSUME NEW u \in Requests \X (1..MaxUse), u[2] <= f[u[1]]
               PROVE  u[2] <= g[u[1]]
    OBVIOUS
  <2>1. PICK x \in Requests, i \in 1..MaxUse : x = u[1] /\ i = u[2]
    OBVIOUS
  <2>2. f[x] \in Int /\ g[x] \in Int /\ i \in Int /\ i <= f[x] /\ f[x] <= g[x]
    BY <1>1, <2>1
  <2> QED
    BY <2>1, <2>2
<1>3. units(f) \in SUBSET (Requests \X (1..MaxUse)) /\ units(g) \in SUBSET (Requests \X (1..MaxUse))
  OBVIOUS
<1> HIDE DEF units
<1>4. Cardinality(units(f)) <= Cardinality(units(g))
  BY <1>2, <1>3, UnitsFinite, FS_Subset
<1>5. Cardinality(units(f)) \in Nat /\ Cardinality(units(g)) \in Nat
  BY <1>3, UnitsFinite
<1> QED
  BY <1>4, <1>5 DEF Total, units

\* The sum of nothing.
LEMMA TotalZero ==
  ASSUME ProxyAssumption
  PROVE  Total([r \in Requests |-> 0]) = 0
<1>1. {u \in Requests \X (1..MaxUse) : u[2] <= [r \in Requests |-> 0][u[1]]} = {}
  BY Limits
<1> QED
  BY <1>1, FS_EmptySet DEF Total

-----------------------------------------------------------------------------
(* The terms of a request *)

\* Every term is one that the sums count, and the usage is what was reserved
\* and what was not.
LEMMA Terms ==
  ASSUME ProxyAssumption, NEW q \in ReqStates, Modest(q)
  PROVE  /\ Reserves(q) \in 0..MaxUse
         /\ Spends(q) \in 0..MaxUse
         /\ Commits(q) \in 0..MaxUse
         /\ q.actual \in 0..MaxUse
         /\ Covers(q) \in 0..MaxUse
         /\ Exceeds(q) \in 0..MaxUse
         /\ Covers(q) + Exceeds(q) = q.actual
         /\ Covers(q) <= Commits(q)
<1>1. PICK p \in Nat, a \in Nat : p = q.projected /\ a = q.actual
  BY DEF ReqStates
<1>2. q.pc \in PCs
  BY DEF ReqStates
<1>3. PICK m \in Nat, x \in Nat :
        /\ m = MaxInputTokensPerCall + MaxTokensPerCall /\ x = Overrun
        /\ MaxUse = m + x
  BY Limits DEF MaxUse
<1>4. CASE q.pc \in InFlight \/ Answer(q)
  <2>1. p <= m /\ a <= p + x
    BY <1>1, <1>3, <1>4 DEF Modest
  <2>2. p \in 0..MaxUse /\ a \in 0..MaxUse
    BY <1>3, <2>1
  <2>3. /\ Less(a, p) \in 0..MaxUse
        /\ (IF a > p THEN a - p ELSE 0) \in 0..MaxUse
        /\ Less(a, p) + (IF a > p THEN a - p ELSE 0) = a
        /\ Less(a, p) <= p
    BY <1>3, <2>2 DEF Less
  <2>4. 0 \in 0..MaxUse
    BY <1>3
  <2>5. Less(a, p) <= Less(a, p)
    BY <2>3
  <2> QED
    BY <1>1, <1>4, <2>2, <2>3, <2>4, <2>5
       DEF Reserves, Spends, Commits, Covers, Exceeds
<1>5. CASE ~(q.pc \in InFlight \/ Answer(q))
  <2>1. a = 0
    BY <1>1, <1>2, <1>5 DEF Modest, PCs, InFlight, Answer
  <2>2. /\ Less(a, p) = 0
        /\ (IF a > p THEN a - p ELSE 0) = 0
        /\ 0 \in 0..MaxUse /\ 0 + 0 = 0 /\ 0 <= 0
    BY <1>3, <2>1 DEF Less
  <2> QED
    BY <1>1, <1>5, <2>1, <2>2 DEF Reserves, Spends, Commits, Covers, Exceeds
<1> QED
  BY <1>4, <1>5

\* The terms of all requests are functions that the sums count.
LEMMA TermFunctions ==
  ASSUME ProxyAssumption, Types
  PROVE  /\ ResF \in [Requests -> 0..MaxUse]
         /\ SpentF \in [Requests -> 0..MaxUse]
         /\ ComF \in [Requests -> 0..MaxUse]
         /\ UsedF \in [Requests -> 0..MaxUse]
         /\ CovF \in [Requests -> 0..MaxUse]
         /\ OverF \in [Requests -> 0..MaxUse]
<1>1. ASSUME NEW r \in Requests
      PROVE  req[r] \in ReqStates /\ Modest(req[r])
  BY DEF Types
<1> QED
  BY <1>1, Terms DEF ResF, SpentF, ComF, UsedF, CovF, OverF

\* A step of one request changes one term of each sum.
LEMMA SumsChange ==
  ASSUME ProxyAssumption, Types, NEW r \in Requests,
         NEW q \in ReqStates, Modest(q), req' = [req EXCEPT ![r] = q]
  PROVE  /\ Total(ResF') + Reserves(req[r]) = Total(ResF) + Reserves(q)
         /\ Total(SpentF') + Spends(req[r]) = Total(SpentF) + Spends(q)
         /\ Total(ComF') + Commits(req[r]) = Total(ComF) + Commits(q)
         /\ Total(UsedF') + req[r].actual = Total(UsedF) + q.actual
         /\ Total(CovF') + Covers(req[r]) = Total(CovF) + Covers(q)
         /\ Total(OverF') + Exceeds(req[r]) = Total(OverF) + Exceeds(q)
         /\ {Total(ResF), Total(SpentF), Total(ComF), Total(UsedF), Total(CovF),
             Total(OverF), Total(ResF'), Total(SpentF'), Total(ComF'), Total(UsedF'),
             Total(CovF'), Total(OverF')} \subseteq Nat
<1>1. /\ ResF' = [ResF EXCEPT ![r] = Reserves(q)]
      /\ SpentF' = [SpentF EXCEPT ![r] = Spends(q)]
      /\ ComF' = [ComF EXCEPT ![r] = Commits(q)]
      /\ UsedF' = [UsedF EXCEPT ![r] = q.actual]
      /\ CovF' = [CovF EXCEPT ![r] = Covers(q)]
      /\ OverF' = [OverF EXCEPT ![r] = Exceeds(q)]
  BY DEF Types, ResF, SpentF, ComF, UsedF, CovF, OverF
<1>2. /\ ResF[r] = Reserves(req[r]) /\ SpentF[r] = Spends(req[r])
      /\ ComF[r] = Commits(req[r]) /\ UsedF[r] = req[r].actual
      /\ CovF[r] = Covers(req[r]) /\ OverF[r] = Exceeds(req[r])
  BY DEF ResF, SpentF, ComF, UsedF, CovF, OverF
<1>t. /\ Reserves(q) \in 0..MaxUse /\ Spends(q) \in 0..MaxUse
      /\ Commits(q) \in 0..MaxUse /\ q.actual \in 0..MaxUse
      /\ Covers(q) \in 0..MaxUse /\ Exceeds(q) \in 0..MaxUse
  BY Terms
<1>f. /\ ResF \in [Requests -> 0..MaxUse] /\ SpentF \in [Requests -> 0..MaxUse]
      /\ ComF \in [Requests -> 0..MaxUse] /\ UsedF \in [Requests -> 0..MaxUse]
      /\ CovF \in [Requests -> 0..MaxUse] /\ OverF \in [Requests -> 0..MaxUse]
  BY TermFunctions
<1>3. Total(ResF') + Reserves(req[r]) = Total(ResF) + Reserves(q)
      /\ Total(ResF) \in Nat /\ Total(ResF') \in Nat
  <2>1. PICK f, n, m, g :
          f = ResF /\ n = Reserves(q) /\ m = Reserves(req[r]) /\ g = ResF'
    OBVIOUS
  <2>2. Replaces(g, f, r, m, n)
    BY <1>1, <1>2, <1>t, <1>f, <2>1 DEF Replaces
  <2>3. Total(g) + m = Total(f) + n /\ Total(f) \in Nat /\ Total(g) \in Nat
    BY <2>2, TotalSteps
  <2> QED
    BY <2>1, <2>3
<1>4. Total(SpentF') + Spends(req[r]) = Total(SpentF) + Spends(q)
      /\ Total(SpentF) \in Nat /\ Total(SpentF') \in Nat
  <2>1. PICK f, n, m, g :
          f = SpentF /\ n = Spends(q) /\ m = Spends(req[r]) /\ g = SpentF'
    OBVIOUS
  <2>2. Replaces(g, f, r, m, n)
    BY <1>1, <1>2, <1>t, <1>f, <2>1 DEF Replaces
  <2>3. Total(g) + m = Total(f) + n /\ Total(f) \in Nat /\ Total(g) \in Nat
    BY <2>2, TotalSteps
  <2> QED
    BY <2>1, <2>3
<1>5. Total(ComF') + Commits(req[r]) = Total(ComF) + Commits(q)
      /\ Total(ComF) \in Nat /\ Total(ComF') \in Nat
  <2>1. PICK f, n, m, g :
          f = ComF /\ n = Commits(q) /\ m = Commits(req[r]) /\ g = ComF'
    OBVIOUS
  <2>2. Replaces(g, f, r, m, n)
    BY <1>1, <1>2, <1>t, <1>f, <2>1 DEF Replaces
  <2>3. Total(g) + m = Total(f) + n /\ Total(f) \in Nat /\ Total(g) \in Nat
    BY <2>2, TotalSteps
  <2> QED
    BY <2>1, <2>3
<1>6. Total(UsedF') + req[r].actual = Total(UsedF) + q.actual
      /\ Total(UsedF) \in Nat /\ Total(UsedF') \in Nat
  <2>1. PICK f, n, m, g :
          f = UsedF /\ n = q.actual /\ m = req[r].actual /\ g = UsedF'
    OBVIOUS
  <2>2. Replaces(g, f, r, m, n)
    BY <1>1, <1>2, <1>t, <1>f, <2>1 DEF Replaces
  <2>3. Total(g) + m = Total(f) + n /\ Total(f) \in Nat /\ Total(g) \in Nat
    BY <2>2, TotalSteps
  <2> QED
    BY <2>1, <2>3
<1>7. Total(CovF') + Covers(req[r]) = Total(CovF) + Covers(q)
      /\ Total(CovF) \in Nat /\ Total(CovF') \in Nat
  <2>1. PICK f, n, m, g :
          f = CovF /\ n = Covers(q) /\ m = Covers(req[r]) /\ g = CovF'
    OBVIOUS
  <2>2. Replaces(g, f, r, m, n)
    BY <1>1, <1>2, <1>t, <1>f, <2>1 DEF Replaces
  <2>3. Total(g) + m = Total(f) + n /\ Total(f) \in Nat /\ Total(g) \in Nat
    BY <2>2, TotalSteps
  <2> QED
    BY <2>1, <2>3
<1>8. Total(OverF') + Exceeds(req[r]) = Total(OverF) + Exceeds(q)
      /\ Total(OverF) \in Nat /\ Total(OverF') \in Nat
  <2>1. PICK f, n, m, g :
          f = OverF /\ n = Exceeds(q) /\ m = Exceeds(req[r]) /\ g = OverF'
    OBVIOUS
  <2>2. Replaces(g, f, r, m, n)
    BY <1>1, <1>2, <1>t, <1>f, <2>1 DEF Replaces
  <2>3. Total(g) + m = Total(f) + n /\ Total(f) \in Nat /\ Total(g) \in Nat
    BY <2>2, TotalSteps
  <2> QED
    BY <2>1, <2>3
<1> QED
  BY <1>3, <1>4, <1>5, <1>6, <1>7, <1>8

-----------------------------------------------------------------------------
(* The steps *)

\* The budget that a request draws on is the run's, whatever it names.
LEMMA OneBucket ==
  ASSUME ProxyAssumption
  PROVE  Mine \in Buckets /\ \A r \in Requests : Bucket(r) = Mine
BY DEF ProxyAssumption, Mine, Bucket, Buckets, NoToken, StartupBucket

\* The bucket holds at least the reservation of each request.
LEMMA Backed ==
  ASSUME ProxyAssumption, Types, Exact, NEW r \in Requests
  PROVE  Reserves(req[r]) <= tokens[Mine]
<1> DEFINE rest == {u \in Requests \X (1..MaxUse) : u[1] # r /\ u[2] <= ResF[u[1]]}
<1>1. ResF \in [Requests -> 0..MaxUse] /\ SpentF \in [Requests -> 0..MaxUse]
  BY TermFunctions
<1>2. Total(ResF) = ResF[r] + Cardinality(rest)
  BY <1>1, OneTerm
<1>3. rest \in SUBSET (Requests \X (1..MaxUse))
  OBVIOUS
<1> HIDE DEF rest
<1>4. Cardinality(rest) \in Nat
  BY <1>3, UnitsFinite
<1>5. ResF[r] = Reserves(req[r]) /\ ResF[r] \in Nat
  BY <1>1, Limits DEF ResF
<1>6. \A n \in Requests : SpentF[n] <= SpentF[n]
  BY <1>1, Limits
<1>7. Total(SpentF) \in Nat
  BY <1>1, <1>6, TotalGrows
<1> QED
  BY <1>2, <1>4, <1>5, <1>7 DEF Exact

\* A step that makes q of request r keeps the books when it changes the bucket
\* by what it changes the reservations and the usage by, and commits more only
\* where that is covered by the bucket and fits into the budget.
LEMMA StepKeeps ==
  ASSUME ProxyAssumption, Inv, NEW r \in Requests, NEW q \in ReqStates, NEW t \in Nat,
         Modest(q), req' = [req EXCEPT ![r] = q],
         counts' \in [Buckets -> 0..MaxCallsPerSubmission],
         tokens' = [tokens EXCEPT ![Mine] = t],
         t + (Reserves(req[r]) + Spends(req[r])) = tokens[Mine] + (Reserves(q) + Spends(q)),
         Commits(q) + tokens[Mine] <= Commits(req[r]) + t,
         \/ Commits(q) <= Commits(req[r])
         \/ Commits(q) + tokens[Mine] <= MaxTokensPerSubmission
  PROVE  Inv'
<1>1. Mine \in Buckets /\ tokens \in [Buckets -> Nat] /\ tokens'[Mine] = t
  BY OneBucket DEF Inv, Types
<1>2. Types'
  <2>1. req' \in [Requests -> ReqStates]
    BY DEF Inv, Types
  <2>2. \A x \in Requests : Modest(req'[x])
    BY DEF Inv, Types
  <2>3. tokens' \in [Buckets -> Nat]
    BY <1>1
  <2>4. (\A x \in Requests : Modest(req[x]))' <=> \A x \in Requests : Modest(req'[x])
    BY DEF Modest, Answer
  <2> QED
    BY <2>1, <2>2, <2>3, <2>4 DEF Types, ReqStates
<1>3. req[r] \in ReqStates /\ Modest(req[r])
  BY DEF Inv, Types
<1>4. PICK v \in Nat, c \in Nat, w \in Nat, d \in Nat, tok \in Nat, m \in Nat :
        /\ v = Reserves(req[r]) + Spends(req[r]) /\ c = Commits(req[r])
        /\ w = Reserves(q) + Spends(q) /\ d = Commits(q)
        /\ tok = tokens[Mine] /\ m = MaxTokensPerSubmission
  <2>1. /\ Reserves(req[r]) \in 0..MaxUse /\ Spends(req[r]) \in 0..MaxUse
        /\ Commits(req[r]) \in 0..MaxUse
    BY <1>3, Terms
  <2>2. /\ Reserves(q) \in 0..MaxUse /\ Spends(q) \in 0..MaxUse
        /\ Commits(q) \in 0..MaxUse
    BY Terms
  <2>3. /\ Reserves(req[r]) + Spends(req[r]) \in Nat /\ Commits(req[r]) \in Nat
    BY <2>1, Limits
  <2>4. /\ Reserves(q) + Spends(q) \in Nat /\ Commits(q) \in Nat
    BY <2>2, Limits
  <2>5. tokens[Mine] \in Nat /\ MaxTokensPerSubmission \in Nat
    BY <1>1, Limits
  <2> QED
    BY <2>3, <2>4, <2>5
<1>5. /\ Total(ResF') + Reserves(req[r]) = Total(ResF) + Reserves(q)
      /\ Total(SpentF') + Spends(req[r]) = Total(SpentF) + Spends(q)
      /\ Total(ComF') + Commits(req[r]) = Total(ComF) + Commits(q)
      /\ Total(UsedF') + req[r].actual = Total(UsedF) + q.actual
      /\ Total(CovF') + Covers(req[r]) = Total(CovF) + Covers(q)
      /\ Total(OverF') + Exceeds(req[r]) = Total(OverF) + Exceeds(q)
      /\ {Total(ResF), Total(SpentF), Total(ComF), Total(UsedF), Total(CovF),
          Total(OverF), Total(ResF'), Total(SpentF'), Total(ComF'), Total(UsedF'),
          Total(CovF'), Total(OverF')} \subseteq Nat
  BY SumsChange DEF Inv
<1>6. Exact'
  <2>1. /\ Reserves(req[r]) \in Nat /\ Spends(req[r]) \in Nat
        /\ Reserves(q) \in Nat /\ Spends(q) \in Nat
    <3>1. Reserves(req[r]) \in 0..MaxUse /\ Spends(req[r]) \in 0..MaxUse
      BY <1>3, Terms
    <3>2. Reserves(q) \in 0..MaxUse /\ Spends(q) \in 0..MaxUse
      BY Terms
    <3> QED
      BY <3>1, <3>2, Limits
  <2>2. tok = Total(ResF) + Total(SpentF)
    BY <1>4 DEF Inv, Exact
  <2>3. t = Total(ResF') + Total(SpentF')
    BY <1>4, <1>5, <2>1, <2>2
  <2>4. \A b \in Buckets : b # Mine => tokens'[b] = 0
    BY <1>1 DEF Inv, Exact
  <2> QED
    BY <1>1, <2>3, <2>4 DEF Exact, Mine
<1>7. Committed'
  <2>1. PICK x \in Nat, y \in Nat : x = Total(ComF) /\ y = Total(ComF')
    BY <1>5
  <2>2. y + c = x + d /\ x <= m /\ x <= tok /\ d + tok <= c + t
        /\ (d <= c \/ d + tok <= m)
    BY <1>4, <1>5, <2>1 DEF Inv, Committed
  <2>3. y <= m /\ y <= t
    BY <2>2
  <2> QED
    BY <1>1, <1>4, <2>1, <2>3 DEF Committed, Mine
<1>8. Split'
  <2>1. PICK a \in Nat, b \in Nat, e \in Nat, f \in Nat, g \in Nat, h \in Nat :
          /\ a = req[r].actual /\ b = Covers(req[r]) /\ e = Exceeds(req[r])
          /\ f = q.actual /\ g = Covers(q) /\ h = Exceeds(q)
          /\ b + e = a /\ g + h = f
    <3>1. /\ req[r].actual \in 0..MaxUse /\ Covers(req[r]) \in 0..MaxUse
          /\ Exceeds(req[r]) \in 0..MaxUse
          /\ Covers(req[r]) + Exceeds(req[r]) = req[r].actual
      BY <1>3, Terms
    <3>2. /\ q.actual \in 0..MaxUse /\ Covers(q) \in 0..MaxUse
          /\ Exceeds(q) \in 0..MaxUse
          /\ Covers(q) + Exceeds(q) = q.actual
      BY Terms
    <3> QED
      BY <3>1, <3>2, Limits
  <2>2. PICK u \in Nat, v1 \in Nat, o \in Nat, u1 \in Nat, v2 \in Nat, o1 \in Nat :
          /\ u = Total(UsedF) /\ v1 = Total(CovF) /\ o = Total(OverF)
          /\ u1 = Total(UsedF') /\ v2 = Total(CovF') /\ o1 = Total(OverF')
    BY <1>5
  <2>3. u = v1 + o /\ u1 + a = u + f /\ v2 + b = v1 + g /\ o1 + e = o + h
    BY <1>5, <2>1, <2>2 DEF Inv, Split
  <2>4. b + e = a /\ g + h = f
    BY <2>1
  <2>5. u1 = v2 + o1
    BY <2>3, <2>4
  <2> QED
    BY <2>2, <2>5 DEF Split
<1> QED
  BY <1>2, <1>6, <1>7, <1>8 DEF Inv

\* A step that changes none of the request's terms and not its bucket.
LEMMA QuietStepKeeps ==
  ASSUME ProxyAssumption, Inv, NEW r \in Requests, NEW q \in ReqStates,
         Modest(q), req' = [req EXCEPT ![r] = q],
         counts' \in [Buckets -> 0..MaxCallsPerSubmission], tokens' = tokens,
         Reserves(q) = Reserves(req[r]), Spends(q) = Spends(req[r]),
         Commits(q) = Commits(req[r])
  PROVE  Inv'
<1>1. PICK t \in Nat : t = tokens[Mine]
  BY OneBucket DEF Inv, Types
<1>2. tokens' = [tokens EXCEPT ![Mine] = t]
  BY <1>1, OneBucket DEF Inv, Types
<1>3. /\ Reserves(q) \in 0..MaxUse /\ Spends(q) \in 0..MaxUse /\ Commits(q) \in 0..MaxUse
  BY Terms
<1>4. /\ Commits(q) <= Commits(req[r])
      /\ Commits(q) + tokens[Mine] <= Commits(req[r]) + t
      /\ t + (Reserves(req[r]) + Spends(req[r])) = tokens[Mine] + (Reserves(q) + Spends(q))
  BY <1>1, <1>3, Limits
<1> QED
  BY <1>2, <1>4, StepKeeps

\* The request as it is, its type and what may have been used for it.
LEMMA RequestOf ==
  ASSUME ProxyAssumption, Inv, NEW r \in Requests
  PROVE  /\ req[r] \in ReqStates /\ Modest(req[r])
         /\ req \in [Requests -> ReqStates]
         /\ counts \in [Buckets -> 0..MaxCallsPerSubmission]
         /\ tokens \in [Buckets -> Nat]
         /\ Bucket(r) = Mine /\ Mine \in Buckets
         /\ Reserves(req[r]) <= tokens[Mine]
BY OneBucket, Backed DEF Inv, Types

\* The request q as it is received.
Received(q, named, n) == [q EXCEPT !.named = named, !.projected = n]

LEMMA ReceiveKeeps ==
  ASSUME ProxyAssumption, Inv, NEW r \in Requests, Receive(r)
  PROVE  Inv'
<1>1. PICK input \in Nat, max \in Nat, named \in Names \cup {NoToken},
           pc \in {"reserve", "done"}, status \in Statuses :
        /\ req' = [req EXCEPT ![r] =
             [Received(req[r], named, input + max) EXCEPT !.pc = pc, !.status = status]]
        /\ pc = "reserve" => input <= MaxInputTokensPerCall /\ max <= MaxTokensPerCall
        /\ pc = "done" => status # "ok"
  <2>1. PICK tier \in Tiers, input \in Sizes, max \in Sizes, named \in Names \cup {NoToken} :
          LET q == [req[r] EXCEPT !.named = named, !.projected = input + max]
              Refuse(status) ==
                req' = [req EXCEPT ![r] = [q EXCEPT !.pc = "done", !.status = status]]
          IN  CASE tier \notin AllowedTiers -> Refuse("forbidden")
                [] tier \in AllowedTiers /\ max > MaxTokensPerCall -> Refuse("bad request")
                [] tier \in AllowedTiers /\ max <= MaxTokensPerCall
                     /\ input > MaxInputTokensPerCall -> Refuse("bad request")
                [] OTHER -> req' = [req EXCEPT ![r] = [q EXCEPT !.pc = "reserve"]]
    BY DEF Receive
  <2>2. input \in Nat /\ max \in Nat
    BY DEF ProxyAssumption
  <2>3. req[r] \in ReqStates
    BY RequestOf
  <2> DEFINE q == Received(req[r], named, input + max)
             made(pc, status) == [q EXCEPT !.pc = pc, !.status = status]
  <2>a. [q EXCEPT !.pc = "reserve"] = made("reserve", req[r].status)
    BY <2>3 DEF ReqStates, Received
  <2>b. \/ req' = [req EXCEPT ![r] = made("done", "forbidden")]
        \/ req' = [req EXCEPT ![r] = made("done", "bad request")]
        \/ /\ req' = [req EXCEPT ![r] = [q EXCEPT !.pc = "reserve"]]
           /\ ~(max > MaxTokensPerCall) /\ ~(input > MaxInputTokensPerCall)
    <3>1. tier \in AllowedTiers /\ max <= MaxTokensPerCall =>
            ~(max > MaxTokensPerCall)
      BY <2>2, Limits
    <3>2. max <= MaxTokensPerCall \/ max > MaxTokensPerCall
      BY <2>2, Limits
    <3> QED
      BY <2>1, <3>1, <3>2 DEF Received
  <2>4. \/ req' = [req EXCEPT ![r] = made("done", "forbidden")]
        \/ req' = [req EXCEPT ![r] = made("done", "bad request")]
        \/ /\ req' = [req EXCEPT ![r] = made("reserve", req[r].status)]
           /\ ~(max > MaxTokensPerCall) /\ ~(input > MaxInputTokensPerCall)
    BY <2>a, <2>b
  <2>5. (max <= MaxTokensPerCall /\ input <= MaxInputTokensPerCall)
          \/ max > MaxTokensPerCall \/ input > MaxInputTokensPerCall
    BY <2>2, Limits
  <2>6. req[r].status \in Statuses /\ {"forbidden", "bad request"} \subseteq Statuses
    BY <2>3 DEF ReqStates, Statuses
  <2> QED
    BY <2>2, <2>4, <2>5, <2>6
<1>2. PICK q \in ReqStates :
        /\ q = [Received(req[r], named, input + max) EXCEPT !.pc = pc, !.status = status]
        /\ q.pc = pc /\ q.status = status /\ q.projected = input + max
        /\ q.actual = req[r].actual
  <2> DEFINE e == [Received(req[r], named, input + max) EXCEPT !.pc = pc, !.status = status]
  <2>1. req[r] \in ReqStates
    BY RequestOf
  <2>2. pc \in PCs /\ input + max \in Nat
    BY DEF PCs
  <2>3. Received(req[r], named, input + max) \in ReqStates
    BY <2>1, <2>2 DEF ReqStates, Received
  <2>4. e \in ReqStates
    BY <2>2, <2>3 DEF ReqStates
  <2>5. e.pc = pc /\ e.status = status /\ e.projected = input + max
        /\ e.actual = req[r].actual
    BY <2>1 DEF ReqStates, Received
  <2> QED
    BY <2>4, <2>5
<1>3. req[r].pc = "unsent" /\ counts' = counts /\ tokens' = tokens
  BY DEF Receive
<1>4. q.actual = 0
  BY <1>2, <1>3, RequestOf DEF Modest
<1>5. pc = "reserve" =>
        /\ q.projected <= MaxInputTokensPerCall + MaxTokensPerCall
        /\ q.actual <= q.projected + Overrun
  BY <1>1, <1>2, <1>4, Limits
<1>6. Modest(q)
  BY <1>1, <1>2, <1>4, <1>5 DEF Modest, InFlight, Answer
<1>7. /\ Reserves(q) = Reserves(req[r]) /\ Spends(q) = Spends(req[r])
      /\ Commits(q) = Commits(req[r])
  BY <1>1, <1>2, <1>3 DEF Reserves, Spends, Commits, InFlight, Answer
<1> QED
  BY <1>1, <1>2, <1>3, <1>6, <1>7, RequestOf, QuietStepKeeps

LEMMA ReserveKeeps ==
  ASSUME ProxyAssumption, Inv, NEW r \in Requests, Reserve(r)
  PROVE  Inv'
<1>1. req[r].pc = "reserve" /\ counts' = counts
  BY DEF Reserve
<1>2. PICK p \in Nat, a \in Nat, tok \in Nat :
        p = req[r].projected /\ a = req[r].actual /\ tok = tokens[Mine]
  BY RequestOf DEF ReqStates
<1>3. /\ p <= MaxInputTokensPerCall + MaxTokensPerCall /\ a = 0
      /\ Reserves(req[r]) = 0 /\ Spends(req[r]) = 0 /\ Commits(req[r]) = 0
  BY <1>1, <1>2, RequestOf DEF Modest, InFlight, Answer, Reserves, Spends, Commits
<1>4. CASE ~Fits(Mine, p)
  <2>1. tokens' = tokens /\ req' = [req EXCEPT ![r].pc = "done", ![r].status = "too many"]
    BY <1>2, <1>4, RequestOf DEF Reserve, Done
  <2>2. PICK q \in ReqStates :
          /\ q = [req[r] EXCEPT !.pc = "done", !.status = "too many"]
          /\ q.pc = "done" /\ q.status = "too many" /\ q.actual = a
    <3> DEFINE e == [req[r] EXCEPT !.pc = "done", !.status = "too many"]
    <3>1. e \in ReqStates
      BY <1>2, RequestOf DEF ReqStates, PCs, Statuses
    <3>2. /\ e.pc = "done" /\ e.status = "too many" /\ e.actual = a
      BY <1>2, RequestOf DEF ReqStates, PCs, Statuses
    <3> QED
      BY <3>1, <3>2
  <2>3. req' = [req EXCEPT ![r] = q]
    BY <2>1, <2>2, RequestOf DEF ReqStates
  <2>4. Modest(q) /\ Reserves(q) = 0 /\ Spends(q) = 0 /\ Commits(q) = 0
    BY <1>3, <2>2 DEF Modest, Reserves, Spends, Commits, InFlight, Answer
  <2> QED
    BY <1>1, <1>3, <2>1, <2>3, <2>4, RequestOf, QuietStepKeeps
<1>5. CASE Fits(Mine, p)
  <2>1. /\ tokens' = [tokens EXCEPT ![Mine] = tok + p]
        /\ req' = [req EXCEPT ![r].pc = "count"]
    BY <1>2, <1>5, RequestOf DEF Reserve
  <2>2. PICK q \in ReqStates :
          /\ q = [req[r] EXCEPT !.pc = "count"]
          /\ q.pc = "count" /\ q.projected = p /\ q.actual = a
    <3> DEFINE e == [req[r] EXCEPT !.pc = "count"]
    <3>1. e \in ReqStates
      BY <1>2, RequestOf DEF ReqStates, PCs
    <3>2. /\ e.pc = "count" /\ e.projected = p /\ e.actual = a
      BY <1>2, RequestOf DEF ReqStates, PCs
    <3> QED
      BY <3>1, <3>2
  <2>3. req' = [req EXCEPT ![r] = q]
    BY <2>1, <2>2, RequestOf DEF ReqStates
  <2>4. a <= p + Overrun
    BY <1>3, Limits
  <2>5. Modest(q) /\ Reserves(q) = p /\ Spends(q) = 0 /\ Commits(q) = p
    BY <1>2, <1>3, <2>2, <2>4 DEF Modest, Reserves, Spends, Commits, InFlight, Answer
  <2>6. p <= 0 \/ p + tok <= MaxTokensPerSubmission
    BY <1>2, <1>5, Limits DEF Fits
  <2>7. tok + p \in Nat /\ p + tok <= 0 + (tok + p)
        /\ (tok + p) + (0 + 0) = tok + (p + 0)
    OBVIOUS
  <2> QED
    BY <1>1, <1>2, <1>3, <2>1, <2>3, <2>5, <2>6, <2>7, RequestOf, StepKeeps
<1> QED
  BY <1>4, <1>5

LEMMA CountKeeps ==
  ASSUME ProxyAssumption, Inv, NEW r \in Requests, Count(r)
  PROVE  Inv'
<1>1. req[r].pc = "count" /\ tokens' = tokens
  BY DEF Count
<1>2. PICK pc \in {"upstream", "release"}, status \in Statuses :
        /\ req' = [req EXCEPT ![r] = [req[r] EXCEPT !.pc = pc, !.status = status]]
        /\ pc = "release" => status # "ok"
        /\ counts' \in [Buckets -> 0..MaxCallsPerSubmission]
  <2>1. CASE MayCall(Mine)
    <3>1. /\ counts' = [counts EXCEPT ![Mine] = @ + 1]
          /\ req' = [req EXCEPT ![r].pc = "upstream"]
      BY <2>1, RequestOf DEF Count
    <3>2. counts[Mine] + 1 \in 0..MaxCallsPerSubmission
      BY <2>1, RequestOf, Limits DEF MayCall
    <3>3. req' = [req EXCEPT ![r] =
                    [req[r] EXCEPT !.pc = "upstream", !.status = req[r].status]]
      BY <3>1, RequestOf DEF ReqStates
    <3>4. counts' \in [Buckets -> 0..MaxCallsPerSubmission]
      BY <3>1, <3>2, RequestOf
    <3>5. req[r].status \in Statuses
      BY RequestOf DEF ReqStates
    <3> QED
      BY <3>3, <3>4, <3>5
  <2>2. CASE ~MayCall(Mine)
    <3>1. /\ counts' = counts
          /\ req' = [req EXCEPT ![r].pc = "release", ![r].status = "too many"]
      BY <2>2, RequestOf DEF Count
    <3>2. req' = [req EXCEPT ![r] =
                    [req[r] EXCEPT !.pc = "release", !.status = "too many"]]
      BY <3>1, RequestOf DEF ReqStates
    <3>3. "too many" \in Statuses
      BY DEF Statuses
    <3> QED
      BY <3>1, <3>2, <3>3, RequestOf
  <2> QED
    BY <2>1, <2>2
<1>3. PICK q \in ReqStates :
        /\ q = [req[r] EXCEPT !.pc = pc, !.status = status]
        /\ q.pc = pc /\ q.status = status
        /\ q.projected = req[r].projected /\ q.actual = req[r].actual
  <2> DEFINE e == [req[r] EXCEPT !.pc = pc, !.status = status]
  <2>1. e \in ReqStates
    BY RequestOf DEF ReqStates, PCs
  <2>2. /\ e.pc = pc /\ e.status = status
        /\ e.projected = req[r].projected /\ e.actual = req[r].actual
    BY RequestOf DEF ReqStates, PCs
  <2> QED
    BY <2>1, <2>2
<1>4. /\ Modest(q) /\ Reserves(q) = Reserves(req[r]) /\ Spends(q) = Spends(req[r])
      /\ Commits(q) = Commits(req[r])
  BY <1>1, <1>2, <1>3, RequestOf
     DEF Modest, Reserves, Spends, Commits, InFlight, Answer
<1> QED
  BY <1>1, <1>2, <1>3, <1>4, QuietStepKeeps

LEMMA UpstreamKeeps ==
  ASSUME ProxyAssumption, Inv, NEW r \in Requests, Upstream(r)
  PROVE  Inv'
<1>1. req[r].pc = "upstream" /\ counts' = counts /\ tokens' = tokens
  BY DEF Upstream
<1>2. req[r].projected \in Nat /\ req[r].actual = 0
  BY <1>1, RequestOf DEF ReqStates, Modest
<1>3. PICK pc \in {"answered", "release"}, status \in Statuses,
           actual \in 0..(req[r].projected + Overrun) :
        /\ req' = [req EXCEPT ![r] =
             [req[r] EXCEPT !.pc = pc, !.status = status, !.actual = actual]]
        /\ pc = "release" => status # "ok" /\ actual = 0
  <2>1. \/ \E actual \in 0..(req[r].projected + Overrun) :
              req' = [req EXCEPT ![r].pc = "answered", ![r].actual = actual]
        \/ req' = [req EXCEPT ![r].pc = "release", ![r].status = "bad gateway"]
    BY DEF Upstream
  <2>2. ASSUME NEW actual \in 0..(req[r].projected + Overrun),
               req' = [req EXCEPT ![r].pc = "answered", ![r].actual = actual]
        PROVE  req' = [req EXCEPT ![r] = [req[r] EXCEPT
                 !.pc = "answered", !.status = req[r].status, !.actual = actual]]
    BY <2>2, RequestOf DEF ReqStates
  <2>3. ASSUME req' = [req EXCEPT ![r].pc = "release", ![r].status = "bad gateway"]
        PROVE  req' = [req EXCEPT ![r] = [req[r] EXCEPT
                 !.pc = "release", !.status = "bad gateway", !.actual = 0]]
    BY <1>2, <2>3, RequestOf DEF ReqStates
  <2>4. req[r].status \in Statuses /\ "bad gateway" \in Statuses
    BY RequestOf DEF ReqStates, Statuses
  <2>5. 0 \in 0..(req[r].projected + Overrun)
    BY <1>2, Limits
  <2> QED
    BY <2>1, <2>2, <2>3, <2>4, <2>5
<1>4. actual \in Nat /\ actual <= req[r].projected + Overrun
  BY <1>2, Limits
<1>5. PICK q \in ReqStates :
        /\ q = [req[r] EXCEPT !.pc = pc, !.status = status, !.actual = actual]
        /\ q.pc = pc /\ q.status = status
        /\ q.projected = req[r].projected /\ q.actual = actual
  <2> DEFINE e == [req[r] EXCEPT !.pc = pc, !.status = status, !.actual = actual]
  <2>1. e \in ReqStates
    BY <1>4, RequestOf DEF ReqStates, PCs
  <2>2. /\ e.pc = pc /\ e.status = status
        /\ e.projected = req[r].projected /\ e.actual = actual
    BY <1>4, RequestOf DEF ReqStates, PCs
  <2> QED
    BY <2>1, <2>2
<1>6. Modest(q)
  <2>1. q.projected <= MaxInputTokensPerCall + MaxTokensPerCall
    BY <1>1, <1>5, RequestOf DEF Modest, InFlight
  <2> QED
    BY <1>3, <1>4, <1>5, <2>1 DEF Modest, InFlight
<1>7. /\ Reserves(q) = Reserves(req[r]) /\ Spends(q) = Spends(req[r])
      /\ Commits(q) = Commits(req[r])
  BY <1>1, <1>3, <1>5 DEF Reserves, Spends, Commits, InFlight, Answer
<1> QED
  BY <1>1, <1>3, <1>5, <1>6, <1>7, RequestOf, QuietStepKeeps

LEMMA ReleaseKeeps ==
  ASSUME ProxyAssumption, Inv, NEW r \in Requests, Release(r)
  PROVE  Inv'
<1>1. req[r].pc = "release" /\ counts' = counts /\ req[r].status # "ok"
  BY RequestOf DEF Release, Modest
<1>2. PICK p \in Nat, tok \in Nat : p = req[r].projected /\ tok = tokens[Mine]
  BY RequestOf DEF ReqStates
<1>3. Reserves(req[r]) = p /\ Spends(req[r]) = 0 /\ Commits(req[r]) = p
  BY <1>1, <1>2 DEF InFlight, Answer, Reserves, Spends, Commits
<1>4. p <= tok
  BY <1>2, <1>3, RequestOf
<1>5. tokens' = [tokens EXCEPT ![Mine] = tok - p]
  <2>1. tokens' = [tokens EXCEPT ![Mine] = IF @ + 0 < p THEN 0 ELSE (@ + 0) - p]
    BY <1>2, RequestOf DEF Release, Released, Reconciled
  <2>2. (IF tok + 0 < p THEN 0 ELSE (tok + 0) - p) = tok - p
    BY <1>4
  <2> QED
    BY <1>2, <2>1, <2>2
<1>6. req' = [req EXCEPT ![r].pc = "done", ![r].status = req[r].status]
  BY DEF Release, Done
<1>7. PICK q \in ReqStates :
        /\ q = [req[r] EXCEPT !.pc = "done"]
        /\ q.pc = "done" /\ q.status = req[r].status /\ q.actual = req[r].actual
  <2> DEFINE e == [req[r] EXCEPT !.pc = "done"]
  <2>1. e \in ReqStates
    BY RequestOf DEF ReqStates, PCs
  <2>2. /\ e.pc = "done" /\ e.status = req[r].status /\ e.actual = req[r].actual
    BY RequestOf DEF ReqStates, PCs
  <2> QED
    BY <2>1, <2>2
<1>8. req' = [req EXCEPT ![r] = q]
  BY <1>6, <1>7, RequestOf DEF ReqStates
<1>9. Modest(q) /\ Reserves(q) = 0 /\ Spends(q) = 0 /\ Commits(q) = 0
  BY <1>1, <1>7, RequestOf DEF Modest, Reserves, Spends, Commits, InFlight, Answer
<1>10. PICK t \in Nat : t = tok - p
  BY <1>4
<1>11. 0 <= p /\ 0 + tok <= p + t /\ t + (p + 0) = tok + (0 + 0)
  BY <1>4, <1>10
<1> QED
  BY <1>1, <1>2, <1>3, <1>5, <1>8, <1>9, <1>10, <1>11, RequestOf, StepKeeps

LEMMA ReconcileKeeps ==
  ASSUME ProxyAssumption, Inv, NEW r \in Requests, Reconcile(r)
  PROVE  Inv'
<1>1. req[r].pc = "answered" /\ counts' = counts
  BY DEF Reconcile
<1>2. PICK p \in Nat, a \in Nat, tok \in Nat :
        p = req[r].projected /\ a = req[r].actual /\ tok = tokens[Mine]
  BY RequestOf DEF ReqStates
<1>3. Reserves(req[r]) = p /\ Spends(req[r]) = 0 /\ Commits(req[r]) = p
  BY <1>1, <1>2 DEF InFlight, Answer, Reserves, Spends, Commits
<1>4. p <= tok
  BY <1>2, <1>3, RequestOf
<1>5. tokens' = [tokens EXCEPT ![Mine] = (tok + a) - p]
  <2>1. tokens' = [tokens EXCEPT ![Mine] = IF @ + a < p THEN 0 ELSE (@ + a) - p]
    BY <1>2, RequestOf DEF Reconcile, Reconciled
  <2>2. (IF tok + a < p THEN 0 ELSE (tok + a) - p) = (tok + a) - p
    BY <1>4
  <2> QED
    BY <1>2, <2>1, <2>2
<1>6. req' = [req EXCEPT ![r].pc = "done", ![r].status = "ok"]
  BY DEF Reconcile, Done
<1>7. PICK q \in ReqStates :
        /\ q = [req[r] EXCEPT !.pc = "done", !.status = "ok"]
        /\ q.pc = "done" /\ q.status = "ok" /\ q.actual = a /\ q.projected = p
  <2> DEFINE e == [req[r] EXCEPT !.pc = "done", !.status = "ok"]
  <2>1. e \in ReqStates
    BY <1>2, RequestOf DEF ReqStates, PCs, Statuses
  <2>2. /\ e.pc = "done" /\ e.status = "ok" /\ e.actual = a /\ e.projected = p
    BY <1>2, RequestOf DEF ReqStates, PCs, Statuses
  <2> QED
    BY <2>1, <2>2
<1>8. req' = [req EXCEPT ![r] = q]
  BY <1>6, <1>7, RequestOf DEF ReqStates
<1>9. Modest(q)
  BY <1>1, <1>2, <1>7, RequestOf DEF Modest, InFlight, Answer
<1>10. Reserves(q) = 0 /\ Spends(q) = a /\ Commits(q) = Less(a, p)
  BY <1>7 DEF Reserves, Spends, Commits, InFlight, Answer
<1>11. PICK t \in Nat : t = (tok + a) - p
  BY <1>4
<1>12. PICK l \in Nat : l = Less(a, p)
  BY DEF Less
<1>13. l <= p /\ l <= a
  BY <1>12 DEF Less
<1>14. l + tok <= p + t /\ t + (p + 0) = tok + (0 + a)
  BY <1>4, <1>11, <1>13
<1> QED
  BY <1>1, <1>2, <1>3, <1>5, <1>8, <1>9, <1>10, <1>11, <1>12, <1>13, <1>14, RequestOf,
     StepKeeps

LEMMA NextKeeps ==
  ASSUME ProxyAssumption, Inv, [Next]_vars
  PROVE  Inv'
<1>1. CASE Next
  BY <1>1, ReceiveKeeps, ReserveKeeps, CountKeeps, UpstreamKeeps, ReleaseKeeps,
     ReconcileKeeps DEF Next, Handle
<1>2. CASE UNCHANGED vars
  BY <1>2 DEF vars, Inv, Types, Exact, Committed, Split, Modest, Answer, ResF, SpentF,
     ComF, UsedF, CovF, OverF, Total, Reserves, Spends, Commits, Covers, Exceeds
<1> QED
  BY <1>1, <1>2

LEMMA InitHolds ==
  ASSUME ProxyAssumption, Init
  PROVE  Inv
<1>1. /\ Unsent \in ReqStates /\ Modest(Unsent)
      /\ Reserves(Unsent) = 0 /\ Spends(Unsent) = 0 /\ Commits(Unsent) = 0
      /\ Unsent.actual = 0 /\ Covers(Unsent) = 0 /\ Exceeds(Unsent) = 0
  BY DEF Unsent, ReqStates, PCs, Statuses, Modest, Answer, InFlight, Reserves, Spends,
         Commits, Covers, Exceeds, Less
<1>2. Types
  BY <1>1, Limits DEF Init, Types
<1>3. /\ ResF = [r \in Requests |-> 0] /\ SpentF = [r \in Requests |-> 0]
      /\ ComF = [r \in Requests |-> 0] /\ UsedF = [r \in Requests |-> 0]
      /\ CovF = [r \in Requests |-> 0] /\ OverF = [r \in Requests |-> 0]
  BY <1>1 DEF Init, ResF, SpentF, ComF, UsedF, CovF, OverF
<1>4. /\ Total(ResF) = 0 /\ Total(SpentF) = 0 /\ Total(ComF) = 0
      /\ Total(UsedF) = 0 /\ Total(CovF) = 0 /\ Total(OverF) = 0
  BY <1>3, TotalZero
<1>5. \A b \in Buckets : tokens[b] = 0
  BY DEF Init
<1>6. 0 <= MaxTokensPerSubmission
  BY Limits
<1> QED
  BY <1>2, <1>4, <1>5, <1>6, OneBucket DEF Inv, Exact, Committed, Split

-----------------------------------------------------------------------------
(* The theorems *)

\* The invariant of the proxy: whatever requests name and however their handlers
\* overlap, every state of every run has it.
THEOREM Invariance == ASSUME ProxyAssumption PROVE Spec => []Inv
<1>1. Init => Inv
  BY InitHolds
<1>2. Inv /\ [Next]_vars => Inv'
  BY NextKeeps
<1> QED
  BY <1>1, <1>2, PTL DEF Spec

\* The books of the proxy say what the property asks of them.
LEMMA BooksFollow ==
  ASSUME ProxyAssumption, Inv
  PROVE  BooksAreExact
<1>1. BucketIsExact
  <2> SUFFICES ASSUME NEW b \in Buckets
               PROVE  tokens[b] = Reserved(b) + Used({r \in Finished : Bucket(r) = b})
    BY DEF BucketIsExact
  <2>1. CASE b = Mine
    <3>1. [r \in Requests |->
             IF req[r].pc \in InFlight /\ Bucket(r) = b THEN req[r].projected ELSE 0] = ResF
      BY <2>1, OneBucket DEF ResF, Reserves
    <3>2. [r \in Requests |->
             IF r \in {x \in Finished : Bucket(x) = b} THEN req[r].actual ELSE 0] = SpentF
      BY <2>1, OneBucket DEF SpentF, Spends, Finished, Answer
    <3> QED
      BY <2>1, <3>1, <3>2 DEF Reserved, Used, Inv, Exact
  <2>2. CASE b # Mine
    <3>1. [r \in Requests |->
             IF req[r].pc \in InFlight /\ Bucket(r) = b THEN req[r].projected ELSE 0]
            = [r \in Requests |-> 0]
      BY <2>2, OneBucket
    <3>2. [r \in Requests |->
             IF r \in {x \in Finished : Bucket(x) = b} THEN req[r].actual ELSE 0]
            = [r \in Requests |-> 0]
      BY <2>2, OneBucket DEF Finished
    <3>3. Reserved(b) = 0
      BY <3>1, TotalZero DEF Reserved
    <3>4. Used({x \in Finished : Bucket(x) = b}) = 0
      BY <3>2, TotalZero DEF Used
    <3>5. tokens[b] = 0
      BY <2>2 DEF Inv, Exact
    <3> QED
      BY <3>3, <3>4, <3>5
  <2> QED
    BY <2>1, <2>2
<1>2. BudgetKept
  <2>1. [r \in Requests |-> IF r \in Requests THEN req[r].actual ELSE 0] = UsedF
    BY DEF UsedF
  <2>2. Used(Requests) = Total(UsedF)
    BY <2>1 DEF Used
  <2>3. Overruns = Total(OverF)
    BY DEF Overruns, OverF, Exceeds
  <2>4. \A r \in Requests : CovF[r] <= ComF[r]
    BY Terms DEF CovF, ComF, Inv, Types
  <2>5. /\ CovF \in [Requests -> 0..MaxUse] /\ ComF \in [Requests -> 0..MaxUse]
        /\ OverF \in [Requests -> 0..MaxUse]
    BY TermFunctions DEF Inv
  <2>6. Total(CovF) <= Total(ComF) /\ Total(CovF) \in Nat /\ Total(ComF) \in Nat
    BY <2>4, <2>5, TotalGrows
  <2>7. \A r \in Requests : OverF[r] <= OverF[r]
    BY <2>5, Limits
  <2>8. Total(OverF) \in Nat
    BY <2>5, <2>7, TotalGrows
  <2>9. /\ Total(UsedF) = Total(CovF) + Total(OverF)
        /\ Total(ComF) <= MaxTokensPerSubmission
    BY DEF Inv, Committed, Split
  <2>10. Total(UsedF) <= MaxTokensPerSubmission + Total(OverF)
    BY <2>6, <2>8, <2>9, Limits
  <2> QED
    BY <2>2, <2>3, <2>10 DEF BudgetKept
<1> QED
  BY <1>1, <1>2 DEF BooksAreExact

\* However many requests overlap, the bucket of the run holds exactly what its
\* answered calls used and what those in flight have reserved, other buckets
\* hold nothing, and the run uses more than its budget only by what estimates
\* were too low: whatever is refused, fails, or is named by a request.
THEOREM Books == ASSUME ProxyAssumption PROVE Spec => []BooksAreExact
<1>1. Inv => BooksAreExact
  BY BooksFollow
<1> QED
  BY <1>1, Invariance, PTL

\* The variables have their types and no run is counted more calls than it may
\* have.
THEOREM TypeCorrect == ASSUME ProxyAssumption PROVE Spec => []TypeOK
<1>1. Inv => TypeOK
  BY DEF Inv, Types, TypeOK, ReqStates
<1> QED
  BY <1>1, Invariance, PTL

-----------------------------------------------------------------------------
(* The executions: the inductive invariant *)

\* Where an execution of each kind can be.
Checked == {"prepare", "image", "services", "launch", "health", "probe", "cleanup", "finalize"}
Booted == {"provision", "build workspace", "run", "poll", "use", "teardown"}

OnItsWay(m, pc) ==
  \/ pc \in {"start", "done"}
  \/ m = "runtime" /\ pc \in {"build", "container"}
  \/ m \in {"separate", "shared"} /\ pc \in Checked
  \/ m = "separate" /\ pc = "pick"
  \/ m = "outcome" /\ pc \in Booted
  \/ m = "sidecar" /\ pc = "provision"

RunStates ==
  [pc : {"start", "done", "build", "container", "pick"} \cup Checked \cup Booted,
   item : 1..(Deliverables + 1), ok : BOOLEAN, reports : SUBSET (Items \X Stages),
   port : Ports \cup {0}, files : BOOLEAN,
   status : {"none", "unavailable", "passed", "failed"}, timedOut : BOOLEAN]

\* Only separate starters are counted past the last deliverable, and they are
\* before they are finalized.
Counted(m, s) ==
  /\ s.item = Deliverables + 1 => m = "separate" /\ s.pc \in {"pick", "finalize"}
  /\ m = "separate" /\ s.pc = "finalize" => s.item = Deliverables + 1

\* The contract of deliverable d was answered, and no report says otherwise.
Reached(m, s, d) ==
  IF m = "separate" THEN \E stage \in {"none", "checks"} : <<d, stage>> \in s.reports
  ELSE <<d, "none">> \in s.reports

\* Nothing failed so far: every deliverable before the one at hand was reached,
\* and with the probe behind it that one too; a shared app is left early for a
\* failure only.
Earned(m, s) ==
  s.ok =>
    /\ m \in {"separate", "shared"} =>
         \A d \in Items :
           d < s.item \/ (s.pc \in {"cleanup", "finalize"} /\ (d = s.item \/ m = "shared"))
             => Reached(m, s, d)
    /\ s.pc = "teardown" => <<1, "none">> \in s.reports

\* What a pass was earned by.
Deserved(m, s) ==
  /\ m \in {"unavailable", "sidecar"} => s.status # "passed"
  /\ s.pc = "done" /\ s.status = "passed" /\ m \in {"separate", "shared"} =>
       \A d \in Items : Reached(m, s, d)
  /\ s.pc = "done" /\ s.status = "passed" /\ m = "outcome" => <<1, "none">> \in s.reports

\* The container and the support services are there only between their start
\* and the cleanup, and after it if a docker command took too long.
Tidy(m, s, a, x) ==
  /\ a # "absent" => s.pc \in {"health", "probe", "cleanup", "poll", "use", "teardown", "done"}
  /\ x # {} => s.pc \in {"launch", "health", "probe", "cleanup", "done"}
  /\ s.pc \in {"health", "probe", "poll", "use"} => a # "created"
  /\ s.pc = "done" /\ (a # "absent" \/ x # {}) =>
       s.timedOut /\ (s.status = "failed" \/ m = "outcome")

HasFiles(m, s) ==
  /\ s.pc \in {"services", "launch", "health"} => s.files
  /\ s.pc = "probe" /\ m = "shared" => s.files

\* An execution s of kind m with its container and its services.
Good(m, s, a, x) ==
  /\ m \in Modes
  /\ s \in RunStates
  /\ a \in {"absent", "created", "up", "dead"}
  /\ x \in SUBSET {"services", "network"}
  /\ OnItsWay(m, s.pc)
  /\ Counted(m, s) /\ Earned(m, s) /\ Deserved(m, s) /\ Tidy(m, s, a, x) /\ HasFiles(m, s)

SandboxInv ==
  /\ mode = [r \in Runs |-> mode[r]]
  /\ run = [r \in Runs |-> run[r]]
  /\ app = [r \in Runs |-> app[r]]
  /\ extras = [r \in Runs |-> extras[r]]
  /\ \A r \in Runs : Good(mode[r], run[r], app[r], extras[r])

-----------------------------------------------------------------------------
(* Steps *)

\* A step of one execution that leaves it good keeps the invariant.
LEMMA Changes ==
  ASSUME SandboxInv, NEW r \in Runs, NEW s, NEW a, NEW x,
         mode' = mode, run' = [run EXCEPT ![r] = s], app' = [app EXCEPT ![r] = a],
         extras' = [extras EXCEPT ![r] = x], Good(mode[r], s, a, x)
  PROVE  SandboxInv'
<1>1. /\ mode' = [q \in Runs |-> mode'[q]]
      /\ run' = [q \in Runs |-> run'[q]]
      /\ app' = [q \in Runs |-> app'[q]]
      /\ extras' = [q \in Runs |-> extras'[q]]
  BY DEF SandboxInv
<1>2. ASSUME NEW q \in Runs PROVE Good(mode'[q], run'[q], app'[q], extras'[q])
  <2>1. CASE q = r
    BY <2>1 DEF SandboxInv
  <2>2. CASE q # r
    BY <2>2 DEF SandboxInv
  <2> QED
    BY <2>1, <2>2
<1> QED
  BY <1>1, <1>2 DEF SandboxInv

Apps == {"absent", "created", "up", "dead"}
Extras == SUBSET {"services", "network"}

\* What there is of an execution.
LEMMA Here ==
  ASSUME SandboxInv, NEW r \in Runs
  PROVE  /\ mode[r] \in Modes /\ run[r] \in RunStates /\ app[r] \in Apps /\ extras[r] \in Extras
         /\ Good(mode[r], run[r], app[r], extras[r])
         /\ app = [app EXCEPT ![r] = app[r]]
         /\ extras = [extras EXCEPT ![r] = extras[r]]
  BY DEF SandboxInv, Good, Apps, Extras

\* A step that changes the execution, and not its container.
LEMMA MovesOn ==
  ASSUME SandboxInv, NEW r \in Runs, NEW s, Do(r, s), UNCHANGED <<mode, app, extras>>,
         Good(mode[r], s, app[r], extras[r])
  PROVE  SandboxInv'
  BY Here, Changes DEF Do

\* A step that changes the container too.
LEMMA MovesApp ==
  ASSUME SandboxInv, NEW r \in Runs, NEW s, NEW a, Do(r, s), app' = [app EXCEPT ![r] = a],
         UNCHANGED <<mode, extras>>, Good(mode[r], s, a, extras[r])
  PROVE  SandboxInv'
  BY Here, Changes DEF Do

\* A step that fails while a deliverable is checked.
LEMMA Fails ==
  ASSUME NEW m \in {"separate", "shared"}, NEW o \in RunStates, NEW b, NEW y, Good(m, o, b, y),
         o.pc \in Checked \ {"finalize"},
         NEW s \in RunStates, s.pc = "cleanup", s.ok = FALSE, s.item = o.item,
         NEW a \in Apps, NEW x \in Extras
  PROVE  Good(m, s, a, x)
  BY DEF Good, OnItsWay, Counted, Earned, Deserved, Tidy, HasFiles, Reached, Checked, Booted, Items, Apps, Extras, Modes

\* A return that is no pass, with nothing left behind or for a command that took
\* too long.
LEMMA Returns ==
  ASSUME NEW m \in Modes, NEW s \in RunStates, s.pc = "done", s.item = 1, s.status # "passed",
         NEW a \in Apps, NEW x \in Extras,
         \/ a = "absent" /\ x = {}
         \/ s.timedOut /\ (s.status = "failed" \/ m = "outcome")
  PROVE  Good(m, s, a, x)
<1>1. /\ s.item # Deliverables + 1
      /\ \A d \in Items : ~(d < s.item)
  BY SandboxAssumption DEF Items
<1>2. Counted(m, s) /\ Earned(m, s)
  BY <1>1 DEF Counted, Earned
<1>3. OnItsWay(m, s.pc) /\ Deserved(m, s) /\ Tidy(m, s, a, x) /\ HasFiles(m, s)
  BY DEF OnItsWay, Deserved, Tidy, HasFiles
<1> QED BY <1>2, <1>3 DEF Good, Apps, Extras

\* The records that the code's early returns and handlers leave.
LEMMA ReturnedState ==
  ASSUME SandboxInv, NEW r \in Runs,
         NEW status \in {"none", "unavailable", "passed", "failed"}
  PROVE  /\ Returned(r, status) \in RunStates
         /\ Returned(r, status).pc = "done" /\ Returned(r, status).item = 1
         /\ Returned(r, status).status = status
         /\ Returned(r, status).reports = run[r].reports
         /\ Returned(r, status).timedOut = run[r].timedOut
<1>1. PICK o \in RunStates : o = run[r]
  BY Here
<1>2. PICK s \in RunStates : s = [o EXCEPT !.pc = "done", !.item = 1, !.files = FALSE, !.ok = TRUE, !.status = status]
  <2>1. 1 \in 1..(Deliverables + 1)
    BY SandboxAssumption
  <2> QED BY <2>1 DEF RunStates
<1>3. s.pc = "done" /\ s.item = 1 /\ s.status = status /\ s.reports = o.reports /\ s.timedOut = o.timedOut
  BY <1>2 DEF RunStates
<1> QED BY <1>1, <1>2, <1>3 DEF Returned

\* The record of a docker command that took too long.
LEMMA TimedOutState ==
  ASSUME SandboxInv, NEW r \in Runs
  PROVE  /\ TimedOut(r) \in RunStates
         /\ TimedOut(r).pc = "done" /\ TimedOut(r).item = 1
         /\ TimedOut(r).status = "failed" /\ TimedOut(r).timedOut = TRUE
<1>1. PICK o \in RunStates : o = Returned(r, "failed")
  BY ReturnedState
<1>2. o.pc = "done" /\ o.item = 1 /\ o.status = "failed"
  BY <1>1, ReturnedState
<1>3. PICK s \in RunStates : s = [o EXCEPT !.reports = {}, !.timedOut = TRUE]
  BY DEF RunStates
<1>4. s.pc = "done" /\ s.item = 1 /\ s.status = "failed" /\ s.timedOut = TRUE
  BY <1>2, <1>3 DEF RunStates
<1> QED BY <1>1, <1>3, <1>4 DEF TimedOut

\* The record of an app that did not start.
LEMMA NotStartedState ==
  ASSUME SandboxInv, NEW r \in Runs, mode[r] # "shared" => run[r].item \in Items
  PROVE  /\ NotStarted(r) \in RunStates
         /\ NotStarted(r).pc = run[r].pc /\ NotStarted(r).item = run[r].item /\ NotStarted(r).ok = FALSE
<1>1. PICK o \in RunStates : o = run[r]
  BY Here
<1>2. PICK new \in SUBSET (Items \X Stages) :
        new = o.reports \cup (IF mode[r] = "shared" THEN Items ELSE {o.item}) \X {"start"}
  BY <1>1 DEF RunStates, Stages
<1>3. PICK s \in RunStates : s = [o EXCEPT !.ok = FALSE, !.reports = new]
  BY DEF RunStates
<1>4. s.pc = o.pc /\ s.item = o.item /\ s.ok = FALSE
  BY <1>3 DEF RunStates
<1>5. NotStarted(r) = s
  BY <1>1, <1>2, <1>3 DEF NotStarted, RunStates
<1> QED BY <1>1, <1>4, <1>5

\* The record of an exception in a check.
LEMMA RaisedState ==
  ASSUME SandboxInv, NEW r \in Runs, mode[r] # "shared" => run[r].item \in Items
  PROVE  /\ Raised(r) \in RunStates
         /\ Raised(r).pc = "cleanup" /\ Raised(r).item = run[r].item /\ Raised(r).ok = FALSE
<1>1. PICK o \in RunStates : o = run[r]
  BY Here
<1>2. 1 \in Items
  BY SandboxAssumption DEF Items
<1>3. PICK new \in SUBSET (Items \X Stages) :
        new = o.reports \cup
          (IF mode[r] # "shared" THEN {<<o.item, "start">>} ELSE IF o.reports = {} THEN {<<1, "start">>} ELSE {})
  <2>1. o.reports \in SUBSET (Items \X Stages)
    BY DEF RunStates
  <2>2. mode[r] # "shared" => <<o.item, "start">> \in Items \X Stages
    BY <1>1 DEF Stages
  <2>3. <<1, "start">> \in Items \X Stages
    BY <1>2 DEF Stages
  <2> QED BY <2>1, <2>2, <2>3
<1>4. PICK s \in RunStates : s = [o EXCEPT !.ok = FALSE, !.reports = new]
  BY DEF RunStates
<1>5. s.item = o.item /\ s.ok = FALSE
  BY <1>4 DEF RunStates
<1>6. PICK t \in RunStates : t = [s EXCEPT !.pc = "cleanup", !.files = FALSE]
  BY DEF RunStates, Checked
<1>7. t.pc = "cleanup" /\ t.item = o.item /\ t.ok = FALSE
  BY <1>5, <1>6 DEF RunStates
<1>8. Raised(r) = t
  BY <1>1, <1>3, <1>4, <1>6 DEF Raised, ToCleanup, RunStates
<1> QED BY <1>1, <1>7, <1>8

\* A run starts on the way of its kind, or is not executed.
LEMMA ExecuteKeeps ==
  ASSUME SandboxInv, NEW r \in Runs, Execute(r)
  PROVE  SandboxInv'
<1>1. PICK m \in Modes, o \in RunStates : m = mode[r] /\ o = run[r] /\ Good(m, o, app[r], extras[r])
  BY Here
<1>2. CASE m = "unavailable"
  <2>1. Do(r, Returned(r, "unavailable")) /\ UNCHANGED <<mode, app, extras>>
    BY <1>1, <1>2 DEF Execute, Keep
  <2>2. app[r] = "absent" /\ extras[r] = {} /\ "absent" \in Apps /\ {} \in Extras
    BY <1>1 DEF Execute, At, Good, Tidy, Apps, Extras
  <2>3. Good(m, Returned(r, "unavailable"), app[r], extras[r])
    BY <2>2, ReturnedState, Returns
  <2> QED BY <1>1, <2>1, <2>3, MovesOn
<1>3. CASE m # "unavailable"
  <2>1. PICK pc : /\ Do(r, [o EXCEPT !.pc = pc]) /\ UNCHANGED <<mode, app, extras>>
                  /\ \/ m = "runtime" /\ pc = "build"
                     \/ m = "separate" /\ pc = "pick"
                     \/ m = "shared" /\ pc = "prepare"
                     \/ m \in {"outcome", "sidecar"} /\ pc = "provision"
    BY <1>1, <1>3 DEF Execute, Keep, Modes
  <2>2. o.pc = "start"
    BY <1>1 DEF Execute, At
  <2>3. PICK s \in RunStates : s = [o EXCEPT !.pc = pc]
    BY <2>1 DEF RunStates, Checked, Booted
  <2>4. s.pc = pc /\ s.item = o.item /\ s.ok = o.ok /\ s.reports = o.reports
        /\ s.port = o.port /\ s.files = o.files /\ s.status = o.status /\ s.timedOut = o.timedOut
    BY <2>3 DEF RunStates
  <2>5. Good(m, s, app[r], extras[r])
    BY <1>1, <2>1, <2>2, <2>4 DEF Good, OnItsWay, Counted, Earned, Deserved, Tidy, HasFiles, Reached, Checked, Booted, Items, Apps, Extras
  <2> QED BY <1>1, <2>1, <2>3, <2>5, MovesOn
<1> QED BY <1>2, <1>3

\* A runtime is built, or not.
LEMMA BuildRuntimeKeeps ==
  ASSUME SandboxInv, NEW r \in Runs, BuildRuntime(r)
  PROVE  SandboxInv'
<1>1. PICK m \in Modes, o \in RunStates : m = mode[r] /\ o = run[r] /\ Good(m, o, app[r], extras[r])
  BY Here
<1>2. o.pc = "build" /\ UNCHANGED <<mode, app, extras>>
  BY <1>1 DEF BuildRuntime, At, Keep
<1>3. app[r] = "absent" /\ extras[r] = {} /\ "absent" \in Apps /\ {} \in Extras
  BY <1>1, <1>2 DEF Good, Tidy, Apps, Extras
<1>4. CASE Do(r, [run[r] EXCEPT !.pc = "container"])
  <2>1. PICK s \in RunStates : s = [o EXCEPT !.pc = "container"]
    BY  DEF RunStates, Checked, Booted
  <2>2. s.pc = "container" /\ s.item = o.item /\ s.ok = o.ok /\ s.reports = o.reports
        /\ s.port = o.port /\ s.files = o.files /\ s.status = o.status /\ s.timedOut = o.timedOut
    BY <2>1 DEF RunStates
  <2>3. Good(m, s, app[r], extras[r])
    BY <1>1, <1>2, <2>2 DEF Good, OnItsWay, Counted, Earned, Deserved, Tidy, HasFiles, Reached, Checked, Booted, Items, Apps, Extras
  <2> QED BY <1>1, <1>2, <1>4, <2>1, <2>3, MovesOn
<1>5. CASE Do(r, Returned(r, "failed"))
  <2>1. Good(m, Returned(r, "failed"), app[r], extras[r])
    BY <1>3, ReturnedState, Returns
  <2> QED BY <1>1, <1>2, <1>5, <2>1, MovesOn
<1>6. CASE Do(r, TimedOut(r))
  <2>1. Good(m, TimedOut(r), app[r], extras[r])
    BY <1>3, TimedOutState, Returns
  <2> QED BY <1>1, <1>2, <1>6, <2>1, MovesOn
<1> QED BY <1>4, <1>5, <1>6 DEF BuildRuntime

\* The next deliverable is begun, or counted as missing, or there is none.
LEMMA NextItemKeeps ==
  ASSUME SandboxInv, NEW r \in Runs, NextItem(r)
  PROVE  SandboxInv'
<1>1. PICK m \in Modes, o \in RunStates : m = mode[r] /\ o = run[r] /\ Good(m, o, app[r], extras[r])
  BY Here
<1>2. o.pc = "pick" /\ UNCHANGED <<mode, app, extras>> /\ m = "separate"
  BY <1>1 DEF NextItem, At, Keep, Good, OnItsWay, Checked, Booted
<1>3. o.item \in Nat /\ 1 <= o.item /\ o.item <= Deliverables + 1 /\ Deliverables \in Nat
  BY SandboxAssumption DEF RunStates
<1>4. CASE run[r].item <= Deliverables /\ Do(r, [NotStarted(r) EXCEPT !.item = @ + 1])
  <2>1. o.item \in Items /\ o.item + 1 \in 1..(Deliverables + 1)
    BY <1>1, <1>3, <1>4 DEF Items
  <2>2. PICK n \in RunStates : n = NotStarted(r)
    BY <1>1, <2>1, NotStartedState
  <2>3. n.pc = o.pc /\ n.item = o.item /\ n.ok = FALSE
    BY <1>1, <2>1, <2>2, NotStartedState
  <2>4. PICK s \in RunStates : s = [n EXCEPT !.item = n.item + 1]
    BY <2>1, <2>3 DEF RunStates
  <2>5. s.pc = "pick" /\ s.ok = FALSE
    BY <1>2, <2>3, <2>4 DEF RunStates
  <2>6. Good(m, s, app[r], extras[r])
    BY <1>1, <1>2, <2>5 DEF Good, OnItsWay, Counted, Earned, Deserved, Tidy, HasFiles
  <2> QED BY <1>1, <1>2, <1>4, <2>2, <2>4, <2>6, MovesOn
<1>5. ASSUME run[r].item <= Deliverables,
             NEW p \in Ports, Do(r, [run[r] EXCEPT !.pc = "prepare", !.port = p])
      PROVE  SandboxInv'
  <2>1. PICK s \in RunStates : s = [o EXCEPT !.pc = "prepare", !.port = p]
    BY  DEF RunStates, Checked, Booted
  <2>2. s.pc = "prepare" /\ s.item = o.item /\ s.ok = o.ok /\ s.reports = o.reports
        /\ s.port = p /\ s.files = o.files /\ s.status = o.status /\ s.timedOut = o.timedOut
    BY <2>1 DEF RunStates
  <2>3. Good(m, s, app[r], extras[r])
    BY <1>1, <1>2, <1>3, <1>5, <2>2 DEF Good, OnItsWay, Counted, Earned, Deserved, Tidy, HasFiles, Reached, Checked, Booted, Items, Apps, Extras
  <2> QED BY <1>1, <1>2, <1>5, <2>1, <2>3, MovesOn
<1>6. CASE run[r].item > Deliverables /\ Do(r, [run[r] EXCEPT !.pc = "finalize"])
  <2>1. PICK s \in RunStates : s = [o EXCEPT !.pc = "finalize"]
    BY  DEF RunStates, Checked, Booted
  <2>2. s.pc = "finalize" /\ s.item = o.item /\ s.ok = o.ok /\ s.reports = o.reports
        /\ s.port = o.port /\ s.files = o.files /\ s.status = o.status /\ s.timedOut = o.timedOut
    BY <2>1 DEF RunStates
  <2>3. Good(m, s, app[r], extras[r])
    BY <1>1, <1>2, <1>3, <1>6, <2>2 DEF Good, OnItsWay, Counted, Earned, Deserved, Tidy, HasFiles, Reached, Checked, Booted, Items, Apps, Extras
  <2> QED BY <1>1, <1>2, <1>6, <2>1, <2>3, MovesOn
<1> QED BY <1>4, <1>5, <1>6 DEF NextItem

\* A deliverable at hand is one of them.
LEMMA AtHand ==
  ASSUME SandboxInv, NEW r \in Runs, run[r].pc \in Checked \ {"finalize"}
  PROVE  mode[r] \in {"separate", "shared"} /\ run[r].item \in Items
<1>1. PICK m \in Modes, o \in RunStates : m = mode[r] /\ o = run[r] /\ Good(m, o, app[r], extras[r])
  BY Here
<1>2. m \in {"separate", "shared"} /\ o.pc \notin {"pick", "finalize"}
  BY <1>1 DEF Good, OnItsWay, Checked, Booted
<1>3. o.item # Deliverables + 1 /\ o.item \in 1..(Deliverables + 1)
  BY <1>1, <1>2 DEF Good, Counted, RunStates
<1>4. o.item \in Items
  BY <1>3, SandboxAssumption DEF Items
<1> QED BY <1>1, <1>2, <1>4

\* The handler of exceptions, and a failure reported, wherever a check stands.
LEMMA RaisedKeeps ==
  ASSUME SandboxInv, NEW r \in Runs, run[r].pc \in Checked \ {"finalize"},
         NEW a \in Apps, NEW x \in Extras
  PROVE  Good(mode[r], Raised(r), a, x)
<1>1. Good(mode[r], run[r], app[r], extras[r]) /\ run[r] \in RunStates
  BY Here
<1> QED BY <1>1, AtHand, RaisedState, Fails

LEMMA NotStartedKeeps ==
  ASSUME SandboxInv, NEW r \in Runs, run[r].pc \in Checked \ {"finalize"},
         NEW a \in Apps, NEW x \in Extras
  PROVE  Good(mode[r], ToCleanup(NotStarted(r)), a, x)
<1>1. Good(mode[r], run[r], app[r], extras[r]) /\ run[r] \in RunStates
  BY Here
<1>2. PICK n \in RunStates : n = NotStarted(r)
  BY AtHand, NotStartedState
<1>3. n.item = run[r].item /\ n.ok = FALSE
  BY <1>2, AtHand, NotStartedState
<1>4. PICK s \in RunStates : s = [n EXCEPT !.pc = "cleanup", !.files = FALSE]
  BY DEF RunStates, Checked
<1>5. s.pc = "cleanup" /\ s.item = run[r].item /\ s.ok = FALSE
  BY <1>3, <1>4 DEF RunStates
<1>6. Good(mode[r], s, a, x)
  BY <1>1, <1>5, AtHand, Fails
<1> QED BY <1>2, <1>4, <1>6 DEF ToCleanup

\* The dependencies of a starter are prepared, or not.
LEMMA PrepareKeeps ==
  ASSUME SandboxInv, NEW r \in Runs, Prepare(r)
  PROVE  SandboxInv'
<1>1. PICK m \in Modes, o \in RunStates : m = mode[r] /\ o = run[r] /\ Good(m, o, app[r], extras[r])
  BY Here
<1>2. o.pc = "prepare" /\ o.pc \in Checked \ {"finalize"} /\ UNCHANGED <<mode, app, extras>>
  BY <1>1 DEF Prepare, At, Keep, Checked
<1>3. CASE Do(r, Raised(r))
  BY <1>1, <1>2, <1>3, RaisedKeeps, Here, MovesOn
<1>4. CASE Do(r, ToCleanup(NotStarted(r)))
  BY <1>1, <1>2, <1>4, NotStartedKeeps, Here, MovesOn
<1>5. CASE m = "separate" /\ Do(r, [run[r] EXCEPT !.pc = "image"])
  <2>1. PICK s \in RunStates : s = [o EXCEPT !.pc = "image"]
    BY  DEF RunStates, Checked, Booted
  <2>2. s.pc = "image" /\ s.item = o.item /\ s.ok = o.ok /\ s.reports = o.reports
        /\ s.port = o.port /\ s.files = o.files /\ s.status = o.status /\ s.timedOut = o.timedOut
    BY <2>1 DEF RunStates
  <2>3. Good(m, s, app[r], extras[r])
    BY <1>1, <1>2, <1>5, <2>2 DEF Good, OnItsWay, Counted, Earned, Deserved, Tidy, HasFiles, Reached, Checked, Booted, Items, Apps, Extras
  <2> QED BY <1>1, <1>2, <1>5, <2>1, <2>3, MovesOn
<1>6. ASSUME m = "shared", NEW p \in Ports, Do(r, [run[r] EXCEPT !.pc = "image", !.port = p])
      PROVE  SandboxInv'
  <2>1. PICK s \in RunStates : s = [o EXCEPT !.pc = "image", !.port = p]
    BY  DEF RunStates, Checked, Booted
  <2>2. s.pc = "image" /\ s.item = o.item /\ s.ok = o.ok /\ s.reports = o.reports
        /\ s.port = p /\ s.files = o.files /\ s.status = o.status /\ s.timedOut = o.timedOut
    BY <2>1 DEF RunStates
  <2>3. Good(m, s, app[r], extras[r])
    BY <1>1, <1>2, <1>6, <2>2 DEF Good, OnItsWay, Counted, Earned, Deserved, Tidy, HasFiles, Reached, Checked, Booted, Items, Apps, Extras
  <2> QED BY <1>1, <1>2, <1>6, <2>1, <2>3, MovesOn
<1>7. CASE m = "shared" /\ Do(r, [NotStarted(r) EXCEPT !.pc = "finalize"])
  <2>1. PICK n \in RunStates : n = NotStarted(r)
    BY <1>1, <1>2, AtHand, NotStartedState
  <2>2. n.item = o.item /\ n.ok = FALSE
    BY <1>1, <1>2, <2>1, AtHand, NotStartedState
  <2>3. PICK s \in RunStates : s = [n EXCEPT !.pc = "finalize"]
    BY DEF RunStates, Checked
  <2>4. s.pc = "finalize" /\ s.item = o.item /\ s.ok = FALSE
    BY <2>2, <2>3 DEF RunStates
  <2>5. Good(m, s, app[r], extras[r])
    BY <1>1, <1>2, <1>7, <2>4 DEF Good, OnItsWay, Counted, Earned, Deserved, Tidy, HasFiles, Checked
  <2> QED BY <1>1, <1>2, <1>7, <2>1, <2>3, <2>5, MovesOn
<1> QED BY <1>1, <1>3, <1>4, <1>5, <1>6, <1>7 DEF Prepare, PrepareSeparate, PrepareShared

\* The image of a starter is built, or not.
LEMMA ImageKeeps ==
  ASSUME SandboxInv, NEW r \in Runs, Image(r)
  PROVE  SandboxInv'
<1>1. PICK m \in Modes, o \in RunStates : m = mode[r] /\ o = run[r] /\ Good(m, o, app[r], extras[r])
  BY Here
<1>2. o.pc = "image" /\ o.pc \in Checked \ {"finalize"} /\ UNCHANGED <<mode, app, extras>>
  BY <1>1 DEF Image, At, Keep, Checked
<1>3. CASE Do(r, Raised(r))
  BY <1>1, <1>2, <1>3, RaisedKeeps, Here, MovesOn
<1>4. CASE Do(r, ToCleanup(NotStarted(r)))
  BY <1>1, <1>2, <1>4, NotStartedKeeps, Here, MovesOn
<1>5. CASE Do(r, [run[r] EXCEPT !.pc = "services", !.files = TRUE])
  <2>1. PICK s \in RunStates : s = [o EXCEPT !.pc = "services", !.files = TRUE]
    BY  DEF RunStates, Checked, Booted
  <2>2. s.pc = "services" /\ s.item = o.item /\ s.ok = o.ok /\ s.reports = o.reports
        /\ s.port = o.port /\ s.files = TRUE /\ s.status = o.status /\ s.timedOut = o.timedOut
    BY <2>1 DEF RunStates
  <2>3. Good(m, s, app[r], extras[r])
    BY <1>1, <1>2, <2>2 DEF Good, OnItsWay, Counted, Earned, Deserved, Tidy, HasFiles, Reached, Checked, Booted, Items, Apps, Extras
  <2> QED BY <1>1, <1>2, <1>5, <2>1, <2>3, MovesOn
<1> QED BY <1>3, <1>4, <1>5 DEF Image

\* Support services start, or are removed.
LEMMA StartServicesKeeps ==
  ASSUME SandboxInv, NEW r \in Runs, StartServices(r)
  PROVE  SandboxInv'
<1>1. PICK m \in Modes, o \in RunStates : m = mode[r] /\ o = run[r] /\ Good(m, o, app[r], extras[r])
  BY Here
<1>2. o.pc = "services" /\ o.pc \in Checked \ {"finalize"} /\ UNCHANGED <<mode, app>>
  BY <1>1 DEF StartServices, At, Keep, Checked
<1>3. {"services", "network"} \in Extras /\ {"services"} \in Extras /\ {} \in Extras
  BY DEF Extras
<1>4. ASSUME NEW x \in Extras, extras' = [extras EXCEPT ![r] = x],
             Do(r, [run[r] EXCEPT !.pc = "launch"])
      PROVE  SandboxInv'
  <2>1. PICK s \in RunStates : s = [o EXCEPT !.pc = "launch"]
    BY  DEF RunStates, Checked, Booted
  <2>2. s.pc = "launch" /\ s.item = o.item /\ s.ok = o.ok /\ s.reports = o.reports
        /\ s.port = o.port /\ s.files = o.files /\ s.status = o.status /\ s.timedOut = o.timedOut
    BY <2>1 DEF RunStates
  <2>3. Good(m, s, app[r], x)
    BY <1>1, <1>2, <1>4, <2>2 DEF Good, OnItsWay, Counted, Earned, Deserved, Tidy, HasFiles, Reached, Checked, Booted, Items, Apps, Extras
  <2> QED BY <1>1, <1>2, <1>4, <2>1, <2>3, Here, Changes DEF Do
<1>5. ASSUME NEW left \in Extras, extras' = [extras EXCEPT ![r] = left], Do(r, Raised(r))
      PROVE  SandboxInv'
  BY <1>1, <1>2, <1>5, RaisedKeeps, Here, Changes DEF Do
<1> QED BY <1>3, <1>4, <1>5, Here DEF StartServices

\* A container starts, or may be left behind for the cleanup.
LEMMA LaunchKeeps ==
  ASSUME SandboxInv, NEW r \in Runs, Launch(r)
  PROVE  SandboxInv'
<1>1. PICK m \in Modes, o \in RunStates : m = mode[r] /\ o = run[r] /\ Good(m, o, app[r], extras[r])
  BY Here
<1>2. o.pc = "launch" /\ o.pc \in Checked \ {"finalize"} /\ UNCHANGED <<mode, extras>>
  BY <1>1 DEF Launch, At, Keep, Checked
<1>3. {"absent", "created", "up"} \subseteq Apps
  BY DEF Apps
<1>4. CASE app' = [app EXCEPT ![r] = "up"] /\ Do(r, [run[r] EXCEPT !.pc = "health"])
  <2>1. PICK s \in RunStates : s = [o EXCEPT !.pc = "health"]
    BY  DEF RunStates, Checked, Booted
  <2>2. s.pc = "health" /\ s.item = o.item /\ s.ok = o.ok /\ s.reports = o.reports
        /\ s.port = o.port /\ s.files = o.files /\ s.status = o.status /\ s.timedOut = o.timedOut
    BY <2>1 DEF RunStates
  <2>3. Good(m, s, "up", extras[r])
    BY <1>1, <1>2, <1>4, <2>2 DEF Good, OnItsWay, Counted, Earned, Deserved, Tidy, HasFiles, Reached, Checked, Booted, Items, Apps, Extras
  <2> QED BY <1>1, <1>2, <1>4, <2>1, <2>3, MovesApp
<1>5. ASSUME NEW a \in Apps, app' = [app EXCEPT ![r] = a], Do(r, Raised(r))
      PROVE  SandboxInv'
  BY <1>1, <1>2, <1>5, RaisedKeeps, Here, MovesApp
<1>6. ASSUME NEW a \in Apps, app' = [app EXCEPT ![r] = a], Do(r, ToCleanup(NotStarted(r)))
      PROVE  SandboxInv'
  BY <1>1, <1>2, <1>6, NotStartedKeeps, Here, MovesApp
<1> QED BY <1>3, <1>4, <1>5, <1>6 DEF Launch

\* Somebody answers at the port, or nobody does.
LEMMA HealthKeeps ==
  ASSUME SandboxInv, NEW r \in Runs, Health(r)
  PROVE  SandboxInv'
<1>1. PICK m \in Modes, o \in RunStates : m = mode[r] /\ o = run[r] /\ Good(m, o, app[r], extras[r])
  BY Here
<1>2. o.pc = "health" /\ o.pc \in Checked \ {"finalize"} /\ UNCHANGED <<mode, app, extras>>
  BY <1>1 DEF Health, At, Keep, Checked
<1>3. CASE Do(r, Raised(r))
  BY <1>1, <1>2, <1>3, RaisedKeeps, Here, MovesOn
<1>4. CASE Do(r, [run[r] EXCEPT !.pc = "probe", !.files = mode[r] = "shared"])
  <2>0. PICK b \in BOOLEAN : b = (m = "shared")
    OBVIOUS
  <2>1. PICK s \in RunStates : s = [o EXCEPT !.pc = "probe", !.files = b]
    BY  DEF RunStates, Checked, Booted
  <2>2. s.pc = "probe" /\ s.item = o.item /\ s.ok = o.ok /\ s.reports = o.reports
        /\ s.port = o.port /\ s.files = b /\ s.status = o.status /\ s.timedOut = o.timedOut
    BY <2>1 DEF RunStates
  <2>3. Good(m, s, app[r], extras[r])
    BY <1>1, <1>2, <2>0, <2>2 DEF Good, OnItsWay, Counted, Earned, Deserved, Tidy, HasFiles, Reached, Checked, Booted, Items, Apps, Extras
  <2> QED BY <1>1, <1>2, <1>4, <2>0, <2>1, <2>3, MovesOn
<1> QED BY <1>3, <1>4 DEF Health

\* The app of an execution exits.
LEMMA AppDiesKeeps ==
  ASSUME SandboxInv, NEW r \in Runs, AppDies(r)
  PROVE  SandboxInv'
<1>1. PICK m \in Modes, o \in RunStates : m = mode[r] /\ o = run[r] /\ Good(m, o, app[r], extras[r])
  BY Here
<1>2. PICK a \in Apps : a \in {"absent", "dead"} /\ app' = [app EXCEPT ![r] = a]
  BY DEF AppDies, Apps
<1>3. Good(m, o, a, extras[r])
  BY <1>1, <1>2 DEF AppDies, Good, Tidy
<1>4. run' = [run EXCEPT ![r] = o] /\ UNCHANGED <<mode, extras>>
  BY <1>1 DEF AppDies, SandboxInv
<1> QED BY <1>1, <1>2, <1>3, <1>4, MovesApp DEF Do

\* A legacy runtime passes, fails or takes too long.
LEMMA RunRuntimeKeeps ==
  ASSUME SandboxInv, NEW r \in Runs, RunRuntime(r)
  PROVE  SandboxInv'
<1>1. PICK m \in Modes, o \in RunStates : m = mode[r] /\ o = run[r] /\ Good(m, o, app[r], extras[r])
  BY Here
<1>2. o.pc = "container" /\ UNCHANGED <<mode, extras>> /\ m = "runtime"
  BY <1>1 DEF RunRuntime, At, Keep, Good, OnItsWay, Checked, Booted
<1>3. app[r] = "absent" /\ extras[r] = {} /\ {"absent", "up"} \subseteq Apps /\ {} \in Extras
  BY <1>1, <1>2 DEF Good, Tidy, Apps, Extras
<1>4. CASE Do(r, [Returned(r, "passed") EXCEPT !.reports = {<<d, "none">> : d \in Items}]) /\ UNCHANGED app
  <2>1. PICK n \in RunStates : n = Returned(r, "passed")
    BY ReturnedState
  <2>2. n.pc = "done" /\ n.item = 1 /\ n.status = "passed"
    BY <2>1, ReturnedState
  <2>3. {<<d, "none">> : d \in Items} \in SUBSET (Items \X Stages)
    BY DEF Stages
  <2>4. PICK s \in RunStates : s = [n EXCEPT !.reports = {<<d, "none">> : d \in Items}]
    BY <2>3 DEF RunStates
  <2>5. s.pc = "done" /\ s.item = 1 /\ s.status = "passed"
    BY <2>2, <2>4 DEF RunStates
  <2>6. s.item # Deliverables + 1
    BY <2>5, SandboxAssumption
  <2>7. Good(m, s, app[r], extras[r])
    BY <1>2, <1>3, <2>5, <2>6 DEF Good, OnItsWay, Counted, Earned, Deserved, Tidy, HasFiles, Apps, Extras, Modes
  <2> QED BY <1>1, <1>2, <1>4, <2>1, <2>4, <2>7, MovesOn
<1>5. CASE Do(r, Returned(r, "failed")) /\ UNCHANGED app
  <2>1. Good(m, Returned(r, "failed"), app[r], extras[r])
    BY <1>3, ReturnedState, Returns
  <2> QED BY <1>1, <1>2, <1>5, <2>1, MovesOn
<1>6. CASE Do(r, TimedOut(r)) /\ app' = [app EXCEPT ![r] = "up"]
  <2>1. Good(m, TimedOut(r), "up", extras[r])
    BY <1>3, TimedOutState, Returns
  <2> QED BY <1>1, <1>2, <1>6, <2>1, MovesApp
<1> QED BY <1>4, <1>5, <1>6 DEF RunRuntime

\* A separate starter is probed.
LEMMA ProbeSeparateKeeps ==
  ASSUME SandboxInv, NEW r \in Runs, ProbeSeparate(r), At(r, "probe"), UNCHANGED <<mode, app, extras>>
  PROVE  SandboxInv'
<1>1. PICK m \in Modes, o \in RunStates : m = mode[r] /\ o = run[r] /\ Good(m, o, app[r], extras[r])
  BY Here
<1>2. o.pc = "probe" /\ o.pc \in Checked \ {"finalize"} /\ m = "separate" /\ o.item \in Items
  BY <1>1, AtHand DEF ProbeSeparate, At, Checked
<1>3. PICK contract \in BOOLEAN, checks \in BOOLEAN :
        Do(r, ToCleanup([run[r] EXCEPT !.ok = @ /\ contract,
                !.reports = @ \cup {<<run[r].item, Stage(contract, checks)>>}]))
  BY DEF ProbeSeparate
<1>4. PICK stage \in Stages : stage = Stage(contract, checks) /\ (contract => stage \in {"none", "checks"})
  BY DEF Stage, Stages
<1>5. PICK new \in SUBSET (Items \X Stages) : new = o.reports \cup {<<o.item, stage>>}
  <2>1. o.reports \in SUBSET (Items \X Stages)
    BY DEF RunStates
  <2>2. <<o.item, stage>> \in Items \X Stages
    BY <1>2
  <2> QED BY <2>1, <2>2
<1>6. PICK ok \in BOOLEAN : ok = (o.ok /\ contract)
  OBVIOUS
<1>7. PICK n \in RunStates : n = [o EXCEPT !.ok = ok, !.reports = new]
  BY DEF RunStates
<1>8. PICK s \in RunStates : s = [n EXCEPT !.pc = "cleanup", !.files = FALSE]
  BY DEF RunStates, Checked
<1>9. s.pc = "cleanup" /\ s.item = o.item /\ s.ok = ok /\ s.reports = new /\ s.status = o.status
  BY <1>7, <1>8 DEF RunStates
<1>10. Do(r, s)
  BY <1>1, <1>3, <1>4, <1>5, <1>6, <1>7, <1>8 DEF ToCleanup
<1>11. Counted(m, s)
  BY <1>2, <1>9, SandboxAssumption DEF Counted, Items
<1>12. Earned(m, s)
  <2> SUFFICES ASSUME ok, NEW d \in Items, d < s.item \/ d = s.item PROVE Reached(m, s, d)
    BY <1>2, <1>9 DEF Earned
  <2>1. contract /\ o.ok
    BY <1>6
  <2>2. CASE d < s.item
    <3>1. Reached(m, o, d)
      BY <1>1, <1>2, <1>9, <2>1, <2>2 DEF Good, Earned
    <3> QED BY <1>2, <1>5, <1>9, <3>1 DEF Reached
  <2>3. CASE d = s.item
    BY <1>2, <1>4, <1>5, <1>9, <2>1, <2>3 DEF Reached
  <2> QED BY <2>2, <2>3
<1>13. Good(m, s, app[r], extras[r])
  BY <1>1, <1>2, <1>9, <1>11, <1>12 DEF Good, OnItsWay, Deserved, Tidy, HasFiles, Checked
<1> QED BY <1>1, <1>10, <1>13, MovesOn

\* A shared app is probed about a deliverable.
LEMMA ProbeSharedKeeps ==
  ASSUME SandboxInv, NEW r \in Runs, ProbeShared(r), At(r, "probe"), UNCHANGED <<mode, app, extras>>
  PROVE  SandboxInv'
<1>1. PICK m \in Modes, o \in RunStates : m = mode[r] /\ o = run[r] /\ Good(m, o, app[r], extras[r])
  BY Here
<1>2. o.pc = "probe" /\ o.pc \in Checked \ {"finalize"} /\ m = "shared" /\ o.item \in Items
  BY <1>1, AtHand DEF ProbeShared, At, Checked
<1>3. PICK contract \in BOOLEAN, checks \in BOOLEAN, script \in BOOLEAN :
        LET stop == ~contract \/ (~checks /\ script)
            local == [run[r] EXCEPT !.ok = @ /\ contract /\ checks,
                        !.reports = @ \cup {<<run[r].item, Stage(contract, checks)>>}]
        IN  Do(r, IF ~stop /\ run[r].item < Deliverables
                  THEN [local EXCEPT !.item = @ + 1] ELSE ToCleanup(local))
  BY DEF ProbeShared
<1>4. PICK stage \in Stages : stage = Stage(contract, checks) /\ (contract /\ checks => stage = "none")
  BY DEF Stage, Stages
<1>5. PICK new \in SUBSET (Items \X Stages) : new = o.reports \cup {<<o.item, stage>>}
  <2>1. o.reports \in SUBSET (Items \X Stages)
    BY DEF RunStates
  <2>2. <<o.item, stage>> \in Items \X Stages
    BY <1>2
  <2> QED BY <2>1, <2>2
<1>6. PICK ok \in BOOLEAN : ok = (o.ok /\ contract /\ checks)
  OBVIOUS
<1>7. PICK n \in RunStates : n = [o EXCEPT !.ok = ok, !.reports = new]
  BY DEF RunStates
<1>8. n.pc = "probe" /\ n.item = o.item /\ n.ok = ok /\ n.reports = new /\ n.status = o.status /\ n.files = o.files
  BY <1>2, <1>7 DEF RunStates
<1>9. \A d \in Items : ok /\ d <= o.item => <<d, "none">> \in new
  <2> SUFFICES ASSUME NEW d \in Items, ok, d <= o.item PROVE <<d, "none">> \in new
    OBVIOUS
  <2>1. contract /\ checks /\ o.ok
    BY <1>6
  <2>2. CASE d < o.item
    <3>1. Reached(m, o, d)
      BY <1>1, <1>2, <2>1, <2>2 DEF Good, Earned
    <3> QED BY <1>2, <1>5, <3>1 DEF Reached
  <2>3. CASE d = o.item
    BY <1>4, <1>5, <2>1, <2>3
  <2>4. d < o.item \/ d = o.item
    BY <1>2, SandboxAssumption DEF Items
  <2> QED BY <2>2, <2>3, <2>4
<1>10. Do(r, IF ~(~contract \/ (~checks /\ script)) /\ o.item < Deliverables
             THEN [n EXCEPT !.item = @ + 1] ELSE ToCleanup(n))
  BY <1>1, <1>3, <1>4, <1>5, <1>6, <1>7
<1>11. CASE ~(~contract \/ (~checks /\ script)) /\ o.item < Deliverables
  <2>1. o.item + 1 \in Items /\ o.item + 1 \in 1..(Deliverables + 1) /\ o.item + 1 # Deliverables + 1
    BY <1>2, <1>11, SandboxAssumption DEF Items
  <2>2. PICK s \in RunStates : s = [n EXCEPT !.item = o.item + 1]
    BY <2>1 DEF RunStates
  <2>3. s.pc = "probe" /\ s.item = o.item + 1 /\ s.ok = ok /\ s.reports = new /\ s.status = o.status /\ s.files = o.files
    BY <1>8, <2>2 DEF RunStates
  <2>4. \A d \in Items : d < o.item + 1 => d <= o.item
    BY <1>2, SandboxAssumption DEF Items
  <2>5. Earned(m, s)
    BY <1>2, <1>9, <2>3, <2>4 DEF Earned, Reached
  <2>6. Counted(m, s)
    BY <2>1, <2>3 DEF Counted
  <2>7. Good(m, s, app[r], extras[r])
    BY <1>1, <1>2, <2>3, <2>5, <2>6 DEF Good, OnItsWay, Deserved, Tidy, HasFiles, Checked
  <2> QED BY <1>1, <1>8, <1>10, <1>11, <2>2, <2>7, MovesOn
<1>12. CASE ~(~(~contract \/ (~checks /\ script)) /\ o.item < Deliverables)
  <2>1. PICK s \in RunStates : s = [n EXCEPT !.pc = "cleanup", !.files = FALSE]
    BY DEF RunStates, Checked
  <2>2. s.pc = "cleanup" /\ s.item = o.item /\ s.ok = ok /\ s.reports = new /\ s.status = o.status
    BY <1>8, <2>1 DEF RunStates
  <2>3. ok => \A d \in Items : d <= o.item
    BY <1>2, <1>6, <1>12, SandboxAssumption DEF Items
  <2>4. Earned(m, s)
    BY <1>2, <1>9, <2>2, <2>3 DEF Earned, Reached
  <2>5. Counted(m, s)
    BY <1>2, <2>2, SandboxAssumption DEF Counted, Items
  <2>6. Good(m, s, app[r], extras[r])
    BY <1>1, <1>2, <2>2, <2>4, <2>5 DEF Good, OnItsWay, Deserved, Tidy, HasFiles, Checked
  <2> QED BY <1>1, <1>10, <1>12, <2>1, <2>6, MovesOn DEF ToCleanup
<1> QED BY <1>11, <1>12

\* A probe, or an exception in it.
LEMMA ProbeKeeps ==
  ASSUME SandboxInv, NEW r \in Runs, Probe(r)
  PROVE  SandboxInv'
<1>1. run[r].pc \in Checked \ {"finalize"} /\ UNCHANGED <<mode, app, extras>> /\ At(r, "probe")
  BY DEF Probe, At, Checked
<1>2. CASE Do(r, Raised(r))
  BY <1>1, <1>2, RaisedKeeps, Here, MovesOn
<1> QED BY <1>1, <1>2, ProbeSeparateKeeps, ProbeSharedKeeps DEF Probe

\* Containers are removed, or docker takes too long.
LEMMA CleanupKeeps ==
  ASSUME SandboxInv, NEW r \in Runs, Cleanup(r)
  PROVE  SandboxInv'
<1>1. PICK m \in Modes, o \in RunStates : m = mode[r] /\ o = run[r] /\ Good(m, o, app[r], extras[r])
  BY Here
<1>2. o.pc = "cleanup" /\ o.pc \in Checked \ {"finalize"} /\ UNCHANGED mode
      /\ m \in {"separate", "shared"} /\ o.item \in Items
  BY <1>1, AtHand DEF Cleanup, At, Keep, Checked
<1>3. {} \in Extras /\ "absent" \in Apps /\ app[r] \in Apps /\ extras[r] \in Extras
  BY Here DEF Extras, Apps
<1>4. CASE /\ app' = [app EXCEPT ![r] = "absent"] /\ extras' = [extras EXCEPT ![r] = {}]
           /\ m = "shared" /\ Do(r, [run[r] EXCEPT !.pc = "finalize", !.port = 0])
  <2>1. PICK s \in RunStates : s = [o EXCEPT !.pc = "finalize", !.port = 0]
    BY  DEF RunStates, Checked, Booted
  <2>2. s.pc = "finalize" /\ s.item = o.item /\ s.ok = o.ok /\ s.reports = o.reports
        /\ s.port = 0 /\ s.files = o.files /\ s.status = o.status /\ s.timedOut = o.timedOut
    BY <2>1 DEF RunStates
  <2>3. Good(m, s, "absent", {})
    BY <1>1, <1>2, <1>3, <1>4, <2>2 DEF Good, OnItsWay, Counted, Earned, Deserved, Tidy, HasFiles, Reached, Checked, Booted, Items, Apps, Extras
  <2> QED BY <1>1, <1>2, <1>4, <2>1, <2>3, Changes DEF Do
<1>5. CASE /\ app' = [app EXCEPT ![r] = "absent"] /\ extras' = [extras EXCEPT ![r] = {}]
           /\ m = "separate" /\ Do(r, [run[r] EXCEPT !.pc = "pick", !.item = @ + 1, !.port = 0])
  <2>1. PICK n \in 1..(Deliverables + 1) : n = o.item + 1 /\ \A d \in Items : d < n => d < o.item \/ d = o.item
    BY <1>2, SandboxAssumption DEF Items
  <2>2. PICK s \in RunStates : s = [o EXCEPT !.pc = "pick", !.item = n, !.port = 0]
    BY DEF RunStates
  <2>3. s.pc = "pick" /\ s.item = n /\ s.ok = o.ok /\ s.reports = o.reports /\ s.status = o.status
    BY <2>2 DEF RunStates
  <2>4. Earned(m, s)
    BY <1>1, <1>2, <1>5, <2>1, <2>3 DEF Good, Earned, Reached
  <2>5. Good(m, s, "absent", {})
    BY <1>2, <1>3, <1>5, <2>3, <2>4 DEF Good, OnItsWay, Counted, Deserved, Tidy, HasFiles, Apps, Extras
  <2> QED BY <1>1, <1>2, <1>5, <2>1, <2>2, <2>5, Changes DEF Do
<1>6. ASSUME NEW a \in Apps, app' = [app EXCEPT ![r] = a], UNCHANGED extras, Do(r, TimedOut(r))
      PROVE  SandboxInv'
  <2>1. Good(m, TimedOut(r), a, extras[r])
    BY <1>3, TimedOutState, Returns
  <2> QED BY <1>1, <1>2, <1>6, <2>1, MovesApp
<1> QED BY <1>1, <1>2, <1>3, <1>4, <1>5, <1>6, Here DEF Cleanup

\* A starter passes if nothing failed and something was reported.
LEMMA FinalizeKeeps ==
  ASSUME SandboxInv, NEW r \in Runs, Finalize(r)
  PROVE  SandboxInv'
<1>1. PICK m \in Modes, o \in RunStates : m = mode[r] /\ o = run[r] /\ Good(m, o, app[r], extras[r])
  BY Here
<1>2. o.pc = "finalize" /\ UNCHANGED <<mode, app, extras>> /\ m \in {"separate", "shared"}
      /\ app[r] = "absent" /\ extras[r] = {}
  BY <1>1 DEF Finalize, At, Keep, Good, OnItsWay, Tidy, Checked, Booted
<1>3. PICK status \in {"passed", "failed"} :
        Do(r, Returned(r, status)) /\ (status = "passed" => o.ok)
  BY <1>1 DEF Finalize
<1>4. PICK s \in RunStates : s = Returned(r, status)
  BY ReturnedState
<1>5. s.pc = "done" /\ s.item = 1 /\ s.status = status /\ s.reports = o.reports
  BY <1>1, <1>4, ReturnedState
<1>6. s.item # Deliverables + 1 /\ \A d \in Items : ~(d < s.item)
  BY <1>5, SandboxAssumption DEF Items
<1>7. o.ok => \A d \in Items : Reached(m, o, d)
  <2> SUFFICES ASSUME o.ok, NEW d \in Items PROVE Reached(m, o, d)
    OBVIOUS
  <2>1. m = "separate" => d < o.item
    BY <1>1, <1>2, SandboxAssumption DEF Good, Counted, Items
  <2> QED BY <1>1, <1>2, <2>1 DEF Good, Earned
<1>8. Deserved(m, s)
  BY <1>2, <1>3, <1>5, <1>7 DEF Deserved, Reached
<1>9. Counted(m, s) /\ Earned(m, s)
  BY <1>5, <1>6 DEF Counted, Earned
<1>10. Good(m, s, app[r], extras[r])
  BY <1>1, <1>2, <1>5, <1>8, <1>9 DEF Good, OnItsWay, Tidy, HasFiles
<1> QED BY <1>1, <1>2, <1>3, <1>4, <1>10, MovesOn
\* What a workspace needs is there, or not.
LEMMA ProvisionKeeps ==
  ASSUME SandboxInv, NEW r \in Runs, Provision(r)
  PROVE  SandboxInv'
<1>1. PICK m \in Modes, o \in RunStates : m = mode[r] /\ o = run[r] /\ Good(m, o, app[r], extras[r])
  BY Here
<1>2. o.pc = "provision" /\ UNCHANGED <<mode, app, extras>> /\ m \in {"outcome", "sidecar"}
  BY <1>1 DEF Provision, At, Keep, Good, OnItsWay, Checked, Booted
<1>3. app[r] = "absent" /\ extras[r] = {} /\ {"absent", "created", "up"} \subseteq Apps /\ {} \in Extras
  BY <1>1, <1>2 DEF Good, Tidy, Apps, Extras
<1>4. CASE m # "sidecar" /\ Do(r, [run[r] EXCEPT !.pc = "build workspace"])
  <2>1. PICK s \in RunStates : s = [o EXCEPT !.pc = "build workspace"]
    BY  DEF RunStates, Checked, Booted
  <2>2. s.pc = "build workspace" /\ s.item = o.item /\ s.ok = o.ok /\ s.reports = o.reports
        /\ s.port = o.port /\ s.files = o.files /\ s.status = o.status /\ s.timedOut = o.timedOut
    BY <2>1 DEF RunStates
  <2>3. Good(m, s, app[r], extras[r])
    BY <1>1, <1>2, <1>4, <2>2 DEF Good, OnItsWay, Counted, Earned, Deserved, Tidy, HasFiles, Reached, Checked, Booted, Items, Apps, Extras
  <2> QED BY <1>1, <1>2, <1>4, <2>1, <2>3, MovesOn
<1>5. CASE Do(r, Returned(r, "failed"))
  <2>1. Good(m, Returned(r, "failed"), app[r], extras[r])
    BY <1>3, ReturnedState, Returns
  <2> QED BY <1>1, <1>2, <1>5, <2>1, MovesOn
<1> QED BY <1>1, <1>4, <1>5 DEF Provision

\* The image of a workspace is built and a port found, or not.
LEMMA BuildWorkspaceKeeps ==
  ASSUME SandboxInv, NEW r \in Runs, BuildWorkspace(r)
  PROVE  SandboxInv'
<1>1. PICK m \in Modes, o \in RunStates : m = mode[r] /\ o = run[r] /\ Good(m, o, app[r], extras[r])
  BY Here
<1>2. o.pc = "build workspace" /\ UNCHANGED <<mode, app, extras>> /\ m = "outcome"
  BY <1>1 DEF BuildWorkspace, At, Keep, Good, OnItsWay, Checked, Booted
<1>3. app[r] = "absent" /\ extras[r] = {} /\ {"absent", "created", "up"} \subseteq Apps /\ {} \in Extras
  BY <1>1, <1>2 DEF Good, Tidy, Apps, Extras
<1>4. ASSUME NEW p \in Ports, Do(r, [run[r] EXCEPT !.pc = "run", !.port = p])
      PROVE  SandboxInv'
  <2>1. PICK s \in RunStates : s = [o EXCEPT !.pc = "run", !.port = p]
    BY  DEF RunStates, Checked, Booted
  <2>2. s.pc = "run" /\ s.item = o.item /\ s.ok = o.ok /\ s.reports = o.reports
        /\ s.port = p /\ s.files = o.files /\ s.status = o.status /\ s.timedOut = o.timedOut
    BY <2>1 DEF RunStates
  <2>3. Good(m, s, app[r], extras[r])
    BY <1>1, <1>2, <1>4, <2>2 DEF Good, OnItsWay, Counted, Earned, Deserved, Tidy, HasFiles, Reached, Checked, Booted, Items, Apps, Extras
  <2> QED BY <1>1, <1>2, <1>4, <2>1, <2>3, MovesOn
<1>5. CASE Do(r, Returned(r, "failed"))
  <2>1. Good(m, Returned(r, "failed"), app[r], extras[r])
    BY <1>3, ReturnedState, Returns
  <2> QED BY <1>1, <1>2, <1>5, <2>1, MovesOn
<1> QED BY <1>4, <1>5 DEF BuildWorkspace

\* A workspace is started, or what is left of it says that it took too long.
LEMMA StartWorkspaceKeeps ==
  ASSUME SandboxInv, NEW r \in Runs, StartWorkspace(r)
  PROVE  SandboxInv'
<1>1. PICK m \in Modes, o \in RunStates : m = mode[r] /\ o = run[r] /\ Good(m, o, app[r], extras[r])
  BY Here
<1>2. o.pc = "run" /\ UNCHANGED <<mode, extras>> /\ m = "outcome"
  BY <1>1 DEF StartWorkspace, At, Keep, Good, OnItsWay, Checked, Booted
<1>3. app[r] = "absent" /\ extras[r] = {} /\ {"absent", "created", "up"} \subseteq Apps /\ {} \in Extras
  BY <1>1, <1>2 DEF Good, Tidy, Apps, Extras
<1>4. CASE app' = [app EXCEPT ![r] = "up"] /\ Do(r, [run[r] EXCEPT !.pc = "poll"])
  <2>1. PICK s \in RunStates : s = [o EXCEPT !.pc = "poll"]
    BY  DEF RunStates, Checked, Booted
  <2>2. s.pc = "poll" /\ s.item = o.item /\ s.ok = o.ok /\ s.reports = o.reports
        /\ s.port = o.port /\ s.files = o.files /\ s.status = o.status /\ s.timedOut = o.timedOut
    BY <2>1 DEF RunStates
  <2>3. Good(m, s, "up", extras[r])
    BY <1>1, <1>2, <1>3, <1>4, <2>2 DEF Good, OnItsWay, Counted, Earned, Deserved, Tidy, HasFiles, Reached, Checked, Booted, Items, Apps, Extras
  <2> QED BY <1>1, <1>2, <1>4, <2>1, <2>3, MovesApp
<1>5. CASE Do(r, Returned(r, "failed")) /\ UNCHANGED app
  <2>1. Good(m, Returned(r, "failed"), app[r], extras[r])
    BY <1>3, ReturnedState, Returns
  <2> QED BY <1>1, <1>2, <1>5, <2>1, MovesOn
<1>6. ASSUME NEW a \in Apps, app' = [app EXCEPT ![r] = a], Do(r, TimedOut(r))
      PROVE  SandboxInv'
  <2>1. Good(m, TimedOut(r), a, extras[r])
    BY <1>3, TimedOutState, Returns
  <2> QED BY <1>1, <1>2, <1>6, <2>1, MovesApp
<1> QED BY <1>3, <1>4, <1>5, <1>6 DEF StartWorkspace

\* A workspace gets healthy, or is torn down.
LEMMA PollHealthKeeps ==
  ASSUME SandboxInv, NEW r \in Runs, PollHealth(r)
  PROVE  SandboxInv'
<1>1. PICK m \in Modes, o \in RunStates : m = mode[r] /\ o = run[r] /\ Good(m, o, app[r], extras[r])
  BY Here
<1>2. o.pc = "poll" /\ UNCHANGED <<mode, app, extras>> /\ m = "outcome"
  BY <1>1 DEF PollHealth, At, Keep, Good, OnItsWay, Checked, Booted
<1>3. CASE Do(r, [run[r] EXCEPT !.pc = "use"])
  <2>1. PICK s \in RunStates : s = [o EXCEPT !.pc = "use"]
    BY  DEF RunStates, Checked, Booted
  <2>2. s.pc = "use" /\ s.item = o.item /\ s.ok = o.ok /\ s.reports = o.reports
        /\ s.port = o.port /\ s.files = o.files /\ s.status = o.status /\ s.timedOut = o.timedOut
    BY <2>1 DEF RunStates
  <2>3. Good(m, s, app[r], extras[r])
    BY <1>1, <1>2, <2>2 DEF Good, OnItsWay, Counted, Earned, Deserved, Tidy, HasFiles, Reached, Checked, Booted, Items, Apps, Extras
  <2> QED BY <1>1, <1>2, <1>3, <2>1, <2>3, MovesOn
<1>4. CASE Do(r, [run[r] EXCEPT !.pc = "teardown", !.ok = FALSE])
  <2>1. PICK s \in RunStates : s = [o EXCEPT !.pc = "teardown", !.ok = FALSE]
    BY  DEF RunStates, Checked, Booted
  <2>2. s.pc = "teardown" /\ s.item = o.item /\ s.ok = FALSE /\ s.reports = o.reports
        /\ s.port = o.port /\ s.files = o.files /\ s.status = o.status /\ s.timedOut = o.timedOut
    BY <2>1 DEF RunStates
  <2>3. Good(m, s, app[r], extras[r])
    BY <1>1, <1>2, <2>2 DEF Good, OnItsWay, Counted, Earned, Deserved, Tidy, HasFiles, Reached, Checked, Booted, Items, Apps, Extras
  <2> QED BY <1>1, <1>2, <1>4, <2>1, <2>3, MovesOn
<1> QED BY <1>3, <1>4 DEF PollHealth

\* A workspace is used, and the contract with it.
LEMMA UseWorkspaceKeeps ==
  ASSUME SandboxInv, NEW r \in Runs, UseWorkspace(r)
  PROVE  SandboxInv'
<1>1. PICK m \in Modes, o \in RunStates : m = mode[r] /\ o = run[r] /\ Good(m, o, app[r], extras[r])
  BY Here
<1>2. o.pc = "use" /\ UNCHANGED <<mode, app, extras>> /\ m = "outcome"
  BY <1>1 DEF UseWorkspace, At, Keep, Good, OnItsWay, Checked, Booted
<1>3. PICK passed \in BOOLEAN :
        Do(r, [run[r] EXCEPT !.pc = "teardown", !.ok = passed, !.reports = {<<1, Stage(passed, TRUE)>>}])
  BY DEF UseWorkspace
<1>4. PICK stage \in Stages : stage = Stage(passed, TRUE) /\ (passed => stage = "none")
  BY DEF Stage, Stages
<1>5. {<<1, stage>>} \in SUBSET (Items \X Stages)
  <2>1. 1 \in Items
    BY SandboxAssumption DEF Items
  <2> QED BY <2>1
<1>6. PICK s \in RunStates : s = [o EXCEPT !.pc = "teardown", !.ok = passed, !.reports = {<<1, stage>>}]
  BY <1>5 DEF RunStates, Checked, Booted
<1>7. s.pc = "teardown" /\ s.item = o.item /\ s.ok = passed /\ s.reports = {<<1, stage>>}
      /\ s.port = o.port /\ s.files = o.files /\ s.status = o.status /\ s.timedOut = o.timedOut
  BY <1>6 DEF RunStates
<1>8. Good(m, s, app[r], extras[r])
  BY <1>1, <1>2, <1>4, <1>7 DEF Good, OnItsWay, Counted, Earned, Deserved, Tidy, HasFiles, Reached, Checked, Booted, Items, Apps, Extras
<1> QED BY <1>1, <1>2, <1>3, <1>4, <1>6, <1>8, MovesOn

\* A workspace is torn down, as well as may be.
LEMMA TeardownKeeps ==
  ASSUME SandboxInv, NEW r \in Runs, Teardown(r)
  PROVE  SandboxInv'
<1>1. PICK m \in Modes, o \in RunStates : m = mode[r] /\ o = run[r] /\ Good(m, o, app[r], extras[r])
  BY Here
<1>2. o.pc = "teardown" /\ UNCHANGED <<mode, extras>> /\ m = "outcome"
  BY <1>1 DEF Teardown, At, Keep, Good, OnItsWay, Checked, Booted
<1>3. extras[r] = {} /\ app[r] \in Apps /\ "absent" \in Apps /\ {} \in Extras
  BY <1>1, <1>2 DEF Good, Tidy, Apps, Extras
<1>4. PICK status \in {"passed", "failed"} :
        /\ status = IF run[r].ok THEN "passed" ELSE "failed"
        /\ \/ app' = [app EXCEPT ![r] = "absent"] /\ Do(r, Returned(r, status))
           \/ UNCHANGED app /\ Do(r, [Returned(r, status) EXCEPT !.timedOut = TRUE])
  BY DEF Teardown
<1>5. PICK n \in RunStates : n = Returned(r, status)
  BY ReturnedState
<1>6. n.pc = "done" /\ n.item = 1 /\ n.status = status /\ n.reports = o.reports
  BY <1>1, <1>5, ReturnedState
<1>7. status = "passed" => <<1, "none">> \in o.reports
  BY <1>1, <1>2, <1>4 DEF Good, Earned
<1>8. ASSUME NEW s \in RunStates, s.pc = "done", s.item = 1, s.status = status, s.reports = o.reports,
             NEW a \in Apps, a = "absent" \/ s.timedOut
      PROVE  Good(m, s, a, extras[r])
  <2>1. s.item # Deliverables + 1
    BY <1>8, SandboxAssumption
  <2>2. Counted(m, s) /\ Earned(m, s)
    BY <1>2, <1>8, <2>1 DEF Counted, Earned
  <2> QED BY <1>2, <1>3, <1>7, <1>8, <2>2 DEF Good, OnItsWay, Deserved, Tidy, HasFiles, Apps, Extras
<1>9. CASE app' = [app EXCEPT ![r] = "absent"] /\ Do(r, n)
  <2>1. Good(m, n, "absent", extras[r])
    BY <1>3, <1>6, <1>8
  <2> QED BY <1>1, <1>2, <1>9, <2>1, MovesApp
<1>10. CASE UNCHANGED app /\ Do(r, [n EXCEPT !.timedOut = TRUE])
  <2>1. PICK s \in RunStates : s = [n EXCEPT !.timedOut = TRUE]
    BY DEF RunStates
  <2>2. s.pc = "done" /\ s.item = 1 /\ s.status = status /\ s.reports = o.reports /\ s.timedOut = TRUE
    BY <1>6, <2>1 DEF RunStates
  <2>3. Good(m, s, app[r], extras[r])
    BY <1>3, <1>8, <2>2
  <2> QED BY <1>1, <1>2, <1>10, <2>1, <2>3, MovesOn
<1> QED BY <1>4, <1>5, <1>9, <1>10

-----------------------------------------------------------------------------
(* Theorems *)

\* Every step keeps the invariant.
LEMMA SandboxNextKeeps ==
  ASSUME SandboxInv, [SandboxNext]_sandboxVars
  PROVE  SandboxInv'
<1>1. CASE UNCHANGED sandboxVars
  BY <1>1 DEF sandboxVars, SandboxInv
<1>2. ASSUME NEW r \in Runs, Step(r) PROVE SandboxInv'
  BY <1>2, ExecuteKeeps, BuildRuntimeKeeps, RunRuntimeKeeps, NextItemKeeps, PrepareKeeps, ImageKeeps,
     StartServicesKeeps, LaunchKeeps, HealthKeeps, ProbeKeeps, CleanupKeeps, FinalizeKeeps,
     ProvisionKeeps, BuildWorkspaceKeeps, StartWorkspaceKeeps, PollHealthKeeps, UseWorkspaceKeeps,
     TeardownKeeps
     DEF Step, BootWorkspace
<1> QED BY <1>1, <1>2, AppDiesKeeps DEF SandboxNext

\* It holds in the beginning.
LEMMA SandboxInitHolds == SandboxInit => SandboxInv
<1> SUFFICES ASSUME SandboxInit PROVE SandboxInv
  OBVIOUS
<1>1. /\ mode = [r \in Runs |-> mode[r]] /\ run = [r \in Runs |-> run[r]]
      /\ app = [r \in Runs |-> app[r]] /\ extras = [r \in Runs |-> extras[r]]
      /\ \A r \in Runs : mode[r] \in Modes
  BY DEF SandboxInit
<1>2. ASSUME NEW r \in Runs PROVE Good(mode[r], run[r], app[r], extras[r])
  <2>1. 1 \in 1..(Deliverables + 1) /\ 1 # Deliverables + 1 /\ \A d \in Items : ~(d < 1)
    BY SandboxAssumption DEF Items
  <2>2. PICK s \in RunStates :
          s = [pc |-> "start", item |-> 1, ok |-> TRUE, reports |-> {},
               port |-> 0, files |-> FALSE, status |-> "none", timedOut |-> FALSE]
    BY <2>1 DEF RunStates
  <2>3. s.pc = "start" /\ s.item = 1 /\ s.status = "none"
    BY <2>2
  <2>4. run[r] = s /\ app[r] = "absent" /\ extras[r] = {}
    BY <2>2 DEF SandboxInit
  <2>5. Counted(mode[r], s) /\ Earned(mode[r], s)
    BY <2>1, <2>3 DEF Counted, Earned
  <2>6. OnItsWay(mode[r], s.pc) /\ Deserved(mode[r], s) /\ HasFiles(mode[r], s)
        /\ Tidy(mode[r], s, "absent", {})
    BY <2>3 DEF OnItsWay, Deserved, HasFiles, Tidy
  <2> QED BY <1>1, <2>4, <2>5, <2>6 DEF Good
<1> QED BY <1>1, <1>2 DEF SandboxInv

\* The invariant of the executions is one.
THEOREM SandboxInvariance == SandboxSpec => []SandboxInv
  BY SandboxInitHolds, SandboxNextKeeps, PTL DEF SandboxSpec

\* What execute returns is sound.
LEMMA InvIsSound == SandboxInv => ReturnIsSound
<1> SUFFICES ASSUME SandboxInv PROVE ReturnIsSound
  OBVIOUS
<1>1. SandboxTypeOK
  <2>1. \A r \in Runs : mode[r] \in Modes /\ run[r] \in RunStates /\ app[r] \in Apps /\ extras[r] \in Extras
    BY Here
  <2> QED BY <2>1 DEF SandboxInv, SandboxTypeOK, RunStates, Apps, Extras
<1>2. NothingLeftBehind
  BY DEF SandboxInv, Good, Tidy, NothingLeftBehind, HasReturned
<1>3. PassedMeansReached
  <2> SUFFICES ASSUME NEW r \in Runs, HasReturned(r), run[r].status = "passed", mode[r] # "runtime",
                      NEW d \in IF mode[r] = "outcome" THEN {1} ELSE Items
               PROVE  /\ mode[r] # "sidecar"
                      /\ \E s \in {"none", "checks"} : <<d, s>> \in run[r].reports
                      /\ mode[r] = "shared" => <<d, "none">> \in run[r].reports
    BY DEF PassedMeansReached
  <2>1. mode[r] \in {"separate", "shared", "outcome"} /\ Deserved(mode[r], run[r])
    BY DEF SandboxInv, Good, Deserved, Modes
  <2> QED BY <2>1 DEF Deserved, HasReturned, Reached
<1>4. SharedAppHasItsFiles
  BY DEF SandboxInv, Good, HasFiles, SharedAppHasItsFiles, At
<1> QED BY <1>1, <1>2, <1>3, <1>4 DEF ReturnIsSound

\* For any executions and ports: what execute returns leaves no container and no
\* network behind unless a docker command took too long, which no starter survives
\* with a pass; a pass was earned by an app that answered the contract of every
\* deliverable; and a shared app has its files while it is probed (execute,
\* _finalize_starter_result, workspace_boot).
THEOREM ReturnSound == SandboxSpec => []ReturnIsSound
  BY SandboxInvariance, InvIsSound, PTL

\* For any executions and ports: an app that a probe reaches is the execution's
\* own, or one that answers after the own app is gone (_probe_contract_smoke).
THEOREM OwnApp == SandboxSpec => OwnAppAnswered
<1>1. ASSUME SandboxInv, NEW r \in Runs, run[r].pc \in {"probe", "use"}
      PROVE  r \in Holders(run[r].port) \/ app[r] \in {"dead", "absent"}
  BY <1>1 DEF SandboxInv, Good, Tidy, Holders
<1>2. SandboxInv => \A r \in Runs :
        run[r].pc \in {"probe", "use"} /\ NewlyReached(r) =>
          r \in Holders(run[r].port) \/ app[r] \in {"dead", "absent"}
  BY <1>1
<1> QED BY <1>2, SandboxInvariance, PTL DEF OwnAppAnswered

=============================================================================
