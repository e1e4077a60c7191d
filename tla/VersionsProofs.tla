--------------------------- MODULE VersionsProofs ---------------------------
(***************************************************************************)
(* The versions of a course, for any number of rows, learners and          *)
(* snapshots and any sizes of the windows: authors and learners see the    *)
(* same versions, numbered in the order in which they were made, and the   *)
(* catalogue offers what was published last of the courses it lists.       *)
(*                                                                         *)
(* The invariant judges every row with its job (RowOK): a row is linked    *)
(* once and for good, after which nothing works on it, so that what a      *)
(* learner is pinned to stays.  The numbering is the hard part, since a    *)
(* version is drawn long before its snapshot is saved, and others may be   *)
(* drawn and saved in between: Numbered orders the snapshots and the       *)
(* drafts that are being certified together, and needs that a draft is at  *)
(* most one ahead of what is saved (AtMostNext), for else a later draft    *)
(* could get a smaller number than an earlier one.                         *)
(***************************************************************************)
EXTENDS Versions, FiniteSetTheorems, WellFoundedInduction, TLAPS

-----------------------------------------------------------------------------
(* The inductive invariant *)

Snapshots == [at : 1..MaxSnapshots, run : Runs \cup {"other"}, version : 1..MaxSnapshots]

JobStates ==
  {NoJob} \cup [pc : {"revise"}, source : Runs] \cup [pc : {"certify", "link"}, draft : Snapshots]

Statuses == {"none", "awaiting_human", "unproven", "published", "blocked"}

Types ==
  /\ {serial, crashed} \subseteq BOOLEAN /\ rows \in Nat
  /\ courses \in [Runs -> {None} \cup Rows] /\ Exists(First)
  /\ flow \in [Runs -> Statuses]
  /\ snapshots \in SUBSET Snapshots /\ IsFiniteSet(snapshots)
  /\ enrollments \in SUBSET [learner : Learners, run : Runs, snapshot : 1..MaxSnapshots]
  /\ clock \in 1..MaxSnapshots
  /\ job \in [Runs -> JobStates]

\* What a row r of course c with the job j says: only a row that was linked is
\* published, to a snapshot of its own, and nothing works on it any more; a row
\* that is being certified is ready and waits.
RowOK(c, r, j, S) ==
  /\ r.kind = courses[First].kind
  /\ r.latest # 0 => r.stage = "published" /\ j.pc = "idle" /\ \E s \in S : s.at = r.latest /\ s.run = c
  /\ r.stage = "published" => r.kind # "survey" /\ (r.kind = "progressive" => r.latest # 0)
  /\ j.pc \in {"certify", "link"} => r.kind = "progressive" /\ r.stage = "ready_to_publish"

RowsOK ==
  \A c \in Runs : IF Exists(c) THEN RowOK(c, courses[c], job[c], snapshots) ELSE job[c].pc = "idle"

Family == {s \in snapshots : s.run \in Runs}

Certifying == {c \in Runs : job[c].pc = "certify"}

Drafts == {job[c].draft : c \in Certifying}

\* Snapshots are of courses there are, each made at a time of its own; no version
\* is larger than the time it was made at.
Timed ==
  /\ \A s \in snapshots : s.at <= clock /\ s.version <= s.at
  /\ \A s, t \in snapshots : s.at = t.at => s = t
  /\ \A s \in Family : Exists(s.run) /\ (courses[First].kind = "outcome" => courses[s.run].latest # 0)
  /\ \A c \in Runs : job[c].pc \in {"certify", "link"} =>
       job[c].draft.run = c /\ job[c].draft.at <= clock /\ job[c].draft.version <= job[c].draft.at
  /\ \A c \in Runs : job[c].pc = "link" => job[c].draft \in snapshots
  /\ \A c \in Certifying : \A s \in snapshots : s.at # job[c].draft.at
  /\ \A c, d \in Certifying : job[c].draft.at = job[d].draft.at => c = d

Enrolled == \A e \in enrollments : Exists(e.run) /\ e.snapshot = courses[e.run].latest

Alone == serial => \A c, d \in Runs : job[c].pc # "idle" /\ job[d].pc # "idle" => c = d

\* The versions of what was saved and of what is being certified count up.
InOrder(S) ==
  \A s, t \in S : s.at < t.at => IF serial THEN s.version < t.version ELSE s.version <= t.version

\* A draft is at most one ahead of what was saved.
AtMostNext(d, S) == d.version = 1 \/ \E s \in S : d.version <= s.version + 1

Numbered ==
  Cardinality(snapshots) <= Window =>
    InOrder(Family \cup Drafts) /\ \A d \in Drafts : AtMostNext(d, Family)

Inv ==
  Types /\ RowsOK /\ Timed /\ Enrolled /\ ReportIsAboutTheLearner /\ Alone /\ Numbered

-----------------------------------------------------------------------------
(* Numbers, sets and the best of some snapshots *)

\* Some number of a set is the least.
LEMMA Least ==
  ASSUME NEW T \in SUBSET Nat, T # {}
  PROVE  \E m \in T : \A n \in T : m <= n
<1>1. PICK m \in T : \A n \in T : ~(<<n, m>> \in OpToRel(<, Nat))
  BY NatLessThanWellFounded, WFMin
<1>2. \A n \in T : ~(n < m)
  BY <1>1 DEF OpToRel
<1> QED BY <1>2

\* Some number of a bounded set is the largest.
LEMMA Largest ==
  ASSUME NEW k \in Nat, NEW T \in SUBSET (0..k), T # {}
  PROVE  \E m \in T : \A n \in T : n <= m
<1> DEFINE R == {k - n : n \in T}
<1>1. R \in SUBSET Nat /\ R # {}
  <2>1. \A n \in T : n \in Nat /\ k - n \in Nat
    OBVIOUS
  <2>2. PICK n \in T : TRUE
    OBVIOUS
  <2>3. k - n \in R
    OBVIOUS
  <2>4. \A d \in R : d \in Nat
    BY <2>1
  <2> QED BY <2>3, <2>4
<1>2. PICK d \in R : \A e \in R : d <= e
  BY <1>1, Least
<1>3. PICK m \in T : d = k - m
  BY <1>2
<1>4. ASSUME NEW n \in T PROVE n <= m
  <2>1. k - n \in R /\ k - m <= k - n
    BY <1>2, <1>3
  <2> QED BY <2>1
<1> QED BY <1>4

\* Of some snapshots there is a best one, and it is what Best chooses.
LEMMA BestIs ==
  ASSUME NEW S \in SUBSET Snapshots, S # {}, \A s, t \in S : s.at = t.at => s = t
  PROVE  Best(S) \in S /\ \A t \in S : t = Best(S) \/ Better(Best(S), t)
<1>1. MaxSnapshots \in Nat
  BY VersionsAssumption
<1>2. \A s \in S : s.at \in 0..MaxSnapshots /\ s.version \in 0..MaxSnapshots
  BY <1>1 DEF Snapshots
<1>3. PICK v \in {s.version : s \in S} : \A w \in {s.version : s \in S} : w <= v
  <2>1. {s.version : s \in S} \in SUBSET (0..MaxSnapshots)
    BY <1>2
  <2>2. {s.version : s \in S} # {}
    OBVIOUS
  <2> QED BY <1>1, <2>1, <2>2, Largest
<1>4. PICK a \in {s.at : s \in {s \in S : s.version = v}} :
        \A b \in {s.at : s \in {s \in S : s.version = v}} : b <= a
  <2>1. {s.at : s \in {s \in S : s.version = v}} \in SUBSET (0..MaxSnapshots)
    BY <1>2
  <2>2. {s.at : s \in {s \in S : s.version = v}} # {}
    OBVIOUS
  <2> QED BY <1>1, <2>1, <2>2, Largest
<1>5. PICK s \in S : s.version = v /\ s.at = a
  OBVIOUS
<1>6. ASSUME NEW t \in S PROVE s = t \/ Better(s, t)
  <2>1. t.version <= v /\ (t.version = v => t.at <= a)
    BY <1>3, <1>4
  <2>2. t.version = v /\ t.at = a => s = t
    BY <1>5
  <2> QED BY <1>2, <1>5, <2>1, <2>2 DEF Better
<1>7. Best(S) \in S /\ \A t \in S : Best(S) = t \/ Better(Best(S), t)
  BY <1>6 DEF Best
<1> QED BY <1>7

\* The store sees all snapshots if there are no more than it looks at.
LEMMA AllAreNewest ==
  ASSUME Types, NEW n \in Nat, Cardinality(snapshots) <= n
  PROVE  NewestSnapshots(n) = snapshots
<1> SUFFICES ASSUME NEW s \in snapshots PROVE Cardinality({t \in snapshots : t.at > s.at}) < n
  BY DEF NewestSnapshots
<1> DEFINE U == {t \in snapshots : t.at > s.at}
<1>1. IsFiniteSet(snapshots) /\ s.at \in Nat
  BY VersionsAssumption DEF Types, Snapshots
<1>2. U \in SUBSET (snapshots \ {s}) /\ IsFiniteSet(snapshots \ {s})
  BY <1>1, FS_RemoveElement
<1>3. Cardinality(snapshots \ {s}) = Cardinality(snapshots) - 1
  BY <1>1, FS_RemoveElement
<1>4. IsFiniteSet(U) /\ Cardinality(U) <= Cardinality(snapshots \ {s})
  BY <1>2, FS_Subset
<1>5. Cardinality(snapshots) \in Nat /\ Cardinality(U) \in Nat
  BY <1>1, <1>4, FS_CardinalityType
<1> QED BY <1>3, <1>4, <1>5

\* The next version fits the time it is made at, and is one more than the latest
\* if the store sees all of them.
LEMMA NextVersionIs ==
  ASSUME Inv, NEW c \in Runs
  PROVE  /\ NextVersion(c) \in 1..(clock + 1)
         /\ Cardinality(snapshots) <= Window =>
              /\ \A s \in Family : s.version < NextVersion(c)
              /\ AtMostNext([version |-> NextVersion(c)], Family)
<1> DEFINE K == FamilySnapshots(Window)
<1>1. K \in SUBSET Snapshots /\ K \subseteq Family /\ clock \in Nat /\ Window \in Nat
      /\ \A s \in K : s.version \in 1..MaxSnapshots /\ s.version <= clock
  <2>1. K \subseteq snapshots /\ snapshots \in SUBSET Snapshots /\ clock \in 1..MaxSnapshots
    BY DEF Inv, Types, FamilySnapshots, NewestSnapshots
  <2>2. \A s \in snapshots : s.at <= clock /\ s.version <= s.at
    BY DEF Inv, Timed
  <2> QED BY <2>1, <2>2, VersionsAssumption DEF Snapshots, Family, FamilySnapshots
<1>2. Cardinality(snapshots) <= Window => K = Family
  BY <1>1, AllAreNewest DEF Inv, FamilySnapshots, Family
<1>3. CASE K = {}
  BY <1>1, <1>2, <1>3 DEF NextVersion, AtMostNext
<1>4. CASE K # {}
  <2>1. \A s, t \in K : s.at = t.at => s = t
    BY <1>1 DEF Inv, Timed, Family
  <2>2. Best(K) \in K /\ \A t \in K : t = Best(K) \/ Better(Best(K), t)
    BY <1>1, <1>4, <2>1, BestIs
  <2>3. NextVersion(c) = Best(K).version + 1
    BY <1>4 DEF NextVersion
  <2>4. \A t \in K : t.version <= Best(K).version
    BY <1>1, <2>2 DEF Better
  <2>5. NextVersion(c) \in 1..(clock + 1)
    BY <1>1, <2>2, <2>3
  <2>6. \A s \in K : s.version < NextVersion(c)
    BY <1>1, <2>2, <2>3, <2>4
  <2>7. AtMostNext([version |-> NextVersion(c)], K)
    BY <1>1, <2>2, <2>3 DEF AtMostNext
  <2> QED BY <1>2, <2>5, <2>6, <2>7
<1> QED BY <1>3, <1>4

-----------------------------------------------------------------------------
(* Rows *)

\* Saving a row changes nothing of it that counts.
LEMMA TouchedRow ==
  ASSUME NEW r \in Rows, clock \in Nat
  PROVE  /\ Touched(r) \in Rows
         /\ Touched(r).kind = r.kind /\ Touched(r).stage = r.stage /\ Touched(r).op = r.op
         /\ Touched(r).drafted = r.drafted /\ Touched(r).latest = r.latest
<1>1. PICK n \in Nat : n = IF r.kind = "outcome" THEN clock ELSE 0
  OBVIOUS
<1>2. PICK s \in Rows : s = [r EXCEPT !.touched = n]
  BY DEF Rows
<1>3. s.kind = r.kind /\ s.stage = r.stage /\ s.op = r.op /\ s.drafted = r.drafted /\ s.latest = r.latest
  BY <1>2 DEF Rows
<1> QED BY <1>1, <1>2, <1>3 DEF Touched

\* A row with another stage, and nothing else that counts.
LEMMA StagedRow ==
  ASSUME NEW r \in Rows, NEW stage \in {"drafting", "awaiting_course_review", "ready_to_publish", "published", "blocked"}
  PROVE  /\ [r EXCEPT !.stage = stage] \in Rows
         /\ [r EXCEPT !.stage = stage].stage = stage
         /\ [r EXCEPT !.stage = stage].kind = r.kind /\ [r EXCEPT !.stage = stage].op = r.op
         /\ [r EXCEPT !.stage = stage].latest = r.latest
<1>1. PICK s \in Rows : s = [r EXCEPT !.stage = stage]
  BY DEF Rows
<1>2. s.stage = stage /\ s.kind = r.kind /\ s.op = r.op /\ s.latest = r.latest
  BY <1>1 DEF Rows
<1> QED BY <1>1, <1>2

\* A course that exists has a row.
LEMMA ExistsIsRow ==
  ASSUME Types, NEW c \in Runs
  PROVE  /\ Exists(c) <=> courses[c] \in Rows
         /\ ~Exists(c) => courses[c] = None
         /\ clock \in Nat
<1>1. \A r \in Rows : r # None
  <2> SUFFICES ASSUME NEW r \in Rows, r = None PROVE FALSE
    OBVIOUS
  <2>1. r.kind \in {"progressive", "survey", "outcome"}
    BY DEF Rows
  <2>2. None.kind = "none"
    BY DEF None
  <2> QED BY <2>1, <2>2
<1> QED BY <1>1, VersionsAssumption DEF Types, Exists

\* A refresh keeps the row what it is.
LEMMA RefreshedIs ==
  ASSUME Inv, NEW c \in Runs, Exists(c), job[c].pc \in {"idle", "revise"}
  PROVE  /\ Refreshed(c) \in Rows
         /\ Refreshed(c).kind = courses[c].kind /\ Refreshed(c).latest = courses[c].latest
         /\ Refreshed(c).op = courses[c].op
         /\ RowOK(c, Refreshed(c), job[c], snapshots)
<1>1. PICK r \in Rows : r = courses[c] /\ RowOK(c, r, job[c], snapshots) /\ clock \in Nat
  BY ExistsIsRow DEF Inv, RowsOK
<1>2. CASE r.kind = "outcome"
  <2>1. Refreshed(c) = Touched([r EXCEPT !.stage = "published"])
    BY <1>1, <1>2 DEF Refreshed
  <2>2. PICK s \in Rows : s = [r EXCEPT !.stage = "published"]
    BY StagedRow
  <2>3. s.stage = "published" /\ s.kind = r.kind /\ s.op = r.op /\ s.latest = r.latest
    BY <2>2, StagedRow
  <2>4. PICK n \in Rows : n = Touched(s)
    BY <1>1, TouchedRow
  <2>5. n.stage = "published" /\ n.kind = r.kind /\ n.op = r.op /\ n.latest = r.latest
    BY <1>1, <2>3, <2>4, TouchedRow
  <2>6. RowOK(c, n, job[c], snapshots)
    BY <1>1, <1>2, <2>5 DEF RowOK
  <2> QED BY <1>1, <2>1, <2>2, <2>4, <2>5, <2>6
<1>3. CASE r.kind # "outcome" /\ r.stage = "drafting" /\ ~r.drafted
  BY <1>1, <1>3 DEF Refreshed
<1>4. CASE r.kind # "outcome" /\ ~(r.stage = "drafting" /\ ~r.drafted)
  <2>1. PICK stage \in {"awaiting_course_review", "ready_to_publish", "published", "blocked"} :
          /\ stage = IF r.stage = "published" THEN r.stage
                     ELSE StageOf(IF r.drafted THEN flow[c] ELSE "blocked")
          /\ stage = "published" <=> r.stage = "published"
    BY DEF StageOf
  <2>2. Refreshed(c) = Touched([r EXCEPT !.stage = stage])
    BY <1>1, <1>4, <2>1 DEF Refreshed
  <2>3. PICK s \in Rows : s = [r EXCEPT !.stage = stage]
    BY <2>1, StagedRow
  <2>4. s.stage = stage /\ s.kind = r.kind /\ s.op = r.op /\ s.latest = r.latest
    BY <2>1, <2>3, StagedRow
  <2>5. PICK n \in Rows : n = Touched(s)
    BY <1>1, TouchedRow
  <2>6. n.stage = stage /\ n.kind = r.kind /\ n.op = r.op /\ n.latest = r.latest
    BY <1>1, <2>4, <2>5, TouchedRow
  <2>7. RowOK(c, n, job[c], snapshots)
    BY <1>1, <2>1, <2>6 DEF RowOK
  <2> QED BY <1>1, <2>2, <2>3, <2>5, <2>6, <2>7
<1> QED BY <1>2, <1>3, <1>4

\* What a revision is made of its source.
LEMMA RevisionIs ==
  ASSUME Types, NEW d \in Runs, Exists(d)
  PROVE  /\ RevisionOf(d) \in Rows /\ RevisionOf(d).kind = courses[d].kind
         /\ RevisionOf(d).stage = "drafting" /\ RevisionOf(d).latest = 0
<1>1. PICK r \in Rows, n \in Nat : r = courses[d] /\ n = rows + 1 /\ clock \in Nat
  <2>1. rows \in Nat
    BY DEF Types
  <2> QED BY <2>1, ExistsIsRow
<1>2. PICK s \in Rows : s = [r EXCEPT !.stage = "drafting", !.drafted = FALSE, !.latest = 0, !.born = n]
  BY DEF Rows
<1>3. s.kind = r.kind /\ s.stage = "drafting" /\ s.latest = 0
  BY <1>2 DEF Rows
<1>4. Touched(s) \in Rows /\ Touched(s).kind = r.kind /\ Touched(s).stage = "drafting" /\ Touched(s).latest = 0
  BY <1>1, <1>3, TouchedRow
<1> QED BY <1>1, <1>2, <1>4 DEF RevisionOf

\* What becomes of a placeholder p of a revision of d.
LEMMA RevisedIs ==
  ASSUME Types, NEW c \in Runs, NEW d \in Runs, Exists(d), NEW p \in Rows, Revised(c, p, d)
  PROVE  /\ flow' \in [Runs -> Statuses]
         /\ \E r \in Rows : /\ courses' = [courses EXCEPT ![c] = r]
                            /\ r.kind = p.kind /\ r.stage # "published" /\ r.latest = 0
<1>1. PICK o \in Rows : o = courses[d] /\ clock \in Nat
  BY ExistsIsRow
<1>2. PICK status \in {"unproven", "none"} : flow' = [flow EXCEPT ![c] = status]
  BY DEF Revised
<1>3. flow' \in [Runs -> Statuses] /\ flow'[c] = status
  BY <1>2 DEF Types, Statuses
<1>4. PICK stage \in {"awaiting_course_review", "blocked"} : stage = StageOf(status)
  BY DEF StageOf
<1>5. PICK drafted \in BOOLEAN : drafted = o.drafted
  BY DEF Rows
<1>6. PICK s \in Rows : s = [p EXCEPT !.stage = stage, !.op = "none", !.latest = 0, !.drafted = drafted]
  BY DEF Rows
<1>7. s.kind = p.kind /\ s.stage = stage /\ s.latest = 0
  BY <1>6 DEF Rows
<1>8. courses' = [courses EXCEPT ![c] = Touched(s)]
  BY <1>1, <1>3, <1>4, <1>5, <1>6 DEF Revised
<1>9. Touched(s) \in Rows /\ Touched(s).kind = p.kind /\ Touched(s).stage = stage /\ Touched(s).latest = 0
  BY <1>1, <1>7, TouchedRow
<1> QED BY <1>3, <1>8, <1>9

-----------------------------------------------------------------------------
(* Steps *)

\* What there is of a course and its job.
LEMMA Here ==
  ASSUME Inv, NEW c \in Runs
  PROVE  /\ Exists(c) => courses[c] \in Rows /\ RowOK(c, courses[c], job[c], snapshots)
         /\ job[c].pc # "idle" => Exists(c)
         /\ job[c] \in JobStates /\ NoJob \in JobStates /\ NoJob.pc = "idle"
         /\ clock \in Nat /\ clock \in 1..MaxSnapshots /\ MaxSnapshots \in Nat
<1>1. Types /\ RowsOK
  BY DEF Inv
<1>2. Exists(c) => courses[c] \in Rows
  BY <1>1, ExistsIsRow
<1>3. Exists(c) => RowOK(c, courses[c], job[c], snapshots)
  BY <1>1 DEF RowsOK
<1>4. job[c].pc # "idle" => Exists(c)
  BY <1>1 DEF RowsOK
<1>5. clock \in 1..MaxSnapshots /\ MaxSnapshots \in Nat
  BY <1>1, VersionsAssumption DEF Types
<1>6. job[c] \in JobStates /\ NoJob \in JobStates /\ NoJob.pc = "idle"
  BY <1>1 DEF Types, JobStates, NoJob
<1> QED BY <1>2, <1>3, <1>4, <1>5, <1>6

\* A job that certifies or links has a draft.
LEMMA JobIs ==
  ASSUME NEW j \in JobStates
  PROVE  /\ j.pc \in {"idle", "revise", "certify", "link"}
         /\ j.pc = "revise" => j.source \in Runs
         /\ j.pc \in {"certify", "link"} => j.draft \in Snapshots /\ j.draft.at \in 1..MaxSnapshots
  BY DEF JobStates, NoJob, Snapshots

\* A step that changes one row and its job and makes no snapshot.
LEMMA RowStep ==
  ASSUME Inv, NEW c \in Runs, NEW r \in Rows, NEW j \in JobStates,
         j.pc \in {"idle", "revise"}, RowOK(c, r, j, snapshots),
         Exists(c) => r.latest = courses[c].latest,
         j.pc = "idle" \/ job[c].pc # "idle" \/ (serial => \A d \in Runs : job[d].pc = "idle"),
         courses' = [courses EXCEPT ![c] = r], job' = [job EXCEPT ![c] = j],
         flow' \in [Runs -> Statuses], rows' \in Nat,
         UNCHANGED <<serial, snapshots, enrollments, report, clock, crashed>>
  PROVE  Inv'
<1>1. Types /\ RowsOK /\ Timed /\ Enrolled /\ Alone /\ Numbered
  BY DEF Inv
<1>2. /\ courses \in [Runs -> {None} \cup Rows] /\ job \in [Runs -> JobStates]
      /\ courses'[c] = r /\ job'[c] = j /\ r # None
      /\ \A d \in Runs : d # c => courses'[d] = courses[d] /\ job'[d] = job[d]
  <2>1. courses \in [Runs -> {None} \cup Rows] /\ job \in [Runs -> JobStates]
    BY <1>1 DEF Types
  <2>2. r # None
    <3>1. r.kind # "none"
      BY DEF Rows
    <3> QED BY <3>1 DEF None
  <2> QED BY <2>1, <2>2
<1>3. /\ Exists(c)' /\ \A d \in Runs : Exists(d) => Exists(d)'
      /\ \A d \in Runs : d # c => (Exists(d)' <=> Exists(d))
      /\ \A d \in Runs : Exists(d) => courses'[d].latest = courses[d].latest
  BY <1>2 DEF Exists
<1>4. Types'
  <2>1. courses' \in [Runs -> {None} \cup Rows] /\ job' \in [Runs -> JobStates]
    BY <1>2
  <2>2. First \in Runs /\ Exists(First)'
    BY <1>1, <1>3, VersionsAssumption DEF Types
  <2> QED BY <1>1, <2>1, <2>2 DEF Types
<1>5. courses'[First].kind = courses[First].kind
  BY <1>2, VersionsAssumption DEF RowOK
<1>6. RowsOK'
  <2> SUFFICES ASSUME NEW d \in Runs
               PROVE  IF Exists(d)' THEN RowOK(d, courses[d], job[d], snapshots)' ELSE job'[d].pc = "idle"
    BY DEF RowsOK
  <2>1. CASE d = c
    BY <1>2, <1>3, <1>5, <2>1 DEF RowOK
  <2>2. CASE d # c
    BY <1>1, <1>2, <1>3, <1>5, <2>2 DEF RowsOK, RowOK
  <2> QED BY <2>1, <2>2
<1>7. Certifying' = Certifying \ {c} /\ \A d \in Certifying' : job'[d] = job[d]
  BY <1>2 DEF Certifying
<1>8. Timed'
  <2>1. \A s \in Family : Exists(s.run)' /\ (courses'[First].kind = "outcome" => courses'[s.run].latest # 0)
    BY <1>1, <1>3, <1>5 DEF Timed, Family
  <2>2. Family' = Family
    BY DEF Family
  <2>3. \A d \in Runs : job'[d].pc \in {"certify", "link"} => job'[d] = job[d]
    BY <1>2
  <2> QED BY <1>1, <1>7, <2>1, <2>2, <2>3 DEF Timed
<1>9. Enrolled'
  <2>1. \A e \in enrollments : e.run \in Runs
    BY <1>1 DEF Types
  <2> QED BY <1>1, <1>3, <2>1 DEF Enrolled
<1>10. Alone'
  BY <1>1, <1>2 DEF Alone
<1>11. Numbered'
  <2>1. Drafts' \subseteq Drafts
    BY <1>7 DEF Drafts
  <2>2. Family' = Family
    BY DEF Family
  <2> QED BY <1>1, <2>1, <2>2 DEF Numbered, InOrder, AtMostNext
<1>12. ReportIsAboutTheLearner'
  BY DEF Inv, ReportIsAboutTheLearner
<1> QED BY <1>4, <1>6, <1>8, <1>9, <1>10, <1>11, <1>12 DEF Inv

\* A refresh changes one row as RefreshedIs says.
LEMMA RefreshKeeps ==
  ASSUME Inv, NEW c \in Runs, Refresh(c)
  PROVE  Inv'
<1>1. PICK r \in Rows : r = Refreshed(c)
  BY RefreshedIs DEF Refresh
<1>2. r.latest = courses[c].latest /\ RowOK(c, r, job[c], snapshots)
  BY <1>1, RefreshedIs DEF Refresh
<1>3. courses' = [courses EXCEPT ![c] = r] /\ job' = [job EXCEPT ![c] = job[c]] /\ job[c].pc \in {"idle", "revise"}
  BY <1>1 DEF Refresh, Inv, Types
<1>4. flow' \in [Runs -> Statuses] /\ job[c] \in JobStates /\ rows' \in Nat
  BY Here DEF Refresh, Inv, Types
<1> QED BY <1>1, <1>2, <1>3, <1>4, RowStep DEF Refresh

\* A revision is a new row without a snapshot.
LEMMA CreateRevisionKeeps ==
  ASSUME Inv, NEW c \in Runs, NEW source \in Runs, CreateRevision(c, source)
  PROVE  Inv'
<1>1. Exists(source) /\ ~Exists(c) /\ Revised(c, RevisionOf(source), source) /\ Types /\ courses[source].stage = "published"
  BY DEF CreateRevision, Arrives, Published, Inv
<1>2. PICK p \in Rows : p = RevisionOf(source)
  BY <1>1, RevisionIs
<1>3. p.kind = courses[source].kind
  BY <1>1, <1>2, RevisionIs
<1>4. PICK r \in Rows : courses' = [courses EXCEPT ![c] = r] /\ r.kind = p.kind /\ r.stage # "published" /\ r.latest = 0
  BY <1>1, <1>2, RevisedIs
<1>5. flow' \in [Runs -> Statuses]
  BY <1>1, <1>2, RevisedIs
<1>6. job[c].pc = "idle" /\ job[c] \in JobStates /\ courses[source].kind = courses[First].kind
  BY <1>1, Here DEF RowOK
<1>7. RowOK(c, r, job[c], snapshots)
  BY <1>3, <1>4, <1>6 DEF RowOK
<1>8. job' = [job EXCEPT ![c] = job[c]] /\ rows' \in Nat
  BY DEF CreateRevision, Inv, Types
<1> QED BY <1>1, <1>4, <1>5, <1>6, <1>7, <1>8, RowStep DEF CreateRevision

\* So is its placeholder, which has a job.
LEMMA QueueRevisionKeeps ==
  ASSUME Inv, NEW c \in Runs, NEW source \in Runs, QueueRevision(c, source)
  PROVE  Inv'
<1>1. Exists(source) /\ ~Exists(c) /\ Types /\ (serial => \A d \in Runs : job[d].pc = "idle")
  BY DEF QueueRevision, Arrives, Inv
<1>2. PICK p \in Rows : p = RevisionOf(source)
  BY <1>1, RevisionIs
<1>3. p.kind = courses[source].kind /\ p.stage = "drafting" /\ p.latest = 0
  BY <1>1, <1>2, RevisionIs
<1>4. PICK r \in Rows : r = [p EXCEPT !.op = "revision"]
  BY DEF Rows
<1>5. r.kind = p.kind /\ r.stage = "drafting" /\ r.latest = 0
  BY <1>3, <1>4 DEF Rows
<1>6. PICK j \in JobStates : j = [pc |-> "revise", source |-> source]
  BY DEF JobStates
<1>7. courses' = [courses EXCEPT ![c] = r] /\ job' = [job EXCEPT ![c] = j]
  BY <1>2, <1>4, <1>6 DEF QueueRevision
<1>8. courses[source].kind = courses[First].kind /\ j.pc = "revise"
  BY <1>1, <1>6, Here DEF RowOK
<1>9. RowOK(c, r, j, snapshots)
  BY <1>3, <1>5, <1>8 DEF RowOK
<1>10. flow' \in [Runs -> Statuses] /\ rows' \in Nat
  BY <1>1 DEF QueueRevision, Types
<1> QED BY <1>1, <1>7, <1>8, <1>9, <1>10, RowStep DEF QueueRevision

\* The job ends with the revision, or with an error.
LEMMA FinishRevisionKeeps ==
  ASSUME Inv, NEW c \in Runs, FinishRevision(c)
  PROVE  Inv'
<1>1. /\ Types /\ job[c].pc = "revise" /\ job' = [job EXCEPT ![c] = NoJob]
      /\ NoJob \in JobStates /\ NoJob.pc = "idle" /\ rows' \in Nat
  BY Here DEF FinishRevision, Inv, Types
<1>2. PICK o \in Rows : o = courses[c] /\ RowOK(c, o, job[c], snapshots) /\ Exists(c) /\ clock \in Nat
  BY <1>1, Here
<1>3. o.latest = 0 /\ o.kind = courses[First].kind
  BY <1>1, <1>2 DEF RowOK
<1>4. CASE Published(job[c].source) /\ Revised(c, courses[c], job[c].source)
  <2>1. PICK d \in Runs : d = job[c].source /\ Exists(d)
    BY <1>1, <1>4, Here, JobIs DEF Published
  <2>2. PICK r \in Rows : courses' = [courses EXCEPT ![c] = r] /\ r.kind = o.kind /\ r.stage # "published" /\ r.latest = 0
    BY <1>1, <1>2, <1>4, <2>1, RevisedIs
  <2>3. flow' \in [Runs -> Statuses]
    BY <1>1, <1>2, <1>4, <2>1, RevisedIs
  <2>4. RowOK(c, r, NoJob, snapshots)
    BY <1>1, <1>3, <2>2 DEF RowOK
  <2> QED BY <1>1, <1>2, <1>3, <2>2, <2>3, <2>4, RowStep DEF FinishRevision
<1>5. CASE /\ courses' = [courses EXCEPT ![c] = Touched([@ EXCEPT !.stage = "blocked", !.op = "none"])]
           /\ UNCHANGED flow
  <2>1. PICK s \in Rows : s = [o EXCEPT !.stage = "blocked", !.op = "none"]
    BY DEF Rows
  <2>2. s.kind = o.kind /\ s.stage = "blocked" /\ s.latest = o.latest
    BY <2>1 DEF Rows
  <2>3. PICK r \in Rows : r = Touched(s)
    BY <1>2, TouchedRow
  <2>4. r.kind = o.kind /\ r.stage = "blocked" /\ r.latest = o.latest
    BY <1>2, <2>2, <2>3, TouchedRow
  <2>5. courses' = [courses EXCEPT ![c] = r]
    BY <1>2, <1>5, <2>1, <2>3
  <2>6. flow' \in [Runs -> Statuses]
    BY <1>1, <1>5 DEF Types
  <2>7. RowOK(c, r, NoJob, snapshots)
    BY <1>1, <1>3, <2>4 DEF RowOK
  <2> QED BY <1>1, <1>2, <1>3, <2>4, <2>5, <2>6, <2>7, RowStep DEF FinishRevision
<1> QED BY <1>4, <1>5 DEF FinishRevision

\* A publication that is refused ends, and the row was not linked.
LEMMA RefuseCertificateKeeps ==
  ASSUME Inv, NEW c \in Runs, RefuseCertificate(c)
  PROVE  Inv'
<1>1. Types /\ job[c].pc = "certify" /\ job' = [job EXCEPT ![c] = NoJob] /\ NoJob \in JobStates /\ NoJob.pc = "idle"
  BY Here DEF RefuseCertificate, Inv
<1>2. PICK o \in Rows : o = courses[c] /\ RowOK(c, o, job[c], snapshots) /\ Exists(c)
  BY <1>1, Here
<1>3. o.latest = 0 /\ o.kind = courses[First].kind /\ o.stage = "ready_to_publish"
  BY <1>1, <1>2 DEF RowOK
<1>4. PICK stage \in {"ready_to_publish", "blocked"} : courses' = [courses EXCEPT ![c].stage = stage]
  BY <1>2, <1>3 DEF RefuseCertificate
<1>5. PICK r \in Rows : r = [o EXCEPT !.stage = stage]
  BY <1>4, StagedRow
<1>6. r.kind = o.kind /\ r.stage = stage /\ r.latest = o.latest
  BY <1>4, <1>5, StagedRow
<1>7. courses' = [courses EXCEPT ![c] = r]
  BY <1>2, <1>4, <1>5
<1>8. flow' \in [Runs -> Statuses] /\ rows' \in Nat
  BY <1>1 DEF RefuseCertificate, Types
<1>9. RowOK(c, r, NoJob, snapshots)
  BY <1>1, <1>3, <1>6 DEF RowOK
<1> QED BY <1>1, <1>2, <1>3, <1>6, <1>7, <1>8, <1>9, RowStep DEF RefuseCertificate

\* A publication that is not accepted is a refresh; one that is draws its version.
LEMMA PublishKeeps ==
  ASSUME Inv, NEW c \in Runs, Publish(c)
  PROVE  Inv'
<1>1. Types /\ RowsOK /\ Timed /\ Enrolled /\ Alone /\ Numbered
  BY DEF Inv
<1>2. /\ Exists(c) /\ job[c].pc = "idle" /\ (serial => \A d \in Runs : job[d].pc = "idle")
      /\ clock < MaxSnapshots /\ courses' = [courses EXCEPT ![c] = Refreshed(c)]
      /\ UNCHANGED <<serial, rows, flow, snapshots, enrollments, report, crashed>>
  BY DEF Publish, Arrives
<1>3. PICK r \in Rows : r = Refreshed(c)
  BY <1>2, RefreshedIs
<1>4. r.kind = courses[c].kind /\ r.latest = courses[c].latest /\ RowOK(c, r, job[c], snapshots)
  BY <1>2, <1>3, RefreshedIs
<1>5. courses' = [courses EXCEPT ![c] = r]
  BY <1>2, <1>3
<1>6. CASE UNCHANGED <<job, clock>>
  <2>1. /\ job' = [job EXCEPT ![c] = job[c]] /\ job[c] \in JobStates /\ flow' \in [Runs -> Statuses]
        /\ rows' \in Nat
    BY <1>1, <1>2, <1>6 DEF Types
  <2> QED BY <1>2, <1>4, <1>5, <1>6, <2>1, RowStep
<1>7. CASE /\ courses'[c].op = "none" /\ courses'[c].stage = "ready_to_publish" /\ courses[c].kind = "progressive"
           /\ job' = [job EXCEPT ![c] = [pc |-> "certify", draft |-> Made(c, NextVersion(c))]]
           /\ clock' = clock + 1
  <2>1. /\ courses \in [Runs -> {None} \cup Rows] /\ job \in [Runs -> JobStates]
        /\ clock \in 1..MaxSnapshots /\ MaxSnapshots \in Nat /\ clock + 1 \in 1..MaxSnapshots
    BY <1>1, <1>2, VersionsAssumption DEF Types
  <2>2. PICK v \in 1..(clock + 1) : v = NextVersion(c)
    BY NextVersionIs
  <2>3. Cardinality(snapshots) <= Window =>
          /\ \A s \in Family : s.version < v
          /\ AtMostNext([version |-> v], Family)
    BY <2>2, NextVersionIs
  <2>4. PICK n \in Snapshots : n = Made(c, v)
    <3>1. v \in 1..MaxSnapshots
      BY <2>1, <2>2
    <3> QED BY <2>1, <3>1 DEF Made, Snapshots
  <2>5. n.at = clock + 1 /\ n.run = c /\ n.version = v
    BY <2>4 DEF Made
  <2>6. PICK j \in JobStates : j = [pc |-> "certify", draft |-> n]
    BY DEF JobStates
  <2>7. j.pc = "certify" /\ j.draft = n
    BY <2>6
  <2>8. /\ courses'[c] = r /\ job'[c] = j /\ r # None
        /\ \A d \in Runs : d # c => courses'[d] = courses[d] /\ job'[d] = job[d]
    <3>1. r.kind # "none"
      BY DEF Rows
    <3> QED BY <1>5, <1>7, <2>1, <2>2, <2>4, <2>6, <3>1 DEF None
  <2>9. r.kind = "progressive" /\ r.stage = "ready_to_publish" /\ r.kind = courses[First].kind
    BY <1>2, <1>4, <1>7, <2>8, Here DEF RowOK
  <2>10. /\ Exists(c)' /\ \A d \in Runs : Exists(d) <=> Exists(d)'
         /\ \A d \in Runs : Exists(d) => courses'[d].latest = courses[d].latest
         /\ courses'[First].kind = courses[First].kind
    BY <1>2, <1>4, <2>8, <2>9, VersionsAssumption DEF Exists
  <2>11. Types'
    <3>1. courses' \in [Runs -> {None} \cup Rows] /\ job' \in [Runs -> JobStates]
      BY <1>5, <1>7, <2>1, <2>2, <2>4, <2>6
    <3>2. Exists(First)'
      BY <1>1, <2>10, VersionsAssumption DEF Types
    <3> QED BY <1>1, <1>2, <1>7, <2>1, <3>1, <3>2 DEF Types
  <2>12. RowsOK'
    <3> SUFFICES ASSUME NEW d \in Runs
                 PROVE  IF Exists(d)' THEN RowOK(d, courses[d], job[d], snapshots)' ELSE job'[d].pc = "idle"
      BY DEF RowsOK
    <3>1. CASE d = c
      BY <1>2, <1>4, <2>7, <2>8, <2>9, <2>10, <3>1 DEF RowOK
    <3>2. CASE d # c
      BY <1>1, <1>2, <2>8, <2>10, <3>2 DEF RowsOK, RowOK
    <3> QED BY <3>1, <3>2
  <2>13. Certifying' = Certifying \cup {c} /\ c \notin Certifying /\ \A d \in Certifying : job'[d] = job[d]
    BY <1>2, <2>7, <2>8 DEF Certifying
  <2>14. \A s \in snapshots : s.at <= clock /\ s.at \in Nat
    BY <1>1, <2>1 DEF Timed, Types, Snapshots
  <2>15. \A d \in Runs : job[d].pc \in {"certify", "link"} => job[d].draft.at <= clock /\ job[d].draft.at \in Nat
    BY <1>1, <2>1, JobIs DEF Timed
  <2>16. Timed'
    <3>1. \A s \in snapshots' : s.at <= clock' /\ s.version <= s.at
      BY <1>1, <1>2, <1>7, <2>1, <2>14 DEF Timed
    <3>2. \A s, u \in snapshots' : s.at = u.at => s = u
      BY <1>1, <1>2 DEF Timed
    <3>3. Family' = Family
      BY <1>2 DEF Family
    <3>4. \A s \in Family : Exists(s.run)' /\ (courses'[First].kind = "outcome" => courses'[s.run].latest # 0)
      BY <1>1, <2>10 DEF Timed, Family
    <3>5. \A d \in Runs : job'[d].pc \in {"certify", "link"} =>
            job'[d].draft.run = d /\ job'[d].draft.at <= clock' /\ job'[d].draft.version <= job'[d].draft.at
      BY <1>1, <1>7, <2>1, <2>5, <2>7, <2>8, <2>15 DEF Timed
    <3>6. \A d \in Runs : job'[d].pc = "link" => job'[d].draft \in snapshots'
      BY <1>1, <1>2, <2>7, <2>8 DEF Timed
    <3>7. \A d \in Certifying' : \A s \in snapshots' : s.at # job'[d].draft.at
      BY <1>1, <1>2, <2>1, <2>5, <2>7, <2>8, <2>13, <2>14 DEF Timed
    <3>8. \A d, e \in Certifying' : job'[d].draft.at = job'[e].draft.at => d = e
      <4>1. \A d \in Certifying : job[d].draft.at # clock + 1
        BY <2>1, <2>15 DEF Certifying
      <4> QED BY <1>1, <2>5, <2>7, <2>8, <2>13, <4>1 DEF Timed
    <3> QED BY <3>1, <3>2, <3>3, <3>4, <3>5, <3>6, <3>7, <3>8 DEF Timed
  <2>17. Enrolled'
    <3>1. \A e \in enrollments : e.run \in Runs
      BY <1>1 DEF Types
    <3> QED BY <1>1, <1>2, <2>10, <3>1 DEF Enrolled
  <2>18. Alone'
    BY <1>1, <1>2, <2>8 DEF Alone
  <2>19. Numbered'
    <3> SUFFICES ASSUME Cardinality(snapshots) <= Window
                 PROVE  InOrder(Family \cup Drafts)' /\ \A d \in Drafts' : AtMostNext(d, Family')
      BY <1>2 DEF Numbered
    <3>1. Drafts' = Drafts \cup {n} /\ Family' = Family
      BY <1>2, <2>7, <2>8, <2>13 DEF Drafts, Family
    <3>2. InOrder(Family \cup Drafts) /\ \A d \in Drafts : AtMostNext(d, Family)
      BY <1>1 DEF Numbered
    <3>3. /\ \A s \in Family \cup Drafts : s.at < n.at /\ s.at \in Nat
          /\ n.at \in Nat
      BY <2>1, <2>5, <2>14, <2>15 DEF Family, Drafts, Certifying
    <3>4. \A s \in Family : s.version \in Nat /\ s.version < v /\ v \in Nat
      BY <1>1, <2>1, <2>3, VersionsAssumption DEF Family, Types, Snapshots
    <3>5. \A s \in Drafts : s.version \in Nat
      BY <1>1, JobIs, VersionsAssumption DEF Drafts, Certifying, Types, Snapshots
    <3>6. \A s \in Drafts : s.version <= v
      BY <2>1, <3>2, <3>4, <3>5 DEF AtMostNext
    <3>7. serial => Drafts = {}
      BY <1>2 DEF Drafts, Certifying
    <3>8. InOrder(Family \cup Drafts)'
      BY <1>2, <2>5, <3>1, <3>2, <3>3, <3>4, <3>6, <3>7 DEF InOrder
    <3>9. AtMostNext(n, Family)
      BY <2>3, <2>5 DEF AtMostNext
    <3> QED BY <3>1, <3>2, <3>8, <3>9 DEF AtMostNext
  <2>20. ReportIsAboutTheLearner'
    BY <1>2 DEF Inv, ReportIsAboutTheLearner
  <2> QED BY <2>11, <2>12, <2>16, <2>17, <2>18, <2>19, <2>20 DEF Inv
<1> QED BY <1>6, <1>7 DEF Publish

\* A snapshot more does not change what a row and its job say.
LEMMA CertifyKeeps ==
  ASSUME Inv, NEW c \in Runs, Certify(c)
  PROVE  Inv'
<1>1. Types /\ RowsOK /\ Timed /\ Enrolled /\ Alone /\ Numbered
  BY DEF Inv
<1>2. /\ job[c].pc = "certify" /\ job[c] \in JobStates /\ snapshots' = snapshots \cup {job[c].draft}
      /\ UNCHANGED <<serial, rows, courses, flow, enrollments, report, clock, crashed>>
  BY Here DEF Certify
<1>3. PICK n \in Snapshots : n = job[c].draft
  BY <1>2, JobIs
<1>4. n.run = c /\ n.at <= clock /\ n.version <= n.at /\ \A s \in snapshots : s.at # n.at
  BY <1>1, <1>2, <1>3 DEF Timed, Certifying
<1>5. PICK j \in JobStates : j = [job[c] EXCEPT !.pc = "link"] /\ j.pc = "link" /\ j.draft = n
  <2>1. PICK o \in [pc : {"certify", "link"}, draft : Snapshots] : o = job[c]
    BY <1>2 DEF JobStates, NoJob
  <2>2. PICK j \in [pc : {"certify", "link"}, draft : Snapshots] : j = [o EXCEPT !.pc = "link"]
    OBVIOUS
  <2>3. j.pc = "link" /\ j.draft = n
    BY <1>3, <2>1, <2>2
  <2> QED BY <2>1, <2>2, <2>3 DEF JobStates
<1>6. /\ job' = [job EXCEPT ![c] = j] /\ job'[c] = j
      /\ \A d \in Runs : d # c => job'[d] = job[d]
  BY <1>1, <1>5 DEF Certify, Types
<1>7. Exists(c) /\ RowOK(c, courses[c], job[c], snapshots)
  BY <1>2, Here
<1>8. courses[First].kind = "progressive" /\ courses[c].latest = 0
  BY <1>2, <1>7 DEF RowOK
<1>9. Family' = Family \cup {n} /\ snapshots' = snapshots \cup {n}
  BY <1>2, <1>3, <1>4 DEF Family
<1>10. Types'
  <2>1. job' \in [Runs -> JobStates]
    BY <1>1, <1>6 DEF Types
  <2>2. IsFiniteSet(snapshots') /\ snapshots' \in SUBSET Snapshots
    BY <1>1, <1>9, FS_AddElement DEF Types
  <2>3. Exists(First)'
    BY <1>1, <1>2 DEF Types, Exists
  <2> QED BY <1>1, <1>2, <2>1, <2>2, <2>3 DEF Types
<1>11. \A d \in Runs : Exists(d) <=> Exists(d)'
  BY <1>2 DEF Exists
<1>12. RowsOK'
  <2> SUFFICES ASSUME NEW d \in Runs
               PROVE  IF Exists(d)' THEN RowOK(d, courses[d], job[d], snapshots)' ELSE job'[d].pc = "idle"
    BY DEF RowsOK
  <2>1. CASE d = c
    BY <1>2, <1>5, <1>6, <1>7, <1>11, <2>1 DEF RowOK
  <2>2. CASE d # c
    BY <1>1, <1>2, <1>6, <1>11, <2>2 DEF RowsOK, RowOK
  <2> QED BY <2>1, <2>2
<1>13. Certifying' = Certifying \ {c} /\ c \in Certifying /\ \A d \in Certifying' : job'[d] = job[d]
  BY <1>2, <1>5, <1>6 DEF Certifying
<1>14. Timed'
  <2>1. \A s \in snapshots' : s.at <= clock' /\ s.version <= s.at
    BY <1>1, <1>2, <1>4, <1>9 DEF Timed
  <2>2. \A s, u \in snapshots' : s.at = u.at => s = u
    BY <1>1, <1>4, <1>9 DEF Timed
  <2>3. \A s \in Family' : Exists(s.run)' /\ (courses'[First].kind = "outcome" => courses'[s.run].latest # 0)
    BY <1>1, <1>2, <1>4, <1>7, <1>8, <1>9, <1>11 DEF Timed, Family
  <2>4. \A d \in Runs : job'[d].pc \in {"certify", "link"} =>
          job'[d].draft.run = d /\ job'[d].draft.at <= clock' /\ job'[d].draft.version <= job'[d].draft.at
    BY <1>1, <1>2, <1>4, <1>5, <1>6 DEF Timed
  <2>5. \A d \in Runs : job'[d].pc = "link" => job'[d].draft \in snapshots'
    BY <1>1, <1>5, <1>6, <1>9 DEF Timed
  <2>6. \A d \in Certifying' : \A s \in snapshots' : s.at # job'[d].draft.at
    BY <1>1, <1>3, <1>9, <1>13 DEF Timed
  <2>7. \A d, e \in Certifying' : job'[d].draft.at = job'[e].draft.at => d = e
    BY <1>1, <1>13 DEF Timed
  <2> QED BY <2>1, <2>2, <2>3, <2>4, <2>5, <2>6, <2>7 DEF Timed
<1>15. Enrolled'
  <2>1. \A e \in enrollments : e.run \in Runs
    BY <1>1 DEF Types
  <2> QED BY <1>1, <1>2, <1>11, <2>1 DEF Enrolled
<1>16. Alone'
  BY <1>1, <1>2, <1>6 DEF Alone
<1>17. Numbered'
  <2> SUFFICES ASSUME Cardinality(snapshots') <= Window
               PROVE  InOrder(Family \cup Drafts)' /\ \A d \in Drafts' : AtMostNext(d, Family')
    BY DEF Numbered
  <2>1. Cardinality(snapshots) <= Window
    <3>1. IsFiniteSet(snapshots) /\ IsFiniteSet(snapshots')
      BY <1>1, <1>10 DEF Types
    <3>2. Cardinality(snapshots) <= Cardinality(snapshots')
      BY <1>9, <3>1, FS_Subset
    <3> QED BY <3>1, <3>2, FS_CardinalityType, VersionsAssumption
  <2>2. InOrder(Family \cup Drafts) /\ \A d \in Drafts : AtMostNext(d, Family)
    BY <1>1, <2>1 DEF Numbered
  <2>3. Drafts' \subseteq Drafts /\ n \in Drafts
    BY <1>3, <1>13 DEF Drafts
  <2>4. InOrder(Family \cup Drafts)'
    BY <1>2, <1>9, <2>2, <2>3 DEF InOrder
  <2> QED BY <1>9, <2>2, <2>3, <2>4 DEF AtMostNext
<1>18. ReportIsAboutTheLearner'
  BY <1>2 DEF Inv, ReportIsAboutTheLearner
<1> QED BY <1>10, <1>12, <1>14, <1>15, <1>16, <1>17, <1>18 DEF Inv

\* A row that is linked to its snapshot is published; nobody was enrolled in it.
LEMMA LinkKeeps ==
  ASSUME Inv, NEW c \in Runs, Link(c)
  PROVE  Inv'
<1>1. Types /\ RowsOK /\ Timed /\ Enrolled /\ Alone /\ Numbered
  BY DEF Inv
<1>2. /\ job[c].pc = "link" /\ job[c] \in JobStates /\ NoJob \in JobStates /\ NoJob.pc = "idle"
      /\ job' = [job EXCEPT ![c] = NoJob]
      /\ UNCHANGED <<serial, rows, flow, snapshots, enrollments, report, clock, crashed>>
  BY Here DEF Link
<1>3. PICK n \in snapshots : n = job[c].draft /\ n.run = c /\ n.at \in Nat /\ n.at # 0
  BY <1>1, <1>2, JobIs, VersionsAssumption DEF Timed
<1>4. PICK o \in Rows : o = courses[c] /\ RowOK(c, o, job[c], snapshots) /\ Exists(c)
  BY <1>2, Here
<1>5. o.kind = "progressive" /\ o.kind = courses[First].kind /\ o.latest = 0
  BY <1>2, <1>4 DEF RowOK
<1>6. PICK r \in Rows : r = [o EXCEPT !.stage = "published", !.latest = n.at]
  BY <1>3 DEF Rows
<1>7. r.kind = o.kind /\ r.stage = "published" /\ r.latest = n.at /\ r # None
  <2>1. r.kind # "none"
    BY DEF Rows
  <2> QED BY <1>6, <2>1 DEF Rows, None
<1>8. courses' = [courses EXCEPT ![c] = r]
  BY <1>3, <1>4, <1>6 DEF Link
<1>9. /\ courses'[c] = r /\ job'[c] = NoJob
      /\ \A d \in Runs : d # c => courses'[d] = courses[d] /\ job'[d] = job[d]
  BY <1>1, <1>2, <1>8 DEF Types
<1>10. /\ Exists(c)' /\ \A d \in Runs : Exists(d) <=> Exists(d)'
       /\ courses'[First].kind = courses[First].kind
  BY <1>4, <1>5, <1>7, <1>9, VersionsAssumption DEF Exists
<1>11. Types'
  <2>1. courses' \in [Runs -> {None} \cup Rows] /\ job' \in [Runs -> JobStates]
    BY <1>1, <1>2, <1>8 DEF Types
  <2>2. Exists(First)'
    BY <1>1, <1>10, VersionsAssumption DEF Types
  <2> QED BY <1>1, <1>2, <2>1, <2>2 DEF Types
<1>12. RowsOK'
  <2> SUFFICES ASSUME NEW d \in Runs
               PROVE  IF Exists(d)' THEN RowOK(d, courses[d], job[d], snapshots)' ELSE job'[d].pc = "idle"
    BY DEF RowsOK
  <2>1. CASE d = c
    BY <1>2, <1>3, <1>5, <1>7, <1>9, <1>10, <2>1 DEF RowOK
  <2>2. CASE d # c
    BY <1>1, <1>2, <1>9, <1>10, <2>2 DEF RowsOK, RowOK
  <2> QED BY <2>1, <2>2
<1>13. Certifying' = Certifying /\ \A d \in Certifying : job'[d] = job[d]
  BY <1>2, <1>9 DEF Certifying
<1>14. Timed'
  <2>1. \A s \in Family : Exists(s.run)' /\ (courses'[First].kind = "outcome" => courses'[s.run].latest # 0)
    BY <1>1, <1>5, <1>10 DEF Timed, Family
  <2>2. Family' = Family
    BY <1>2 DEF Family
  <2>3. \A d \in Runs : job'[d].pc \in {"certify", "link"} => job'[d] = job[d]
    BY <1>2, <1>9
  <2> QED BY <1>1, <1>2, <1>13, <2>1, <2>2, <2>3 DEF Timed
<1>15. Enrolled'
  <2> SUFFICES ASSUME NEW e \in enrollments PROVE Exists(e.run)' /\ e.snapshot = courses'[e.run].latest
    BY <1>2 DEF Enrolled
  <2>1. e.run \in Runs /\ e.snapshot # 0
    BY <1>1, VersionsAssumption DEF Types
  <2>2. e.run # c
    BY <1>1, <1>4, <1>5, <2>1 DEF Enrolled
  <2> QED BY <1>1, <1>9, <1>10, <2>1, <2>2 DEF Enrolled
<1>16. Alone'
  BY <1>1, <1>2, <1>9 DEF Alone
<1>17. Numbered'
  <2>1. Drafts' = Drafts /\ Family' = Family
    BY <1>2, <1>13 DEF Drafts, Family
  <2> QED BY <1>1, <1>2, <2>1 DEF Numbered, InOrder, AtMostNext
<1>18. ReportIsAboutTheLearner'
  BY <1>2 DEF Inv, ReportIsAboutTheLearner
<1> QED BY <1>11, <1>12, <1>14, <1>15, <1>16, <1>17, <1>18 DEF Inv

\* A snapshot of another family is none of this one's.
LEMMA PublishOtherKeeps ==
  ASSUME Inv, PublishOther
  PROVE  Inv'
<1>1. Types /\ RowsOK /\ Timed /\ Enrolled /\ Alone /\ Numbered
  BY DEF Inv
<1>2. /\ clock < MaxSnapshots /\ clock' = clock + 1 /\ clock \in 1..MaxSnapshots /\ MaxSnapshots \in Nat
      /\ snapshots' = snapshots \cup {Made("other", 1)}
      /\ UNCHANGED <<serial, rows, courses, flow, enrollments, report, job, crashed>>
  BY <1>1, VersionsAssumption DEF PublishOther, Types
<1>3. PICK n \in Snapshots : n = Made("other", 1)
  <2>1. 1 \in 1..MaxSnapshots /\ clock + 1 \in 1..MaxSnapshots /\ "other" \in Runs \cup {"other"}
    BY <1>2
  <2> QED BY <2>1 DEF Made, Snapshots
<1>4. n.at = clock + 1 /\ n.run = "other" /\ n.version = 1 /\ n.run \notin Runs
  BY <1>3, VersionsAssumption DEF Made
<1>5. snapshots' = snapshots \cup {n} /\ Family' = Family
  BY <1>2, <1>3, <1>4 DEF Family
<1>6. Types'
  <2>1. IsFiniteSet(snapshots') /\ snapshots' \in SUBSET Snapshots
    BY <1>1, <1>5, FS_AddElement DEF Types
  <2>2. Exists(First)'
    BY <1>1, <1>2 DEF Types, Exists
  <2> QED BY <1>1, <1>2, <2>1, <2>2 DEF Types
<1>7. \A d \in Runs : Exists(d) <=> Exists(d)'
  BY <1>2 DEF Exists
<1>8. RowsOK'
  BY <1>1, <1>2, <1>7 DEF RowsOK, RowOK
<1>9. \A s \in snapshots : s.at <= clock /\ s.at \in Nat
  BY <1>1, <1>2 DEF Timed, Types, Snapshots
<1>10. \A d \in Runs : job[d].pc \in {"certify", "link"} => job[d].draft.at <= clock /\ job[d].draft.at \in Nat
  BY <1>1, <1>2, JobIs DEF Timed, Types
<1>11. Certifying' = Certifying /\ Drafts' = Drafts
  BY <1>2 DEF Certifying, Drafts
<1>12. Timed'
  <2>1. \A s \in snapshots' : s.at <= clock' /\ s.version <= s.at
    BY <1>1, <1>2, <1>4, <1>5, <1>9 DEF Timed
  <2>2. \A s, u \in snapshots' : s.at = u.at => s = u
    BY <1>1, <1>2, <1>4, <1>5, <1>9 DEF Timed
  <2>3. \A s \in Family' : Exists(s.run)' /\ (courses'[First].kind = "outcome" => courses'[s.run].latest # 0)
    BY <1>1, <1>2, <1>5, <1>7 DEF Timed, Family
  <2>4. \A d \in Runs : job'[d].pc \in {"certify", "link"} =>
          job'[d].draft.run = d /\ job'[d].draft.at <= clock' /\ job'[d].draft.version <= job'[d].draft.at
    BY <1>1, <1>2, <1>10 DEF Timed
  <2>5. \A d \in Runs : job'[d].pc = "link" => job'[d].draft \in snapshots'
    BY <1>1, <1>2, <1>5 DEF Timed
  <2>6. \A d \in Certifying' : \A s \in snapshots' : s.at # job'[d].draft.at
    BY <1>1, <1>2, <1>4, <1>5, <1>10, <1>11 DEF Timed, Certifying
  <2>7. \A d, e \in Certifying' : job'[d].draft.at = job'[e].draft.at => d = e
    BY <1>1, <1>2, <1>11 DEF Timed
  <2> QED BY <2>1, <2>2, <2>3, <2>4, <2>5, <2>6, <2>7 DEF Timed
<1>13. Enrolled'
  <2>1. \A e \in enrollments : e.run \in Runs
    BY <1>1 DEF Types
  <2> QED BY <1>1, <1>2, <1>7, <2>1 DEF Enrolled
<1>14. Numbered'
  <2> SUFFICES ASSUME Cardinality(snapshots') <= Window
               PROVE  InOrder(Family \cup Drafts)' /\ \A d \in Drafts' : AtMostNext(d, Family')
    BY DEF Numbered
  <2>1. Cardinality(snapshots) <= Window
    <3>1. IsFiniteSet(snapshots) /\ IsFiniteSet(snapshots')
      BY <1>1, <1>6 DEF Types
    <3>2. Cardinality(snapshots) <= Cardinality(snapshots')
      BY <1>5, <3>1, FS_Subset
    <3> QED BY <3>1, <3>2, FS_CardinalityType, VersionsAssumption
  <2> QED BY <1>1, <1>2, <1>5, <1>11, <2>1 DEF Numbered, InOrder, AtMostNext
<1>15. Alone' /\ ReportIsAboutTheLearner'
  BY <1>1, <1>2 DEF Alone, Inv, ReportIsAboutTheLearner
<1> QED BY <1>6, <1>8, <1>12, <1>13, <1>14, <1>15 DEF Inv

\* After a restart nothing is under way, and rows are what they were.
LEMMA RestartKeeps ==
  ASSUME Inv, Restart
  PROVE  Inv'
<1>1. Types /\ RowsOK /\ Timed /\ Enrolled /\ Alone /\ Numbered
  BY DEF Inv
<1>2. /\ job' = [c \in Runs |-> NoJob] /\ NoJob \in JobStates /\ NoJob.pc = "idle" /\ crashed' = TRUE
      /\ UNCHANGED <<serial, rows, flow, snapshots, enrollments, report, clock>>
  BY DEF Restart, JobStates, NoJob
<1>3. ASSUME NEW c \in Runs
      PROVE  /\ courses'[c] \in {None} \cup Rows /\ (Exists(c)' <=> Exists(c))
             /\ Exists(c) => /\ courses'[c].kind = courses[c].kind /\ courses'[c].latest = courses[c].latest
                             /\ courses'[c].stage = courses[c].stage
  <2>1. CASE Exists(c) /\ courses[c].op # "none"
    <3>1. PICK o \in Rows : o = courses[c] /\ clock \in Nat
      BY <2>1, Here
    <3>2. PICK s \in Rows : s = [o EXCEPT !.op = "none"]
      BY DEF Rows
    <3>3. s.kind = o.kind /\ s.stage = o.stage /\ s.latest = o.latest
      BY <3>2 DEF Rows
    <3>4. PICK r \in Rows : r = Touched(s)
      BY <3>1, TouchedRow
    <3>5. r.kind = o.kind /\ r.stage = o.stage /\ r.latest = o.latest
      BY <3>1, <3>3, <3>4, TouchedRow
    <3>6. courses'[c] = r
      BY <2>1, <3>1, <3>2, <3>4 DEF Restart
    <3>7. r # None
      <4>1. r.kind # "none"
        BY DEF Rows
      <4> QED BY <4>1 DEF None
    <3> QED BY <2>1, <3>1, <3>5, <3>6, <3>7 DEF Exists
  <2>2. CASE ~(Exists(c) /\ courses[c].op # "none")
    <3>1. courses'[c] = courses[c]
      BY <2>2 DEF Restart
    <3> QED BY <1>1, <3>1 DEF Types, Exists
  <2> QED BY <2>1, <2>2
<1>4. courses'[First].kind = courses[First].kind /\ Exists(First)'
  BY <1>1, <1>3, VersionsAssumption DEF Types
<1>5. Types'
  <2>1. courses' = [c \in Runs |-> courses'[c]]
    BY DEF Restart
  <2>2. courses' \in [Runs -> {None} \cup Rows] /\ job' \in [Runs -> JobStates]
    BY <1>2, <1>3, <2>1
  <2> QED BY <1>1, <1>2, <1>4, <2>2 DEF Types
<1>6. RowsOK'
  <2> SUFFICES ASSUME NEW c \in Runs
               PROVE  IF Exists(c)' THEN RowOK(c, courses[c], job[c], snapshots)' ELSE job'[c].pc = "idle"
    BY DEF RowsOK
  <2>1. job'[c].pc = "idle"
    BY <1>2
  <2>2. ASSUME Exists(c) PROVE RowOK(c, courses[c], job[c], snapshots)'
    <3>1. RowOK(c, courses[c], job[c], snapshots)
      BY <2>2, Here
    <3> QED BY <1>2, <1>3, <1>4, <2>1, <2>2, <3>1 DEF RowOK
  <2> QED BY <1>3, <2>1, <2>2
<1>7. Certifying' = {} /\ Drafts' = {} /\ Family' = Family
  <2>1. \A c \in Runs : job'[c].pc = "idle"
    BY <1>2
  <2> QED BY <1>2, <2>1 DEF Certifying, Drafts, Family
<1>8. Timed'
  <2>1. \A s \in Family : Exists(s.run)' /\ (courses'[First].kind = "outcome" => courses'[s.run].latest # 0)
    BY <1>1, <1>3, <1>4 DEF Timed, Family
  <2>2. \A c \in Runs : job'[c].pc = "idle"
    BY <1>2
  <2> QED BY <1>1, <1>2, <1>7, <2>1, <2>2 DEF Timed
<1>9. Enrolled'
  <2>1. \A e \in enrollments : e.run \in Runs
    BY <1>1 DEF Types
  <2> QED BY <1>1, <1>2, <1>3, <2>1 DEF Enrolled
<1>10. Alone'
  BY <1>2 DEF Alone
<1>11. Numbered'
  BY <1>1, <1>2, <1>7 DEF Numbered, InOrder
<1>12. ReportIsAboutTheLearner'
  BY <1>2 DEF Inv, ReportIsAboutTheLearner
<1> QED BY <1>5, <1>6, <1>8, <1>9, <1>10, <1>11, <1>12 DEF Inv

\* Nothing depends on when a workflow is approved.
LEMMA ApproveWorkflowKeeps ==
  ASSUME Inv, NEW c \in Runs, ApproveWorkflow(c)
  PROVE  Inv'
<1>1. /\ flow' \in [Runs -> Statuses]
      /\ UNCHANGED <<serial, rows, courses, snapshots, enrollments, report, clock, job, crashed>>
  BY DEF ApproveWorkflow, Inv, Types, Statuses
<1>2. Types'
  BY <1>1 DEF Inv, Types, Exists
<1>3. RowsOK' /\ Timed' /\ Enrolled'
  BY <1>1 DEF Inv, RowsOK, RowOK, Timed, Enrolled, Exists, Family, Certifying
<1>4. Alone' /\ Numbered' /\ ReportIsAboutTheLearner'
  BY <1>1 DEF Inv, Alone, Numbered, InOrder, AtMostNext, Family, Drafts, Certifying, ReportIsAboutTheLearner
<1> QED BY <1>2, <1>3, <1>4 DEF Inv

\* What an enrollment is pinned to is what the course is linked to: of a course
\* without a link no snapshot was made, or it is not published.
LEMMA PinnedToLatest ==
  ASSUME Inv, NEW c \in Runs, Published(c), SnapshotOf(c) # 0
  PROVE  SnapshotOf(c) = courses[c].latest /\ \E s \in snapshots : s.at = courses[c].latest /\ s.run = c
<1>1. RowOK(c, courses[c], job[c], snapshots) /\ courses[c] \in Rows /\ Exists(c) /\ courses[c].stage = "published"
  BY Here DEF Published
<1>2. CASE courses[c].latest # 0
  BY <1>1, <1>2 DEF SnapshotOf, RowOK
<1>3. CASE courses[c].latest = 0
  <2>1. courses[c].kind = "outcome" /\ courses[First].kind = "outcome"
    BY <1>1, <1>3 DEF RowOK, Rows
  <2>2. \A s \in snapshots : s.run # c
    BY <1>3, <2>1 DEF Inv, Timed, Family
  <2>3. {s \in NewestSnapshots(Window) : s.run = c} = {}
    BY <2>2 DEF NewestSnapshots
  <2> QED BY <1>3, <2>3 DEF SnapshotOf
<1> QED BY <1>2, <1>3

\* A learner is pinned to what the course is linked to.
LEMMA EnrollKeeps ==
  ASSUME Inv, NEW l \in Learners, NEW c \in Runs, Enroll(l, c)
  PROVE  Inv'
<1>1. /\ Exists(c) /\ enrollments' = enrollments \cup {[learner |-> l, run |-> c, snapshot |-> courses[c].latest]}
      /\ UNCHANGED <<serial, rows, courses, flow, snapshots, report, clock, job, crashed>>
  BY PinnedToLatest DEF Enroll, Published
<1>2. courses[c].latest \in 1..MaxSnapshots
  <2>1. PICK s \in snapshots : s.at = courses[c].latest
    BY PinnedToLatest DEF Enroll
  <2> QED BY <2>1 DEF Inv, Types, Snapshots
<1>3. PICK n \in [learner : Learners, run : Runs, snapshot : 1..MaxSnapshots] :
        n = [learner |-> l, run |-> c, snapshot |-> courses[c].latest]
  BY <1>2
<1>4. n.run = c /\ n.snapshot = courses[c].latest /\ enrollments' = enrollments \cup {n}
  BY <1>1, <1>3
<1>5. Types'
  BY <1>1, <1>4 DEF Inv, Types, Exists
<1>6. RowsOK' /\ Timed' /\ Enrolled'
  BY <1>1, <1>4 DEF Inv, RowsOK, RowOK, Timed, Enrolled, Exists, Family, Certifying
<1>7. Alone' /\ Numbered' /\ ReportIsAboutTheLearner'
  BY <1>1, <1>4 DEF Inv, Alone, Numbered, InOrder, AtMostNext, Family, Drafts, Certifying, ReportIsAboutTheLearner
<1> QED BY <1>5, <1>6, <1>7 DEF Inv

\* A course run of another family changes nothing that the invariant speaks of.
LEMMA CreateOtherKeeps ==
  ASSUME Inv, CreateOther
  PROVE  Inv'
<1>1. rows' \in Nat /\ UNCHANGED <<serial, courses, flow, snapshots, enrollments, report, clock, job, crashed>>
  BY DEF CreateOther, Inv, Types
<1>2. Types'
  BY <1>1 DEF Inv, Types, Exists
<1>3. RowsOK' /\ Timed' /\ Enrolled'
  BY <1>1 DEF Inv, RowsOK, RowOK, Timed, Enrolled, Exists, Family, Certifying
<1>4. Alone' /\ Numbered' /\ ReportIsAboutTheLearner'
  BY <1>1 DEF Inv, Alone, Numbered, InOrder, AtMostNext, Family, Drafts, Certifying, ReportIsAboutTheLearner
<1> QED BY <1>2, <1>3, <1>4 DEF Inv

\* A report is about an enrollment there is.
LEMMA EvaluateKeeps ==
  ASSUME Inv, NEW c \in Runs, Evaluate(c)
  PROVE  Inv'
<1>1. UNCHANGED <<serial, rows, courses, flow, snapshots, enrollments, clock, job, crashed>>
  BY DEF Evaluate
<1>2. Types'
  BY <1>1 DEF Inv, Types, Exists
<1>3. RowsOK' /\ Timed' /\ Enrolled'
  BY <1>1 DEF Inv, RowsOK, RowOK, Timed, Enrolled, Exists, Family, Certifying
<1>4. Alone' /\ Numbered'
  BY <1>1 DEF Inv, Alone, Numbered, InOrder, AtMostNext, Family, Drafts, Certifying
<1>5. ReportIsAboutTheLearner'
  <2>1. PICK s \in snapshots, about \in {{}} \cup {{e} : e \in enrollments} :
          /\ \A e \in about : e.run = c /\ e.snapshot = s.at
          /\ report' = [run |-> c, snapshot |-> s.at, about |-> about]
    BY DEF Evaluate
  <2> QED BY <1>1, <2>1 DEF ReportIsAboutTheLearner
<1> QED BY <1>2, <1>3, <1>4, <1>5 DEF Inv

-----------------------------------------------------------------------------
(* The theorems *)

\* Every step keeps the invariant.
LEMMA NextKeeps ==
  ASSUME Inv, [Next]_vars
  PROVE  Inv'
<1>1. CASE UNCHANGED vars
  <2>1. UNCHANGED <<serial, rows, courses, flow, snapshots, enrollments, report, clock, job, crashed>>
    BY <1>1 DEF vars
  <2>2. Types' /\ RowsOK' /\ Timed' /\ Enrolled'
    BY <2>1 DEF Inv, Types, RowsOK, RowOK, Timed, Enrolled, Exists, Family, Certifying
  <2>3. Alone' /\ Numbered' /\ ReportIsAboutTheLearner'
    BY <2>1 DEF Inv, Alone, Numbered, InOrder, AtMostNext, Family, Drafts, Certifying, ReportIsAboutTheLearner
  <2> QED BY <2>2, <2>3 DEF Inv
<1>2. ASSUME NEW c \in Runs, JobStep(c) PROVE Inv'
  BY <1>2, FinishRevisionKeeps, CertifyKeeps, RefuseCertificateKeeps, LinkKeeps DEF JobStep
<1> QED BY <1>1, <1>2, RestartKeeps, PublishOtherKeeps, CreateOtherKeeps,
     RefreshKeeps, ApproveWorkflowKeeps, PublishKeeps,
     EvaluateKeeps, CreateRevisionKeeps, QueueRevisionKeeps, EnrollKeeps DEF Next

\* It holds in the beginning.
LEMMA InitHolds == Init => Inv
<1> SUFFICES ASSUME Init PROVE Inv
  OBVIOUS
<1> DEFINE RevisedIn(kind, old) == IF kind = "outcome" THEN {} ELSE old
           StageIn(kind, c) == IF kind # "survey" /\ c = First THEN "published" ELSE "awaiting_course_review"
           LatestIn(kind, c) == IF kind # "survey" /\ c = First THEN 1 ELSE 0
           CoursesIn(kind, old, born) ==
             [c \in Runs |->
                IF c \in {First} \cup RevisedIn(kind, old)
                THEN [kind |-> kind, stage |-> StageIn(kind, c), op |-> "none",
                      drafted |-> kind # "outcome", latest |-> LatestIn(kind, c),
                      touched |-> IF kind = "outcome" THEN 1 ELSE 0, born |-> born[c]]
                ELSE None]
<1>0. PICK kind \in {"progressive", "survey", "outcome"}, old \in SUBSET (Runs \ {First}) :
        /\ \E born \in Births({First} \cup RevisedIn(kind, old)) : courses = CoursesIn(kind, old, born)
        /\ flow = [c \in Runs |->
             IF c \notin {First} \cup RevisedIn(kind, old) \/ kind = "outcome" THEN "none"
             ELSE IF StageIn(kind, c) = "published" THEN "published" ELSE "awaiting_human"]
        /\ snapshots = IF kind # "survey" THEN {[at |-> 1, run |-> First, version |-> 1]} ELSE {}
  BY Zenon DEF Init
<1>1. PICK born \in [Runs -> 1..CourseWindow] : courses = CoursesIn(kind, old, born)
  BY <1>0 DEF Births
<1>2. /\ serial \in BOOLEAN /\ rows \in Nat /\ crashed = FALSE /\ enrollments = {} /\ report = NoReport /\ clock = 1
      /\ job = [c \in Runs |-> NoJob] /\ First \in Runs
  BY VersionsAssumption DEF Init
<1>3. PICK n \in Snapshots : n = [at |-> 1, run |-> First, version |-> 1]
  <2>1. 1 \in 1..MaxSnapshots /\ First \in Runs \cup {"other"}
    BY <1>2, VersionsAssumption
  <2> QED BY <2>1 DEF Snapshots
<1>4. n.at = 1 /\ n.run = First /\ n.version = 1 /\ snapshots = IF kind # "survey" THEN {n} ELSE {}
  BY <1>0, <1>3
<1>5. ASSUME NEW c \in Runs
      PROVE  \/ courses[c] = None /\ c # First
             \/ \E r \in Rows :
                  /\ courses[c] = r /\ r.kind = kind
                  /\ IF kind # "survey" /\ c = First THEN r.stage = "published" /\ r.latest = 1
                     ELSE r.stage = "awaiting_course_review" /\ r.latest = 0
  <2>1. CASE c \in {First} \cup (IF kind = "outcome" THEN {} ELSE old)
    <3>1. PICK stage \in {"published", "awaiting_course_review"} :
            stage = IF kind # "survey" /\ c = First THEN "published" ELSE "awaiting_course_review"
      OBVIOUS
    <3>2. PICK latest \in Nat : latest = IF kind # "survey" /\ c = First THEN 1 ELSE 0
      OBVIOUS
    <3>3. PICK touched \in Nat : touched = IF kind = "outcome" THEN 1 ELSE 0
      OBVIOUS
    <3>4. PICK drafted \in BOOLEAN, place \in Nat : drafted = (kind # "outcome") /\ place = born[c]
      <4>1. born[c] \in 1..CourseWindow /\ CourseWindow \in Nat
        BY VersionsAssumption
      <4>2. PICK place \in Nat : place = born[c]
        BY <4>1
      <4>3. PICK drafted \in BOOLEAN : drafted = (kind # "outcome")
        OBVIOUS
      <4> QED BY <4>2, <4>3
    <3>5. PICK r \in Rows :
            r = [kind |-> kind, stage |-> stage, op |-> "none", drafted |-> drafted,
                 latest |-> latest, touched |-> touched, born |-> place]
      BY DEF Rows
    <3>6. r.kind = kind /\ r.stage = stage /\ r.latest = latest
      BY <3>5
    <3>7. courses[c] = r
      BY <1>1, <2>1, <3>1, <3>2, <3>3, <3>4, <3>5
    <3> QED BY <3>1, <3>2, <3>6, <3>7
  <2>2. CASE c \notin {First} \cup (IF kind = "outcome" THEN {} ELSE old)
    BY <1>1, <2>2
  <2> QED BY <2>1, <2>2
<1>6. \A r \in Rows : r # None
  <2>1. \A r \in Rows : r.kind # "none"
    BY DEF Rows
  <2> QED BY <2>1 DEF None
<1>7. /\ Exists(First) /\ courses[First].kind = kind
      /\ \A c \in Runs : Exists(c) => /\ courses[c].kind = kind
                                      /\ IF kind # "survey" /\ c = First
                                         THEN courses[c].stage = "published" /\ courses[c].latest = 1
                                         ELSE courses[c].stage = "awaiting_course_review" /\ courses[c].latest = 0
  BY <1>2, <1>5, <1>6 DEF Exists
<1>8. \A c \in Runs : job[c].pc = "idle"
  BY <1>2 DEF NoJob
<1>9. Types
  <2>1. courses = [c \in Runs |-> courses[c]]
    BY <1>1
  <2>2. courses \in [Runs -> {None} \cup Rows]
    BY <1>5, <2>1
  <2>3. IsFiniteSet(snapshots) /\ snapshots \in SUBSET Snapshots
    BY <1>4, FS_EmptySet, FS_Singleton
  <2>4. job \in [Runs -> JobStates] /\ clock \in 1..MaxSnapshots
    BY <1>2, VersionsAssumption DEF JobStates
  <2>5. flow \in [Runs -> Statuses]
    BY <1>0 DEF Statuses
  <2> QED BY <1>2, <1>7, <2>2, <2>3, <2>4, <2>5 DEF Types
<1>10. RowsOK
  <2> SUFFICES ASSUME NEW c \in Runs, Exists(c) PROVE RowOK(c, courses[c], job[c], snapshots)
    BY <1>8 DEF RowsOK
  <2>1. courses[c].latest # 0 => \E s \in snapshots : s.at = courses[c].latest /\ s.run = c
    BY <1>4, <1>7
  <2> QED BY <1>7, <1>8, <2>1 DEF RowOK
<1>11. Certifying = {} /\ Drafts = {}
  BY <1>8 DEF Certifying, Drafts
<1>12. Timed
  BY <1>2, <1>4, <1>7, <1>8, <1>11 DEF Timed, Family
<1>13. Enrolled /\ ReportIsAboutTheLearner /\ Alone
  BY <1>2, <1>8 DEF Enrolled, ReportIsAboutTheLearner, NoReport, Alone
<1>14. Numbered
  BY <1>4, <1>11 DEF Numbered, InOrder, Family
<1> QED BY <1>9, <1>10, <1>12, <1>13, <1>14 DEF Inv

\* Every state of every behaviour has the invariant.
THEOREM Invariance == Spec => []Inv
  BY InitHolds, NextKeeps, PTL DEF Spec

\* What the invariant says of versions, defaults and reports.
LEMMA InvIsSound == Inv => VersionsAreSound
<1> SUFFICES ASSUME Inv PROVE VersionsAreSound
  OBVIOUS
<1>1. Types /\ Timed /\ Enrolled /\ Numbered /\ ReportIsAboutTheLearner
  BY DEF Inv
<1>2. TypeOK
  <2>1. \A c \in Runs : Exists(c) => courses[c] \in Rows
    BY Here
  <2>2. \A c \in Runs : job[c].pc \in {"idle", "revise", "certify", "link"}
    BY Here, JobIs
  <2> QED BY <1>1, <2>1, <2>2 DEF TypeOK, Types, Statuses, Snapshots
<1>3. VersionsCountUp
  BY <1>1 DEF VersionsCountUp, Numbered, InOrder, Family
<1>4. DefaultIsWhatLearnersGet
  <2>1. ASSUME Cardinality(snapshots) <= ListWindow, NEW c \in Runs, Exists(c), Supported(c)
        PROVE  {s.at : s \in Defaults(c)} = {SnapshotOf(c)}
    <3>1. PICK n \in snapshots : n.at = courses[c].latest /\ n.run = c /\ SnapshotOf(c) = n.at
      BY <2>1, PinnedToLatest DEF Supported
    <3>2. courses[c].latest # 0
      BY <2>1, <3>1 DEF Supported
    <3>3. FamilySnapshots(ListWindow) = {s \in snapshots : s.run \in Runs}
      BY <1>1, <2>1, AllAreNewest, VersionsAssumption DEF FamilySnapshots
    <3>4. Defaults(c) = {s \in snapshots : s.run \in Runs /\ s.at = n.at}
      BY <3>1, <3>2, <3>3 DEF Defaults
    <3> QED BY <3>1, <3>4
  <2> QED BY <1>1, <2>1 DEF DefaultIsWhatLearnersGet, Enrolled
<1> QED BY <1>1, <1>2, <1>3, <1>4 DEF VersionsAreSound

\* However many courses of a family are revised, published and enrolled in, and
\* wherever a restart cuts them: versions count up in the order in which they
\* were made, as long as the store looks at all snapshots; the default that
\* authors see is what an enrollment is pinned to, and learners have just that;
\* and an evaluation is about the snapshot its learner works on
\* (create_snapshot, list_published_versions, enroll, record_learner_evaluation).
THEOREM VersionsSound == Spec => []VersionsAreSound
  BY Invariance, InvIsSound, PTL

\* A published course that is not of the outcome graph is linked, and ranked by that.
LEMMA PublishedIsLinked ==
  ASSUME Inv, courses[First].kind # "outcome", NEW c \in Runs, Published(c)
  PROVE  /\ courses[c].kind = "progressive" /\ SnapshotOf(c) = courses[c].latest
         /\ courses[c].latest \in 1..MaxSnapshots /\ Rank(c) = 2 * courses[c].latest
         /\ \E s \in snapshots : s.at = courses[c].latest /\ s.run = c
<1>1. RowOK(c, courses[c], job[c], snapshots) /\ courses[c] \in Rows /\ Exists(c) /\ courses[c].stage = "published"
  BY Here DEF Published
<1>2. courses[c].kind = "progressive" /\ courses[c].latest # 0
  BY <1>1 DEF RowOK, Rows
<1>3. PICK s \in snapshots : s.at = courses[c].latest /\ s.run = c
  BY <1>1, <1>2 DEF RowOK
<1>4. SnapshotOf(c) = courses[c].latest
  BY <1>2 DEF SnapshotOf
<1>5. courses[c].latest \in 1..MaxSnapshots
  BY <1>3 DEF Inv, Types, Snapshots
<1>6. Rank(c) = 2 * courses[c].latest
  BY <1>2, <1>4 DEF Rank
<1> QED BY <1>2, <1>3, <1>4, <1>5, <1>6

\* Times and versions agree, so the course that is ranked first has the best
\* of the snapshots that are linked.
LEMMA InvOffersNewest == Inv => CatalogueOffersNewest
<1> DEFINE linked == {s \in snapshots : s.run \in Seen /\ courses[s.run].latest = s.at}
<1> SUFFICES ASSUME Inv, courses[First].kind # "outcome"
             PROVE  /\ Seen # {} => Catalogue # {}
                    /\ \A c \in Catalogue :
                         /\ Supported(c)
                         /\ \A s \in linked : s.at <= SnapshotOf(c)
                         /\ Cardinality(snapshots) <= Window => SnapshotOf(c) = Best(linked).at
  BY DEF CatalogueOffersNewest
<1>1. MaxSnapshots \in Nat /\ Types /\ Timed /\ (Cardinality(snapshots) <= Window => InOrder(Family))
  BY VersionsAssumption DEF Inv, Numbered, InOrder
<1>2. ASSUME NEW p \in Seen PROVE Catalogue # {}
  <2> DEFINE T == {courses[c].latest : c \in Seen}
  <2>1. T \in SUBSET (0..MaxSnapshots)
    BY <1>1, PublishedIsLinked DEF Seen
  <2>2. T # {}
    BY <1>2
  <2>3. PICK m \in T : \A k \in T : k <= m
    BY <1>1, <2>1, <2>2, Largest
  <2>4. PICK c \in Seen : courses[c].latest = m
    BY <2>3
  <2>5. ASSUME NEW d \in Seen PROVE Rank(c) >= Rank(d)
    <3>1. courses[d].latest \in T /\ courses[d].latest <= m
      BY <2>3, <2>5
    <3>2. /\ Rank(d) = 2 * courses[d].latest /\ courses[d].latest \in Nat
          /\ Rank(c) = 2 * courses[c].latest /\ courses[c].latest \in Nat
      BY <1>1, <2>4, <2>5, PublishedIsLinked DEF Seen
    <3> QED BY <2>4, <3>1, <3>2
  <2>6. c \in Catalogue
    BY <2>4, <2>5 DEF Catalogue
  <2> QED BY <2>6
<1>3. ASSUME NEW c \in Catalogue
      PROVE  /\ Supported(c)
             /\ \A s \in linked : s.at <= SnapshotOf(c)
             /\ Cardinality(snapshots) <= Window => SnapshotOf(c) = Best(linked).at
  <2>1. c \in Seen /\ c \in Runs /\ Published(c) /\ \A d \in Seen : Rank(c) >= Rank(d)
    BY <1>3 DEF Catalogue, Seen
  <2>2. PICK n \in snapshots :
          /\ n.at = courses[c].latest /\ n.run = c /\ SnapshotOf(c) = n.at /\ Rank(c) = 2 * n.at
          /\ n.at \in 1..MaxSnapshots /\ courses[c].kind = "progressive"
    BY <2>1, PublishedIsLinked
  <2>3. Supported(c)
    BY <1>1, <2>1, <2>2 DEF Supported
  <2>4. n \in linked /\ n \in Family
    BY <2>1, <2>2 DEF Family
  <2>5. ASSUME NEW s \in linked PROVE s.at \in 1..MaxSnapshots /\ s.at <= n.at
    <3>1. /\ s.run \in Seen /\ s.run \in Runs /\ courses[s.run].latest = s.at
          /\ s.at \in 1..MaxSnapshots /\ s \in Family
      BY <1>1, <2>5 DEF Types, Snapshots, Family, Seen
    <3>2. Published(s.run)
      BY <3>1 DEF Seen
    <3>3. Rank(s.run) = 2 * s.at /\ Rank(c) >= Rank(s.run)
      BY <2>1, <3>1, <3>2, PublishedIsLinked
    <3> QED BY <1>1, <2>2, <3>1, <3>3
  <2>6. ASSUME Cardinality(snapshots) <= Window PROVE SnapshotOf(c) = Best(linked).at
    <3>1. linked \in SUBSET Snapshots /\ linked # {} /\ \A s, u \in linked : s.at = u.at => s = u
      BY <1>1, <2>4 DEF Types, Timed
    <3>2. PICK b \in linked : b = Best(linked) /\ \A s \in linked : s = b \/ Better(b, s)
      BY <3>1, BestIs
    <3>3. b.at \in 1..MaxSnapshots /\ b.version \in 1..MaxSnapshots /\ n.version \in 1..MaxSnapshots /\ b \in Family
      BY <1>1, <3>2 DEF Types, Snapshots, Family, Seen
    <3>4. ASSUME n # b PROVE FALSE
      <4>1. Better(b, n)
        BY <2>4, <3>2, <3>4
      <4>2. b.at # n.at
        BY <1>1, <3>2, <3>4 DEF Timed
      <4>3. b.at < n.at
        BY <1>1, <2>2, <2>5, <3>2, <4>2
      <4>4. b.version <= n.version
        BY <1>1, <2>4, <2>6, <3>3, <4>3 DEF InOrder
      <4> QED BY <1>1, <2>2, <3>3, <4>1, <4>3, <4>4 DEF Better
    <3> QED BY <2>2, <3>2, <3>4
  <2> QED BY <2>2, <2>3, <2>5, <2>6
<1> QED BY <1>2, <1>3

\* Under the same overlaps and restarts, and however many course runs of any
\* family come after them, the catalogue offers, of the published courses of a
\* family among the rows it lists, one that learners can enroll in; none of them
\* was published later, and none has a better version as long as the store looks
\* at all snapshots (list_course_runs, list_catalog).
THEOREM CatalogueNewest == Spec => []CatalogueOffersNewest
  BY Invariance, InvOffersNewest, PTL

=============================================================================
