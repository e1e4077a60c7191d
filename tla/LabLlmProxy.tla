---------------------------- MODULE LabLlmProxy ----------------------------
(***************************************************************************)
(* The lab LLM proxy of services/lab_llm_proxy.py and the submissions that *)
(* use it (LMSService._submit_outcome_project, workspace_boot).  The proxy *)
(* and the grader share one JSON file of tokens and spend; each guards its *)
(* read-modify-write of it by the lock of its own process, and both write  *)
(* it through one temporary file.  The token reaches the learner's         *)
(* container through the environment of the grader's process.              *)
(*                                                                         *)
(* A submission has one token, named by the submission.  Tokens and dollars*)
(* are counted in one unit of usage.  A token that has expired is refused  *)
(* like one that is gone: a call need not be admitted.                     *)
(***************************************************************************)
EXTENDS Integers, FiniteSets, FiniteSetsExt

CONSTANTS
  Submissions,  \* each graded at most once
  Threads,      \* the proxy's threads: the calls it serves at a time
  GlobalCap,    \* GLOBAL_USD_CAP
  Budget,       \* the budget a token is issued with
  MaxUse,       \* the most one call uses
  MaxBilled     \* bound on what is billed in all

ASSUME ProxyAssumption ==
  /\ IsFiniteSet(Threads) /\ Threads # {}
  /\ GlobalCap \in Nat
  /\ Budget \in Nat
  /\ MaxUse \in Nat \ {0}
  /\ MaxBilled \in Nat

VARIABLES
  oneProcess,  \* the proxy runs in the grader's process and shares its lock
  serial,      \* a submission is posted when the one before it was answered
  store,   \* the file: the tokens, what is left of each, the spend recorded
  tmp,     \* the temporary file: a store, or NoFile
  env,     \* LAB_LLM_TOKEN of the grader's process
  sub,     \* each submission's progress and local data
  call,    \* each proxy thread's progress and local data
  billed   \* history: what the provider charges for

config == <<oneProcess, serial>>  \* does not change
vars == <<config, store, tmp, env, sub, call, billed>>

NoToken == "no token"

Absent == -1

\* A file: left[s] is what is left of the token of s, Absent without one.
Stores == [left : [Submissions -> Absent..Budget], spent : 0..MaxBilled]

EmptyStore == [left |-> [s \in Submissions |-> Absent], spent |-> 0]

\* No temporary file.
NoFile == [left |-> [s \in Submissions |-> Absent], spent |-> -1]

SubPCs == {"new", "issue", "issue_write", "issue_replace", "set_env", "boot",
           "grading", "revoke", "revoke_write", "revoke_replace", "restore", "done"}

CallPCs == {"idle", "upstream", "charge", "charge_write", "charge_replace"}

Init ==
  /\ oneProcess \in BOOLEAN
  /\ serial \in BOOLEAN
  /\ store = EmptyStore
  /\ tmp = NoFile
  /\ env = NoToken
  /\ sub = [s \in Submissions |->
              [pc |-> "new", minted |-> FALSE, prev |-> NoToken,
               container |-> NoToken, copy |-> EmptyStore]]
  /\ call = [t \in Threads |->
              [pc |-> "idle", token |-> NoToken, used |-> 0, copy |-> EmptyStore]]
  /\ billed = 0

-----------------------------------------------------------------------------
(* The locks and the file *)

\* A thread of the grader, and of the proxy, holds its process's _LOCK from
\* its read of the file to the end of its save.
GraderLocked ==
  \E s \in Submissions :
    sub[s].pc \in {"issue_write", "issue_replace", "revoke_write", "revoke_replace"}

ProxyLocked == \E t \in Threads : call[t].pc \in {"charge_write", "charge_replace"}

GraderMayLock == ~GraderLocked /\ (oneProcess => ~ProxyLocked)

\* A slip: the charge takes no lock.
ProxyNeedsNoLock == TRUE

ProxyMayLock == ~ProxyLocked /\ (oneProcess => ~GraderLocked)

\* _save_store writes the temporary file ...
WriteTmp(copy) ==
  /\ tmp' = copy
  /\ UNCHANGED store

\* ... and moves it over the store; the move raises when the file is gone.
ReplaceStore ==
  /\ store' = IF tmp = NoFile THEN store ELSE tmp
  /\ tmp' = NoFile

-----------------------------------------------------------------------------
(* A submission: _submit_outcome_project *)

SubGo(s, pc) == sub' = [sub EXCEPT ![s].pc = pc]

SubRead(s, pc, copy) == sub' = [sub EXCEPT ![s].pc = pc, ![s].copy = copy]

NoCall == UNCHANGED <<config, call, billed>>

\* The environment as it is now is kept, to be restored at the end.
Submit(s) ==
  /\ sub[s].pc = "new"
  /\ serial => \A u \in Submissions : sub[u].pc \in {"new", "done"}
  /\ sub' = [sub EXCEPT ![s].pc = "issue", ![s].prev = env]
  /\ UNCHANGED <<store, tmp, env>>
  /\ NoCall

\* issue_token reads the file and adds the token to its copy.
IssueRead(s) ==
  /\ sub[s].pc = "issue"
  /\ GraderMayLock
  /\ SubRead(s, "issue_write", [store EXCEPT !.left[s] = Budget])
  /\ UNCHANGED <<store, tmp, env>>
  /\ NoCall

IssueWrite(s) ==
  /\ sub[s].pc = "issue_write"
  /\ WriteTmp(sub[s].copy)
  /\ SubGo(s, "issue_replace")
  /\ UNCHANGED env
  /\ NoCall

\* A slip: a failure to mint ends the request.
IssueReplaceOrDie(s) ==
  /\ sub[s].pc = "issue_replace"
  /\ tmp # NoFile
  /\ sub' = [sub EXCEPT ![s].pc = "set_env", ![s].minted = TRUE]
  /\ ReplaceStore
  /\ UNCHANGED env
  /\ NoCall

\* A failure to mint is logged and grading goes on; the token is then never
\* put into the environment, nor revoked.
IssueReplace(s) ==
  /\ sub[s].pc = "issue_replace"
  /\ \/ /\ tmp # NoFile
        /\ sub' = [sub EXCEPT ![s].pc = "set_env", ![s].minted = TRUE]
     \/ /\ tmp = NoFile
        /\ SubGo(s, "boot")
  /\ ReplaceStore
  /\ UNCHANGED env
  /\ NoCall

SetEnv(s) ==
  /\ sub[s].pc = "set_env"
  /\ env' = s
  /\ SubGo(s, "boot")
  /\ UNCHANGED <<store, tmp>>
  /\ NoCall

\* workspace_boot forwards the environment of the process to the container.
Boot(s) ==
  /\ sub[s].pc = "boot"
  /\ sub' = [sub EXCEPT ![s].pc = "grading", ![s].container = env]
  /\ UNCHANGED <<store, tmp, env>>
  /\ NoCall

\* grader.run returns or raises: the finally block revokes what was minted.
GradeEnds(s) ==
  /\ sub[s].pc = "grading"
  /\ SubGo(s, IF sub[s].minted THEN "revoke" ELSE "restore")
  /\ UNCHANGED <<store, tmp, env>>
  /\ NoCall

\* A slip: the revocation reads the file before it takes the lock.
RevokeReadUnlocked(s) ==
  /\ sub[s].pc = "revoke"
  /\ IF store.left[s] = Absent
       THEN SubGo(s, "restore")
       ELSE SubRead(s, "revoke_write", [store EXCEPT !.left[s] = Absent])
  /\ UNCHANGED <<store, tmp, env>>
  /\ NoCall

\* revoke_token: no save when the token is not in the file.
RevokeRead(s) ==
  /\ sub[s].pc = "revoke"
  /\ GraderMayLock
  /\ IF store.left[s] = Absent
       THEN SubGo(s, "restore")
       ELSE SubRead(s, "revoke_write", [store EXCEPT !.left[s] = Absent])
  /\ UNCHANGED <<store, tmp, env>>
  /\ NoCall

RevokeWrite(s) ==
  /\ sub[s].pc = "revoke_write"
  /\ WriteTmp(sub[s].copy)
  /\ SubGo(s, "revoke_replace")
  /\ UNCHANGED env
  /\ NoCall

\* A failure to revoke is swallowed.
RevokeReplace(s) ==
  /\ sub[s].pc = "revoke_replace"
  /\ ReplaceStore
  /\ SubGo(s, "restore")
  /\ UNCHANGED env
  /\ NoCall

\* A slip: a variable that was not set before is not unset.
RestoreEnvKeeping(s) ==
  /\ sub[s].pc = "restore"
  /\ env' = IF sub[s].prev = NoToken THEN env ELSE sub[s].prev
  /\ SubGo(s, "done")
  /\ UNCHANGED <<store, tmp>>
  /\ NoCall

\* The environment kept at the start is put back.
RestoreEnv(s) ==
  /\ sub[s].pc = "restore"
  /\ env' = sub[s].prev
  /\ SubGo(s, "done")
  /\ UNCHANGED <<store, tmp>>
  /\ NoCall

SubStep(s) ==
  \/ IssueRead(s) \/ IssueWrite(s) \/ IssueReplace(s) \/ SetEnv(s) \/ Boot(s)
  \/ GradeEnds(s)
  \/ RevokeRead(s) \/ RevokeWrite(s) \/ RevokeReplace(s) \/ RestoreEnv(s)

-----------------------------------------------------------------------------
(* A call: complete *)

NoSub == UNCHANGED <<config, env, sub>>

\* A slip: the last dollar is admitted once too often.
AdmitAtCap(t) ==
  /\ call[t].pc = "idle"
  /\ ProxyMayLock
  /\ store.spent <= GlobalCap
  /\ \E s \in Submissions :
       /\ sub[s].pc = "grading"
       /\ sub[s].container # NoToken
       /\ store.left[sub[s].container] > 0
       /\ call' = [call EXCEPT ![t].pc = "upstream", ![t].token = sub[s].container]
  /\ UNCHANGED <<store, tmp, billed>>
  /\ NoSub

\* A container being graded calls with the token it was given; the proxy
\* admits the call on what the file says now, and forgets the file.
Admit(t) ==
  /\ call[t].pc = "idle"
  /\ ProxyMayLock
  /\ store.spent < GlobalCap
  /\ \E s \in Submissions :
       /\ sub[s].pc = "grading"
       /\ sub[s].container # NoToken
       /\ store.left[sub[s].container] > 0
       /\ call' = [call EXCEPT ![t].pc = "upstream", ![t].token = sub[s].container]
  /\ UNCHANGED <<store, tmp, billed>>
  /\ NoSub

\* A slip: a call that failed is charged its maximum.
AnswerOrCharge(t) ==
  /\ call[t].pc = "upstream"
  /\ call' = [call EXCEPT ![t].pc = "charge", ![t].used = MaxUse]
  /\ UNCHANGED <<store, tmp, billed>>
  /\ NoSub

\* The provider answers, and charges, or fails.  No lock is held.
Answer(t) ==
  /\ call[t].pc = "upstream"
  /\ \/ \E used \in 1..MaxUse :
          /\ billed + used <= MaxBilled
          /\ billed' = billed + used
          /\ call' = [call EXCEPT ![t].pc = "charge", ![t].used = used]
     \/ /\ call' = [call EXCEPT ![t].pc = "idle", ![t].token = NoToken]
        /\ UNCHANGED billed
  /\ UNCHANGED <<store, tmp>>
  /\ NoSub

\* A slip: a token that was revoked meanwhile is charged all the same.
ChargedBlindly(token, used) ==
  [left  |-> [store.left EXCEPT ![token] = @ - used],
   spent |-> store.spent + used]

\* The copy of the file with the call charged to its token, if the token is
\* still there, and to the global spend.
Charged(token, used) ==
  [left  |-> IF store.left[token] = Absent THEN store.left
             ELSE [store.left EXCEPT ![token] = Max({0, @ - used})],
   spent |-> store.spent + used]

ChargeRead(t) ==
  /\ call[t].pc = "charge"
  /\ ProxyMayLock
  /\ call' = [call EXCEPT ![t].pc = "charge_write",
                          ![t].copy = Charged(call[t].token, call[t].used)]
  /\ UNCHANGED <<store, tmp, billed>>
  /\ NoSub

ChargeWrite(t) ==
  /\ call[t].pc = "charge_write"
  /\ WriteTmp(call[t].copy)
  /\ call' = [call EXCEPT ![t].pc = "charge_replace"]
  /\ UNCHANGED billed
  /\ NoSub

\* When the move raises, the call ends in an error and stays uncharged.
ChargeReplace(t) ==
  /\ call[t].pc = "charge_replace"
  /\ ReplaceStore
  /\ call' = [call EXCEPT ![t] = [pc |-> "idle", token |-> NoToken, used |-> 0,
                                  copy |-> EmptyStore]]
  /\ UNCHANGED billed
  /\ NoSub

CallStep(t) ==
  Answer(t) \/ ChargeRead(t) \/ ChargeWrite(t) \/ ChargeReplace(t)

-----------------------------------------------------------------------------

Next ==
  \/ \E s \in Submissions : Submit(s) \/ SubStep(s)
  \/ \E t \in Threads : Admit(t) \/ CallStep(t)

\* A submission that was posted is worked off by its thread, and a call the
\* proxy admitted by its own (the provider answers within a timeout).
Fairness ==
  /\ \A s \in Submissions : WF_vars(SubStep(s))
  /\ \A t \in Threads : WF_vars(CallStep(t))

Spec == Init /\ [][Next]_vars /\ Fairness

-----------------------------------------------------------------------------
(* Properties *)

\* The types of all variables.
TypeOK ==
  /\ {oneProcess, serial} \subseteq BOOLEAN
  /\ store \in Stores
  /\ tmp \in Stores \cup {NoFile}
  /\ env \in Submissions \cup {NoToken}
  /\ sub \in [Submissions ->
       [pc : SubPCs, minted : BOOLEAN, prev : Submissions \cup {NoToken},
        container : Submissions \cup {NoToken}, copy : Stores]]
  /\ call \in [Threads ->
       [pc : CallPCs, token : Submissions \cup {NoToken}, used : 0..MaxUse,
        copy : Stores]]
  /\ billed \in 0..MaxBilled

\* The units of usage of the calls that have come so far.
Units(pcs) ==
  {u \in Threads \X (1..MaxUse) : call[u[1]].pc \in pcs /\ u[2] <= call[u[1]].used}

\* What the threads have used and not yet written to the file.
Unrecorded == Cardinality(Units({"charge", "charge_write", "charge_replace"}))

\* "charges the submission's token budget by real usage; logs spend": no
\* charge is ever lost, the file and the charges on their way account for
\* every unit the provider bills, if one lock is around every access.
EveryUseRecorded == oneProcess => billed = store.spent + Unrecorded

\* The hard stop is overshot by the calls in flight and by nothing else: less
\* than one call's usage for every proxy thread, if there is one lock.
OvershootBounded == oneProcess => billed < GlobalCap + Cardinality(Threads) * MaxUse

\* Nobody is charged for what was not used: the file never records more than
\* the provider billed, however the two processes overwrite each other.
NeverOvercharged == store.spent <= billed

\* The books: nothing is charged that was not used, nothing used is lost
\* between two writers of one process, and no budget is left below zero.
BooksBalance == TypeOK /\ NeverOvercharged /\ EveryUseRecorded

\* "revoked in finally so a token can't outlive its submission".
TokenDiesWithSubmission ==
  \A s \in Submissions : sub[s].pc = "done" => store.left[s] = Absent

\* The same if there is one lock.
OneLockTokenDies == oneProcess => TokenDiesWithSubmission

\* "enforces a GLOBAL USD hard-stop so a runaway course can never exceed the
\* cap".
CapNeverExceeded == billed <= GlobalCap

\* The grader's environment names a token "for the duration of one
\* submission" only, whatever its calls do beside it, as long as submissions
\* do not overlap; and no container is given the token of another submission.
EnvOnlyWhileGrading ==
  serial =>
    /\ \A s \in Submissions : sub[s].container \in {NoToken, s}
    /\ (\A s \in Submissions : sub[s].pc \in {"new", "done"}) => env = NoToken

\* Nothing of a submission outlives it: not its token in the file, not its
\* token in the environment that the next container is started with.
NothingOutlivesSubmission == OneLockTokenDies /\ EnvOnlyWhileGrading

\* "proxy optional — never block grading": a submission that was posted is
\* graded to its end, whatever the proxy and its file do.
GradingNeverBlocked ==
  \A s \in Submissions : sub[s].pc = "issue" ~> sub[s].pc = "done"

=============================================================================
