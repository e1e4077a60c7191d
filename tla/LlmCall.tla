------------------------------ MODULE LlmCall ------------------------------
(***************************************************************************)
(* Structured calls of language models (services/llm_router.py,            *)
(* anthropic_runtime_support.py, openai_runtime_support.py) and the loops  *)
(* of the services that make them: the two course planners, the authors of *)
(* oracles and of starter repositories, the judge of specs, the writer of  *)
(* feedback.                                                               *)
(*                                                                         *)
(* An attempt runs in a child process that puts its result into a queue of *)
(* one slot; the parent waits for the child to exit, or kills it at the    *)
(* deadline, and only then takes the result out.  A child exits when its   *)
(* result is in the pipe of the queue, so a result larger than the pipe    *)
(* keeps it alive.  That Anthropic refuses the schema as too complex is    *)
(* remembered in the server process, for all callers.                      *)
(*                                                                         *)
(* A caller handles one request, of Parts items where its service asks     *)
(* once for each (deliverables, review areas).  The callers of the model   *)
(* use one schema.  An answer costs one unit.                              *)
(***************************************************************************)
EXTENDS Naturals

CONSTANTS
  Callers,      \* threads of the server, each with one request
  MaxAttempts,  \* how often the services that retry try in all
  Parts,        \* the deliverables, and the failed review areas, of a request
  Oversize      \* whether an answer may be larger than the pipe

ASSUME CallAssumption ==
  /\ MaxAttempts \in Nat \ {0}
  /\ Parts \in Nat \ {0}
  /\ Oversize \in BOOLEAN

VARIABLES
  provider, \* the active provider; it does not change
  keyed,    \* whether it has an API key; that does not change
  complex,  \* whether it refuses the schema; that does not change
  kind,     \* which service each caller is; that does not change
  learned,  \* the schema is in _KNOWN_TOO_COMPLEX_SCHEMAS of the parent
  caller,   \* each caller's progress
  child,    \* the child process of each caller's attempt
  tries,    \* history: the children each caller has started
  heard,    \* history: the answers that reached each caller
  charged   \* history: the answers the provider charged each caller for

rigid == <<provider, keyed, complex, kind>>
history == <<tries, heard, charged>>
callVars == <<rigid, learned, caller, child, history>>

Kinds == {"course planner", "outcome planner", "oracle author", "repo author",
          "spec judge", "feedback writer"}

\* Services that ask once for every part, and those that do without an answer.
Partwise == {"repo author", "feedback writer"}

Tolerant == {"spec judge", "feedback writer"}

Failures == {"transient", "permanent"}

\* What a child puts into the queue, if anything.
Results == Failures \cup {"nothing", "answer"}

Ended == {"returned", "raised", "fell back"}

NoChild == [at |-> "gone", refused |-> FALSE, put |-> "nothing"]

\* Places at which a child still runs: in messages.parse (or responses.parse),
\* in messages.create, with an answer in hand, with one that does not fit.
Running == {"parse", "create", "answered", "stuck"}

CallInit ==
  /\ provider \in {"anthropic", "openai"}
  /\ keyed \in BOOLEAN
  /\ complex \in BOOLEAN
  /\ kind \in [Callers -> Kinds]
  /\ learned = FALSE
  /\ caller = [c \in Callers |->
       [pc |-> "begin", attempt |-> 1, part |-> 1, cost |-> 0]]
  /\ child = [c \in Callers |-> NoChild]
  /\ tries = [c \in Callers |-> 0]
  /\ heard = [c \in Callers |-> 0]
  /\ charged = [c \in Callers |-> 0]

Go(c, pc) == caller' = [caller EXCEPT ![c].pc = pc]

-----------------------------------------------------------------------------
(* What the services do before, with a failed attempt, and with an answer *)

\* The planner and the repo author find out whether they may call at all; the
\* oracle author loads its benchmark, which may fail; the judge and the
\* feedback writer may have no router.
Begin(c) ==
  /\ caller[c].pc = "begin"
  /\ \/ Go(c, "attempt")
     \/ kind[c] \in {"course planner", "oracle author"} /\ Go(c, "raised")
     \/ kind[c] \in Tolerant \cup {"repo author"} /\ Go(c, "fell back")
  /\ UNCHANGED <<rigid, learned, child, history>>

MayRetry(c) == caller[c].attempt < MaxAttempts

\* The next attempt at the same part.
Retried(c) == [caller[c] EXCEPT !.pc = "attempt", !.attempt = @ + 1]

Raised(c) == [caller[c] EXCEPT !.pc = "raised"]

\* A slip: the last attempt is followed by one more.
PlannerRetriesOnceMore(c, f) ==
  IF caller[c].attempt <= MaxAttempts /\ f = "transient" THEN Retried(c) ELSE Raised(c)

\* Only what looks transient is retried.
PlannerFailed(c, f) ==
  IF MayRetry(c) /\ f = "transient" THEN Retried(c) ELSE Raised(c)

\* Whatever failed is retried: the call, or the normalization of its answer.
OutcomePlannerFailed(c) == IF MayRetry(c) THEN Retried(c) ELSE Raised(c)

RepoAuthorFailed(c) == IF MayRetry(c) THEN Retried(c) ELSE Raised(c)

\* The next part, or the end when the last one is done.
NextPart(c, end) ==
  IF caller[c].part < Parts
  THEN [caller[c] EXCEPT !.pc = "attempt", !.part = @ + 1, !.attempt = 1]
  ELSE [caller[c] EXCEPT !.pc = end]

\* A review area without feedback stays as it is.
FeedbackFailed(c) == NextPart(c, "returned")

\* An attempt failed in a way that looks like f.
Failed(c, f) ==
  caller' = [caller EXCEPT ![c] =
    CASE kind[c] = "course planner" -> PlannerFailed(c, f)
      [] kind[c] \in {"outcome planner", "oracle author"} -> OutcomePlannerFailed(c)
      [] kind[c] = "repo author" -> RepoAuthorFailed(c)
      [] kind[c] = "spec judge" -> [caller[c] EXCEPT !.pc = "fell back"]
      [] kind[c] = "feedback writer" -> FeedbackFailed(c)]

\* The actions below take an answer that has arrived.
Judging(c, k) ==
  /\ caller[c].pc = "judge"
  /\ kind[c] = k
  /\ UNCHANGED <<rigid, learned, child, history>>

\* A plan that cannot be normalized ends the request; it is not retried.
PlanCourse(c) ==
  /\ Judging(c, "course planner")
  /\ \/ caller' = [caller EXCEPT ![c].pc = "returned", ![c].cost = 1]
     \/ Go(c, "raised")

\* Nothing is told of what the spec cost.
PlanOutcome(c) ==
  /\ Judging(c, "outcome planner")
  /\ Go(c, "returned") \/ Failed(c, "permanent")

\* A slip: the cost of a bundle that fails its validation is forgotten.
AuthorOracleForgetting(c) ==
  /\ Judging(c, "oracle author")
  /\ \/ caller' = [caller EXCEPT ![c].pc = "returned", ![c].cost = @ + 1]
     \/ Failed(c, "permanent")

\* The cost is added up before the bundle is looked at.
AuthorOracle(c) ==
  /\ Judging(c, "oracle author")
  /\ LET told == [caller[c] EXCEPT !.cost = @ + 1]
     IN  \/ caller' = [caller EXCEPT ![c] = [told EXCEPT !.pc = "returned"]]
         \/ /\ MayRetry(c)
            /\ caller' = [caller EXCEPT ![c] =
                 [told EXCEPT !.pc = "attempt", !.attempt = @ + 1]]
         \/ /\ ~MayRetry(c)
            /\ caller' = [caller EXCEPT ![c] = [told EXCEPT !.pc = "raised"]]

\* The repository of one deliverable is replaced, then the next one is asked
\* for.  What cannot be parsed or written ends the request.
AuthorRepo(c) ==
  /\ Judging(c, "repo author")
  /\ \/ caller' = [caller EXCEPT ![c] =
          [NextPart(c, "returned") EXCEPT !.cost = caller[c].cost + 1]]
     \/ Go(c, "raised")

ReviewSpec(c) ==
  /\ Judging(c, "spec judge")
  /\ Go(c, "returned") \/ Go(c, "fell back")

\* An area gets its feedback, or stays as it is when that cannot be used.
WriteFeedback(c) ==
  /\ Judging(c, "feedback writer")
  /\ caller' = [caller EXCEPT ![c] = NextPart(c, "returned")]

Judge(c) ==
  \/ PlanCourse(c) \/ PlanOutcome(c) \/ AuthorOracle(c) \/ AuthorRepo(c)
  \/ ReviewSpec(c) \/ WriteFeedback(c)

-----------------------------------------------------------------------------
(* The router and the parent's side of a call *)

\* messages.parse is skipped when the schema is known to be refused.
SkipParse == provider = "anthropic" /\ learned

\* parse_structured: without a key it raises; else it starts a child.
Spawn(c) ==
  /\ caller[c].pc = "attempt"
  /\ IF keyed
     THEN /\ child' = [child EXCEPT ![c] =
                         [at |-> IF SkipParse THEN "create" ELSE "parse",
                          refused |-> SkipParse, put |-> "nothing"]]
          /\ tries' = [tries EXCEPT ![c] = @ + 1]
          /\ Go(c, "wait")
     ELSE /\ Failed(c, "permanent")
          /\ UNCHANGED <<child, tries>>
  /\ UNCHANGED <<rigid, learned, heard, charged>>

\* A slip: the parent waits for the child as long as it takes.
DeadlineIgnored(c) == FALSE /\ UNCHANGED callVars

\* A slip: the child is told to terminate and not waited for.
DeadlineOnly(c) ==
  /\ caller[c].pc = "wait"
  /\ child[c].at \in Running
  /\ Failed(c, "transient")
  /\ UNCHANGED <<rigid, learned, child, history>>

\* The deadline passes while the child runs: it is terminated, or killed, and
\* waited for; TimeoutError, whose name looks transient.
Deadline(c) ==
  /\ caller[c].pc = "wait"
  /\ child[c].at \in Running
  /\ child' = [child EXCEPT ![c] = NoChild]
  /\ Failed(c, "transient")
  /\ UNCHANGED <<rigid, learned, history>>

\* A slip: whatever went wrong with parse, the schema is to blame.
LearnedFromFailures(r) == learned \/ r.refused \/ r.put = "permanent"

\* A refused schema is remembered only when the call succeeded all the same.
LearnedFrom(r) == learned \/ (r.put = "answer" /\ r.refused)

\* The child has exited: its result is taken out of the queue, which is empty
\* if the child crashed.  An answer brings its usage with it.
Receive(c) ==
  /\ caller[c].pc = "wait"
  /\ child[c].at = "exited"
  /\ child' = [child EXCEPT ![c] = NoChild]
  /\ learned' = LearnedFrom(child[c])
  /\ IF child[c].put = "answer"
     THEN /\ Go(c, "judge")
          /\ heard' = [heard EXCEPT ![c] = @ + 1]
     ELSE /\ Failed(c, IF child[c].put = "nothing" THEN "permanent" ELSE child[c].put)
          /\ UNCHANGED heard
  /\ UNCHANGED <<rigid, tries, charged>>

-----------------------------------------------------------------------------
(* The child *)

\* Its exit, with r in the queue.
Exit(c, r) == child' = [child EXCEPT ![c].at = "exited", ![c].put = r]

\* Anthropic refuses the schema: the child falls back to messages.create.
Fallback(c) ==
  /\ provider = "anthropic" /\ complex
  /\ child[c].at = "parse"
  /\ child' = [child EXCEPT ![c].at = "create", ![c].refused = TRUE]
  /\ UNCHANGED <<rigid, learned, caller, history>>

\* The provider answers, and charges.
Respond(c) ==
  /\ child[c].at \in {"parse", "create"}
  /\ child[c].at = "parse" => ~complex
  /\ child' = [child EXCEPT ![c].at = "answered"]
  /\ charged' = [charged EXCEPT ![c] = @ + 1]
  /\ UNCHANGED <<rigid, learned, caller, tries, heard>>

\* The request fails: an exception of the SDK or the network.
RequestFails(c) ==
  /\ child[c].at \in {"parse", "create"}
  /\ \E f \in Failures : Exit(c, f)
  /\ UNCHANGED <<rigid, learned, caller, history>>

\* A slip: an answer that does not parse is asked for again by the child.
DeliverOrAskAgain(c) ==
  /\ child[c].at = "answered"
  /\ \/ Exit(c, "answer")
     \/ child' = [child EXCEPT ![c].at = "create"]
  /\ UNCHANGED <<rigid, learned, caller, history>>

\* The answer is put into the queue, or, if it cannot be parsed, an error.
\* A process ends only when what it put has been written to the pipe.
Deliver(c) ==
  /\ child[c].at = "answered"
  /\ \/ Exit(c, "answer")
     \/ \E f \in Failures : Exit(c, f)
     \/ /\ Oversize
        /\ child' = [child EXCEPT ![c].at = "stuck", ![c].put = "answer"]
  /\ UNCHANGED <<rigid, learned, caller, history>>

\* The child dies without a result.
Crash(c) ==
  /\ child[c].at \in Running
  /\ Exit(c, "nothing")
  /\ UNCHANGED <<rigid, learned, caller, history>>

-----------------------------------------------------------------------------

ChildStep(c) == Fallback(c) \/ Respond(c) \/ RequestFails(c) \/ Deliver(c) \/ Crash(c)

CallerStep(c) == Begin(c) \/ Spawn(c) \/ Deadline(c) \/ Receive(c) \/ Judge(c)

CallNext == \E c \in Callers : CallerStep(c) \/ ChildStep(c)

\* The parent's thread goes on, and its deadline comes.  Nothing is assumed
\* of the provider, the network or the child.
CallFairness == \A c \in Callers : WF_callVars(CallerStep(c))

CallSpec == CallInit /\ [][CallNext]_callVars /\ CallFairness

-----------------------------------------------------------------------------
(* Properties *)

\* The types of all variables.
CallTypeOK ==
  /\ provider \in {"anthropic", "openai"}
  /\ {keyed, complex, learned} \subseteq BOOLEAN
  /\ kind \in [Callers -> Kinds]
  /\ caller \in [Callers ->
       [pc : {"begin", "attempt", "wait", "judge"} \cup Ended,
        attempt : 1..MaxAttempts, part : 1..Parts, cost : Nat]]
  /\ child \in [Callers ->
       [at : Running \cup {"gone", "exited"}, refused : BOOLEAN, put : Results]]
  /\ {tries, heard, charged} \subseteq [Callers -> Nat]

\* A child process runs only while its caller waits for it: the hard timeout
\* of _run_anthropic_call_in_subprocess leaves none behind when it raises and
\* the caller goes on to retry.
NoOrphan ==
  \A c \in Callers : child[c].at # "gone" => caller[c].pc = "wait"

\* However attempts, fallbacks, kills and retries follow on each other, the
\* provider is paid for at most one answer per attempt, and there are no more
\* attempts in all than the retries of every part allow.
PaidOncePerAttempt ==
  \A c \in Callers :
    /\ heard[c] <= charged[c]
    /\ charged[c] <= tries[c]
    /\ tries[c] <= MaxAttempts * Parts

\* The memory of refused schemas, shared by all callers, is never wrong: a
\* network error or a refusal to answer is not taken for a refused schema.
LearnedOnlyIfRefused == learned => provider = "anthropic" /\ complex

\* A service that reports what it spent reports every answer that reached it
\* (total_cost of author_oracle, usage of author_workspace_repo): also those
\* it threw away because they failed validation.
CostIsTold ==
  \A c \in Callers :
    caller[c].pc = "returned" /\ kind[c] \in {"course planner", "oracle author", "repo author"}
      => caller[c].cost = heard[c]

\* What was paid for the answers is bounded, and told.
BillsAreRight == PaidOncePerAttempt /\ CostIsTold

\* Every request ends: whatever the provider and the children do, its caller
\* gets an answer, an exception or falls back.
EveryRequestEnds == \A c \in Callers : <>(caller[c].pc \in Ended)

\* A child that has delivered its answer is not killed: "Anthropic structured
\* response exceeded N s" is raised for late answers only.
TimeoutMeansLate ==
  [][\A c \in Callers :
       child[c].at = "stuck" => ~(child'[c].at = "gone" /\ caller'[c].pc # "judge")]_callVars

\* "On the first observation for a new schema, record the fingerprint so the
\* next call benefits": once a child was refused and has gone, no other child
\* tries parse.
ObservedThenSkipped ==
  [][\A c \in Callers :
       child[c].refused /\ child'[c] = NoChild => learned']_callVars

=============================================================================
