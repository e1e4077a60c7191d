-------------------------- MODULE SandboxLlmProxy --------------------------
(***************************************************************************)
(* The LLM proxy beside a sandboxed grading run                            *)
(* (services/sandbox_llm_proxy.py): its handler of /v1/messages, served by *)
(* a pool of threads, and the limiter they share, which counts the calls   *)
(* and the tokens of a submission under one lock.                          *)
(*                                                                         *)
(* Every access to the limiter is one step.  A handler reserves the tokens *)
(* it may come to use, counts the call, asks the provider and exchanges    *)
(* the reservation for what was really used.  The size of a prompt is only *)
(* estimated, so an answer may use more than was reserved.                 *)
(***************************************************************************)
EXTENDS Naturals, FiniteSets

CONSTANTS
  Requests,      \* the requests of the run, each handled by a thread
  Tiers,         \* the model tiers that a request can name
  Sizes,         \* the estimates and the max_tokens that requests come with
  Names,         \* the submission tokens that requests name
  AllowedTiers,            \* the config: the tiers served,
  MaxCallsPerSubmission,   \*   the calls in all,
  MaxTokensPerCall,        \*   the max_tokens of a call,
  MaxInputTokensPerCall,   \*   the estimate of its prompt,
  MaxTokensPerSubmission,  \*   the tokens in all,
  FixedSubmissionToken,    \*   the submission of this proxy, or NoToken
  Overrun        \* bound on what an answer uses beyond its reservation

StartupBucket == "__startup__"

NoToken == ""

ASSUME ProxyAssumption ==
  /\ IsFiniteSet(Requests)
  /\ Sizes \subseteq Nat
  /\ AllowedTiers \subseteq Tiers
  /\ {MaxCallsPerSubmission, MaxTokensPerCall, MaxInputTokensPerCall,
      MaxTokensPerSubmission, Overrun} \subseteq Nat
  /\ FixedSubmissionToken \in Names \cup {NoToken}
  /\ {StartupBucket, NoToken} \cap Names = {}

VARIABLES
  counts,  \* the limiter: calls of each bucket,
  tokens,  \*   and its tokens, used or reserved
  req      \* each request and the progress of its handler

vars == <<counts, tokens, req>>

Buckets == Names \cup {StartupBucket}

\* The answers of the proxy: 200, 400, 403, 429 and 502.
Statuses == {"ok", "bad request", "forbidden", "too many", "bad gateway"}

PCs == {"unsent", "reserve", "count", "upstream", "answered", "release", "done"}

Unsent ==
  [pc |-> "unsent", named |-> NoToken, projected |-> 0, actual |-> 0, status |-> "ok"]

Init ==
  /\ counts = [b \in Buckets |-> 0]
  /\ tokens = [b \in Buckets |-> 0]
  /\ req = [r \in Requests |-> Unsent]

-----------------------------------------------------------------------------
(* The limiter *)

\* A slip: the bucket is the one that the request names.
BucketNamed(r) == IF req[r].named = NoToken THEN StartupBucket ELSE req[r].named

\* Whose budget a request draws on: never the token it names itself.
Bucket(r) ==
  IF FixedSubmissionToken = NoToken THEN StartupBucket ELSE FixedSubmissionToken

InFlight == {"count", "upstream", "answered", "release"}

\* The most that a request which passed the checks comes to use.
MaxUse == MaxInputTokensPerCall + MaxTokensPerCall + Overrun

\* The sum over the requests of f, none of whose values is beyond MaxUse,
\* counted unit by unit.
Total(f) == Cardinality({u \in Requests \X (1..MaxUse) : u[2] <= f[u[1]]})

Reserved(b) ==
  Total([r \in Requests |->
    IF req[r].pc \in InFlight /\ Bucket(r) = b THEN req[r].projected ELSE 0])

\* A slip: what other calls have reserved is not looked at.
FitsUsed(b, n) == n = 0 \/ (tokens[b] - Reserved(b)) + n <= MaxTokensPerSubmission

\* The check of reserve_tokens, made under the lock that covers the increment;
\* an empty reservation fits into a bucket that overflows.
Fits(b, n) == n = 0 \/ tokens[b] + n <= MaxTokensPerSubmission

\* A slip: the call that reaches the cap passes too.
MayCallOnce(b) == counts[b] <= MaxCallsPerSubmission

\* The check of check_and_increment_calls.
MayCall(b) == counts[b] < MaxCallsPerSubmission

\* reconcile_tokens: the reservation is exchanged for the actual usage; never
\* below zero.
Reconciled(b, reserved, actual) ==
  [tokens EXCEPT ![b] = IF @ + actual < reserved THEN 0 ELSE (@ + actual) - reserved]

\* release_reservation.
Released(b, reserved) == Reconciled(b, reserved, 0)

-----------------------------------------------------------------------------
(* The handler *)

Done(r, status) == req' = [req EXCEPT ![r].pc = "done", ![r].status = status]

\* The checks that need no limiter: the tier, the size of the answer asked
\* for, the estimated size of the prompt.
Receive(r) ==
  /\ req[r].pc = "unsent"
  /\ \E tier \in Tiers, input \in Sizes, max \in Sizes, named \in Names \cup {NoToken} :
       LET q == [req[r] EXCEPT !.named = named, !.projected = input + max]
           Refuse(status) ==
             req' = [req EXCEPT ![r] = [q EXCEPT !.pc = "done", !.status = status]]
       IN  CASE tier \notin AllowedTiers -> Refuse("forbidden")
             [] tier \in AllowedTiers /\ max > MaxTokensPerCall -> Refuse("bad request")
             [] tier \in AllowedTiers /\ max <= MaxTokensPerCall
                  /\ input > MaxInputTokensPerCall -> Refuse("bad request")
             [] OTHER -> req' = [req EXCEPT ![r] = [q EXCEPT !.pc = "reserve"]]
  /\ UNCHANGED <<counts, tokens>>

\* The projected tokens are reserved, or the budget would be exceeded.
Reserve(r) ==
  /\ req[r].pc = "reserve"
  /\ LET b == Bucket(r)
     IN  \/ /\ Fits(b, req[r].projected)
            /\ tokens' = [tokens EXCEPT ![b] = @ + req[r].projected]
            /\ req' = [req EXCEPT ![r].pc = "count"]
         \/ /\ ~Fits(b, req[r].projected)
            /\ Done(r, "too many")
            /\ UNCHANGED tokens
  /\ UNCHANGED counts

\* A slip: a call beyond the cap keeps its reservation.
CountKeeping(r) ==
  /\ req[r].pc = "count"
  /\ LET b == Bucket(r)
     IN  \/ /\ MayCall(b)
            /\ counts' = [counts EXCEPT ![b] = @ + 1]
            /\ req' = [req EXCEPT ![r].pc = "upstream"]
         \/ /\ ~MayCall(b)
            /\ Done(r, "too many")
            /\ UNCHANGED counts
  /\ UNCHANGED tokens

\* The call is counted, or the calls are used up.
Count(r) ==
  /\ req[r].pc = "count"
  /\ LET b == Bucket(r)
     IN  \/ /\ MayCall(b)
            /\ counts' = [counts EXCEPT ![b] = @ + 1]
            /\ req' = [req EXCEPT ![r].pc = "upstream"]
         \/ /\ ~MayCall(b)
            /\ req' = [req EXCEPT ![r].pc = "release", ![r].status = "too many"]
            /\ UNCHANGED counts
  /\ UNCHANGED tokens

\* router.messages_raw returns an answer with its usage, or raises; then, it
\* is taken, nothing was used.
Upstream(r) ==
  /\ req[r].pc = "upstream"
  /\ \/ \E actual \in 0..(req[r].projected + Overrun) :
          req' = [req EXCEPT ![r].pc = "answered", ![r].actual = actual]
     \/ req' = [req EXCEPT ![r].pc = "release", ![r].status = "bad gateway"]
  /\ UNCHANGED <<counts, tokens>>

\* The reservation of a call that was not made, or failed, goes back.
Release(r) ==
  /\ req[r].pc = "release"
  /\ tokens' = Released(Bucket(r), req[r].projected)
  /\ Done(r, req[r].status)
  /\ UNCHANGED counts

\* The answer is returned once its usage is recorded.
Reconcile(r) ==
  /\ req[r].pc = "answered"
  /\ tokens' = Reconciled(Bucket(r), req[r].projected, req[r].actual)
  /\ Done(r, "ok")
  /\ UNCHANGED counts

Handle(r) == Reserve(r) \/ Count(r) \/ Upstream(r) \/ Release(r) \/ Reconcile(r)

Next == \E r \in Requests : Receive(r) \/ Handle(r)

\* Only safety is claimed: the handler sets the provider no deadline.
Spec == Init /\ [][Next]_vars

-----------------------------------------------------------------------------
(* Properties *)

\* The types of all variables; a run never gets more calls than it may have.
TypeOK ==
  /\ counts \in [Buckets -> 0..MaxCallsPerSubmission]
  /\ tokens \in [Buckets -> Nat]
  /\ req \in [Requests -> [pc : PCs, named : Names \cup {NoToken}, projected : Nat,
                           actual : Nat, status : Statuses]]

\* What the provider used for the requests that got an answer.
Used(S) == Total([r \in Requests |-> IF r \in S THEN req[r].actual ELSE 0])

Finished == {r \in Requests : req[r].pc = "done" /\ req[r].status = "ok"}

\* "release the reservation so the bucket doesn't leak": however the handlers
\* overlap, whichever checks refuse and whichever calls fail, the bucket of
\* the run holds what its calls used and what those in flight have reserved,
\* and the other buckets hold nothing.
BucketIsExact ==
  \A b \in Buckets :
    tokens[b] = Reserved(b) + Used({r \in Finished : Bucket(r) = b})

\* What answers used beyond their reservations.
Overruns ==
  Total([r \in Requests |->
    IF req[r].actual > req[r].projected THEN req[r].actual - req[r].projected ELSE 0])

\* "it will NEVER under-commit": whatever a request names and however calls
\* overlap, the run uses more than its budget only by as much as estimates
\* were too low.
BudgetKept == Used(Requests) <= MaxTokensPerSubmission + Overruns

\* The bucket of a run: what is counted in it is what was used or is in flight,
\* and that keeps the run to its budget, over all interleavings of the checks, the
\* calls upstream and what is given back after them.
BooksAreExact == BucketIsExact /\ BudgetKept

=============================================================================
