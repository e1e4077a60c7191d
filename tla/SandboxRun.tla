----------------------------- MODULE SandboxRun -----------------------------
(***************************************************************************)
(* Checking an authored assignment in Docker                               *)
(* (services/docker_sandbox_runner.py, DockerSandboxRunner.execute, with   *)
(* the container operations it borrows from learner_studio_service.py),    *)
(* and booting the workspace of an outcome course (workspace_boot.py).     *)
(*                                                                         *)
(* Executions overlap: each holds a container, the support services of its *)
(* app with their network, and a port of the host that it found free some  *)
(* time before the container binds it.  Every docker command and every     *)
(* wait has a time limit.                                                  *)
(***************************************************************************)
EXTENDS Naturals

CONSTANTS
  Runs,          \* executions of the sandbox
  Ports,         \* ports of the host
  Deliverables   \* how many deliverables a spec has

ASSUME SandboxAssumption == Deliverables \in Nat \ {0}

VARIABLES
  mode,  \* what each execution is about; it does not change
  run,   \* the local variables of each execution
  app,   \* the container of each execution
  extras \* its support services and their network

sandboxVars == <<mode, run, app, extras>>

\* The last two are boots of a workspace: "sidecar" is one whose spec asks for a
\* database beside it.
Modes == {"unavailable", "runtime", "separate", "shared", "outcome", "sidecar"}

Items == 1..Deliverables

\* SandboxFailureStage: every stage before the checks of a deliverable counts
\* as start; "none" is a report without a failure.
Stages == {"start", "contract", "checks", "none"}

SandboxInit ==
  /\ mode \in [Runs -> Modes]
  /\ run = [r \in Runs |->
       [pc |-> "start", item |-> 1, ok |-> TRUE, reports |-> {},
        port |-> 0, files |-> FALSE, status |-> "none", timedOut |-> FALSE]]
  /\ app = [r \in Runs |-> "absent"]
  /\ extras = [r \in Runs |-> {}]

At(r, pc) == run[r].pc = pc

Do(r, new) == run' = [run EXCEPT ![r] = new]

Keep(x) == UNCHANGED mode /\ UNCHANGED x

\* Whoever answers at a port: the running container that has bound it.
Holders(p) == {q \in Runs : app[q] = "up" /\ run[q].port = p}

Free(p) == Holders(p) = {}

\* What is left of run r once it has returned; its flags are gone.
Returned(r, status) == [run[r] EXCEPT !.pc = "done", !.item = 1, !.files = FALSE, !.ok = TRUE, !.status = status]

\* subprocess.TimeoutExpired reached execute.
TimedOut(r) == [Returned(r, "failed") EXCEPT !.reports = {}, !.timedOut = TRUE]

\* Leaves the block of the temporary workspace, for the finally clause.
ToCleanup(local) == [local EXCEPT !.pc = "cleanup", !.files = FALSE]

\* A failure before the checks, reported for the deliverable at hand, or for all
\* of them when they share an app.
NotStarted(r) == [run[r] EXCEPT !.ok = FALSE, !.reports = @ \cup
  (IF mode[r] = "shared" THEN Items ELSE {run[r].item}) \X {"start"}]

\* The handler of exceptions: a shared app reports one for the first deliverable,
\* and only if nothing was reported yet.
Raised(r) == ToCleanup([run[r] EXCEPT !.ok = FALSE, !.reports = @ \cup
  (IF mode[r] # "shared" THEN {<<run[r].item, "start">>}
   ELSE IF @ = {} THEN {<<1, "start">>} ELSE {})])

-----------------------------------------------------------------------------
(* Before any container *)

\* execute: a run without a task-agent spec, or without docker, is not
\* executed; else its workspace decides how.
Execute(r) ==
  /\ At(r, "start")
  /\ Do(r, CASE mode[r] = "unavailable" -> Returned(r, "unavailable")
             [] mode[r] = "runtime"  -> [run[r] EXCEPT !.pc = "build"]
             [] mode[r] = "separate" -> [run[r] EXCEPT !.pc = "pick"]
             [] mode[r] = "shared"   -> [run[r] EXCEPT !.pc = "prepare"]
             [] OTHER                -> [run[r] EXCEPT !.pc = "provision"])
  /\ Keep(<<app, extras>>)

\* The image of a legacy runtime is built, or reused.
BuildRuntime(r) ==
  /\ At(r, "build")
  /\ \/ Do(r, [run[r] EXCEPT !.pc = "container"])
     \/ Do(r, Returned(r, "failed"))
     \/ Do(r, TimedOut(r))
  /\ Keep(<<app, extras>>)

\* docker run --rm of the legacy runtime, which reports on every deliverable.
\* When it takes too long the docker client is killed, not the container.
RunRuntime(r) ==
  /\ At(r, "container")
  /\ \/ /\ Do(r, [Returned(r, "passed") EXCEPT !.reports = {<<d, "none">> : d \in Items}])
        /\ UNCHANGED app
     \/ /\ Do(r, Returned(r, "failed"))
        /\ UNCHANGED app
     \/ /\ Do(r, TimedOut(r))
        /\ app' = [app EXCEPT ![r] = "up"]
  /\ Keep(extras)

\* A slip: the loop takes one deliverable too many.
NextItemTooFar(r) ==
  /\ At(r, "pick")
  /\ IF run[r].item <= Deliverables + 1
     THEN Do(r, [NotStarted(r) EXCEPT !.item = @ + 1])
     ELSE Do(r, [run[r] EXCEPT !.pc = "finalize"])
  /\ Keep(<<app, extras>>)

\* The next deliverable with a starter of its own: it may be missing; else a
\* port is looked for.
NextItem(r) ==
  /\ At(r, "pick")
  /\ \/ /\ run[r].item <= Deliverables
        /\ Do(r, [NotStarted(r) EXCEPT !.item = @ + 1])
     \/ /\ run[r].item <= Deliverables
        /\ \E p \in Ports : Free(p) /\ Do(r, [run[r] EXCEPT !.pc = "prepare", !.port = p])
     \/ /\ run[r].item > Deliverables
        /\ Do(r, [run[r] EXCEPT !.pc = "finalize"])
  /\ Keep(<<app, extras>>)

\* The dependency contract of a starter is materialized in it, in a container
\* of its own; a failure is the deliverable's.
PrepareSeparate(r) ==
  /\ mode[r] = "separate"
  /\ \/ Do(r, [run[r] EXCEPT !.pc = "image"])
     \/ Do(r, ToCleanup(NotStarted(r)))
     \/ Do(r, Raised(r))

\* A shared starter needs that once, and only then gets a port; a failure, or
\* an exception, is every deliverable's, and there is nothing to clean up.
PrepareShared(r) ==
  /\ mode[r] = "shared"
  /\ \/ \E p \in Ports : Free(p) /\ Do(r, [run[r] EXCEPT !.pc = "image", !.port = p])
     \/ Do(r, [NotStarted(r) EXCEPT !.pc = "finalize"])

Prepare(r) ==
  /\ At(r, "prepare")
  /\ PrepareSeparate(r) \/ PrepareShared(r)
  /\ Keep(<<app, extras>>)

\* The workspace is copied and its runtime image built.
Image(r) ==
  /\ At(r, "image")
  /\ \/ Do(r, [run[r] EXCEPT !.pc = "services", !.files = TRUE])
     \/ Do(r, ToCleanup(NotStarted(r)))
     \/ Do(r, Raised(r))
  /\ Keep(<<app, extras>>)

-----------------------------------------------------------------------------
(* Containers *)

\* _start_runtime_support_services: there may be none; when one does not start
\* those that did are removed, with the network.
StartServices(r) ==
  /\ At(r, "services")
  /\ \/ /\ extras' = [extras EXCEPT ![r] = {"services", "network"}]
        /\ Do(r, [run[r] EXCEPT !.pc = "launch"])
     \/ /\ UNCHANGED extras
        /\ Do(r, [run[r] EXCEPT !.pc = "launch"])
     \/ /\ \E left \in {{}, {"services"}} : extras' = [extras EXCEPT ![r] = left]
        /\ Do(r, Raised(r))
  /\ Keep(app)

\* A slip: a container that did not start ends the execution at once.
LaunchOrReturn(r) ==
  /\ At(r, "launch")
  /\ \/ /\ Free(run[r].port)
        /\ app' = [app EXCEPT ![r] = "up"]
        /\ Do(r, [run[r] EXCEPT !.pc = "health"])
     \/ /\ app' = [app EXCEPT ![r] = "created"]
        /\ Do(r, Returned(r, "failed"))
  /\ Keep(extras)

\* A slip: the return code of docker run is not looked at.
LaunchUnchecked(r) ==
  /\ At(r, "launch")
  /\ IF Free(run[r].port)
     THEN app' = [app EXCEPT ![r] = "up"]
     ELSE app' = [app EXCEPT ![r] = "created"]
  /\ Do(r, [run[r] EXCEPT !.pc = "health"])
  /\ Keep(extras)

\* docker run -d binds the port: that fails when another container got it
\* first.  A failed or late docker run may leave a container behind.
Launch(r) ==
  /\ At(r, "launch")
  /\ \/ /\ Free(run[r].port)
        /\ app' = [app EXCEPT ![r] = "up"]
        /\ \/ Do(r, [run[r] EXCEPT !.pc = "health"])
           \/ Do(r, Raised(r))
     \/ /\ \E left \in {"absent", "created"} : app' = [app EXCEPT ![r] = left]
        /\ \/ Do(r, ToCleanup(NotStarted(r)))
           \/ Do(r, Raised(r))
  /\ Keep(extras)

\* A slip: a shared starter's files go when its app is healthy.
HealthAndFilesGone(r) ==
  /\ At(r, "health")
  /\ \/ /\ ~Free(run[r].port)
        /\ Do(r, [run[r] EXCEPT !.pc = "probe", !.files = FALSE])
     \/ Do(r, Raised(r))
  /\ Keep(<<app, extras>>)

\* A slip: the wait has no deadline.
HealthForever(r) ==
  /\ At(r, "health")
  /\ ~Free(run[r].port)
  /\ Do(r, [run[r] EXCEPT !.pc = "probe", !.files = mode[r] = "shared"])
  /\ Keep(<<app, extras>>)

\* _wait_for_http: whoever answers at the port, with anything below 500, is
\* taken for the app.  Otherwise the container has stopped, or the deadline
\* has passed.  The files of a separate starter go when the app is healthy.
Health(r) ==
  /\ At(r, "health")
  /\ \/ /\ ~Free(run[r].port)
        /\ Do(r, [run[r] EXCEPT !.pc = "probe", !.files = mode[r] = "shared"])
     \/ Do(r, Raised(r))
  /\ Keep(<<app, extras>>)

\* The app of an execution exits by itself; docker frees its port and, of one
\* that was started with --rm, removes the container.
AppDies(r) ==
  /\ app[r] = "up"
  /\ app' = [app EXCEPT ![r] = IF mode[r] = "outcome" THEN "absent" ELSE "dead"]
  /\ UNCHANGED <<mode, run, extras>>

-----------------------------------------------------------------------------
(* The checks of a deliverable *)

\* _probe_contract_smoke: it passes only if somebody answers; what the answer
\* must be, for a partial starter or another, is left open.
Contract(r, passed) == passed => ~Free(run[r].port)

Stage(contract, checks) ==
  IF ~contract THEN "contract" ELSE IF ~checks THEN "checks" ELSE "none"

\* A separate starter: checks that fail are reported, and do not count.
ProbeSeparate(r) ==
  /\ mode[r] = "separate"
  /\ \E contract, checks \in BOOLEAN :
       /\ Contract(r, contract)
       /\ Do(r, ToCleanup([run[r] EXCEPT !.ok = @ /\ contract,
            !.reports = @ \cup {<<run[r].item, Stage(contract, checks)>>}]))

\* A slip: a contract that fails is reported, and does not count.
ProbeSharedLeniently(r) ==
  /\ mode[r] = "shared"
  /\ \E contract, checks \in BOOLEAN :
       /\ Contract(r, contract)
       /\ LET local == [run[r] EXCEPT !.ok = @ /\ checks,
                !.reports = @ \cup {<<run[r].item, Stage(contract, checks)>>}]
          IN  Do(r, IF run[r].item < Deliverables
                    THEN [local EXCEPT !.item = @ + 1] ELSE ToCleanup(local))

\* The shared app: both count.  A failure stops the walk, except that of a
\* deliverable without a check script.
ProbeShared(r) ==
  /\ mode[r] = "shared"
  /\ \E contract, checks, script \in BOOLEAN :
       /\ checks => script
       /\ Contract(r, contract)
       /\ LET stop == ~contract \/ (~checks /\ script)
              local == [run[r] EXCEPT !.ok = @ /\ contract /\ checks,
                !.reports = @ \cup {<<run[r].item, Stage(contract, checks)>>}]
          IN  Do(r, IF ~stop /\ run[r].item < Deliverables
                    THEN [local EXCEPT !.item = @ + 1] ELSE ToCleanup(local))

\* Checks may also raise.
Probe(r) ==
  /\ At(r, "probe")
  /\ \/ ProbeSeparate(r)
     \/ ProbeShared(r)
     \/ Do(r, Raised(r))
  /\ UNCHANGED <<mode, app, extras>>

\* _remove_runtime_support, in the finally clause.  A docker rm that takes too
\* long ends the execution, with whatever is left.
Cleanup(r) ==
  /\ At(r, "cleanup")
  /\ \/ /\ app' = [app EXCEPT ![r] = "absent"]
        /\ extras' = [extras EXCEPT ![r] = {}]
        /\ Do(r, IF mode[r] = "shared" THEN [run[r] EXCEPT !.pc = "finalize", !.port = 0]
                 ELSE [run[r] EXCEPT !.pc = "pick", !.item = @ + 1, !.port = 0])
     \/ /\ app' = app \/ app' = [app EXCEPT ![r] = "absent"]
        /\ UNCHANGED extras
        /\ Do(r, TimedOut(r))
  /\ Keep(<<>>)

\* _finalize_starter_result, and the end of _execute_starter_harness.
Finalize(r) ==
  /\ At(r, "finalize")
  /\ Do(r, Returned(r, IF run[r].ok /\ run[r].reports # {}
                       THEN "passed" ELSE "failed"))
  /\ Keep(<<app, extras>>)

-----------------------------------------------------------------------------
(* The workspace of an outcome course *)

\* _provision_capabilities: there are no sidecars, and the LLM proxy must answer
\* if it is needed.
Provision(r) ==
  /\ At(r, "provision")
  /\ \/ mode[r] # "sidecar" /\ Do(r, [run[r] EXCEPT !.pc = "build workspace"])
     \/ Do(r, Returned(r, "failed"))
  /\ Keep(<<app, extras>>)

\* The image is built, and then a port is looked for.
BuildWorkspace(r) ==
  /\ At(r, "build workspace")
  /\ \/ \E p \in Ports : Free(p) /\ Do(r, [run[r] EXCEPT !.pc = "run", !.port = p])
     \/ Do(r, Returned(r, "failed"))
  /\ Keep(<<app, extras>>)

\* docker run -d --rm removes what it cannot start; one that takes too long may
\* have left anything.
StartWorkspace(r) ==
  /\ At(r, "run")
  /\ \/ /\ Free(run[r].port)
        /\ app' = [app EXCEPT ![r] = "up"]
        /\ \/ Do(r, [run[r] EXCEPT !.pc = "poll"])
           \/ Do(r, TimedOut(r))
     \/ /\ Do(r, Returned(r, "failed"))
        /\ UNCHANGED app
     \/ /\ Do(r, TimedOut(r))
        /\ \E left \in {"absent", "created"} : app' = [app EXCEPT ![r] = left]
  /\ Keep(extras)

\* A slip: a container that never gets healthy is left to itself.
PollHealthAndLeave(r) ==
  /\ At(r, "poll")
  /\ \/ ~Free(run[r].port) /\ Do(r, [run[r] EXCEPT !.pc = "use"])
     \/ Do(r, Returned(r, "failed"))
  /\ Keep(<<app, extras>>)

\* _poll_health: whoever answers in time, with anything below 500.
PollHealth(r) ==
  /\ At(r, "poll")
  /\ \/ ~Free(run[r].port) /\ Do(r, [run[r] EXCEPT !.pc = "use"])
     \/ Do(r, [run[r] EXCEPT !.pc = "teardown", !.ok = FALSE])
  /\ Keep(<<app, extras>>)

\* The steps to a handle, which boot_and_verify and the adapter of the oracle
\* pass both take; what fails raises.
BootWorkspace(r) ==
  Provision(r) \/ BuildWorkspace(r) \/ StartWorkspace(r) \/ PollHealth(r)

\* What the verifier or the oracle pass does with the handle, which may raise.
UseWorkspace(r) ==
  /\ At(r, "use")
  /\ \E passed \in BOOLEAN :
       /\ Contract(r, passed)
       /\ Do(r, [run[r] EXCEPT !.pc = "teardown", !.ok = passed,
                  !.reports = {<<1, Stage(passed, TRUE)>>}])
  /\ Keep(<<app, extras>>)

\* _teardown_container does its best: that a command takes too long is nobody's
\* failure.
Teardown(r) ==
  /\ At(r, "teardown")
  /\ LET returned == Returned(r, IF run[r].ok THEN "passed" ELSE "failed") IN
     \/ app' = [app EXCEPT ![r] = "absent"] /\ Do(r, returned)
     \/ UNCHANGED app /\ Do(r, [returned EXCEPT !.timedOut = TRUE])
  /\ Keep(extras)

-----------------------------------------------------------------------------

Step(r) ==
  \/ Execute(r) \/ BuildRuntime(r) \/ RunRuntime(r)
  \/ NextItem(r) \/ Prepare(r) \/ Image(r) \/ StartServices(r) \/ Launch(r)
  \/ Health(r) \/ Probe(r) \/ Cleanup(r) \/ Finalize(r)
  \/ BootWorkspace(r) \/ UseWorkspace(r) \/ Teardown(r)

SandboxNext == \E r \in Runs : Step(r) \/ AppDies(r)

\* The thread of an execution goes on: everything it waits for has a limit.
Fairness == \A r \in Runs : WF_sandboxVars(Step(r))

SandboxSpec == SandboxInit /\ [][SandboxNext]_sandboxVars /\ Fairness

-----------------------------------------------------------------------------
(* Properties *)

\* The types of all variables; a report is about a deliverable.
SandboxTypeOK ==
  /\ mode \in [Runs -> Modes]
  /\ \A r \in Runs :
       /\ run[r].item \in 1..(Deliverables + 1)
       /\ run[r].reports \subseteq Items \X Stages
       /\ run[r].port \in Ports \cup {0}
       /\ run[r].status \in {"none", "unavailable", "passed", "failed"}
       /\ {run[r].ok, run[r].files, run[r].timedOut} \subseteq BOOLEAN
  /\ app \in [Runs -> {"absent", "created", "up", "dead"}]
  /\ extras \in [Runs -> SUBSET {"services", "network"}]

HasReturned(r) == run[r].pc = "done"

\* However an execution ends - early returns inside the temporary workspace,
\* failed launches, exceptions - its containers and its network are gone when
\* execute returns, unless a docker command timed out, and then it failed; a
\* workspace may have been verified all the same (workspace_boot.py:377-401).
NothingLeftBehind ==
  \A r \in Runs : HasReturned(r) /\ (app[r] # "absent" \/ extras[r] # {})
    => run[r].timedOut /\ (run[r].status = "failed" \/ mode[r] = "outcome")

\* A starter that passed: the published contract of every deliverable was
\* answered, and no report says otherwise.  A workspace has no deliverables, and
\* one that needs a sidecar passes nothing.
PassedMeansReached ==
  \A r \in Runs : HasReturned(r) /\ run[r].status = "passed" /\ mode[r] # "runtime" =>
    \A d \in IF mode[r] = "outcome" THEN {1} ELSE Items :
      /\ mode[r] # "sidecar"
      /\ \E s \in {"none", "checks"} : <<d, s>> \in run[r].reports
      /\ mode[r] = "shared" => <<d, "none">> \in run[r].reports

\* In this step the contract probe of a deliverable passed.
NewlyReached(r) ==
  (run'[r].reports \ run[r].reports) \cap (Items \X {"none", "checks"}) # {}

\* Executions that overlap do not check each other's apps, though a port is
\* chosen well before it is bound: only once its own app has died may another
\* one answer in its place.
OwnAppAnswered ==
  [][\A r \in Runs :
       run[r].pc \in {"probe", "use"} /\ NewlyReached(r) =>
         r \in Holders(run[r].port) \/ app[r] \in {"dead", "absent"}]_sandboxVars

\* The shared app has its workspace as long as it is probed.  (Separate
\* starters are probed after theirs was deleted.)
SharedAppHasItsFiles ==
  \A r \in Runs : At(r, "probe") /\ mode[r] = "shared" => run[r].files

\* What execute returns: nothing runs on, and a pass was earned while the app
\* was there to earn it.
ReturnIsSound ==
  SandboxTypeOK /\ NothingLeftBehind /\ PassedMeansReached /\ SharedAppHasItsFiles

\* Every execution returns, whatever docker and the app do.
EveryRunReturns == \A r \in Runs : <>HasReturned(r)

=============================================================================
