# Verification of the learning foundry

The learning foundry turns a brief into a published course: language models
draft a design, a specification, a starter project and a hidden grader, humans
approve the draft at gates, and learners then work on the published snapshot,
talk to a tutor and submit their work for grading. This directory holds TLA+
models of the parts of the program (`src/app`) whose correctness depends on the
order of steps, on what is on disk or in the database when a step dies, on what
requests that overlap do to each other, or on rules that several services apply
separately and must agree on; the TLC runs that check them; and proofs, checked
by TLAPS, of what holds for every value of the constants.

## 1. Inventory

### Components, state, operations

| component | source (`src/app/...`) | state it keeps | operations | what makes it correct |
|---|---|---|---|---|
| Outcome graph | `services/langgraph_outcome_graph.py`, `outcome_artifact_materializer.py` | `OutcomeWorkflowState` in memory; `public/starter` and `private/grader` on disk | `execute`, `_step` and a node per stage | what a reviewer approves was verified and is on disk; gates in order; bounded repair |
| Outcome course run | `services/course_generation_service.py`, `api/routes.py` | the `course_runs` row: status, `active_operation`, `outcome_state`, snapshot link | kick-off, gate decision, response, refresh | a decision applies once; the saved state is not lost; a published run has a snapshot |
| Course workflow | `services/course_workflow_service.py` | the same row, for legacy courses; `active_operation` is its lock | list/get/sync, publish, materialize, generation, revision, reconciliation | one operation at a time; publication is not undone; failed operations release the lock |
| Publish snapshots | `services/publish_snapshot_service.py`, `outcome_publish_snapshot.py` | `publish_snapshots` | build, save, list versions | immutable, approved, linked, numbered in order |
| LMS | `services/lms_service.py`, `domain/learner.py` | enrollments, submissions, progress | catalogue, enroll, write, submit, progress | progress never lost nor granted without a pass; one enrollment per learner and course |
| Learner studio | `services/learner_studio_service.py`, `learner_package_runtime.py` | sessions, containers, the workspace directory | seed, launch, reuse, stop, reconcile | the learner's files survive; no editor or grading container is forgotten that docker did what it was told about |
| Tutor | `services/tutor_service.py` | `tutor_chat_messages` | chat | a transcript that reads in order |
| Lab LLM proxy | `services/lab_llm_proxy.py`, `workspace_boot.py` | a JSON file of tokens and spend; the grader's environment | issue, revoke, complete | charges recorded; tokens die with their submission; the hard stop |
| Sandbox LLM proxy | `services/sandbox_llm_proxy.py` | calls and tokens per submission | reserve, reconcile, release | a submission stays under its cap |
| LLM transport | `services/llm_router.py`, `anthropic_`, `openai_runtime_support.py` and the services that call them | a child process per call; refused schemas | call with a deadline, retry, fall back | an answer or an error, paid and told once |
| Sandbox runner | `services/docker_sandbox_runner.py`, `workspace_boot.py` | containers, networks, ports | launch, probe, check, tear down | nothing runs on; a run judges its own app |
| Workflow engine | `services/workflow_service.py`, `storage/postgres_store.py` | `workflow_runs`, `workflow_events`, the bundle directory | create, decide, materialize, clone | evidence before publication; log and disk agree with the row |
| Oracle and graders | `oracle_authoring.py`, `oracle_pass.py`, `oracle_validation.py`, `scenario_*.py`, `benchmark_loader.py`, part of `lms_service.py` | scenario files | author, load, run, validate, grade, tell | author, gate and grader judge alike; a pass was earned |
| Course design | `assignment_design_inference.py`, `course_generation_service.py`, `openai_course_planner.py` | the plan in the browser, the course row | infer, plan, build | the creator's choices survive every step |
| Bundles and packages | `artifact_materializer.py`, `bundle_validation.py`, `spec_validation.py`, `publish_*` | the bundle's files, the package, the learner's workspace | materialize, validate, package, certify, seed | learners get what their tasks need and nothing of the grader's |
| Accounts, pages, scripts | `api/auth_routes.py`, `templates`, `static`, `scripts`, `alembic` | sessions | CRUD, rendering | thin |

### How they interact

An HTTP request runs in a worker thread of the one server process. It calls a
service, the service reads whole rows through the store, works on its copy and
saves the whole copy back; there is no version check and no transaction around
the read and the write. A kick-off or a gate approval calls the outcome graph
in the request's thread, which may take minutes and writes files into the
run's workspace as it goes. Other long work runs in background jobs. The row
is also written by every read: `get_run` and `list_runs` recompute the status
and save it. The LMS reads the snapshot that the row links. A submission boots
the learner's project in a container, runs the scenarios of the private grader
against it and talks to the lab proxy, another process, through a file and the
environment. Every call of a language model runs in a child process of its own
with a deadline. Containers survive a restart of the server; threads do not.

### What is hard

* executions that die between what they write on disk and what they save;
* repairs that replace files after something was said of the old ones;
* whole-row read-modify-writes that overlap, with minutes of work in between;
* two saves of one request that disagree;
* one file written by two processes, each under a lock of its own;
* process-wide environment variables changed by overlapping requests;
* a deadline that races a late answer, and retries that pay again;
* a port found free long before it is bound;
* numbers computed as a maximum plus one, and windows that cut off the maximum;
* rules written twice (author and validator, gate and grader, verdict and
  feedback), which must not drift apart;
* choices and ids that make round trips through browsers, rows of earlier
  releases and files left by earlier executions.

`PROJECT.json` lists each of them under `hazards` with the line where it bites
and the properties about it.

## 2. Modules

| module | models | relation |
|---|---|---|
| `GateFlow` | what reviewers are promised: draft, three gates, publication | abstract |
| `OutcomeGraph` | one outcome run in its executions, at the grain of one `_step` | implements `GateFlow` |
| `OutcomeRun` | the row and the requests on it, at the grain of one store access | implements `GateFlow` when requests do not overlap |
| `CourseRun` | the row of a legacy course, its requests and background jobs | |
| `Versions` | the rows of a family, snapshots, catalogue, enrollments, evaluations | |
| `Workflow` | `workflow_runs`, the event log and the bundle directory | |
| `Learner` | enrollment, workspace, editor, submissions, progress, tutor | |
| `LabLlmProxy` | submissions, proxy threads, the file and the environment | |
| `SandboxLlmProxy` | the limiter of `/v1/messages` and the requests on it | |
| `LlmCall` | the child process of a call, and the loops of six services around it | |
| `SandboxRun` | `DockerSandboxRunner.execute` in its modes, and the boot of a workspace | |
| `Paths`, `Rubrics`, `Feedback`, `Benchmark`, `Grading` | paths into captures; one scenario; what a learner is told; a dataset; from the author of scenarios to the grade | each extends the ones before it that it needs |
| `Design`, `TaskSpec`, `Bundle` | from a brief to a course; a spec of any age; from a course to a seeded workspace | each extends the one before |
| `OutcomeGraphProofs` | theorems of `OutcomeGraph` and `Grading` (section 4) | extends both |
| `OutcomeRunProofs`, `VersionsProofs`, `WorkflowProofs`, `LearnerProofs` | theorems of the modules they are named after | extend them |
| `CourseRunProofs` | theorems of `CourseRun`, `Design` and `Bundle` | extends them |
| `LlmProofs` | theorems of `LabLlmProxy` and `LlmCall` | extends both |
| `SandboxProofs` | theorems of `SandboxLlmProxy` and `SandboxRun` | extends both |
| `MC*` | the values of the constants that a `.cfg` cannot write, for TLC | extend the module they are named after |

Components that share a module of proofs share no state; the second has names of
its own for its specification (`CallSpec`, `SandboxSpec`, `GradingSpec`,
`BundleSpec`) and its invariant (`CallInvariance` and so on).

Some variables never change: `serial` (requests wait for each other),
`oneProcess`, `provider`, `kind`, `mode`. They are chosen by `Init`, so that one
run covers the program in all of its configurations, and a property can say
under which of them it holds. What a language model answers, a reviewer decides, a
container does or docker refuses is a free choice everywhere.

### GateFlow

`phase` is 0 while the first draft is made, `g` at and after gate `g` until the
next one is reached, 4 when published; `running` says that an execution is
under way; `blocked` that the run is over. There is a failure that ends the
run (`Fail`) and one that costs nothing (`Abandon`).

### OutcomeGraph

| in the module | in the code |
|---|---|
| `saved`, `mem` | `payload_json["outcome_state"]`, and the state `execute` walks |
| `disk` | the version of the bundle in `public/starter` and `private/grader`; 0 for none or a partly written one |
| `authored` | counts the bundles authors returned, so that versions differ |
| `starterAttempt`, `graderAttempt` | the budgets, `MAX_STARTER_ATTEMPTS` and `MAX_GRADER_ATTEMPTS` |
| `boot`, `runReport`, `curatedReport`, `passOf` | `starter_boot_result`, `oracle_validation_report`, `curated_validation_report`, `oracle_pass_result`: a verdict and the versions it is about |
| one action per branch of `_step` | the node it calls, with what it writes to disk |
| `Persist`, `Die`, `ApproveGate`, `RejectGate` | the caller: write-back, an exception or a restart, the two decisions |

The code keeps no versions: a report just describes what was on disk when it
was made. The versions are how the model can say "this report is about these
files". `Die` is where the model is hardest on the code: an execution ends at
any step, and a node that was writing files may have left them as they were,
written or half written, while the saved state is the one of the gate.

The stages `spec_review`, `starter_repair`, `grader_repair` and `publishing`
are set by a node and overwritten before it or its caller returns, so no step
of the model starts or ends there. The cap of `execute` blocks a state that
reaches it; no state does (`CapNeverHit`), so there is no action for it. A
successful repair of the starter is followed by the same stage as the first
authoring (`starter_authoring`), as in the code.

### OutcomeRun

The row is `row`; each worker has a program counter and its own copies. A
handler is cut at its accesses to the store, which is where others can come
in between; two reads in a row whose first result is dropped are one step. The
graph is what `GateFlow` lets it be: on to the next pause, blocked, or an
exception. `snapshots` holds the identities in `publish_snapshots`; an identity
carries the time in seconds, so the model lets a snapshot share the identity of
the previous one.

### CourseRun

`row` is the `course_runs` row of one course, `thread[t]` where a thread is and
the copy of the row it works on. `Workers` serve requests: a read (`get_run`,
`list_runs`, `sync_run`, all of which save the refreshed copy), a queued or a
direct publish or materialize. `Jobs` are what `job_runner` starts; under
`serial` they run to their end within the request, as with a `job_runner` that
calls its argument, and no other request comes in between.

| action | code |
|---|---|
| `Request`, `Sync`, `Enqueue`, `Reply` | the request up to the start of its job, and the read of its answer |
| `Begin`, `JobSync`, `Certify`, `Reject`, `SaveSnapshot`, `SavePublished` | `_execute_publish_run`, cut at its reads and saves |
| `Package`, `SaveBundle` | `_execute_materialize_run` |
| `Draft`, `DraftSave` | `apply_generated_plan`, or `_finalize_revision` and what precedes it |
| `PlanSave`, `Resync` .. `FinalSave` | the rest of the generation job |
| `Fail`, `FailSave` | `_mark_operation_failed`, `mark_generation_failed`, `_mark_revision_failed` |
| `ApproveWorkflow` | the last gate of the linked workflow run |
| `Restart` | all threads die; `reconcile_stale_active_operations` |

Only a workflow run that carries evidence of an execution can pass its gates
(`_run_has_execution_evidence`), and nothing in the present code records such
evidence: the runs that still can be published were drafted by earlier
releases. So a course found in the database may be approved
(`awaiting_human`), one drafted by a job of the model cannot (`unproven`).
The stage and the status of the row change together and are one field.
Deliverables are one: all are linked to the same workflow. A course keeps its
versions in its family; the model has one course, so its snapshots are the
family's, and `version` is what `create_snapshot` computed when it ran.

### Versions

A course, legacy, survey or outcome, and the revisions made of it. Requests on
one row follow each other here (`CourseRun` is where they overlap); those on
different rows overlap, and a publication is cut where it saves. The store looks
at its newest `Window` (500) snapshots before it narrows them to a family,
the list of versions at `ListWindow` (100), so the statements about versions
carry the premise that there are no more. The catalogue looks at the
newest `CourseWindow` (200) course runs of all families, drafts included, before
it picks the published ones: `rows` counts all course runs, `born` is the place of
a row among them, `CreateOther` adds rows of other families, and `Seen` are the
published courses of the family that are in the window. Init fills the window, with
rows of others between. Two revisions published at once may share a version. A survey course never publishes: `create_snapshot` returns
nothing without a shared workflow. A new revision of a legacy course cannot pass
its second gate, as nothing executes workflows any more.

### Workflow

A request reads a `workflow_runs` row, works on its copy, saves it, and then
appends an event whose number is the largest one plus one, read beforehand; a
materialization removes the directory and writes it file by file, the manifest
last. The removal may fail with a part removed (`Wipe`) and so may each write
(`WriteFails`); nothing is put back, and the row goes on recording the bundle of
before. `torn` are the runs whose last materialization ended so, or with the
server. It is no state of the code but what a reader of the row cannot know.
`Legacy` is a run saved while workflows were still executed; only such a
run has evidence. Validation is a function of the spec; that of a bundle may also
find fault with what is in its files.

### Learner

A request of the learner - enroll, look, launch, write, submit, chat - is cut at
its accesses to the store and to docker. `files` is the workspace: missing,
as seeded, or the learner's work. A grading starts a service
of its own beside the editor. A workspace with `Dependencies` has `services` that
run beside the editor as well. Docker may refuse: a launch whose services fail
cleans up, one whose `docker run` fails or is late does not, `docker rm -f` is not
checked and may be late, and so may the `docker inspect` of a reuse. `lost` are
the sessions and submissions of which such a command left something (`Left`). Once
lost, a session stays so: whether a later launch removed what was left, nobody
checks. `Restart` ends all requests, leaves the
containers and reconciles the sessions. Courses of several deliverables are the
legacy path; an outcome course has exactly one.

### LabLlmProxy

`store` is the file, `tmp` the temporary file both processes write before they
move it into place, `env` the variable of the grader's process. A submission
goes through mint (read, write, move), environment, container, grading, revoke
(read, write, move), restore; a call through admission, the provider, charge
(read, write, move). `oneProcess` says whether the two sides share the lock.
Tokens and dollars are one unit, since only their relation to the caps matters.
A write of the temporary file is one step and the disk does not fail; an
expired token is like one that is refused, which a call may always be.

### SandboxLlmProxy

A handler checks the request and the counters, reserves, counts the call, asks
the provider and exchanges the reservation for the use; every access to the
limiter is one step. An estimate may be too low (`Overrun`). An exception of
the provider is taken to cost nothing, as the comment in the code has it.

### LlmCall

The child puts its answer into a queue of one slot and exits when the pipe has
taken it; the parent waits for the exit, not for the answer, up to the deadline,
and then takes the answer out. So an answer larger than the pipe (`Oversize`)
keeps the child alive until it is killed (`stuck`). Callers are the services
with a loop of their own: two planners, the authors of oracles and starters,
the judge of specs, the writer of feedback.

### SandboxRun

`mode` says what an execution is about: no docker, one app (`runtime`), starters
each in a container of its own (`separate`) or one for all (`shared`), or the boot of
the workspace of an outcome course, with (`sidecar`) or without support
services. A port is found free and bound later; `Holders` are the containers
that listen on it. The checks of a deliverable may say anything that the app
they reach allows.

### Grading, Feedback, Rubrics, Paths, Benchmark

These are mostly operators, put together by a chain of few steps: the author's
answers and retries, the materialized files, the loader, the reference pass and
its repairs, the gate, and submissions to what is published.
`Paths` resolves paths in JSON nodes as rubrics and placeholders do (each in
its way). `Rubrics` sends the requests of a scenario and evaluates each of the
rubrics on what is captured, with the config its author wrote. `Feedback` counts
causes and chooses examples. `Benchmark` loads and splits a dataset. Texts are
members of small sets; what a judge writes, or a text that names values, is taken
to be of its scenario alone. Step ids differ from aliases.

### Design, TaskSpec, Bundle

`Design`: what is inferred from the words of a brief, the creator's choices over
it, the plan of the live planner or the fallback, its way through the browser,
the course built at once or in the background. `TaskSpec`: how a row of any
release is read, which specs are valid, what a deliverable shows and how a grade
maps back to it. `Bundle`: what is materialized from an author's workspace or
from templates, validated, packaged, certified and seeded. A manifest carries
what it lists, fixtures too, and nothing of the spec: one that lists no files of
the learner's falls back to its own editable paths (`RepoPaths`), the first
deliverable's manifest decides for the shared starter and each deliverable's own for
its checks. `Dropped` are the fixtures of the spec that are lost so. Whether a
bundle is refused depends on which files there are (`ValidBundle`) and on what is
in them (README references, markers of the runtime, a model's opinion on the
domain), which is data: `readsWell` may be either, each time anew. A workspace that
is swept away stays named in the row (`Swept`). Its premises are
`BundleAssumption` and `IsRow`: an authored workspace has the files of a starter;
a manifest declares all or none of the runtime files unless it
is marked otherwise; no file is named as one that belongs to a deliverable; a row
has its runtime plan at one place (with two, the second read could take from the
contract what the first read could not take from the plan beside it). Only
`GradesComeHome` also needs that no slug equals the id of another deliverable
(ids are `deliverable_N`). No new scaffold is valid (nothing adds a
`learner_starter_surface`), so what is materialized are courses of before.

## 3. Runs

| run | instance | what it shows |
|---|---|---|
| `outcome_graph` | the code's budgets 3 and 3, cap 50, two executions die | what is saved was verified as it is on disk; executions settle; `GateFlow` is implemented |
| `outcome_run` | two workers, two snapshots, two restarts | the order of approvals and the link to a snapshot survive every overlap; without overlap decisions apply once, the lock is released, the state survives, `GateFlow` is implemented |
| `course_run` | one worker, two jobs, two snapshots, a restart | a published row links a snapshot of approved work whatever old copy was saved last; without overlap publication stays, versions differ, operations end |
| `versions` | three runs of a family, a learner, four snapshots, five rows, windows 3 (snapshots), 2 (listed versions) and 3 (course runs) | of the courses it sees the catalogue offers the one published last and learners get it; versions count up; revisions end |
| `workflow` | three requests, two files, a restart, failing writes | publication needs evidence and is final; log and row agree, and row and disk but for what was cut off |
| `learner` | two requests, two deliverables, a restart, a workspace with services | completions are earned and seen, work is kept, no container is forgotten but those of which a docker command failed, the transcript reads in order |
| `lab_proxy` | two submissions, two threads, one process or two | nothing is charged that was not used, grading ends; with one lock no charge or revocation is lost and the overshoot is the calls in flight |
| `sandbox_llm_proxy` | three requests, room for two calls and five tokens | buckets are exact, the budget is kept |
| `llm_call` | two callers of any service, two attempts, answers larger than a pipe | an attempt is paid once, refusals are learned truly, costs are told, requests end |
| `sandbox_run` | two executions of any mode, two ports | nothing is left behind; a pass was earned from its own app; executions return |
| `grading` | bundles of up to four of ten scenario files, five specs | author, gate and grader ask the same; what is published is solvable; a grade is earned; feedback is apt |
| `bundle` | twelve briefs, eight setups, old courses and ten workspaces, of which one has a stale manifest, one an empty one and one no fixtures | the course is what its creator chose; a package has all its tasks need, but for dropped fixtures, and nothing hidden; no grade gets lost |

Every property of a run is a conjunction of named parts where it says several
things. For each part a plausible mistake in the model (see Sensitivity) was
tried and found.

### Bounds

* `MaxFaults = 2`: an execution that dies and one that dies again at the gate it
  is retried at; a third meets the same states, and the proofs have no bound.
* `MaxSnapshots`, `MaxRestarts` bound histories. Two requests are enough for
  every read-modify-write race, which needs one reader and one writer; `workflow`
  has three so that a decision can follow a race, `course_run` has a request and
  two jobs, as operation jobs differ in nothing but their copies.
* `MaxAttempts = 2` of `llm_call` stands for the 3 of the code: a first, and a
  last. `MaxCauses = 2` of `grading` (5 in the code) so that causes are cut off.
* In `lab_proxy`, `MaxBilled = 3` is the bound that is refuted, since
  `billed < GlobalCap + |Threads| * MaxUse = 3`, so the check is not met by the
  bound itself. The counter `applied` stops at 2, the value that refutes.
* `Window = 3` and `ListWindow = 2` for four snapshots, so that both cut off.
  `CourseWindow = 3` for five rows: a course can fall out of it, and a revision
  can take its place while the course's own publication is the later one.
* Two ports for two executions: both may choose the same one, and there is always
  one that the other execution does not hold, as on a real host.
* The candidates of `grading` and the inputs of `bundle` were chosen so that
  every rubric kind, every branch of a path, and every rule of the inference and
  of the manifests is taken by some of them.

### Fairness and deadlock

A thread that has something to do goes on (`WF` of its steps) in `OutcomeGraph`,
`CourseRun`, `LabLlmProxy`, `LlmCall`, `SandboxRun`, `Learner` and `Versions`:
collaborators run under timeouts and return or raise. The deadline is the
parent's, so the child of `LlmCall` needs no fairness; nor do docker's containers,
since every command and every wait is limited. `Learner` adds that a learner who
is enrolled looks at the course again, which is when a lost completion is
mended. Nobody has to send a request, to approve, or to restart the server.
`OutcomeRun`, `SandboxLlmProxy`, `Workflow`, `Grading` and `Bundle` claim safety
only.

Deadlock is checked in `outcome_run`, `course_run` and `versions`, where another
request is always possible. In the others the requests or executions end, and
the system really stops.

### Sensitivity

Definitions whose comment begins with "A slip" are not used by the
specifications: each is a definition of the model with a plausible mistake. With
the definition replaced by its slip, the property named with it in
`PROJECT.json` (`mutants`) is violated, so every property depends on the code
that it is about.

### Where code and text disagree

The modules also state some sentences of comments, docs and tests that the code
does not keep. No run is spent on them. Put in the place of the properties of the
configuration named here, each is violated:

| property | configuration | what happens |
|---|---|---|
| `StateSurvives` | `OutcomeRun.cfg` | a refresh that read the row early overwrites the state saved meanwhile |
| `PublishedIsLearnerReady` | `OutcomeRun.cfg` | the snapshot fails, the row is demoted, and the response of the same request saves it as published, until the next read |
| `PublicationStays` | `CourseRun.cfg` with `Jobs = {j1}`, `MaxRestarts = 0` | the answer to the queueing request is a read that saves; it undoes the publication by the job beside it |
| `CertificationBlockHolds` | `CourseRun.cfg` | the next read recomputes the stage that certification had blocked |
| `OneOperation` | `CourseRun.cfg` | two operations pass the check of the lock before either has set it |
| `NotLeftDrafting` | `CourseRun.cfg` | a restart leaves the placeholder of a dead generation drafting for good |
| `RevisionKeepsCatalogue` | `Versions.cfg` | the revision of an outcome course copies the published state, so a refresh shows it as published without a snapshot, in the place of the course |
| `TokenDiesWithSubmission` | `LabLlmProxy.cfg` | a charge in the other process restores a revoked token |
| `CapNeverExceeded` | `LabLlmProxy.cfg` | calls in flight are not counted against the cap |
| `TimeoutMeansLate` | `LlmCall.cfg` | the parent joins the child before it empties the queue, so an answer larger than the pipe is killed at the deadline |
| `ObservedThenSkipped` | `LlmCall.cfg` | a refusal is not recorded when the fallback after it fails, or is killed at the deadline |
| `JudgeNeverSilent` | `Grading.cfg` | strict mode asks whether there is a judge, not whether it judged |

Properties that begin with `serial =>` or `oneProcess =>` hold in this form only.
Without the premise TLC finds: two decisions applied to one gate
(`DecisionAppliedOnce`); two snapshots with one version (`VersionsDiffer`); a
charge undone by the grader's save (`EveryUseRecorded`) and a restored
environment of another submission (`EnvOnlyWhileGrading`); a second enrollment
by a double click (`OneEnrollment`), a completion that stays after a failing
resubmission (`StatusIsLatest`), a file overwritten by a seeding that began
before it existed (`WorkIsKept`), a forgotten editor (`EditorRemembered`); a
published workflow saved back to a gate (`PublishedIsFinal`), an event missing
from or doubled in the log (`LogTellsGate`), a bundle wiped by a second
materialization (`RecordedBundleIsWhole`).

Other differences seen while modelling, which the models follow as the code has
them (LM is `lms_service.py`, WF `workflow_service.py`, CW
`course_workflow_service.py`, OV `oracle_validation.py`):

* **Grading.** LM's comment says that its status "mirrors
  `ScenarioVerdictReport.overall_status`": there a mix of passes and abstentions
  abstains and a scenario without verdicts passes, in LM the one passes and the
  other fails; OV's docstring lists the trivial rubrics without `numeric_range`, its code
  has it; a re-run after a `TypeError` drops the router; the private grader is read
  from the authoring workspace, which can change, and not from a snapshot.
* **Paths.** The prefix of setup data is added to `judge_context_path` and to gold
  paths that point to captures, which are then not found; placeholders know fewer
  shorthands than rubrics; one-name gold paths are never prefixed;
  `validate_curated_gold` does not strip the prefix the author is told to use.
* **Rubrics.** A `NumericRange` with one bound raises although "either bound is
  optional"; the field types of `schema_match` come from YAML as texts and raise;
  recall counts duplicates of its gold list; an unresolved gold of a judged
  rubric is judged with an empty reference.
* **Feedback.** Examples are made from the config as written, so an aliased or
  unprefixed gold gives a blank or literal `Expected`; one cluster can never match
  as its prefix was stripped; internal rubric names can show.
* **Learner.** The tutor is told of the newest failed submission also when a later
  one passed; the rendered failure details are always empty as a status is
  compared with its text; a restart in a grading leaks its container; a first launch
  whose `docker run` fails or is late, or whose cleanup is not done, leaves an editor
  or services under a name that no session has (`docker run`'s timeout is outside
  the `try`, and the services were started before it); a `docker rm -f` that fails
  leaves the service of a submission, and one that is late ends the submission
  although it was graded.
* **Sandbox.** Separate starters are probed after their workspace was deleted;
  failing checks fail shared runs only though the docstring says both; every
  boot tags an image that nobody removes.
* **Workflow.** A materialization that raises after it has removed the directory
  leaves a row that records a bundle which is gone, or there in part, until the run
  is materialized again; `workspace_snapshot` is set by the sandbox runner only; sequence
  numbers of events are not unique in the schema; the route that executes nodes
  always refuses.
* **Design and bundles.** The letters "rag" in "storage" infer a retrieval course;
  the fallback's own titles are refused by the validator unless the entity is in
  them; a revision falls back from the authored starter to templates; a per-deliverable
  layout packages the hidden checks; certification of an `empty` starter always
  fails; a refused materialization has already replaced the files on disk, while the
  row keeps the list of the last valid one, so a package may hold files of a bundle
  that was refused, at the places that the list names; a manifest that is partial or
  stale drops a fixture that the spec names, although the README of the course lists
  it; a cache of the same product as the database takes over its version while a
  design is only inferred, so the placeholder of a course in the making may show
  another version than the plan that was approved (`NamesApart` is the premise).
* **Versions.** The limit of 500 comes before the filter by family, so numbering
  restarts in a large installation. The catalogue's limit of 200 comes before it as
  well, and counts drafts: a published family can be missing, and the course it is
  offered in can be one that was published earlier than another whose row is older.
  Of the rows it sees the catalogue offers the newest publication always, but the
  best version only while the window sees all snapshots. A review of a survey course
  advises a publication that cannot succeed.

## 4. Proofs

Thirteen components have theorems, for every value of the constants that the named
assumptions allow. Safety under `Spec` does not use its fairness.

| theorem | module | property |
|---|---|---|
| `TypeCorrect`, `GatesApproved`, `CapIsDead`, `TerminalStays` | `OutcomeGraphProofs` | `TypeOK`, `EveryGateApproved`, `CapNeverHit`, `TerminalIsFinal` |
| `StarterBoots`, `OracleValidated` | `OutcomeGraphProofs` | `ReviewedStarterBoots`, `PublishedOracleValidated` |
| `Refinement` | `OutcomeGraphProofs` | `ImplementsGateFlow` |
| `GatesApproved`, `PublishedPackaged` | `OutcomeRunProofs` | `EveryGateApproved`, `PublishedGraphIsPackaged` |
| `RowSound`, `SerialStateStays` | `OutcomeRunProofs` | `RowIsSound`, `SerialStateSurvives` |
| `Refinement` | `OutcomeRunProofs` | `ImplementsGateFlow` |
| `PublishedPackaged`, `SnapshotsApproved`, `SnapshotsSound` | `CourseRunProofs` | `PublishedIsPackaged`, `SnapshotsAreApproved`, `SnapshotsAreSound` |
| `SerialPublication` | `CourseRunProofs` | `SerialPublicationStays` |
| `Evidence`, `LogSound`, `BundleWhole` | `WorkflowProofs` | `PublishedHadEvidence`, `LogIsSound`, `RecordedBundleIsWhole` |
| `PublicationFinal` | `WorkflowProofs` | `PublishedIsFinal` |
| `VersionsSound`, `CatalogueNewest` | `VersionsProofs` | `VersionsAreSound`, `CatalogueOffersNewest` |
| `Books`, `Overshoot`, `Outlives` | `LlmProofs` | `BooksBalance`, `OvershootBounded`, `NothingOutlivesSubmission` |
| `Books`, `TypeCorrect` | `SandboxProofs` | `BooksAreExact`, the limiter's types |
| `ReturnSound`, `OwnApp` | `SandboxProofs` | `ReturnIsSound`, `OwnAppAnswered` |
| `Paid`, `CostTold`, `BillsRight`, `Learned`, `NoOrphans` | `LlmProofs` | `PaidOncePerAttempt`, `CostIsTold`, `BillsAreRight`, `LearnedOnlyIfRefused`, `NoOrphan` |
| `AuthorAsks`, `GateSound`, `GradeSound` | `OutcomeGraphProofs` | `AuthorAsksEnough`, `GateIsSound`, `GradeIsSound` |
| `NoRubricDead` | `OutcomeGraphProofs` | a part of `GoldIsSound` |
| `DesignSound`, `PackageSound` | `CourseRunProofs` | `DesignIsSound`, `PackageIsSound` |
| `RowsSound`, `ComeBack`, `WorkKept` | `LearnerProofs` | `RowsAreSound`, `ComeBackToLatest`, `WorkIsKept` |

Every inductive invariant was first checked by TLC on the instance of the module's
run (that of `LabLlmProxy` also with larger answers); `Invariance`, or
`CallInvariance` and so on, is the theorem that states it. Sums over threads and requests are counted unit by unit (`Units`,
`Total`): one pair of a request and a number for every unit of its term. A step of
one request changes one block of units, and the facts about finite sets that the
library proves are then enough, where a recursive sum would need an induction
over data.

### OutcomeGraph

For all budgets, all numbers of dying executions, and all iteration caps that
`IterationAssumption` allows (at least the longest walk of the starter lane and
of the grader lane; 50 against 7 and 13 in the code). None of the properties
is inductive. The invariant `Inv` adds what the code relies on without saying it:

* `IdleMem`, `Reach`: between executions memory and row agree, and during one
  the row is paused at the gate that memory started from (or is the initial
  state), so that dying returns to a state that is judged in its own right;
* `StageStatus`: which status goes with which stage;
* `Attempts`, `Rank`: the iteration counter is bounded by what the attempts
  made so far can have used, lane by lane; this is the argument that the cap
  is dead;
* `BootJudged`, `OracleJudged`, `NoEarlyReport`, `SourceKnown`, `Graph`:
  what each stage implies of the boot result, the reports and the versions;
* `Judged`: both the saved state and the one in memory satisfy the above.

The subtle case is `Die` while files are being replaced: the files on disk are
then not those of the saved state, which is harmless because the saved state
is at a gate *before* the stage that vouches for these files (gate 1 for the
starter, gate 2 for the oracle). The proof makes this explicit: an execution
writes the starter only if it began at gate 1 and the oracle only if it began
at gate 2. Had a later gate been able to send a run back to an earlier lane,
`ReviewedStarterBoots` would fail there.

### OutcomeRun

All four properties of the run `outcome_run` are proved, for any number of
workers, snapshots and restarts.

With overlaps, a copy of the row or of the graph's state may be arbitrarily old
and may overwrite anything, so the invariant does not say that a copy is up to
date. It says that every copy is as good as what it was read from: `Earned` (no
gate is behind it that is not among the approvals) and `Linked` (a published
graph comes with a saved snapshot). Approvals and snapshots are only ever added,
so what was once earned stays earned, whoever saves it when.

Without overlaps (`SerialInv`), nobody but the one handler under way changes the
row (`Alone`), so what it read is still what is saved (`InStep`), and the gate it
decides is the one the saved run is paused at until its decision is written back
(`Counted`, `Settled`). That gives at most one decision for a gate, and the
release of the lock with the kick-off.

For the refinement, `FlowInv` adds what a state that the handler holds has become
of the saved one: `Walked` by an execution, or `Demoted` by a snapshot that failed.
The guard of the resume is `Approve`; the saves of what an execution or a
rejection left are `Advance`, `Fail` and `Reject`; an exception or a restart is
`Abandon`; every other step stutters. So a decision of eight accesses to the
store, any of which may be the last before a restart, looks to a reviewer like
one step of the gate flow, or like none.

### CourseRun

For any number of threads, snapshots and restarts, from `CourseAssumption` only,
overlaps included. Every copy of the row is `Good`: published only with a saved
snapshot, ready only with an approved workflow. What makes a copy good is never
undone, because snapshots are only added and an approved workflow stays
approved; so a save of any copy at any time is harmless for these two
properties, although it is not for those of section 3. `CertifiesReady` carries
the check of the stage across the minutes of certification, and `DraftsOnce` says
that the workflow is created once, before all this: were it drafted again under a
published row, `Good` would be lost there. The invariant has one lemma per
action; `SaveKeeps`, `GoKeeps` and `ReadKeeps` are the three shapes of a step
that they are reduced to.

When requests come one at a time, a request still shares the course with the job
it waits for. `SerialInv` says that of all threads one works (`Alone`), and what
it holds belongs to the row (`Holds`): its copy is as published as the row is, a
version it was given is larger than every saved one, and a job that drafts the
course does so before there is a workflow to publish. `Waits` is the request that
has started its job and does nothing. From this, versions differ
(`SnapshotsSound`), and no save takes a publication back (`SerialPublication`). A
restart may come between any two accesses: a snapshot that was saved keeps its
version, and the row that was not is the old one.

### Workflow

`GInv` holds whatever overlaps. `RowOK` carries, for every row and every copy of
one, that what is created or revised today has no evidence, hence is not past gate
2 and not published; only the row that is older than the program can be. `Begun`
ties requests to the runs they create or found. `Numbered` is the inductive form of
"numbers have no gap": two requests may read the same next number and use it
twice, but no number read is beyond the next one, whoever inserts first. `Spent`
counts the events that are behind the requests and bounds the log with them.

When requests come one at a time, `SerialInv` judges the state by the one request
under way, `o`: a published run that it holds will be left published (`Finally`),
its next number is the length of the log plus one (`InOrder`), the directory is
whole but for what it has deleted and not yet written and for the runs that are `torn`
(`Whole`), and the log tells the gate but for the approval it has still to append
(`Told`). The last does not outlive a restart, and says so. `Whole` does: a restart
tears what was being written, as an error does, and a request that writes to the
end mends it, since the manifest comes last and by then every file before it is
there (`0..(next - 1)` is on disk).

### LabLlmProxy

From `ProxyAssumption`, which asks for at least one proxy thread: with none, the
bound on the overshoot would be empty. `GInv` holds of one process and of two,
where locks do not exclude each other. The load-bearing part is `NeverAhead`: no
version of the file, the one on disk, the temporary one or a copy that somebody
still holds, is ahead of the bill by what it says *plus* what threads have yet to
add to it (`Owed`). Without the second summand it is not inductive: an old copy
could be charged twice.

With one process (`LockInv`) at most one thread holds the file (`OneHolder`), and
what it is about to save is the file with its own change (`Faithful`); so every
unit billed is recorded or on its way (`Recorded`), a token is in the file only as
long as its submission knows it (`Owned`), and the spend together with all that
the calls in flight may still use is below the cap plus one call per thread
(`Bounded`), because a call is let through only below the cap. With serial
submissions `Environment` says whose token is in the environment.

### SandboxLlmProxy

For any number of requests, any limits and any overrun of the estimates. `Exact`
says that the bucket of the run is the sum of the reservations in flight and of
what the answered calls used, and that other buckets are empty; it needs that a
reservation is never larger than the bucket (`Backed`), so that the code's clamp at
zero never acts. The budget is subtler, as answers may take the bucket beyond its
limit, after which an empty reservation is still accepted. `Committed` is about what
is *committed*: reservations in flight, and of what was used the part that had been
reserved. It is at most the bucket, so a reservation that passes the check on the
bucket fits into the budget; and it never grows otherwise. Usage is what was
covered and what exceeded (`Split`), and the excess is the overrun of the estimates.

### SandboxRun

For any number of executions, ports and deliverables. Executions share nothing but
the ports, so the invariant judges each by itself (`Good`), and a step that leaves
the execution it changes good leaves all good. `OnItsWay` says where in its mode an
execution is; `Counted`, which deliverable it is about; `Tidy`, between which steps
its container and its services can be there, and that they outlast the cleanup only if
a docker command took too long; `Earned`, which reports stand behind "nothing failed
so far"; `Deserved`, that a pass was reached from the reports of all deliverables;
`HasFiles`, that an app is started and probed with its files still there.
`OwnAppAnswered` follows from `Tidy`: at a probe the container was started, so it holds
its port or its app is gone.

### Versions

From `VersionsAssumption`: windows as the code has them (`ListWindow` at most
`Window`), and no run of the family named `"other"`, as those of others are. `RowOK` judges each
row with its job: it is linked once and for good, after which nothing works on it,
so what a learner is pinned to stays. The numbers are the hard part, since a version is
drawn long before its snapshot is saved, and others may be drawn and saved in
between: `Numbered` orders saved snapshots and drafts together, which is inductive only
with `AtMostNext` (a draft is at most one ahead of what is saved). It has the premise
that the window sees every snapshot. The proof needed the same premise for "the
catalogue offers the best version", which the instance had kept from showing. What
the catalogue offers is chosen among `Seen`, whatever that is, so the theorem needs
nothing of the rows of other families: `rows` and `born` are only typed.

### Grading

For all specs, bundles, services, judges and benchmarks that `GradingAssumption`
allows. `Kept` ties what is kept of a run to what each rubric said of what was
captured; `RanAll`, that a run that is judged is complete; `GateCovered` and
`ReferencePassed`, what was true of the files when the gate let them through and is
still, as nothing writes them after. `GoldLives` is the interesting part: the
reference run has shown that every gold set is there, since a rubric without one
abstains, and the setup data do not change after it. From it, no rubric of a course
that was released on the strength of the reference run is dead (`NoRubricDead`). For
curated courses this stays with TLC: `validate_curated_gold` reads configs as they
are written, without aliases or prefix, so a setup file called `setup_data`, or a
config with both `gold_path` and `gold_set_path`, would satisfy the gate and not the
rubric. The prover also sees what TLC's order of evaluation hides: a `CASE` with two true
arms has no known value, so the branches of the code that are tried in order are
`IF`s here.

### Design

For all briefs, choices and answers of a planner. A design that was inferred and had
the choices laid over it (`Laid`) is not changed by having them laid over it again,
and laying commutes with setting the package type; so the plan, its round trip
through the browser, and the course built at once or in the background have one
design. The placeholder shows the inferred design alone, which is the same one when
names are apart.

### Bundle

For all rows that `IsRow` describes and all workspaces of `BundleAssumption`.
`UpgradedOnce`: a row that was read is read as it is. The files on disk and the list
of them in the row may come of two materializations, since one that is refused has
replaced the files and kept the list. So `BundleInv` says two things apart. What is on
disk is of the latest materialization, and it is `Clean`, refused or not: what would
be shown of it is nothing of the grader's (`MaterializedClean`). What is listed is of
a valid one, and has the places that learners need (`Needed`, `MaterializedWhole`).
A package is the files of the one at the places of the other, and it is published
only if every listed place is on disk, so it is clean and has what is needed. That
its files are the author's needs more: while the workspace is there
(`Usable`), nothing else is materialized, so both are of the same files. When it is
swept away, what is materialized from then on is of templates; `Needed` does not
change, since the row still tells what was `Dropped` (`LostKeeps`). Its tasks a package has from
the spec, which was validated before a file was written.

### LlmCall

Callers share only the memory of refused schemas, so `Inv` is about one caller and
its child at a time (`Sound`): where the caller is, the attempts that the parts
done and begun allow for (`Quota`), and how far the children started, the answers
charged and the answers heard are apart. A child that was killed after the
provider had answered is the reason that billed and heard differ for good.
`Tells` adds, for the services that report a cost, that what they know is what they
heard. `NoOrphan` follows from the first line of `Sound`: a child exists exactly
while its caller waits.

### Learner

From `LearnerAssumption`: at least one deliverable, finitely many requests, and an
enrollment from before that no request created. `GInv` holds however requests
overlap. They write back copies of any age, so it cannot say what a copy has in
common with its row now; it says that what the two *claim* was earned (`Claims`), and
that stays true however old a copy becomes, since enrollments, submissions and the
clock only grow (`Grows`, `HoldsStays`). Each save then replaces one true claim by
another. `Tops` is what a refresh relies on: a deliverable that was submitted has a
latest submission. `Says` follows a turn through its two rows, either of which may
be lost.

When the learner waits for each answer, `SerialInv` judges the state by the one
request under way, as in `Workflow`. Every row and every copy is `Right`, completed
exactly when the latest submissions passed, except the row of the submission that is
being saved: of it, `GoodRows` says that the deliverables saved so far are later
than everything else and passed as graded, so that the save of the row at the end
makes it right again. `GoodEditors` says that the only editor that may run without
being that of the latest session is the one that the request is starting, services
included, `lost` ones left aside; `Watched`, that a service under grading that is not
lost belongs to a submission which is still going to stop it. `Rest`,
which is what the learner comes back to, is what remains when the request ends. A
restart ends both, and they say so: the session times that `reconcile_stale_sessions`
writes are all the same, and a submission may be half saved.

### Model-checked only

* Liveness (`ExecutionSettles`, `OperationEnds`, `GradingNeverBlocked`,
  `EveryRequestEnds`, `EveryRunReturns`, `PassIsSeen`, `RevisionEnds`): fairness and
  ENABLED are beyond the prover.
* The rest of `GoldIsSound` and `GradesComeHome`: feedback and grades are sums and
  choices over the scenarios or deliverables of a course, and what a fold computes
  for every input needs an induction that the prover has not. `NoDeadRubric` of
  curated courses: see Grading above.

## 5. Not modelled

* What the models write (prompts, code, texts) and judgments about it: data. The
  model takes any answer. Wording, titles, timestamps and logs.
* The harness by which the sandbox runner measures a deliverable's behaviour:
  data; the checks may say anything the app they reach allows.
* Docker's networks and images; a crash of the server within an execution of
  `DockerSandboxRunner`, which no live route calls.
* Learning outcomes and the catalogue of stack versions in course planning.
* The legacy grader's reports; creator feedback, which is only appended; the triage
  of a prompt, which keeps nothing, and the tutor's stub of a submission.
* Courses whose deliverables are linked to workflows of their own.
* A partly written JSON file of the lab proxy, and the expiry of its tokens as a
  clock; the sidecar wiring of `/v1/messages`, which the code leaves for later.
* Files a learner deletes, and re-seeding on purpose.
* Accounts and sessions (create, look up, revoke, over single rows), pages, static
  files and templates, course assets, scripts and migrations.
* Code that nothing reaches: `failure_context_builder`,
  `grader_feedback_synthesizer`, `outcome_publish_validation`,
  `_route_publish_failure_to_shared_workflow_revision`, and the second half of
  the graph's `starter_review` branch.

## 6. Plan

Done: every module of section 2, and the proofs of section 4.

Worth doing next:

1. The parts of `GoldIsSound` about what learners are told, by the counting of
   units that the proofs about sums use.
2. The measuring of a deliverable in `SandboxRun`, and deliverables with workflows
   of their own in `CourseRun`.
