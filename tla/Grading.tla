------------------------------ MODULE Grading ------------------------------
(***************************************************************************)
(* From the scenarios an LLM writes to the grade a learner gets.           *)
(*                                                                         *)
(* oracle_authoring.py accepts a bundle of scenario files,                 *)
(* outcome_artifact_materializer.py writes them, scenario_loader.py reads  *)
(* them back, oracle_pass.py and scenario_trace_runner.py run them against *)
(* the reference implementation, oracle_validation.py decides whether the  *)
(* course can be published, and lms_service.py runs them again on what a   *)
(* learner hands in.  Each of these has rules of its own about what counts *)
(* as required, as passed and as judged; this module puts them together.   *)
(***************************************************************************)
EXTENDS Feedback, Benchmark

CONSTANTS
  Specs,        \* the course specs to consider
  Candidates,   \* the scenario files the LLM may come up with
  MaxFiles,     \* a bound: how many of them it comes up with at most
  LlmSetups,    \* the setup files it may come up with, as the grader reads them
  Services(_),  \* how a service may answer the steps of a scenario
  Bars,         \* the ids of the quality bars every spec declares
  MaxAttempts,  \* OracleAuthor.MAX_ATTEMPTS
  MaxRepairs    \* MAX_GRADER_ATTEMPTS

Categories ==
  {"happy_path", "boundary", "malformed_input", "out_of_scope", "idempotency",
   "composition", "adversarial", "determinism"}

NoBenchmark == [layout |-> "none"]

\* What the spec says that the requirements depend on: whether a quality bar
\* is about abstention (by its id, or only by its description), what its
\* endpoints do, and how many there are; and the benchmark it asks for, if any.
Requirements ==
  [source : {"reference_run", "curated", "hybrid"},
   abstention : {"no", "described", "named"},
   methods : {"read", "mutate", "create"},
   endpoints : Nat \ {0}]

\* A scenario file: found tells whether the loader looks where its name puts
\* it.  Steps are those of its setup and then those of its trace.
IsScenario(s) ==
  /\ s.found \in BOOLEAN /\ s.category \in Categories /\ s.bars \subseteq Bars
  /\ Len(s.steps) > 0 /\ Len(s.rubrics) > 0

ASSUME GradingAssumption ==
  /\ IsFiniteSet(Candidates)
  /\ \A s \in Candidates : IsScenario(s)
  /\ \A s \in Specs : [f \in DOMAIN s \ {"benchmark"} |-> s[f]] \in Requirements
  /\ MaxAttempts \in Nat \ {0}
  /\ MaxRepairs \in Nat
  /\ SampleSize \in Nat

VARIABLES
  spec,     \* the spec of the course
  strict,   \* COURSE_GEN_REQUIRE_LLM_JUDGE
  picked,   \* the questions of the benchmark that are picked to be shown
  stage,    \* what the graph, or the submission, is doing
  attempt,  \* the attempt of the author under way
  repairs,  \* grader_attempt
  payload,  \* what the author accepted last
  scenarios,  \* the files in private/grader/scenarios
  setup,    \* the setup data in private/grader/_setup
  shown,    \* the questions in public/examples/sample_queries.json
  router,   \* the LLM router of the run under way
  outputs,  \* the outputs of the run under way, of the scenarios run so far
  grade,    \* the status of the last submission
  report    \* what its report says: the feedback and an example per scenario

config == <<spec, strict, picked>>
materials == <<payload, scenarios, setup, shown>>
authoring == <<attempt, repairs, materials>>
run == <<router, outputs>>
graded == <<grade, report>>
gradingVars == <<config, stage, authoring, run, graded>>

Unreported == [feedback |-> Nothing, examples |-> <<>>]

Empty == [s \in {} |-> "none"]

HasBenchmark == spec.benchmark # NoBenchmark

Bundle == Load(spec.benchmark)

\* The split is shuffled with the same seed each time.
GradingInit ==
  /\ spec \in Specs
  /\ strict \in BOOLEAN
  /\ picked \in IF HasBenchmark /\ spec.benchmark.loads THEN Samples(Bundle) ELSE {{}}
  /\ stage = "authoring"
  /\ attempt = 1
  /\ repairs = 0
  /\ payload = {}
  /\ scenarios = {}
  /\ setup = Dict(<<>>)
  /\ shown = {}
  /\ router = "up"
  /\ outputs = Empty
  /\ grade = "none"
  /\ report = Unreported

-----------------------------------------------------------------------------
(* Authoring *)

Base == {"happy_path", "boundary", "malformed_input"}

\* A slip: a spec whose abstention bar is only described asks for nothing.
AuthorRequiresNamed ==
  Base \cup {c \in {"out_of_scope"} : spec.abstention = "described"}
       \cup {c \in {"idempotency"} : spec.methods # "read"}
       \cup {c \in {"composition"} : spec.endpoints > 1}

\* _required_categories of oracle_authoring.py.
AuthorRequires ==
  Base \cup {c \in {"out_of_scope"} : spec.abstention # "no"}
       \cup {c \in {"idempotency"} : spec.methods # "read"}
       \cup {c \in {"composition"} : spec.endpoints > 1}

\* _required_categories of oracle_validation.py, which must not ask for more.
GateRequires ==
  Base \cup {c \in {"out_of_scope"} : spec.abstention = "named"}
       \cup {c \in {"idempotency"} : spec.methods = "create"}
       \cup {c \in {"composition"} : spec.endpoints >= 3}

CategoriesOf(files) == {s.category : s \in files}

Uncovered(files) == Bars \ UNION {s.bars : s \in files}

\* _validate_payload looks at each file for itself, and at what they cover.
Accepted(files) ==
  /\ AuthorRequires \subseteq CategoriesOf(files)
  /\ Uncovered(files) = {}

\* A file written later replaces one of the same name.
Written(files) ==
  {d \in SUBSET files :
     /\ {s.file : s \in d} = {s.file : s \in files}
     /\ \A s, t \in d : s.file = t.file => s = t}

Loads == HasBenchmark => spec.benchmark.loads

\* A slip: the setup files of the LLM are kept beside those of the benchmark.
SetupOfBoth(files) ==
  IF HasBenchmark THEN Dict(files.v @@ Setup(Bundle, picked).v) ELSE files

\* The setup files of a benchmark take the place of what the LLM wrote.
SetupOf(files) == IF HasBenchmark THEN Setup(Bundle, picked) ELSE files

\* author_oracle gets an answer it accepts, and it is materialized; what was
\* written before is removed.
AuthorSucceeds ==
  /\ stage = "authoring" /\ Loads
  /\ \E files \in SUBSET Candidates :
       /\ Cardinality(files) <= MaxFiles /\ Accepted(files)
       /\ payload' = files
       /\ scenarios' \in Written(files)
  /\ \E files \in LlmSetups : setup' = SetupOf(files)
  /\ shown' = picked
  /\ stage' = "written"
  /\ attempt' = 1
  /\ UNCHANGED <<config, repairs, run, graded>>

\* A benchmark that cannot be loaded ends it before an LLM is asked.
BenchmarkFails ==
  /\ stage = "authoring" /\ ~Loads
  /\ stage' = "died"
  /\ UNCHANGED <<config, authoring, run, graded>>

\* A slip: one attempt too many.
AuthorFailsOnceMore ==
  /\ stage = "authoring" /\ Loads
  /\ IF attempt <= MaxAttempts
     THEN attempt' = attempt + 1 /\ UNCHANGED stage
     ELSE stage' = "died" /\ UNCHANGED attempt
  /\ UNCHANGED <<config, repairs, materials, run, graded>>

\* No answer, one that does not parse or one that is not accepted: it is asked
\* for again, and given up in the end.
AuthorFails ==
  /\ stage = "authoring" /\ Loads
  /\ IF attempt < MaxAttempts
     THEN attempt' = attempt + 1 /\ UNCHANGED stage
     ELSE stage' = "died" /\ UNCHANGED attempt
  /\ UNCHANGED <<config, repairs, materials, run, graded>>

-----------------------------------------------------------------------------
(* Loading and running scenarios *)

\* load_scenarios_from_dir reads the YAML files at the top of the directory
\* and refuses two with the same id.
Loaded == {s \in scenarios : s.found}

Readable == \A s, t \in Loaded : s.id = t.id => s = t

\* What rubrics are shown; neither run passes anything of the spec.
Context(captures) == [captures |-> captures, setup |-> setup, meta |-> Dict(<<>>)]

\* run_scenario as OraclePass.run keeps it: every rubric judges what was
\* captured, aborted or not, and a scenario that raises has no verdicts.
Outputs(s, service) ==
  LET trace == Trace(s.steps, service, setup, Dict(<<>>))
      says(i) == VerdictsOf(s.rubrics[i], Context(trace.captures), router)
  IN IF trace.raised
     THEN {[aborted |-> TRUE, captures |-> Dict(<<>>), verdicts |-> <<>>]}
     ELSE {[aborted |-> trace.aborted, captures |-> trace.captures, verdicts |-> v] :
             v \in {v \in [DOMAIN s.rubrics -> {"pass", "fail", "abstain"}] :
                      \A i \in DOMAIN v : v[i] \in says(i)}}

Output(s) == UNION {Outputs(s, service) : service \in Services(s)}

Running == stage \in {"oracle_pass", "grading"}

\* OraclePass.run goes through the scenarios one by one; one that breaks does
\* not stop the others.
RunScenario ==
  /\ Running
  /\ Loaded # DOMAIN outputs
  /\ LET s == CHOOSE s \in Loaded \ DOMAIN outputs : TRUE IN
     \E o \in Output(s) :
       outputs' = [t \in DOMAIN outputs \cup {s} |-> IF t = s THEN o ELSE outputs[t]]
  /\ UNCHANGED <<config, stage, authoring, router, graded>>

\* The sandbox does not come up, or goes away: the run raises.
SandboxFails ==
  /\ Running
  /\ stage' = IF stage = "oracle_pass" THEN "died" ELSE "refused"
  /\ outputs' = Empty
  /\ UNCHANGED <<config, authoring, router, graded>>

Complete == Running /\ DOMAIN outputs = Loaded

\* The dispatcher goes on from oracle_authoring: to the reference run or, for
\* a curated course, to the validation of what is on disk.  Scenarios that do
\* not load make the node raise.
EnterPass ==
  /\ stage = "written"
  /\ stage' = IF ~Readable THEN "died"
              ELSE IF spec.source = "curated" THEN "validation" ELSE "oracle_pass"
  /\ router' \in {"none", "broken", "up"}
  /\ outputs' = Empty
  /\ UNCHANGED <<config, authoring, graded>>

LeavePass ==
  /\ stage = "oracle_pass" /\ Complete
  /\ stage' = "validation"
  /\ UNCHANGED <<config, authoring, run, graded>>

-----------------------------------------------------------------------------
(* The publish gate *)

Says(o, status) == \E i \in DOMAIN o.verdicts : o.verdicts[i] = status

\* A slip: a scenario that was not judged counts as passed here, as it does
\* for learners.
ScenarioPassedLeniently(o) == ~o.aborted /\ o.verdicts # <<>> /\ ~Says(o, "fail")

\* A slip: an abort is left to the rubrics to notice.
ScenarioPassedAborted(o) ==
  o.verdicts # <<>> /\ ~Says(o, "fail") /\ ~Says(o, "abstain")

\* _scenario_passed of oracle_validation.py.
ScenarioPassed(o) ==
  ~o.aborted /\ o.verdicts # <<>> /\ ~Says(o, "fail") /\ ~Says(o, "abstain")

KindsOf(s) == {r.kind : r \in ToSet(s.rubrics)}

Trivial == {"schema_match", "literal_match", "regex_match", "numeric_range"}

Exempt == {"malformed_input", "idempotency"}

\* A slip: structural rubrics are good enough anywhere.
OnlyTrivialNever(s) == FALSE

\* _scenario_only_trivial_rubrics.
OnlyTrivial(s) == s.category \notin Exempt /\ KindsOf(s) \subseteq Trivial

\* What both validators require of the scenarios that were loaded.
Covers ==
  /\ GateRequires \subseteq CategoriesOf(Loaded)
  /\ Uncovered(Loaded) = {}
  /\ \A s \in Loaded : ~OnlyTrivial(s)

\* validate_oracle: every scenario passed with the reference implementation.
RunPublishable == Covers /\ \A s \in Loaded : ScenarioPassed(outputs[s])

RubricsOf(kind) == {r \in UNION {ToSet(s.rubrics) : s \in Loaded} : r.kind = kind}

\* _curated_corpus_universe: a list of documents, if there is one.
Corpora ==
  {name \in DOMAIN setup.v : setup.v[name].t = "list" /\ setup.v[name].v # <<>> /\
     \A e \in ToSet(setup.v[name].v) : e.t = "dict" /\ "doc_id" \in DOMAIN e.v}

Universe(name) == {e.v["doc_id"] : e \in ToSet(setup.v[name].v)}

\* A slip: documents are not looked up in the corpus.
GoldUnchecked(r) ==
  /\ "gold_set_path" \in DOMAIN r.config
  /\ LET gold == Walk(setup, r.config["gold_set_path"]) IN gold.t = "list" /\ gold.v # <<>>

\* The gold set of a rubric as validate_curated_gold reads its config: under
\* its right name only, and without a prefix.
GoldChecked(r) ==
  /\ "gold_set_path" \in DOMAIN r.config
  /\ LET gold == Walk(setup, r.config["gold_set_path"]) IN
     /\ gold.t = "list" /\ gold.v # <<>>
     /\ Corpora # {} => ToSet(gold.v) \subseteq Universe(CHOOSE name \in Corpora : TRUE)

\* validate_curated_gold: every gold set is where its path leads, and every
\* coverage judge has facts to look for.
CuratedPublishable ==
  /\ Covers
  /\ \A r \in RubricsOf("oracle_set_overlap") : GoldChecked(r)
  /\ \A r \in RubricsOf("llm_judge_coverage") :
       Given(r.config, "must_contain_facts", {}) # {}

Publishable ==
  /\ spec.source # "curated" => RunPublishable
  /\ spec.source # "reference_run" => CuratedPublishable

\* The dispatcher looks at the reports: on to gate 3, or back to the author as
\* long as the budget lasts.
Validate ==
  /\ stage = "validation"
  /\ \/ /\ Publishable
        /\ stage' = "gate_3"
        /\ UNCHANGED <<authoring, run>>
     \/ /\ ~Publishable /\ repairs >= MaxRepairs
        /\ stage' = "blocked"
        /\ UNCHANGED <<authoring, run>>
     \/ /\ ~Publishable /\ repairs < MaxRepairs
        /\ stage' = "authoring"
        /\ repairs' = repairs + 1
        /\ outputs' = Empty
        /\ UNCHANGED <<attempt, materials, router>>
  /\ UNCHANGED <<config, graded>>

\* A human approves gate 3; the outputs of the reference run are not read
\* again.
PublishCourse ==
  /\ stage = "gate_3"
  /\ stage' = "published"
  /\ outputs' = Empty
  /\ UNCHANGED <<config, authoring, router, graded>>

-----------------------------------------------------------------------------
(* Grading what a learner hands in *)

HasJudge == \E s \in Loaded : KindsOf(s) \cap Judges # {}

\* A slip: only courses with nothing but judges need one.
SubmitIfAnyGrader ==
  /\ stage \in {"published", "graded", "refused"}
  /\ router' \in {"none", "broken", "up"}
  /\ stage' = IF strict /\ router' = "none" /\ \A s \in Loaded : KindsOf(s) \subseteq Judges
              THEN "refused" ELSE "grading"
  /\ outputs' = Empty
  /\ grade' = "none" /\ report' = Unreported
  /\ UNCHANGED <<config, authoring>>

\* A submission to an outcome course: refused without a router if the course
\* has judges and the server insists on them.  Whether the router it has works
\* is only seen when a judge calls it.
Submit ==
  /\ stage \in {"published", "graded", "refused"}
  /\ router' \in {"none", "broken", "up"}
  /\ stage' = IF strict /\ router' = "none" /\ HasJudge THEN "refused" ELSE "grading"
  /\ outputs' = Empty
  /\ grade' = "none" /\ report' = Unreported
  /\ UNCHANGED <<config, authoring>>

\* What a run of all scenarios is worth to a learner.
GradeOf(outs) ==
  IF DOMAIN outs # {} /\ \A s \in DOMAIN outs : LearnerPassed(outs[s])
  THEN "passed" ELSE "failed"

Grade ==
  /\ stage = "grading" /\ Complete
  /\ stage' = "graded"
  /\ grade' = GradeOf(outputs)
  /\ LET ctxs == [s \in DOMAIN outputs |-> Context(outputs[s].captures)] IN
     \E headline \in Headlines(router) :
       report' = [feedback |-> Guidance(outputs, ctxs, headline),
                  examples |-> [s \in DOMAIN outputs |-> Example(s, outputs[s], ctxs[s])]]
  /\ UNCHANGED <<config, authoring, run>>

-----------------------------------------------------------------------------

GradingNext ==
  \/ AuthorSucceeds \/ AuthorFails \/ BenchmarkFails
  \/ EnterPass \/ RunScenario \/ SandboxFails \/ LeavePass
  \/ Validate \/ PublishCourse
  \/ Submit \/ Grade

GradingSpec == GradingInit /\ [][GradingNext]_gradingVars

-----------------------------------------------------------------------------
(* What is to be true of it *)

\* Outputs are of scenarios on disk, the counters are within their budgets,
\* and only a submission that was graded has a grade.
GradingTypeOK ==
  /\ attempt \in 1..MaxAttempts
  /\ repairs \in 0..MaxRepairs
  /\ scenarios \subseteq payload /\ payload \subseteq Candidates
  /\ DOMAIN outputs \subseteq Loaded
  /\ grade # "none" <=> stage = "graded"
  /\ report = Unreported <=> grade = "none"

\* The author's requirements are a copy of the gate's, written differently
\* (oracle_authoring.py:351-389, oracle_validation.py:177-216).  A bundle the
\* author accepts never fails the gate for a category or a quality bar, as long
\* as its files keep out of each other's way.
AuthorAsksEnough ==
  stage = "validation" /\ Loaded = payload =>
    GateRequires \subseteq CategoriesOf(Loaded) /\ Uncovered(Loaded) = {}

\* A course that was published on the strength of its reference run can be
\* passed: a learner whose service answers as the reference did gets "passed"
\* from lms_service.py, which judges outputs by rules of its own.
PublishableIsSolvable ==
  stage = "gate_3" /\ spec.source # "curated" => GradeOf(outputs) = "passed"

\* No published course grades on a gold set that is not there: its rubric
\* would abstain for every learner, and abstaining counts as passed
\* (scenario_rubrics_oracle.py:102-117, oracle_validation.py:525-552).
NoDeadRubric ==
  stage = "graded" =>
    \A s \in DOMAIN outputs : \A i \in DOMAIN outputs[s].verdicts :
      s.rubrics[i].kind = "oracle_set_overlap" => outputs[s].verdicts[i] # "abstain"

\* A service that only looks right does not pass: whoever passes with no judge
\* abstaining has passed a rubric about behaviour in every scenario that needs
\* one (the trivial-rubric rule of oracle_validation.py, seen by the learner).
NotByStructureAlone ==
  stage = "graded" /\ grade = "passed" =>
    \A s \in Loaded \ {t \in Loaded : t.category \in Exempt} :
      ~Says(outputs[s], "abstain") =>
        \E i \in DOMAIN outputs[s].verdicts :
          s.rubrics[i].kind \notin Trivial /\ outputs[s].verdicts[i] = "pass"

\* Nothing that is graded with changes after that.
Approved == stage = "gate_3"

\* Nobody is graded on an answer that was shown: no gold set or gold answer
\* that the scenarios of an approved benchmark course lead to belongs to a
\* question in sample_queries.json ("No query appears in both directories",
\* benchmark_loader.py:328, and the setup files of the LLM are discarded).
GradedOnHidden ==
  Approved /\ HasBenchmark =>
    \A r \in UNION {ToSet(s.rubrics) : s \in Loaded} :
      LET c == Normalized(r)
          path == CASE "gold_set_path" \in DOMAIN c -> c.gold_set_path
                    [] "gold_path" \in DOMAIN c -> c.gold_path
                    [] OTHER -> <<>>
          bare == IF path # <<>> /\ Head(path) = "setup_data" THEN Tail(path) ELSE path
      IN Len(bare) > 1 /\ Found(Walk(setup, bare)) => bare[2] \notin shown

\* Learners of a CRAG course are shown a question of every kind there is, of as
\* many kinds as there are samples (benchmark_loader.py:598-607).
SampleIsStratified ==
  Approved /\ HasBenchmark /\ spec.benchmark.layout = "crag" =>
    \A i \in DOMAIN Strata :
      i <= SampleSize /\ (\E q \in DOMAIN Bundle.row : Of(Bundle.row[q], Strata[i])) =>
        \E q \in shown : Of(Bundle.row[q], Strata[i])

\* The gold documents of a course without a reference run are in the corpus
\* that was loaded, however it was truncated.
GoldIsInCorpus ==
  Approved /\ spec.source # "reference_run" /\ "corpus" \in DOMAIN setup.v =>
    \A r \in RubricsOf("oracle_set_overlap") :
      ToSet(GoldOf(Normalized(r), setup).v) \subseteq
        {e.v["doc_id"] : e \in ToSet(setup.v["corpus"].v)}

\* A judge that compares with a gold answer is shown it, whether its path says
\* setup_data or leaves that out (scenario_trace_runner.py:707-721).
JudgeSeesGold ==
  Approved =>
    \A r \in RubricsOf("llm_judge_semantic_eq") :
      Builds(r.kind, Normalized(r)) =>
        LET raw == Given(r.config, "gold_path", Given(r.config, "gold", <<"x">>))
            bare == IF Head(raw) = "setup_data" THEN Tail(raw) ELSE raw
        IN Len(bare) > 1 /\ Found(Walk(setup, bare)) =>
             Found(ReferenceOf(Normalized(r), Context(Dict(<<>>))))

\* Passing means that every scenario of the course was run to its end and
\* failed no rubric, however few of them the course has left after its files
\* were written over each other.
PassedMeansAllRan ==
  grade = "passed" =>
    /\ Loaded # {} /\ DOMAIN outputs = Loaded
    /\ \A s \in Loaded : ~outputs[s].aborted /\ Len(outputs[s].verdicts) = Len(s.rubrics)

\* Passing means having answered: everything a rubric looks at was in what the
\* service answered, even when no judge was there to look at it.  Only a gold
\* set that is not there makes a rubric abstain before it looks, and
\* NoDeadRubric says that there is no such one.
PassedMeansAnswered ==
  grade = "passed" =>
    \A s \in Loaded : \A i \in DOMAIN s.rubrics :
      LET r == s.rubrics[i]
          c == Normalized(r)
      IN /\ Builds(r.kind, c)
         /\ \/ Found(Resolve(outputs[s].captures, c.target))
            \/ r.kind = "oracle_set_overlap" /\ outputs[s].verdicts[i] = "abstain"

\* Whoever passes did retrieve: of the distinct gold documents at least the
\* share that was asked for is named by one of the first top_k entries of the
\* list that was answered.
PassedMeansRetrieved ==
  grade = "passed" =>
    \A s \in Loaded : \A r \in ToSet(s.rubrics) :
      r.kind = "oracle_set_overlap" /\ Found(GoldOf(Normalized(r), setup)) =>
        LET c == Normalized(r)
            gold == ToSet(GoldOf(c, setup).v)
            answered == Resolve(outputs[s].captures, c.target).v
            seen == {i \in DOMAIN answered : i <= Given(c, "top_k", Len(answered))}
            named == {d \in gold : \E i \in seen :
                        \/ Same(answered[i], d)
                        \/ answered[i].t = "dict" /\ \E k \in DOMAIN answered[i].v :
                             Same(answered[i].v[k], d)}
        IN Cardinality(named) * 100 >= Given(c, "min_recall", 50) * Cardinality(gold)

\* A server that insists on judges grades no judged course without a router
\* (COURSE_GEN_REQUIRE_LLM_JUDGE).
StrictHasRouter ==
  stage = "graded" /\ strict /\ HasJudge => router # "none"

\* A learner who failed is told why, and only such a learner
\* (build_outcome_feedback).  What is listed first blocks more scenarios than
\* whatever comes later or was cut off ("fix that first"), and is no passed
\* scenario's business.
WorstComesFirst ==
  LET failed == {s \in DOMAIN outputs : ~LearnerPassed(outputs[s])}
      causes(s) == Causes(s, outputs[s], Context(outputs[s].captures))
      top == report.feedback.top
      size(i) == Cardinality(top[i].blocks)
  IN stage = "graded" =>
       /\ report.feedback = Nothing <=> grade = "passed"
       /\ grade = "failed" => top # <<>>
       /\ \A i \in DOMAIN top :
            /\ top[i].blocks # {} /\ top[i].blocks \subseteq failed
            /\ i > 1 => size(i - 1) >= size(i)
       /\ \A c \in UNION {causes(s) : s \in failed} :
            \/ \E i \in DOMAIN top : top[i].cause = c
            \/ size(Len(top)) >= Cardinality({s \in failed : c \in causes(s)})

\* Adding the block that is said to be missing helps: each scenario it is said
\* to block has a rubric that looks for something below it, and finds nothing
\* (the diagnostics of ten rubrics are read back by regular expressions,
\* lms_service.py:302-372, and collapsed to two names, lms_service.py:398-406).
AddingItHelps ==
  \A entry \in ToSet(report.feedback.top) :
    entry.cause.says = "missing field" =>
      \A s \in entry.blocks : \E r \in ToSet(s.rubrics) :
        LET c == Normalized(r) IN
        /\ Builds(r.kind, c)
        /\ IsPrefix(entry.cause.of, c.target)
        /\ ~Found(Resolve(outputs[s].captures, c.target))

\* What a rubric compares the answer with, if it is one that does.
Compared(r, ctx, otherwise) ==
  LET c == Normalized(r) IN
  CASE r.kind = "oracle_set_overlap" -> GoldOf(c, ctx.setup)
    [] r.kind = "llm_judge_semantic_eq" -> ReferenceOf(c, ctx)
    [] r.kind = "literal_match" -> c.expected
    [] r.kind = "behavioral_equivalence" ->
         IF "expected_path" \in DOMAIN c THEN Resolve(ctx.captures, c.expected_path)
         ELSE c.expected
    [] OTHER -> otherwise

\* The worked example is about the rubric that failed, not another one of its
\* kind: the values shown as expected and as actual are the two that it
\* compared, although they are looked up in its config as it was written and by
\* the rules for placeholders (lms_service.py:202-263).  Longer paths, and
\* those to the request, are read differently.  Whoever passed is shown no
\* gold.
ExampleIsApt ==
  \A s \in DOMAIN report.examples :
    LET o == outputs[s]
        i == Min(Failing(o))
        r == s.rubrics[i]
        ctx == Context(o.captures)
        path == Normalized(r).target
        example == report.examples[s]
    IN IF LearnerPassed(o) \/ Failing(o) = {} THEN example.expected = Missing
       ELSE Builds(r.kind, Normalized(r)) =>
              /\ /\ "target" \in DOMAIN r.config /\ Found(Resolve(o.captures, path))
                 /\ Len(path) = 2 /\ path[2] \notin {"raw", "request"}
                 => example.actual = Resolve(o.captures, path)
              /\ example.expected.t \in {"unresolved", "asks", "missing"}
                   \/ example.expected = Compared(r, ctx, example.expected)

\* The gate asks no more than the author was told to, and what it lets through
\* can be passed, and not by looks alone.
GateIsSound == AuthorAsksEnough /\ PublishableIsSolvable /\ NotByStructureAlone

\* What answers are compared with is there, is seen by whoever compares, was
\* not shown to learners, was met by those who passed, and is what the others
\* are told they missed.
GoldIsSound ==
  /\ NoDeadRubric /\ GoldIsInCorpus /\ JudgeSeesGold
  /\ GradedOnHidden /\ SampleIsStratified /\ PassedMeansRetrieved
  /\ WorstComesFirst /\ AddingItHelps /\ ExampleIsApt

\* What a grade is worth, and when there is none.
GradeIsSound ==
  GradingTypeOK /\ PassedMeansAllRan /\ PassedMeansAnswered /\ StrictHasRouter

\* "Staging/prod must use (b) so a misconfigured judge can never silently pass
\* learners" (lms_service.py:1127-1128, (b) being to refuse to grade): under
\* strict_judge nobody passes a scenario whose judge did not judge.
JudgeNeverSilent ==
  grade = "passed" /\ strict =>
    \A s \in Loaded : \A i \in DOMAIN s.rubrics :
      s.rubrics[i].kind \in Judges => outputs[s].verdicts[i] # "abstain"

=============================================================================
