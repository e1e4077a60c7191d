------------------------------- MODULE Design -------------------------------
(***************************************************************************)
(* From a creator's brief to the course that is built: the design that is  *)
(* inferred from the brief's words (services/assignment_design_inference), *)
(* the creator's choices laid over it, the plan the creator approves and   *)
(* the course run made of it, at once or in the background                 *)
(* (services/course_generation_service.py, course_workflow_service.py).    *)
(*                                                                         *)
(* A text is the set of the words in it the inference looks for.           *)
(***************************************************************************)
EXTENDS Naturals, Sequences

CONSTANTS
  Goals,         \* the texts creators write
  Titles,        \* the texts the live planner titles courses and deliverables with
  Setups,        \* the creator_setup of a request
  MaxPlanned     \* how many deliverables the live planner names at most

\* What a stack says, in a creator's choices and in runtime_dependencies.
Fields == {"language", "languageVersion", "framework", "frameworkVersion", "manager",
           "database", "databaseVersion", "cache", "cacheVersion"}

\* A creator's setup is a starter, a stack's fields, a stack and sources.
ASSUME DesignAssumption ==
  /\ MaxPlanned \in Nat \ {0}
  /\ \A s \in Setups :
       /\ s = [starter |-> s.starter, fields |-> s.fields, stack |-> s.stack, sources |-> s.sources]
       /\ s.fields = [f \in Fields |-> s.fields[f]]

VARIABLES
  stage,    \* how far the brief has come
  brief,    \* the request: its goal, package_type_hint and resolved choices
  plan,     \* the CreatorCoursePlan the browser holds
  course    \* the course run

designVars == <<stage, brief, plan, course>>

-----------------------------------------------------------------------------
(* The data *)

None == "none"

Or(a, b) == IF a # None THEN a ELSE b

Packages == {"progressive", "survey"}

\* FRAMEWORK_LANGUAGE_HINTS, and the defaults of languages and services; a
\* framework or a service that is not in these tables has none.
LanguageOf(framework) ==
  CASE framework = "fastapi" -> "python" [] framework = "gin" -> "go"
    [] framework = "rails" -> "ruby" [] OTHER -> None

FrameworkOf(language) ==
  CASE language = "python" -> "fastapi" [] language = "go" -> "gin"
    [] language = "ruby" -> "rails" [] OTHER -> None

DefaultVersion(technology) ==
  CASE technology = "python" -> "3.12" [] technology = "go" -> "1.25"
    [] technology = "postgres" -> "16" [] technology = "redis" -> "7" [] OTHER -> None

\* infer_package_manager: one the stack names, or the language's own.
InferManager(language, stack) ==
  LET named == {m \in {"pnpm", "poetry"} : \E item \in stack : m \in item.names}
  IN  IF named # {} THEN CHOOSE m \in named : TRUE
      ELSE CASE language = "python" -> "uv" [] language = "go" -> "go" [] OTHER -> None

Frameworks == {"fastapi", "gin", "rails"}
Languages == {"python", "go", "ruby"}

\* The data source a goal that speaks of documents is given.
PrimaryCorpus == [id |-> "primary_corpus", kind |-> "uploaded_file", path |-> "data/corpus.json",
                  words |-> {"grounded", "ranked"}]

\* The sources that are services of their own.
Served(sources) == {s.id : s \in {t \in sources : t.kind \in {"mock_api", "object_store"}}}

-----------------------------------------------------------------------------
(* The inference *)

\* infer_implementation_stack.
InferStack(text, chosen) ==
  LET namedFramework == {f \in Frameworks : f \in text}
      namedLanguage == {l \in Languages : l \in text}
      framework == Or(chosen.framework, IF namedFramework = {} THEN None ELSE CHOOSE f \in namedFramework : TRUE)
      language == Or(chosen.language,
                     Or(LanguageOf(framework),
                        IF namedLanguage = {} THEN None ELSE CHOOSE l \in namedLanguage : TRUE))
  IN  IF language = None /\ framework = None
      THEN [language |-> "python", framework |-> "fastapi"]
      ELSE [language |-> language, framework |-> Or(framework, FrameworkOf(language))]

\* _version_hint_for: the version of an item of the stack that has the name in
\* it, be it as a part of another one.
VersionHint(name, stack) ==
  LET naming == {item \in stack : name \in item.names}
  IN  IF naming = {} THEN None ELSE (CHOOSE item \in naming : TRUE).version

\* build_project_runtime_plan: what is not given is inferred, or is not. The
\* services are the app, the database, the cache and sources, in this order.
RuntimePlan(deps, stack, sources, infer) ==
  LET Inferred(value) == IF infer THEN value ELSE None
      Version(given, name) ==
        Or(given, Inferred(Or(VersionHint(name, stack), DefaultVersion(name))))
      language == Version(deps.languageVersion, deps.language)
      framework == Or(deps.frameworkVersion, Inferred(VersionHint(deps.framework, stack)))
      Service(nth, name, version) ==
        IF name = None THEN {} ELSE {[nth |-> nth, id |-> name, version |-> Version(version, name)]}
  IN  [language |-> deps.language,
       languageVersion |-> language,
       framework |-> deps.framework,
       frameworkVersion |-> framework,
       manager |-> Or(deps.manager, Inferred(InferManager(deps.language, stack))),
       services |-> {[nth |-> 1, id |-> "app", version |-> Or(framework, language)]}
                      \cup Service(2, deps.database, deps.databaseVersion)
                      \cup Service(3, deps.cache, deps.cacheVersion)
                      \cup {[nth |-> 4, id |-> id, version |-> None] : id \in Served(sources)}]

\* build_project_runtime_binding.
RuntimeBinding(deps, sources) ==
  [language |-> deps.language, framework |-> deps.framework,
   services |-> ({deps.database, deps.cache} \ {None}) \cup Served(sources)]

\* infer_package_type.
InferPackage(text, hint) ==
  IF hint # None THEN hint
  ELSE IF "progressive" \in text THEN "progressive"
  ELSE IF text \cap {"survey", "course"} # {} THEN "survey" ELSE "progressive"

\* _preferred_package_type: a goal that asks for a survey gets one.
PreferredPackage(goal, hint, inferred) ==
  IF hint # None THEN hint ELSE IF "survey" \in goal THEN "survey" ELSE inferred

\* The order in which infer_assignment_design looks for what a brief is about.
Family(text) ==
  CASE "grounded" \in text -> "grounded_retrieval"
    [] "grounded" \notin text /\ "ranked" \in text -> "ranked_retrieval"
    [] text \cap {"grounded", "ranked"} = {} /\ "control" \in text -> "control_plane"
    [] text \cap {"grounded", "ranked", "control"} = {} /\ "stateful" \in text -> "transactional"
    [] text \cap {"grounded", "ranked", "control", "stateful"} = {} /\ "tool" \in text -> "workflow_agent"
    [] OTHER -> "generic"

\* build_project_contract.
Contract(family, deps, setup) ==
  [family |-> family, binding |-> RuntimeBinding(deps, setup.sources),
   runtime |-> RuntimePlan(deps, setup.stack, setup.sources, TRUE)]

\* The version of the first service of a name.
VersionOf(services, name) ==
  (CHOOSE s \in services : s.id = name /\ \A t \in services : t.id = name => s.nth <= t.nth).version

\* build_assignment_design: versions that are not given are those of the plan.
BuildDesign(contract, package, deps, setup) ==
  LET runtime == contract.runtime
      Backing(version, name) ==
        IF name = None \/ version # None THEN version ELSE VersionOf(runtime.services, name)
      paths == {s.path : s \in setup.sources} \ {None}
  IN  [family |-> contract.family, package |-> package, shared |-> package = "progressive",
       deps |-> [deps EXCEPT !.languageVersion = runtime.languageVersion,
                             !.frameworkVersion = runtime.frameworkVersion,
                             !.manager = runtime.manager,
                             !.databaseVersion = Backing(@, deps.database),
                             !.cacheVersion = Backing(@, deps.cache)],
       starter |-> setup.starter, stack |-> setup.stack, sources |-> setup.sources,
       fixtures |-> IF paths = {} /\ contract.family \in {"grounded_retrieval", "ranked_retrieval"}
                    THEN {"data/corpus.json"} ELSE paths,
       binding |-> contract.binding, runtime |-> runtime]

\* infer_assignment_design.
InferDesign(words, hint, setup) ==
  LET text == words \cup UNION {item.names : item \in setup.stack}
      inferred == InferStack(text, setup.fields)
      deps == [setup.fields EXCEPT !.language = inferred.language, !.framework = inferred.framework]
      signal == text \cup UNION {s.words : s \in setup.sources}
  IN  BuildDesign(Contract(Family(signal), deps, setup), InferPackage(signal, hint), deps, setup)

-----------------------------------------------------------------------------
(* The creator's choices *)

\* _resolve_creator_setup: a starter and data sources are found in the goal
\* where none were chosen; "letters" is in a goal that has one of the words for
\* documents anywhere in its letters.
ResolveSetup(goal, setup) ==
  [setup EXCEPT !.starter = Or(@, IF "blank" \in goal THEN "empty" ELSE "partial"),
                !.sources = IF @ # {} THEN @ ELSE IF "letters" \in goal THEN {PrimaryCorpus} ELSE {}]

\* A slip: what was not chosen is written over what was inferred.
ChosenOnly(choice, inferred) == choice

\* What a field becomes under a creator's choice.
Resolved(choice, inferred) == Or(choice, inferred)

\* _apply_creator_choices_to_design_spec.
WithChoices(design, setup) ==
  LET deps == [f \in Fields |-> Resolved(setup.fields[f], design.deps[f])]
      stack == IF setup.stack # {} THEN setup.stack ELSE design.stack
      sources == IF setup.sources # {} THEN setup.sources ELSE design.sources
      paths == {s.path : s \in setup.sources} \ {None}
  IN  [design EXCEPT !.deps = deps, !.starter = setup.starter, !.stack = stack, !.sources = sources,
                     !.fixtures = IF paths # {} THEN paths ELSE @,
                     !.binding = RuntimeBinding(deps, sources),
                     !.runtime = RuntimePlan(deps, stack, sources, FALSE)]

\* A slip: the workspace's scope is left as it was.
PackageOnly(design, package) == [design EXCEPT !.package = package]

\* _with_package_type.
WithPackage(design, package) ==
  [design EXCEPT !.package = package, !.shared = package = "progressive"]

-----------------------------------------------------------------------------
(* The plan *)

\* _fallback_deliverables: how many there are for a kind of course.
FallbackSize(design) ==
  CASE design.family \in {"grounded_retrieval", "control_plane", "transactional"} -> 4
    [] design.family = "workflow_agent" /\ design.package = "progressive" -> 4
    [] OTHER -> 3

Fallback(design) == [i \in 1..FallbackSize(design) |-> design]

\* _fallback_plan.
FallbackPlan(goal, hint, setup) ==
  LET inferred == InferDesign(goal, hint, setup)
      package == PreferredPackage(goal, hint, inferred.package)
      design == WithChoices(WithPackage(inferred, package), setup)
  IN  [title |-> {}, package |-> package, design |-> design, deliverables |-> Fallback(design)]

\* What the live planner may answer: any package type, and at least one
\* deliverable, each a text of its own.
Answers ==
  [package : Packages, title : Titles, deliverables : UNION {[1..n -> Titles] : n \in 1..MaxPlanned}]

\* _normalize_raw_plan: the designs are inferred, not what the planner says.
LivePlan(goal, hint, setup, answer) ==
  [title |-> answer.title, package |-> answer.package,
   design |-> InferDesign(answer.title \cup goal, hint, setup),
   deliverables |-> [i \in DOMAIN answer.deliverables |-> InferDesign(answer.deliverables[i], hint, setup)]]

\* _normalize_plan, of a live plan or a fallback.
Normalize(made, hint, setup) ==
  LET package == Or(hint, made.package)
      Fit(design) == WithChoices(WithPackage(design, package), setup)
      shared == Fit(made.design)
  IN  [made EXCEPT !.package = package, !.design = shared,
                   !.deliverables = [i \in DOMAIN @ |-> IF package = "progressive" THEN shared ELSE Fit(@[i])]]

\* _deliverable_plan_needs_override: deliverables that could be any course's.
NeedsOverride(texts, design) ==
  \/ "boilerplate" \in texts
  \/ design.family \in {"control_plane", "transactional"} /\ "contract" \notin texts

\* _creator_plan_deliverables.
CreatorDeliverables(made, texts) ==
  IF Len(made.deliverables) > FallbackSize(made.design) \/ NeedsOverride(texts, made.design)
  THEN Fallback(made.design) ELSE made.deliverables

-----------------------------------------------------------------------------
(* The creator's requests *)

NoPlan == [package |-> None]
NoCourse == [kind |-> None]

DesignInit ==
  /\ stage = "brief"
  /\ brief \in [goal : Goals, hint : Packages \cup {None}, setup : Setups]
  /\ plan = NoPlan
  /\ course = NoCourse

\* generate_creator_plan. texts are the words of the deliverables' titles.
Offer(made, texts, setup) ==
  LET normal == Normalize(made, brief.hint, setup)
      design == WithChoices(normal.design, setup)
      offered == CreatorDeliverables([normal EXCEPT !.design = design], texts)
  IN  /\ stage' = "planned"
      /\ plan' = [title |-> normal.title, goal |-> brief.goal, package |-> normal.package, setup |-> setup,
                   design |-> design, deliverables |-> [i \in DOMAIN offered |-> WithChoices(offered[i], setup)]]
      /\ UNCHANGED <<brief, course>>

\* The planner is not there, or its answer cannot be used.
PlanByFallback ==
  /\ stage = "brief"
  /\ LET setup == ResolveSetup(brief.goal, brief.setup)
     IN  Offer(FallbackPlan(brief.goal, brief.hint, setup), {"contract"}, setup)

PlanLive ==
  /\ stage = "brief"
  /\ \E answer \in Answers :
       LET setup == ResolveSetup(brief.goal, brief.setup)
       IN  Offer(LivePlan(brief.goal, brief.hint, setup, answer),
                 UNION {answer.deliverables[i] : i \in DOMAIN answer.deliverables}, setup)

\* _generated_plan_from_creator_plan.
Generated(p) ==
  [package |-> p.package, design |-> WithChoices(p.design, p.setup),
   deliverables |-> [i \in DOMAIN p.deliverables |-> WithChoices(p.deliverables[i], p.setup)]]

\* _build_course_run: one workflow for all deliverables, with the shared design
\* as its spec, or one for each with its own.
Specs(g) ==
  IF g.package = "progressive" THEN <<[design |-> g.design, deliverables |-> Len(g.deliverables)]>>
  ELSE [i \in DOMAIN g.deliverables |-> [design |-> g.deliverables[i], deliverables |-> 1]]

\* TaskAgentServiceSpec's own rules.
SpecIsValid(spec, package) ==
  /\ spec.design.package = package
  /\ package = "progressive" => spec.deliverables >= 2

Builds(g) == \A i \in DOMAIN Specs(g) : SpecIsValid(Specs(g)[i], g.package)

\* The deliverables show the designs of the workflows' specs.
Built(g) ==
  [kind |-> "built", package |-> g.package, design |-> g.design, specs |-> Specs(g),
   deliverables |-> [i \in DOMAIN g.deliverables |-> IF g.package = "progressive" THEN g.design ELSE g.deliverables[i]]]

\* create_course_run_from_creator_plan.
CreateCourse ==
  /\ stage = "planned"
  /\ IF Builds(Generated(plan))
     THEN stage' = "built" /\ course' = Built(Generated(plan))
     ELSE stage' = "refused" /\ UNCHANGED course
  /\ UNCHANGED <<brief, plan>>

\* create_generation_placeholder: the design shown meanwhile is inferred anew.
Awaited(p) ==
  [kind |-> "placeholder", package |-> p.package, specs |-> <<>>, deliverables |-> <<>>,
   design |-> InferDesign(p.title \cup p.goal, p.package, p.setup)]

\* queue_course_run_from_creator_plan.
QueueCourse ==
  /\ stage = "planned"
  /\ stage' = "queued"
  /\ course' = Awaited(plan)
  /\ UNCHANGED <<brief, plan>>

\* _finish_queued_creator_plan, to apply_generated_plan or to mark_generation_failed.
FinishQueued ==
  /\ stage = "queued"
  /\ IF Builds(Generated(plan))
     THEN stage' = "built" /\ course' = Built(Generated(plan))
     ELSE stage' = "blocked" /\ UNCHANGED course
  /\ UNCHANGED <<brief, plan>>

DesignNext == PlanByFallback \/ PlanLive \/ CreateCourse \/ QueueCourse \/ FinishQueued

-----------------------------------------------------------------------------
(* What makes a design right *)

\* The designs there are: those of the plan, of the course and of its specs.
Designs ==
  (IF plan = NoPlan THEN {} ELSE {plan.design} \cup {plan.deliverables[i] : i \in DOMAIN plan.deliverables})
    \cup (IF course = NoCourse THEN {}
           ELSE {course.design} \cup {course.deliverables[i] : i \in DOMAIN course.deliverables}
                  \cup {course.specs[i].design : i \in DOMAIN course.specs})

\* The three places a design tells its stack in tell the same one, the versions
\* of backing services among it.
Coherent(d) ==
  /\ \A f \in Fields \cap DOMAIN d.runtime : d.runtime[f] = d.deps[f]
  /\ d.binding.language = d.deps.language /\ d.binding.framework = d.deps.framework
  /\ {s.id : s \in d.runtime.services} = d.binding.services \cup {"app"}
  /\ \A s \in d.runtime.services :
       /\ s.nth = 2 => s.id = d.deps.database /\ s.version = d.deps.databaseVersion
       /\ s.nth = 3 => s.id = d.deps.cache /\ s.version = d.deps.cacheVersion

\* No backing service has the name of one before it, whose version it would be
\* told for its own while its design is only inferred.
NamesApart(fields) ==
  /\ "app" \notin {fields.database, fields.cache}
  /\ fields.cache # None => fields.cache # fields.database

\* What the creator chose is what the design says; what the creator left open is
\* not emptied: there is a language unless the framework is of none we know.
HonoursChoices(d) ==
  /\ \A f \in Fields : brief.setup.fields[f] # None => d.deps[f] = brief.setup.fields[f]
  /\ brief.setup.sources # {} => d.sources = brief.setup.sources
  /\ brief.setup.starter # None => d.starter = brief.setup.starter
  /\ d.deps.language = None => LanguageOf(brief.setup.fields.framework) = None /\ brief.setup.fields.framework # None
  /\ d.deps.language \in {"python", "go"} => d.deps.languageVersion # None

\* A course that retrieves has something to retrieve from.
HasCorpus(d) == d.family \in {"grounded_retrieval", "ranked_retrieval"} => d.fixtures # {}

\* The package type of a plan or a course is that of its designs, and where the
\* deliverables are one codebase they have one design.
OnePackage(made) ==
  /\ \A d \in {made.design} \cup {made.deliverables[i] : i \in DOMAIN made.deliverables} :
       d.package = made.package /\ (d.shared <=> d.package = "progressive")
  /\ made.package = "progressive" => \A i \in DOMAIN made.deliverables : made.deliverables[i] = made.design

\* What a creator chose is in the course that is built, wherever it is told: the
\* choices go through an inference, a planner that may say anything, two
\* normalizations and a round trip through the browser
\* (course_generation_service.py), and at each of them a design's dependencies,
\* runtime plan and binding still tell one stack, the package type is that of
\* every part, and a course that waits to be built is shown the design that was
\* approved and is built with it, deliverable for deliverable. A course that
\* waits is shown another version where two services have one name.
DesignIsSound ==
  /\ \A d \in Designs : HonoursChoices(d) /\ HasCorpus(d)
  /\ plan # NoPlan => OnePackage(plan) /\ (brief.hint # None => plan.package = brief.hint)
  /\ course # NoCourse => OnePackage(course) /\ course.package = plan.package
  /\ course.kind # "placeholder" \/ NamesApart(plan.setup.fields)
     => /\ \A d \in Designs : Coherent(d)
        /\ course # NoCourse => course.design = plan.design
  /\ stage = "built" =>
       /\ course.deliverables = plan.deliverables
       /\ \A i \in DOMAIN course.specs : course.specs[i].design = IF plan.package = "progressive" THEN plan.design ELSE plan.deliverables[i]
=============================================================================
