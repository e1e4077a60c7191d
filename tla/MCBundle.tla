------------------------------ MODULE MCBundle ------------------------------
(* Briefs of many kinds under choices of many kinds, and courses of before.  *)
EXTENDS Bundle

NothingChosen == [f \in Fields |-> None]

Item(names, version) == [names |-> names, version |-> version]

Source(id, kind, path, words) == [id |-> id, kind |-> kind, path |-> path, words |-> words]

MCGoals ==
  {{}, {"letters", "grounded"}, {"letters", "grounded", "ranked", "python"}, {"ranked", "go", "gin"},
   {"control", "tool"}, {"control", "rails", "blank"}, {"stateful", "course"}, {"stateful", "survey", "fastapi"},
   {"tool", "course"}, {"tool", "progressive", "course"}, {"letters"}, {"ruby", "survey"}}

MCTitles == {{"contract"}, {"grounded", "boilerplate"}, {"stateful", "go", "contract"}}

MCSetups ==
  {[starter |-> None, fields |-> NothingChosen, stack |-> {}, sources |-> {}],
   [starter |-> "empty", fields |-> [NothingChosen EXCEPT !.language = "go"], stack |-> {}, sources |-> {}],
   [starter |-> "partial", fields |-> [NothingChosen EXCEPT !.framework = "unknown"], stack |-> {}, sources |-> {}],
   [starter |-> None, fields |-> [NothingChosen EXCEPT !.database = "postgres", !.cache = "redis", !.cacheVersion = "6"],
    stack |-> {}, sources |-> {Source("billing", "mock_api", None, {"tool"}), Source("files", "object_store", None, {})}],
   [starter |-> None, fields |-> [NothingChosen EXCEPT !.database = "redis", !.databaseVersion = "6", !.cache = "redis"],
    stack |-> {}, sources |-> {}],
   [starter |-> None, fields |-> [NothingChosen EXCEPT !.database = "mongo"],
    stack |-> {Item({"mongo"}, "5")}, sources |-> {Source("notes", "uploaded_file", "data/notes.json", {"ranked"})}],
   [starter |-> "empty", fields |-> [NothingChosen EXCEPT !.language = "python", !.languageVersion = "3.11", !.manager = "pip"],
    stack |-> {Item({"poetry"}, None)}, sources |-> {}],
   [starter |-> "partial", fields |-> [NothingChosen EXCEPT !.framework = "gin", !.frameworkVersion = "1.9"],
    stack |-> {Item({"go"}, "1.22")}, sources |-> {Source("events", "mock_api", "data/events.json", {})}]}

Id(name, between) == [name |-> name, between |-> between]

Endpoint(path, kind, required) == [path |-> path, kind |-> kind, required |-> required]

Orders == Endpoint("/orders", "noun", TRUE)

Check(id, path, goal) == [id |-> id, path |-> path, goal |-> goal]

Part(name, check) ==
  [id |-> Id(name, "_"), title |-> "grounded", overlays |-> {}, outcomes |-> TRUE,
   surface |-> [editable |-> {"app"}, endpoints |-> {"/orders"}, placeholders |-> FALSE],
   brief |-> [edit |-> {"app"}, done |-> TRUE], checks |-> {Check(check, "/orders", TRUE)}, starter |-> None]

Structure(shared, scope, mode) == [shared |-> shared, scope |-> scope, mode |-> mode]

Deps(starter, fields) ==
  [starter |-> starter, fields |-> fields, editable |-> {}, fixtures |-> {"data/corpus.json"}, command |-> TRUE]

\* A row of today.
Row ==
  [package |-> "progressive", domain |-> None, structure |-> Structure(TRUE, "course", "cumulative"),
   deps |-> Deps("partial", [NothingChosen EXCEPT !.language = "go"]), plan |-> NoStack,
   contract |-> [plan |-> NoStack, binding |-> NothingChosen], endpoints |-> {Health, Orders}, canonical |-> {},
   parts |-> <<Part("read", "reads"), Part("write", "writes")>>, checked |-> "yes"]

\* One of before the contract had the runtime plan and the spec its endpoints.
Ancient ==
  [Row EXCEPT !.structure = NoStructure, !.deps = NoDeps, !.contract = NoContract,
              !.plan = [NothingChosen EXCEPT !.language = "go", !.manager = "go"], !.endpoints = {},
              !.canonical = {Orders, Endpoint("orders", "malformed", TRUE)}, !.checked = None,
              !.parts = [i \in DOMAIN @ |-> [@[i] EXCEPT !.starter = "bare_stub"]]]

\* Rows that are read well and are not valid.
Invalid ==
  {[Row EXCEPT !.domain = "unknown"], [Row EXCEPT !.endpoints = {Health}],
   [Row EXCEPT !.endpoints = @ \cup {Endpoint("/orders-and-refunds-course", "title slug", TRUE)}],
   [Row EXCEPT !.endpoints = {Endpoint("/stock", "noun", TRUE)}],
   [Row EXCEPT !.endpoints = {Endpoint("/orders", "noun", FALSE), Endpoint("/_coursegen/trace", "internal", TRUE)}],
   [Row EXCEPT !.parts[2].title = "generic"], [Row EXCEPT !.parts[1].overlays = {"unknown"}],
   [Row EXCEPT !.parts[1].outcomes = FALSE], [Row EXCEPT !.parts[2].surface = NoSurface],
   [Row EXCEPT !.parts[2].surface.placeholders = TRUE], [Row EXCEPT !.parts[1].brief.done = FALSE],
   [Row EXCEPT !.parts[1].checks = {}], [Row EXCEPT !.parts[2].checks = {Check("writes", "/stock", TRUE)}],
   [Row EXCEPT !.parts[1].checks = {Check("reads", "/orders", FALSE)}]}

Alone == [Row EXCEPT !.package = "survey", !.structure = Structure(FALSE, "deliverable", "independent"),
                     !.parts = <<Part("read", "reads")>>]

Old(row, names) == [row |-> row, slugs |-> names]

MCOldCourses ==
  {Old(Row, <<Id("see orders", "-"), Id("place orders", "-")>>), Old(Row, <<Id("orders", "-"), Id("orders", "-")>>),
   Old([Row EXCEPT !.deps.starter = "working_buggy", !.structure.mode = "independent"], <<Id("see orders", "-")>>),
   Old([Row EXCEPT !.deps.starter = "bare_stub"], <<>>),
   Old([Ancient EXCEPT !.structure = Structure(FALSE, "deliverable", "cumulative")], <<Id("read", "_"), Id("place orders", "-")>>),
   Old(Ancient, <<Id("see orders", "-"), Id("place orders", "-"), Id("sell", "-")>>),
   Old(Alone, <<Id("read", "-")>>), Old([Alone EXCEPT !.structure.shared = TRUE], <<Id("read", "-")>>)}
    \cup {Old(row, <<Id("see orders", "-"), Id("place orders", "-")>>) : row \in Invalid}

Manifest(repo, runtime, dependencies, wholeRuntime, wholeRepo) ==
  [repo |-> repo, editable |-> {"app"}, runtime |-> runtime, dependencies |-> dependencies,
   fixtures |-> {"data/corpus.json"}, wholeRuntime |-> wholeRuntime, wholeRepo |-> wholeRepo]

Workspace(root, more, authored, manifests, checked) ==
  [root |-> root, starter |-> StarterNames \cup {"data/corpus.json"} \cup more, authored |-> authored,
   manifests |-> manifests, visible |-> checked, hidden |-> checked]

Whole == Manifest({"app"}, Runtime, {"go.mod"}, TRUE, TRUE)
Default == Manifest({}, {}, {}, FALSE, FALSE)
\* One that was left behind by the spec, and one that says nothing of the learner.
Stale == [Whole EXCEPT !.fixtures = {"data/old.json"}]
Empty == [Default EXCEPT !.editable = {}]

MCWorkspaces ==
  {Workspace("bundle", {"app"}, {"app"}, <<Default, Default>>, {}),
   Workspace("own", Sources \cup {"hidden", "manifest"}, Sources \cup Runtime, <<Whole, Whole>>, {1, 2}),
   Workspace("own", Sources, Sources \cup Runtime, <<Whole>>, {1}),
   Workspace("own", Sources \cup {"data/old.json"}, Sources \cup Runtime, <<Stale, Whole>>, {1}),
   Workspace("own", {"app", "manifest"}, {"app"}, <<Default, Default>>, {2}),
   Workspace("own", {"manifest"}, {}, <<Empty, Empty>>, {2}),
   Workspace("own", {"app"}, {"app"}, <<>>, {}),
   [Workspace("own", {}, {}, <<>>, {1}) EXCEPT !.starter = StarterNames],
   Workspace("own", Sources, {"app", "run.sh"}, <<Manifest({"app"}, {"run.sh"}, {}, TRUE, TRUE), Default>>, {1, 2}),
   Workspace("own", {}, {}, <<Manifest({"app"}, {}, {}, FALSE, TRUE), Default>>, {1})}
=============================================================================
