------------------------------ MODULE TaskSpec ------------------------------
(***************************************************************************)
(* The spec of an assignment: how a row of any age is read                 *)
(* (storage/postgres_store.py), what makes a spec valid                    *)
(* (services/spec_validation.py), what learners are shown of it            *)
(* (publish_snapshot_service.py) and how a grade finds its way back to     *)
(* what they were shown (learner_package_runtime.py).                      *)
(*                                                                         *)
(* A spec is a row that has been read.  A deliverable's id or slug is the  *)
(* words in it and what is between them.                                   *)
(***************************************************************************)
EXTENDS Design, FiniteSetsExt

\* What a row need not have.
NoStack == [f \in Fields |-> None]
NoStructure == [shared |-> None]
NoDeps == [starter |-> "absent"]
NoContract == [plan |-> None]
NoSurface == [editable |-> None]
NoBrief == [edit |-> None]

Health == [path |-> "/health", kind |-> "health", required |-> TRUE]

-----------------------------------------------------------------------------
(* Reading a row *)

\* _coerce_legacy_starter_type: there were four kinds of starters.
Coerce(starter) ==
  CASE starter = "bare_stub" -> "empty"
    [] starter \in {"partial_implementation", "working_buggy", "working_suboptimal"} -> "partial"
    [] OTHER -> starter

\* _infer_editable_files: those of the first deliverable that names any.
InferEditable(row) ==
  LET Names(p) ==
        IF p.surface # NoSurface /\ p.surface.editable # {} THEN p.surface.editable
        ELSE IF p.brief # NoBrief THEN p.brief.edit ELSE {}
      naming == {i \in DOMAIN row.parts : Names(row.parts[i]) # {}}
  IN  IF naming = {} THEN {} ELSE Names(row.parts[Min(naming)])

\* The runtime plan of a row of before is beside its contract, not in it.
PlanOf(row) ==
  IF row.plan # NoStack THEN row.plan
  ELSE IF row.contract # NoContract THEN row.contract.plan ELSE NoStack

\* What the row's dependencies leave open is in its plan or its binding; the
\* services and their versions are not.
StackOf(row) ==
  LET given == IF row.deps = NoDeps THEN NoStack ELSE row.deps.fields
      bound == IF row.contract = NoContract THEN NoStack ELSE row.contract.binding
      planned == PlanOf(row)
  IN  [f \in Fields |->
        CASE f \in {"language", "framework"} -> Or(given[f], Or(planned[f], bound[f]))
          [] f \in {"languageVersion", "frameworkVersion", "manager"} -> Or(given[f], planned[f])
          [] OTHER -> given[f]]

\* The endpoints of a row of before are in its production contract, those among
\* them that are paths; a service has a health check.
EndpointsOf(row) ==
  LET given == IF row.endpoints # {} THEN row.endpoints ELSE {e \in row.canonical : e.kind # "malformed"}
  IN  given \cup {e \in {Health} : \A g \in given : g.path # "/health"}

StructureOf(row) ==
  CASE row.structure = NoStructure -> [shared |-> TRUE, scope |-> "course", mode |-> "cumulative"]
    [] row.structure # NoStructure /\ row.package = "progressive" ->
         [row.structure EXCEPT !.shared = TRUE, !.scope = "course"]
    [] OTHER -> row.structure

DepsOf(row) ==
  LET old == row.deps = NoDeps
  IN  [starter |-> IF old THEN "partial" ELSE Or(Coerce(row.deps.starter), "partial"),
       fields |-> StackOf(row),
       editable |-> IF ~old /\ row.deps.editable # {} THEN row.deps.editable ELSE InferEditable(row),
       fixtures |-> IF old THEN {} ELSE row.deps.fixtures,
       command |-> TRUE]

\* _normalize_task_agent_spec_payload.
Upgraded(row) ==
  [row EXCEPT
     !.structure = StructureOf(row), !.deps = DepsOf(row), !.endpoints = EndpointsOf(row),
     !.plan = NoStack, !.canonical = {},
     !.contract = IF @ # NoContract THEN @
                  ELSE [plan |-> PlanOf(row),
                        binding |-> [f \in Fields |-> IF f \in {"language", "framework"} THEN StackOf(row)[f] ELSE None]],
     !.parts = [i \in DOMAIN @ |-> [@[i] EXCEPT !.starter = None]],
     !.checked = Or(@, "yes")]

\* A row of any age: what it need not have is as a whole there or not, it has a
\* deliverable, and a runtime plan at one place only.
IsRow(row) ==
  /\ row = [package |-> row.package, domain |-> row.domain, structure |-> row.structure, deps |-> row.deps,
            plan |-> row.plan, contract |-> row.contract, endpoints |-> row.endpoints,
            canonical |-> row.canonical, parts |-> row.parts, checked |-> row.checked]
  /\ row.structure # NoStructure =>
       row.structure = [shared |-> row.structure.shared, scope |-> row.structure.scope, mode |-> row.structure.mode]
  /\ row.deps # NoDeps =>
       row.deps = [starter |-> row.deps.starter, fields |-> row.deps.fields, editable |-> row.deps.editable,
                   fixtures |-> row.deps.fixtures, command |-> row.deps.command]
  /\ row.contract # NoContract => row.contract = [plan |-> row.contract.plan, binding |-> row.contract.binding]
  /\ row.plan # NoStack /\ row.contract # NoContract => row.contract.plan = NoStack
  /\ DOMAIN row.parts = 1..Len(row.parts) /\ Len(row.parts) \in Nat \ {0}

-----------------------------------------------------------------------------
(* Validation *)

\* is_placeholder_public_surface.
NoPublicSurface(endpoints) == \A e \in endpoints : e.required => e.kind \in {"health", "internal"}

\* What validate_task_agent_spec asks of the course as a whole; what it only
\* warns of is left out.
SurfaceIsValid(s) ==
  /\ s.domain # "unknown"
  /\ s.checked = "yes" => s.deps.command
  /\ s.structure.scope = "deliverable" => ~s.structure.shared
  /\ ~NoPublicSurface(s.endpoints)
  /\ "/health" \in {e.path : e \in s.endpoints}
  /\ \A e \in s.endpoints : e.kind \notin {"title slug", "archetype"}

\* What it asks of each deliverable.
PartIsValid(s, p) ==
  LET paths == {e.path : e \in s.endpoints}
  IN  /\ p.title # "generic"
      /\ "unknown" \notin p.overlays
      /\ p.outcomes
      /\ p.surface # NoSurface
      /\ p.surface.editable # {} /\ p.surface.endpoints # {}
      /\ p.surface.endpoints \subseteq paths
      /\ ~p.surface.placeholders
      /\ p.brief # NoBrief
      /\ p.brief.edit # {} /\ p.brief.done
      /\ p.checks # {}
      /\ \A c \in p.checks : c.path \in paths /\ c.goal

\* A slip: what a deliverable requires is not looked up.
ValidatedLoosely(s) ==
  /\ SurfaceIsValid(s)
  /\ \A i \in DOMAIN s.parts : s.parts[i].surface # NoSurface

\* validate_task_agent_spec.
Validated(s) ==
  /\ SurfaceIsValid(s)
  /\ \A i \in DOMAIN s.parts : PartIsValid(s, s.parts[i])

\* learner_editable_paths_for_spec.
Editable(s) ==
  LET surfaces == UNION {s.parts[i].surface.editable : i \in {i \in DOMAIN s.parts : s.parts[i].surface # NoSurface}}
  IN  IF surfaces # {} THEN surfaces ELSE s.deps.editable

\* learner_editable_paths_for_deliverable.
EditableOf(s, d) ==
  LET surface == s.parts[d].surface
  IN  IF surface # NoSurface /\ surface.editable # {} THEN surface.editable ELSE Editable(s)

-----------------------------------------------------------------------------
(* What learners are shown *)

Dashed(id) == IF id.between = "_" THEN [id EXCEPT !.between = "-"] ELSE id

\* gate_for: the checks that count at a deliverable.
Gate(s, i) ==
  UNION {s.parts[j].checks :
           j \in {j \in DOMAIN s.parts : j = i \/ (s.structure.mode = "cumulative" /\ j < i)}}

\* _build_learner_package: a deliverable goes by the name it has in the course,
\* which is found by its place.
Lessons(s, slugs) ==
  [i \in DOMAIN s.parts |->
    [slug |-> IF i \in DOMAIN slugs THEN slugs[i] ELSE Dashed(s.parts[i].id),
     checks |-> s.parts[i].checks, gate |-> Gate(s, i)]]

\* A slip: only by name.
HomeByName(s, lessons, id) ==
  IF \E i \in DOMAIN lessons : lessons[i].slug = id
  THEN Min({i \in DOMAIN lessons : lessons[i].slug = id}) ELSE 0

\* resolve_review_area_deliverable: by name or, the runner knowing the spec's
\* names only, by place; 0 if there is none.
Home(s, lessons, id) ==
  LET named == {i \in DOMAIN lessons : lessons[i].slug = id}
      placed == {i \in DOMAIN s.parts : s.parts[i].id = id} \cap DOMAIN lessons
  IN  CASE named # {} -> Min(named)
        [] named = {} /\ placed # {} -> Min(placed)
        [] OTHER -> 0

\* remap_assignment_report_to_deliverables, of a report that has for each
\* deliverable how many of its tests passed, and of how many: one area for each
\* name learners know, the areas that have the same one put together.
Remapped(s, lessons, report) ==
  LET NameOf(i) ==
        LET home == Home(s, lessons, s.parts[i].id)
        IN  IF home = 0 THEN s.parts[i].id ELSE lessons[home].slug
      In(name) == {i \in DOMAIN s.parts : NameOf(i) = name}
      PassedOf(i) == report[i].passed
      TotalOf(i) == report[i].total
  IN  [name \in {NameOf(i) : i \in DOMAIN s.parts} |->
        [passed |-> MapThenSumSet(PassedOf, In(name)), total |-> MapThenSumSet(TotalOf, In(name))]]
=============================================================================
