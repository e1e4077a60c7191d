------------------------------ MODULE Rubrics ------------------------------
(***************************************************************************)
(* One scenario against one service: the requests that are sent, what is   *)
(* captured of the answers, and what each rubric says of the captures      *)
(* (scenario_trace_runner.py and the scenario_rubrics_*.py).               *)
(*                                                                         *)
(* A rubric is a kind and a config, a function from the keywords its       *)
(* author wrote to their values; shares are in percent.  Patterns are the  *)
(* sets of texts that match them.                                          *)
(***************************************************************************)
EXTENDS Paths, FiniteSets

-----------------------------------------------------------------------------
(* Sending the requests *)

NoAnswer == [status |-> 0, body |-> Missing]

\* What the service answers has the shape of TraceStepResult; no answer at all
\* makes the client raise.
Entry(step, answer) ==
  Dict([status |-> Number(answer.status), headers |-> Dict(<<>>), body |-> answer.body,
        raw |-> Text("raw"), request |-> Dict([path |-> Text(step.id)])])

With(captures, name, entry) ==
  Dict([n \in DOMAIN captures.v \cup {name} |-> IF n = name THEN entry ELSE captures.v[n]])

\* _expect_diagnostic.
Expected(step, status) == step.expect = {} \/ status \in step.expect

\* _execute_step: a placeholder that leads nowhere raises before the request is
\* sent; an answer is captured, under the alias of the step as well, before it
\* is compared with what is expected.
Execute(run, step, service, setup, meta) ==
  IF run.raised \/ run.aborted THEN run
  ELSE IF \/ \E path \in step.reads : ~Found(Placeholder(run.captures, setup, meta, path))
          \/ service[step.id] = NoAnswer
  THEN [run EXCEPT !.raised = TRUE]
  ELSE LET entry == Entry(step, service[step.id]) IN
       [run EXCEPT !.captures = With(With(run.captures, step.id, entry), step.capture, entry),
                   !.aborted = ~Expected(step, service[step.id].status)]

\* The setup steps and then the trace, up to the first that is not answered as
\* expected.
Trace(steps, service, setup, meta) ==
  FoldLeft(LAMBDA run, step : Execute(run, step, service, setup, meta),
           [captures |-> Dict(<<>>), aborted |-> FALSE, raised |-> FALSE], steps)

-----------------------------------------------------------------------------
(* Reading the configs that LLMs write *)

\* _RUBRIC_KWARG_ALIASES; the fields of a JSON schema are read off it.
Aliases ==
  {<<"literal_match", "value", "expected">>,
   <<"numeric_range", "min", "min_value">>, <<"numeric_range", "max", "max_value">>,
   <<"oracle_set_overlap", "gold_path", "gold_set_path">>,
   <<"oracle_set_overlap", "min_overlap", "min_recall">>,
   <<"behavioral_equivalence", "value", "expected">>,
   <<"behavioral_equivalence", "reference_target", "expected_path">>,
   <<"behavioral_equivalence", "target_a", "target">>,
   <<"behavioral_equivalence", "target_b", "expected_path">>,
   <<"behavioral_equivalence", "reference_trace", "expected_path">>,
   <<"subset_match", "value", "acceptable_source">>,
   <<"subset_match", "subset_of", "acceptable_source">>,
   <<"llm_judge_semantic_eq", "gold", "gold_path">>,
   <<"llm_judge_coverage", "answer_target", "target">>,
   <<"llm_judge_coverage", "facts", "must_contain_facts">>,
   <<"schema_match", "schema", "must_have_fields">>}

Dropped ==
  ({"llm_judge_coverage"} \X {"question", "reference", "citations_target", "evidence"})
  \cup ({"llm_judge_false_premise"} \X {"question", "evidence"})
  \cup ({"oracle_set_overlap"} \X {"reference", "selection_mode"})
  \cup {<<"schema_match", "value">>}

\* _MERGED_CONTEXT_PATH_KWARGS: paths that only reach the setup data when they
\* say so.
MergedPaths ==
  {<<"llm_judge_semantic_eq", "gold_path">>, <<"llm_judge_semantic_eq", "alt_path">>,
   <<"llm_judge_false_premise", "expected_falsity_path">>,
   <<"llm_judge_coverage", "judge_context_path">>}

\* _looks_like_setup_data_path, of names for those that begin with them.
LooksLikeSetup(path) ==
  /\ Len(path) > 1
  /\ Head(path) \notin {"setup_data", "course_meta", "captures", "$",
                        "response", "call", "trace", "request"}

Canonical(kind, key) ==
  IF \E a \in Aliases : a[1] = kind /\ a[2] = key
  THEN (CHOOSE a \in Aliases : a[1] = kind /\ a[2] = key)[3] ELSE key

\* A slip: paths are taken as they are written.
NormalizedKeys(r) ==
  LET keys == {k \in DOMAIN r.config : <<r.kind, k>> \notin Dropped}
  IN [name \in {Canonical(r.kind, k) : k \in keys} |->
        r.config[CHOOSE k \in keys : Canonical(r.kind, k) = name]]

\* _normalize_rubric_kwargs.
Normalized(r) ==
  LET keys == {k \in DOMAIN r.config : <<r.kind, k>> \notin Dropped}
      value(name) == r.config[CHOOSE k \in keys : Canonical(r.kind, k) = name]
  IN [name \in {Canonical(r.kind, k) : k \in keys} |->
        IF <<r.kind, name>> \in MergedPaths /\ LooksLikeSetup(value(name))
        THEN <<"setup_data">> \o value(name) ELSE value(name)]

\* What the classes must be given, and what they may be given.
Needs(kind) ==
  CASE kind = "schema_match" -> {"target", "must_have_fields"}
    [] kind = "literal_match" -> {"target", "expected"}
    [] kind = "regex_match" -> {"target", "pattern"}
    [] kind = "numeric_range" -> {"target", "min_value", "max_value"}
    [] kind = "subset_match" -> {"target", "acceptable_source"}
    [] kind = "oracle_set_overlap" -> {"target", "gold_set_path"}
    [] kind = "llm_judge_coverage" -> {"target", "must_contain_facts"}
    [] kind = "llm_judge_semantic_eq" -> {"target", "gold_path"}
    [] OTHER -> {"target"}

Takes(kind) ==
  Needs(kind) \cup
  CASE kind = "schema_match" -> {"field_types"}
    [] kind = "subset_match" -> {"acceptable_key", "min_overlap"}
    [] kind = "oracle_set_overlap" -> {"target_key", "min_recall", "top_k"}
    [] kind = "behavioral_equivalence" -> {"expected", "expected_path", "case_sensitive"}
    [] kind = "llm_judge_coverage" -> {"judge_context_path", "strictness"}
    [] kind = "llm_judge_semantic_eq" -> {"alt_path", "strictness"}
    [] kind = "llm_judge_false_premise" -> {"expected_falsity_path"}
    [] OTHER -> {}

\* _build_rubric does not raise.
Builds(kind, c) ==
  /\ Needs(kind) \subseteq DOMAIN c /\ DOMAIN c \subseteq Takes(kind)
  /\ kind = "behavioral_equivalence" => {"expected", "expected_path"} \cap DOMAIN c # {}

Given(c, key, default) == IF key \in DOMAIN c THEN c[key] ELSE default

-----------------------------------------------------------------------------
(* Rubrics that are free *)

\* A context is what rubrics may look at: captures, setup and meta.  They say
\* "pass", "fail" or "abstain"; what raises is made a fail by run_scenario.

SchemaMatch(c, target) ==
  /\ target.t = "dict"
  /\ c.must_have_fields \subseteq DOMAIN target.v
  \* A type that is read from YAML is a text, and isinstance raises.
  /\ Given(c, "field_types", {}) \cap DOMAIN target.v = {}

RegexMatch(c, target) == target.t = "text" /\ target.v \in c.pattern

NumericRange(c, target) ==
  target.t = "number" /\ c.min_value <= target.v /\ target.v <= c.max_value

Hashable(node) == node.t \notin {"list", "dict"}

\* SubsetMatch.  One value that cannot be hashed makes it raise.
SubsetMatch(c, target, ctx) ==
  LET source == IF Head(c.acceptable_source) = "setup_data"
                THEN Walk(ctx.setup, Tail(c.acceptable_source))
                ELSE Resolve(ctx.captures, c.acceptable_source)
      key == Given(c, "acceptable_key", "")
      acceptable ==
        CASE source.t = "dict" /\ key = "" -> {Text(k) : k \in DOMAIN source.v}
          [] source.t = "list" /\ key = "" -> ToSet(source.v)
          [] source.t = "list" /\ key # "" ->
               {e.v[key] : e \in {e \in ToSet(source.v) : e.t = "dict" /\ key \in DOMAIN e.v}}
          [] OTHER -> {}
      inside == {i \in DOMAIN target.v : target.v[i] \in acceptable}
  IN /\ target.t = "list" /\ target.v # <<>> /\ acceptable # {}
     /\ \A node \in ToSet(target.v) \cup acceptable : Hashable(node)
     /\ Cardinality(inside) * 100 >= Given(c, "min_overlap", 100) * Len(target.v)

\* The case of texts is left out.
BehavioralEquivalence(c, target, ctx) ==
  LET other == IF "expected_path" \in DOMAIN c THEN Resolve(ctx.captures, c.expected_path)
               ELSE c.expected
  IN Found(other) /\ Same(target, other)

-----------------------------------------------------------------------------
(* Recall against a gold set *)

\* The gold set of a rubric, whose path may do without its prefix.
GoldOf(c, setup) ==
  Walk(setup, IF Head(c.gold_set_path) = "setup_data" THEN Tail(c.gold_set_path)
              ELSE c.gold_set_path)

\* A slip: entries are counted after those that cannot be compared are skipped.
RetrievedLater(c, target) ==
  LET usable(e) == IF "target_key" \in DOMAIN c
                   THEN e.t = "dict" /\ c.target_key \in DOMAIN e.v ELSE Hashable(e)
      all == SelectSeq(target.v, usable)
      first == IF "top_k" \in DOMAIN c THEN SubSeq(all, 1, Min({c.top_k, Len(all)})) ELSE all
  IN {IF "target_key" \in DOMAIN c THEN e.v[c.target_key] ELSE e : e \in ToSet(first)}

\* The values of the first top_k entries that can be compared: with a
\* target_key they are read from dicts, and entries without one are skipped.
Retrieved(c, target) ==
  LET first == IF "top_k" \in DOMAIN c THEN SubSeq(target.v, 1, Min({c.top_k, Len(target.v)}))
               ELSE target.v
      keyed == {e \in ToSet(first) : e.t = "dict" /\ c.target_key \in DOMAIN e.v}
      values == IF "target_key" \in DOMAIN c THEN {e.v[c.target_key] : e \in keyed}
                ELSE ToSet(first)
  IN {v \in values : Hashable(v)}

\* A slip: the share is of what was retrieved.
RecallOfTarget(gold, values) ==
  LET n == Cardinality(values) IN IF n = 0 THEN 0 ELSE (100 * Cardinality(ToSet(gold) \cap values)) \div n

\* How much of the gold list was retrieved, in percent rounded down.
Recall(gold, values) == (100 * Cardinality(ToSet(gold) \cap values)) \div Len(gold)

\* A slip: a gold set that is not there asks for nothing.
OverlapLenient(c, ctx) ==
  LET gold == GoldOf(c, ctx.setup)
      target == Resolve(ctx.captures, c.target)
  IN IF gold.t # "list" \/ gold.v = <<>> THEN "pass"
     ELSE IF /\ target.t = "list"
             /\ Recall(gold.v, Retrieved(c, target)) >= Given(c, "min_recall", 50)
     THEN "pass" ELSE "fail"

\* OracleSetOverlap: no gold set is nobody's failure, no list of results is the
\* learner's.  Gold that is no list is taken apart into letters or keys, or
\* raises.
Overlap(c, ctx) ==
  LET gold == GoldOf(c, ctx.setup)
      target == Resolve(ctx.captures, c.target)
  IN IF gold.t = "missing" \/ (gold.t = "list" /\ gold.v = <<>>) THEN "abstain"
     ELSE IF /\ gold.t = "list" /\ \A v \in ToSet(gold.v) : Hashable(v)
             /\ target.t = "list"
             /\ Recall(gold.v, Retrieved(c, target)) >= Given(c, "min_recall", 50)
             /\ target.v # <<>> /\ Given(c, "top_k", 1) > 0 => Retrieved(c, target) # {}
     THEN "pass" ELSE "fail"

-----------------------------------------------------------------------------
(* Rubrics that ask an LLM *)

Judges == {"llm_judge_coverage", "llm_judge_semantic_eq", "llm_judge_false_premise"}

\* What an LLM may say: whether the answer will do, and whether it has found
\* missing facts or drift.
Replies == [good : BOOLEAN, findings : BOOLEAN]

\* A slip: whether there is a judge comes before whether there is an answer.
JudgeAbsentFirst(kind, c, target, router) ==
  IF router # "up" THEN {"abstain"} ELSE IF ~Found(target) THEN {"fail"}
  ELSE {"pass", "fail", "abstain"}

\* The three judges: nothing to judge is a failure, no router and no usable
\* answer of it is none.  A strict rubric does not forgive findings.
Judge(kind, c, target, router) ==
  IF ~Found(target) THEN {"fail"}
  ELSE IF router # "up" THEN {"abstain"}
  ELSE {"abstain"} \cup
       {IF r.good /\ ~(r.findings /\ kind # "llm_judge_false_premise"
                       /\ Given(c, "strictness", "lenient") = "strict")
        THEN "pass" ELSE "fail" : r \in Replies}

\* The reference answer a judge is shown, which may be none at all.
ReferenceOf(c, ctx) ==
  Walk(Dict([n \in DOMAIN ctx.captures.v \cup {"setup_data", "course_meta"} |->
               IF n = "setup_data" THEN ctx.setup
               ELSE IF n = "course_meta" THEN ctx.meta ELSE ctx.captures.v[n]]),
       c.gold_path)

-----------------------------------------------------------------------------

Free(kind, c, target, ctx) ==
  CASE kind = "schema_match" -> SchemaMatch(c, target)
    [] kind = "literal_match" -> Same(target, c.expected)
    [] kind = "regex_match" -> RegexMatch(c, target)
    [] kind = "numeric_range" -> NumericRange(c, target)
    [] kind = "subset_match" -> SubsetMatch(c, target, ctx)
    [] kind = "behavioral_equivalence" -> BehavioralEquivalence(c, target, ctx)

\* What rubric r may say of a run.
VerdictsOf(r, ctx, router) ==
  LET c == Normalized(r)
      target == Resolve(ctx.captures, c.target)
  IN IF ~Builds(r.kind, c) THEN {"fail"}
     ELSE CASE r.kind = "oracle_set_overlap" -> {Overlap(c, ctx)}
            [] r.kind \in Judges -> Judge(r.kind, c, target, router)
            [] OTHER -> {IF Found(target) /\ Free(r.kind, c, target, ctx) THEN "pass" ELSE "fail"}

=============================================================================
