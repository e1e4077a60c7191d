------------------------------ MODULE Feedback ------------------------------
(***************************************************************************)
(* What lms_service.py tells a learner of the outputs of the scenarios:    *)
(* the causes of what failed, those that block most scenarios first, and   *)
(* an example for every scenario.                                          *)
(*                                                                         *)
(* The wording of a diagnostic is left out, and with it the two readings   *)
(* of it by regular expressions, but for what they make of it: the cause   *)
(* it is counted under.  A text that names values, or that a judge wrote,  *)
(* is taken to be of its scenario alone.                                   *)
(***************************************************************************)
EXTENDS Rubrics

CONSTANT MaxCauses  \* _MAX_CAUSES

ASSUME FeedbackAssumption == MaxCauses \in Nat \ {0}

Cause(says, of) == [says |-> says, of |-> of]

Failing(o) == {i \in DOMAIN o.verdicts : o.verdicts[i] = "fail"}

\* A slip: what was not run does not count against the learner.
LearnerPassedUnrun(o) == Failing(o) = {}

\* A scenario passed unless it aborted, was not judged at all or failed a
\* rubric; a rubric that abstains counts as passed.
LearnerPassed(o) == ~o.aborted /\ o.verdicts # <<>> /\ Failing(o) = {}

-----------------------------------------------------------------------------
(* Causes *)

Own(s, kind) == Cause("text", <<s.id, kind>>)

\* Missing names below the same block are one cause.
MissingField(path) == Cause("missing field", SubSeq(path, 1, Min({2, Len(path)})))

\* How OracleSetOverlap fails.  That the target is not there is worded
\* differently by it, and counted as a text of its own.
OverlapCause(s, c, target, ctx) ==
  LET gold == GoldOf(c, ctx.setup)
      compared == /\ target.t = "list"
                  /\ Retrieved(c, target) # {} \/ target.v = <<>> \/ Given(c, "top_k", 1) = 0
  IN CASE ~Found(gold) \/ gold.t = "number" -> Own(s, "oracle_set_overlap")
       [] Found(gold) /\ gold.t # "number" /\ target.t = "missing" -> Cause("text", c.target)
       [] gold.t = "list" /\ (\A v \in ToSet(gold.v) : Hashable(v)) /\ compared ->
            Cause("recall", <<>>)
       [] OTHER -> Own(s, "oracle_set_overlap")

\* How the others fail when their target is there.  literal_match names the
\* field only if its path is of the form step.body.field.
WrongCause(s, kind, c, target, ctx) ==
  CASE kind = "schema_match" /\ target.t = "dict"
         /\ Given(c, "field_types", {}) \cap DOMAIN target.v = {} -> Cause("schema", <<>>)
    [] kind = "literal_match" ->
         IF Len(c.target) # 3 \/ c.target[2] # "body" THEN Cause("text", c.target)
         ELSE IF c.target[3] = "abstained" THEN Cause("abstention", <<>>)
         ELSE Cause("wrong value", <<c.target[3]>>)
    [] kind = "behavioral_equivalence"
         /\ ("expected_path" \in DOMAIN c => Found(Resolve(ctx.captures, c.expected_path))) ->
         Cause("wrong value", c.target)
    [] kind = "subset_match" /\ target = List(<<>>) -> Cause("no citations", <<>>)
    [] OTHER -> Own(s, kind)

\* humanize_diagnostic and then _cluster_key of the verdict of rubric r.
CauseOf(s, r, ctx) ==
  LET c == Normalized(r)
      target == Resolve(ctx.captures, c.target)
  IN IF ~Builds(r.kind, c) \/ target.t = "broken" THEN Own(s, r.kind)
     ELSE IF r.kind = "oracle_set_overlap" THEN OverlapCause(s, c, target, ctx)
     ELSE IF ~Found(target) THEN MissingField(c.target)
     ELSE WrongCause(s, r.kind, c, target, ctx)

\* The causes of a scenario, its abort among them; verdicts that abstain are
\* left out.
Causes(s, o, ctx) ==
  {Own(s, "aborted") : x \in {x \in {o} : x.aborted}}
    \cup {CauseOf(s, s.rubrics[i], ctx) : i \in Failing(o)}

-----------------------------------------------------------------------------
(* Examples *)

Unresolved(path) == [t |-> "unresolved", v |-> path]

\* What a placeholder that leads to it is replaced by, or the placeholder.
Interpolated(ctx, path) ==
  LET node == Placeholder(ctx.captures, ctx.setup, ctx.meta, path)
  IN IF Found(node) THEN node ELSE Unresolved(path)

GoldKeys == <<"gold_path", "gold_set_path", "expected_falsity_path", "expected_path">>

\* What is shown in words: the rubric asks for something.
AskKeys ==
  <<"must_have_fields", "must_contain_facts", "pattern", "min_value", "max_value",
    "acceptable_source">>

\* The config is read as its author wrote it.
ExpectedBy(c, ctx) ==
  LET given(keys) == SelectSeq(keys, LAMBDA k : k \in DOMAIN c)
  IN IF given(GoldKeys) # <<>> THEN Interpolated(ctx, c[Head(given(GoldKeys))])
     ELSE IF "expected" \in DOMAIN c THEN c.expected
     ELSE IF given(AskKeys) # <<>> THEN [t |-> "asks", v |-> Head(given(AskKeys))]
     ELSE Missing

\* The body of what was captured last.
LastBody(s, captures) ==
  LET sent == {i \in DOMAIN s.steps : s.steps[i].id \in DOMAIN captures.v}
  IN IF sent = {} THEN Missing ELSE captures.v[s.steps[Max(sent)].id].v["body"]

\* A slip: the learner is shown all of the last answer.
ActualWhole(s, c, ctx) == LastBody(s, ctx.captures)

\* The field the rubric is about, or all of the last answer if there is no
\* such field.
Actual(s, c, ctx) ==
  IF "target" \in DOMAIN c /\ Found(Placeholder(ctx.captures, ctx.setup, ctx.meta, c.target))
  THEN Placeholder(ctx.captures, ctx.setup, ctx.meta, c.target)
  ELSE LastBody(s, ctx.captures)

\* A slip: the example is of the first rubric of the kind that failed.
BlamedByKind(s, o) ==
  IF LearnerPassed(o) \/ Failing(o) = {} THEN {}
  ELSE {Min({i \in DOMAIN s.rubrics : s.rubrics[i].kind = s.rubrics[Min(Failing(o))].kind})}

\* The rubric an example is about: the first that failed, if any did.
Blamed(s, o) == IF LearnerPassed(o) \/ Failing(o) = {} THEN {} ELSE {Min(Failing(o))}

\* _scenario_worked_example.
Example(s, o, ctx) ==
  LET c == IF Blamed(s, o) = {} THEN [k \in {} |-> "none"]
           ELSE s.rubrics[CHOOSE i \in Blamed(s, o) : TRUE].config
  IN [expected |-> ExpectedBy(c, ctx), actual |-> Actual(s, c, ctx)]

-----------------------------------------------------------------------------

\* What there is to say when nothing failed.
Nothing == [headline |-> "none", top |-> <<>>]

\* A slip: the causes come in any order.
AnyCause(blocks, left) == CHOOSE c \in left : TRUE

\* How ties are broken, by the names of the causes, is left out.
Foremost(blocks, left) ==
  CHOOSE c \in left : \A d \in left : Cardinality(blocks[c]) >= Cardinality(blocks[d])

\* The causes that block most scenarios, with these, most first.
Top(blocks) ==
  LET listed(top) == {entry.cause : entry \in ToSet(top)}
      listOne(top, n) ==
        LET left == DOMAIN blocks \ listed(top)
            cause == Foremost(blocks, left)
        IN IF left = {} THEN top ELSE Append(top, [cause |-> cause, blocks |-> blocks[cause]])
  IN FoldLeft(listOne, <<>>, [n \in 1..MaxCauses |-> n])

\* _rewrite_feedback_with_llm: without a router, and when anything goes wrong,
\* the headline stays the one that counts.
Headlines(router) == {"counts", IF router = "up" THEN "rewritten" ELSE "counts"}

\* build_outcome_feedback of outputs, each with the context it was judged in.
Guidance(outs, ctxs, headline) ==
  LET failed == {s \in DOMAIN outs : ~LearnerPassed(outs[s])}
      causes(s) == Causes(s, outs[s], ctxs[s])
      blocks == [c \in UNION {causes(s) : s \in failed} |-> {s \in failed : c \in causes(s)}]
  IN IF failed = {} THEN Nothing ELSE [headline |-> headline, top |-> Top(blocks)]

=============================================================================
