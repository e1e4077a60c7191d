----------------------------- MODULE MCGrading -----------------------------
(***************************************************************************)
(* Grading with five specs and ten scenario files, for TLC.  Every         *)
(* scenario but one sends a single request.                                *)
(***************************************************************************)
EXTENDS Grading

Ask(reads, expect) ==
  [id |-> "ask", capture |-> "response", reads |-> reads, expect |-> expect]

Rubric(kind, c) == [kind |-> kind, config |-> c]

File(id, file, category, rubrics) ==
  [id |-> id, file |-> file, found |-> TRUE, category |-> category, bars |-> {},
   steps |-> <<Ask({}, {200})>>, rubrics |-> rubrics]

Overlapping(c) == Rubric("oracle_set_overlap", [target |-> <<"response", "docs">>] @@ c)

GoldAt(q) == <<"gold_qa", q, "expected_doc_ids">>

Semantic(c) == Rubric("llm_judge_semantic_eq", [target |-> <<"response", "answer">>] @@ c)

StatusIs(n) == Rubric("literal_match", [target |-> <<"response", "status">>, value |-> Number(n)])

\* e has the file of b and no rubric but a structural one, f its id, g is not
\* where the loader looks, and the path of c is prefixed.  h goes through a
\* second request that reads the answer of the first.
MCCandidates ==
  {[File("a", "a.yaml", "happy_path",
         <<Overlapping([gold_set_path |-> GoldAt("q1"), target_key |-> "doc_id", top_k |-> 2])>>)
    EXCEPT !.bars = {"b"}],
   [File("k", "k.yaml", "happy_path",
         <<Rubric("llm_judge_coverage", [answer_target |-> <<"response", "answer">>,
                                         facts |-> {"fact"}, question |-> "text"])>>)
    EXCEPT !.bars = {"b"}],
   File("b", "b.yaml", "boundary", <<Semantic([gold |-> <<"gold_answers", "q1", "answer">>])>>),
   File("c", "c.yaml", "boundary",
        <<Overlapping([gold_path |-> <<"setup_data">> \o GoldAt("q2"), target_key |-> "doc_id",
                       min_overlap |-> 100])>>),
   File("e", "b.yaml", "boundary", <<StatusIs(200)>>),
   [File("d", "d.yaml", "malformed_input", <<StatusIs(422)>>)
    EXCEPT !.steps = <<Ask({}, {422})>>],
   File("b", "f.yaml", "out_of_scope",
        <<Rubric("subset_match", [target |-> <<"response", "docs">>,
                                  value |-> <<"setup_data", "corpus">>,
                                  acceptable_key |-> "doc_id"])>>),
   [File("g", "x/g.yaml", "out_of_scope", <<StatusIs(200)>>) EXCEPT !.found = FALSE],
   [File("h", "h.yaml", "out_of_scope",
         <<Rubric("behavioral_equivalence", [target |-> <<"again", "answer">>,
                                             expected_path |-> <<"response", "answer">>]),
           Rubric("behavioral_equivalence", [target |-> <<"response", "answer">>,
                                             expected |-> Text("yes")])>>)
    EXCEPT !.steps = <<Ask({}, {}),
                       [id |-> "again", capture |-> "again",
                        reads |-> {<<"response", "answer">>}, expect |-> {200}]>>]}

-----------------------------------------------------------------------------

Answer(status, body) == [status |-> status, body |-> body]

Doc(d) == Dict([doc_id |-> Text(d)])

\* Two documents and an answer; the first of them behind what is no document;
\* only the answer; and a refusal.
Good == Answer(200, Dict([docs |-> List(<<Doc("d1"), Doc("d2")>>), answer |-> Text("yes")]))
Late == Answer(200, Dict([docs |-> List(<<Text("x"), Doc("d1"), Doc("d2")>>), answer |-> Text("yes")]))
Mute == Answer(200, Dict([answer |-> Text("no")]))
Refusal == Answer(422, Dict(<<>>))

Answers(s) ==
  CASE s.category = "happy_path" -> {Good, Late, Refusal}
    [] s.file = "c.yaml" -> {Good, Mute}
    [] s.file = "f.yaml" -> {Answer(200, Dict([docs |-> List(<<Text("d1")>>)])), NoAnswer}
    [] s.category = "malformed_input" -> {Good, Refusal}
    [] s.id = "h" -> {Good, Mute, Refusal}
    [] OTHER -> {Good, Answer(500, Good.body), Answer(200, Dict(<<>>))}

MCServices(s) == [{step.id : step \in ToSet(s.steps)} -> Answers(s)]

-----------------------------------------------------------------------------

\* The first three documents are relevant to q1; the third is truncated away
\* when two are loaded.
Beir(maxDocs) ==
  [layout |-> "beir", loads |-> TRUE,
   corpus |-> <<"d1", "d2", "d3">>, queries |-> <<"q1", "q2", "q3">>,
   qrels |-> {[query |-> "q1", doc |-> "d1", score |-> 1], [query |-> "q1", doc |-> "d2", score |-> 2],
              [query |-> "q1", doc |-> "d3", score |-> 1],
              [query |-> "q2", doc |-> "d2", score |-> 1], [query |-> "q2", doc |-> "d3", score |-> 0],
              [query |-> "q3", doc |-> "d1", score |-> 1], [query |-> "q4", doc |-> "d1", score |-> 1]},
   maxDocs |-> maxDocs, maxQueries |-> 3]

Row(id, answer, question) ==
  [id |-> id, split |-> 0, answer_type |-> answer, question_type |-> question]

Crag ==
  [layout |-> "crag", loads |-> TRUE,
   rows |-> <<Row("q1", "valid", "simple"), Row("q2", "invalid", "false_premise"),
              Row("q3", "valid", "set"), [Row("q5", "valid", "set") EXCEPT !.split = 1],
              Row("q4", "valid", "multi-hop")>>,
   split |-> 0, types |-> {}, questions |-> {}, maxQueries |-> NoLimit]

MCSpec(source, abstention, benchmark) ==
  [source |-> source, abstention |-> abstention, methods |-> "read", endpoints |-> 1,
   benchmark |-> benchmark]

MCSpecs ==
  {MCSpec("reference_run", "described", NoBenchmark), MCSpec("hybrid", "no", NoBenchmark),
   MCSpec("curated", "no", Beir(NoLimit)), MCSpec("curated", "no", Beir(2)),
   MCSpec("reference_run", "named", Crag),
   MCSpec("reference_run", "no", [Crag EXCEPT !.loads = FALSE])}

\* The LLM knows all the answers, or nothing.
MCLlmSetups ==
  {Dict(<<>>),
   Dict([corpus |-> List(<<Doc("d1"), Doc("d2")>>),
         gold_answers |-> Dict([q1 |-> Dict([answer |-> Text("gold")])]),
         gold_qa |-> Dict([q \in {"q1", "q2"} |->
                             Dict([expected_doc_ids |-> List(<<Text("d1"), Text("d2")>>)])])])}

=============================================================================
