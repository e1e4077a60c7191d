----------------------------- MODULE Benchmark -----------------------------
(***************************************************************************)
(* Courses whose questions come from a public dataset: what                *)
(* benchmark_loader.py loads of it, how it splits the questions between    *)
(* the samples that learners see and those they are graded on, and the     *)
(* setup files that the scenarios read.                                    *)
(*                                                                         *)
(* A source is a dataset together with how much of it a spec asks for; the *)
(* names of its fields and the texts are left out.                         *)
(***************************************************************************)
EXTENDS Paths, FiniteSets

CONSTANTS
  SampleSize  \* sample_size of both splits

NoLimit == 0

Truncated(s, limit) ==
  IF limit = NoLimit THEN s ELSE SubSeq(s, 1, Min({limit, Len(s)}))

\* load_benchmark: judgements that are not positive are dropped and, if the
\* questions are truncated, those about others.  The corpus is truncated by
\* itself.
LoadBeir(source) ==
  LET queries == Truncated(source.queries, source.maxQueries)
      kept == {r \in source.qrels :
                 r.score > 0 /\ (source.maxQueries # NoLimit => r.query \in ToSet(queries))}
  IN [layout |-> "beir", corpus |-> Truncated(source.corpus, source.maxDocs),
      queries |-> queries,
      gold |-> [q \in {r.query : r \in kept} |-> {r.doc : r \in {r \in kept : r.query = q}}]]

\* _row_passes_crag_filters; an empty filter is none.
Passes(row, source) ==
  /\ row.split = source.split
  /\ source.types # {} => row.answer_type \in source.types
  /\ source.questions # {} => row.question_type \in source.questions

\* load_crag_benchmark counts the rows that pass.
LoadCrag(source) ==
  LET rows == Truncated(SelectSeq(source.rows, LAMBDA row : Passes(row, source)),
                        source.maxQueries)
  IN [layout |-> "crag", queries |-> [i \in DOMAIN rows |-> rows[i].id],
      row |-> [q \in {r.id : r \in ToSet(rows)} |->
                 CHOOSE r \in ToSet(rows) : r.id = q]]

Load(source) == IF source.layout = "beir" THEN LoadBeir(source) ELSE LoadCrag(source)

-----------------------------------------------------------------------------
(* What learners see *)

\* split_beir_for_visibility shuffles the questions that have gold documents,
\* and takes the first.
BeirSamples(bundle) ==
  LET candidates == ToSet(bundle.queries) \cap DOMAIN bundle.gold
  IN kSubset(Min({SampleSize, Cardinality(candidates)}), candidates)

\* _CRAG_STRATIFIED_CATEGORIES, in order of priority.
Strata ==
  <<<<"answer_type", "valid">>, <<"question_type", "false_premise">>,
    <<"question_type", "simple">>, <<"question_type", "multi-hop">>>>

Of(row, stratum) == row[stratum[1]] = stratum[2]

\* The first question of a stratum that is not picked yet, in shuffled order.
Pick(bundle, order, picked, stratum) ==
  LET left == SelectSeq(order, LAMBDA q : q \notin picked /\ Of(bundle.row[q], stratum))
  IN IF Cardinality(picked) >= SampleSize \/ left = <<>> THEN picked
     ELSE picked \cup {Head(left)}

\* A slip: the samples are filled up without a look at the strata.
CragSampleUnstratified(bundle, order) ==
  IF SampleSize >= Len(order) THEN ToSet(order) ELSE ToSet(SubSeq(order, 1, SampleSize))

\* split_crag_for_visibility: one question of each stratum, and more to fill up.
CragSample(bundle, order) ==
  LET strata == FoldLeft(LAMBDA picked, s : Pick(bundle, order, picked, s), {}, Strata)
      rest == SelectSeq(order, LAMBDA q : q \notin strata)
  IN IF SampleSize >= Len(order) THEN ToSet(order)
     ELSE strata \cup ToSet(SubSeq(rest, 1, SampleSize - Cardinality(strata)))

\* The sets of questions that learners may be shown: the shuffle is any order.
Samples(bundle) ==
  IF bundle.layout = "beir" THEN BeirSamples(bundle)
  ELSE {CragSample(bundle, order) : order \in SetToSeqs(ToSet(bundle.queries))}

\* A slip: the hidden questions are all of them.
HiddenAll(bundle, picked) == ToSet(bundle.queries)

Hidden(bundle, picked) == ToSet(bundle.queries) \ picked

-----------------------------------------------------------------------------
(* The setup files, as the grader reads them *)

Documents(corpus) == List([i \in DOMAIN corpus |-> Dict([doc_id |-> Text(corpus[i])])])

Names(set) == List(SetToSeq({Text(d) : d \in set}))

\* _benchmark_to_setup_files: of judgements about questions that were not
\* loaded, those that were kept are kept.
BeirSetup(bundle, picked) ==
  Dict([corpus |-> Documents(bundle.corpus),
        gold_qa |-> Dict([q \in DOMAIN bundle.gold \ picked |->
                            Dict([expected_doc_ids |-> Names(bundle.gold[q])])])])

\* A slip: the answers of all questions are written out.
CragSetupWhole(bundle, picked) ==
  Dict([gold_answers |-> Dict([q \in DOMAIN bundle.row |-> Dict([answer |-> Text("gold")])])])

\* _crag_bundle_to_setup_files.
CragSetup(bundle, picked) ==
  Dict([gold_answers |-> Dict([q \in Hidden(bundle, picked) |->
                                 Dict([answer |-> Text("gold")])]),
        search_results_index |-> Dict([q \in Hidden(bundle, picked) |-> List(<<>>)])])

Setup(bundle, picked) ==
  IF bundle.layout = "beir" THEN BeirSetup(bundle, picked) ELSE CragSetup(bundle, picked)

=============================================================================
