------------------------------- MODULE Paths -------------------------------
(***************************************************************************)
(* What a scenario's paths lead to: scenario_rubrics_base.py for rubrics   *)
(* and scenario_trace_runner.py for the placeholders of its requests.      *)
(*                                                                         *)
(* JSON values are nodes with a type t and a value v.  A path is the       *)
(* sequence of its names; indices into lists are left out.                 *)
(***************************************************************************)
EXTENDS Naturals, Sequences, SequencesExt

Text(s) == [t |-> "text", v |-> s]
Number(n) == [t |-> "number", v |-> n]
List(s) == [t |-> "list", v |-> s]
Dict(f) == [t |-> "dict", v |-> f]

\* The two ways not to get there: a KeyError, and the TypeError of looking a
\* name up in what is no dict.
Missing == [t |-> "missing"]
Broken == [t |-> "broken"]

Found(node) == node.t \notin {"missing", "broken"}

\* Python's == on two values.
Same(a, b) == a.t = b.t /\ a.v = b.v

Descend(node, name) ==
  CASE node.t = "dict" -> IF name \in DOMAIN node.v THEN node.v[name] ELSE Missing
    [] node.t = "missing" -> Missing
    [] OTHER -> Broken

\* resolve_path.
Walk(root, path) == FoldLeft(Descend, root, path)

-----------------------------------------------------------------------------
(* The targets of rubrics *)

Envelope == {"status", "headers", "body", "raw", "request"}

\* expand_capture_shorthand: ask.docs is short for ask.body.docs.
Expanded(path) ==
  IF path = <<>> \/ Head(path) \in {"setup_data", "course_meta", "captures"} THEN path
  ELSE IF Len(path) > 1 /\ path[2] \in Envelope THEN path
  ELSE <<Head(path), "body">> \o Tail(path)

IsEnvelope(node) ==
  node.t = "dict" /\ "body" \in DOMAIN node.v /\ {"status", "headers"} \cap DOMAIN node.v # {}

\* resolve_capture_target: the path as it is written or, when it leads nowhere,
\* what it is short for; what is raised is about the path as it is written.
Resolve(captures, path) ==
  LET written == Walk(captures, path)
      expanded == Walk(captures, Expanded(path))
  IN CASE ~Found(written) /\ Found(expanded) -> expanded
       [] Found(written) /\ Len(path) = 1 /\ IsEnvelope(written) -> written.v["body"]
       [] OTHER -> written

-----------------------------------------------------------------------------
(* The placeholders of requests *)

\* _resolve_one_placeholder.  Its shorthand knows fewer parts of a capture than
\* that of rubrics, and a path of three names is never short for anything.
Placeholder(captures, setup, meta, path) ==
  IF Head(path) = "setup_data" THEN Walk(setup, Tail(path))
  ELSE IF Head(path) = "course_meta" THEN Walk(meta, Tail(path))
  ELSE IF Len(path) = 2 /\ path[2] \notin {"status", "headers", "body"}
  THEN Walk(captures, <<Head(path), "body", path[2]>>)
  ELSE Walk(captures, path)

=============================================================================
