---------------------------- MODULE GrammarNodes ----------------------------
(***************************************************************************)
(* The nodes of a GBNF grammar (ctp-guard/src/grammar.rs), which the       *)
(* parser builds and the acceptor reads.                                   *)
(***************************************************************************)
EXTENDS Sequences

Lit(chars) == [kind |-> "lit", chars |-> chars]
Class(ranges, negated) == [kind |-> "class", ranges |-> ranges, negated |-> negated]
Ref(name) == [kind |-> "ref", name |-> name]
Rep(node, min, once) == [kind |-> "rep", node |-> node, min |-> min, once |-> once]

\* A sequence or an alternation of one is that one.
Group(kind, nodes) ==
  IF Len(nodes) = 1 THEN nodes[1] ELSE [kind |-> kind, nodes |-> nodes]

Root == <<"r", "o", "o", "t">>
=============================================================================
