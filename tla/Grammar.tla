------------------------------ MODULE Grammar ------------------------------
(***************************************************************************)
(* `matches` of ctp-guard/src/grammar.rs, which computes the positions a   *)
(* node of a grammar can end at, and the language it ought to decide.      *)
(*                                                                         *)
(* A character is a string of length one, a text a sequence of them; a     *)
(* position in a text is the number of characters before it.               *)
(***************************************************************************)
EXTENDS GrammarNodes, Integers, Sequences, FiniteSets, SequencesExt

\* Characters in the order of their code points.
Ascii == <<"\t", "\n", "\r", " ", "\"", "#", "(", ")", "*", "+", ",", "-", ".", "0", "1", "2", "3",
           "4", "5", "6", "7", "8", "9", ":", "=", "?", "A", "B", "C", "D", "E", "F", "G",
           "H", "I", "J", "K", "L", "M", "N", "O", "P", "Q", "R", "S", "T", "U", "V", "W",
           "X", "Y", "Z", "[", "\\", "]", "^", "_", "a", "b", "c", "d", "e", "f", "g", "h",
           "i", "j", "k", "l", "m", "n", "o", "p", "q", "r", "s", "t", "u", "v", "w", "x",
           "y", "z", "{", "|", "}">>

Code == [c \in Range(Ascii) |-> CHOOSE i \in DOMAIN Ascii : Ascii[i] = c]

Within(c, range) == Code[range[1]] <= Code[c] /\ Code[c] <= Code[range[2]]

-----------------------------------------------------------------------------
(* The acceptor. *)

RECURSIVE Matches(_, _, _, _)

InClass(class, c) == (\E range \in class.ranges : Within(c, range)) # class.negated

MatchesAny(rules, nodes, text, p) == UNION {Matches(rules, nodes[i], text, p) : i \in DOMAIN nodes}

\* One node after another, from every position the one before can end at.
RECURSIVE MatchesAll(_, _, _, _)
MatchesAll(rules, nodes, text, front) ==
  IF nodes = <<>> \/ front = {} THEN front
  ELSE MatchesAll(rules, Tail(nodes), text,
                  UNION {Matches(rules, Head(nodes), text, q) : q \in front})

\* Mutation of Cap: as many rounds as there are characters.
Cap_Length(rep, text) == IF rep.once THEN 1 ELSE Len(text)

\* A node that may match nothing must not be repeated for ever.
Cap(rep, text) == IF rep.once THEN 1 ELSE Len(text) + 1

\* The positions after `count` rounds of a repetition, and after more.
RECURSIVE Rounds(_, _, _, _, _)
Rounds(rules, rep, text, front, count) ==
  LET next == UNION {Matches(rules, rep.node, text, q) : q \in front}
  IN (IF count >= rep.min THEN front ELSE {})
     \cup (IF count < Cap(rep, text) /\ front # {} THEN Rounds(rules, rep, text, next, count + 1) ELSE {})

\* The positions at which `node` can end when it starts at p.  A reference to
\* a rule that does not exist matches nothing.
Matches(rules, node, text, p) ==
  CASE node.kind = "lit" ->
         {q \in {p + Len(node.chars)} :
            q <= Len(text) /\ SubSeq(text, p + 1, q) = node.chars}
    [] node.kind = "class" ->
         {q \in {p + 1} : q <= Len(text) /\ InClass(node, text[q])}
    [] node.kind = "ref" ->
         IF node.name \in DOMAIN rules THEN Matches(rules, rules[node.name], text, p) ELSE {}
    [] node.kind = "seq" -> MatchesAll(rules, node.nodes, text, {p})
    [] node.kind = "alt" -> MatchesAny(rules, node.nodes, text, p)
    [] node.kind = "rep" -> Rounds(rules, node, text, {p}, 0)

Accepts(rules, text) == Len(text) \in Matches(rules, rules[Root], text, 0)

-----------------------------------------------------------------------------
(* What the acceptor ought to compute. *)

\* All that two languages make together, up to length n.
Joined(A, B, n) == {t \in {a \o b : a \in A, b \in B} : Len(t) <= n}

RECURSIVE Star(_, _, _)
Star(A, S, n) == LET T == S \cup Joined(S, A, n) IN IF T = S THEN S ELSE Star(A, T, n)

\* The texts over `alphabet` up to length n that `node` stands for, when the
\* rules stand for `lang`.
RECURSIVE Denoted(_, _, _, _)
Denoted(node, lang, alphabet, n) ==
  LET D(m) == Denoted(m, lang, alphabet, n)
  IN CASE node.kind = "lit" -> {t \in {node.chars} : Len(t) <= n}
       [] node.kind = "class" -> {<<c>> : c \in {x \in alphabet : n > 0 /\ InClass(node, x)}}
       [] node.kind = "ref" -> IF node.name \in DOMAIN lang THEN lang[node.name] ELSE {}
       [] node.kind = "seq" ->
            FoldLeft(LAMBDA acc, m : Joined(acc, D(m), n), {<<>>}, node.nodes)
       [] node.kind = "alt" -> UNION {D(node.nodes[i]) : i \in DOMAIN node.nodes}
       [] node.kind = "rep" ->
            LET once == D(node.node) IN
            IF node.once THEN once \cup {<<>>}
            ELSE IF node.min = 0 THEN Star(once, {<<>>}, n)
            ELSE Joined(once, Star(once, {<<>>}, n), n)

\* The least languages that the rules denote together.
RECURSIVE LeastFixpoint(_, _, _, _)
LeastFixpoint(rules, lang, alphabet, n) ==
  LET next == [r \in DOMAIN rules |-> Denoted(rules[r], lang, alphabet, n)]
  IN IF next = lang THEN lang ELSE LeastFixpoint(rules, next, alphabet, n)

Language(rules, alphabet, n) ==
  LeastFixpoint(rules, [r \in DOMAIN rules |-> {}], alphabet, n)[Root]
=============================================================================
