--------------------------- MODULE GrammarParsing ---------------------------
(***************************************************************************)
(* `Grammar::parse` of ctp-guard/src/grammar.rs: the lines of a source, and *)
(* for each rule the recursive descent of `ExprParser` over its body.  The *)
(* calls of parse_alt and parse_seq that are under way are the frames of   *)
(* `open`, one per parenthesis and one for the body: the branches that are *)
(* complete, and the items of the one being read.  Messages of errors are  *)
(* left out.                                                               *)
(*                                                                         *)
(* A character is a string of length one, a line a sequence of them; "::=" *)
(* counts as one.                                                          *)
(***************************************************************************)
EXTENDS GrammarNodes, Integers, FiniteSets, SequencesExt, TLC

CONSTANT Sources  \* the grammars to read, each a sequence of lines

\* What stands for the end of a line is no character.
ASSUME ParserAssumption == Sources \subseteq Seq(Seq(STRING \ {"end"}))

VARIABLES
  source, line,  \* what is read, and the next line of it
  body, pos,     \* the body being parsed, and the next character of it
  open,          \* the calls under way, innermost last
  rules,         \* the rules read so far
  stage          \* reading (between lines), parsing, loaded or refused

grammar == <<source, line, body, pos, open, rules>>
parser == <<grammar, stage>>

ParserInit ==
  /\ source \in Sources /\ line = 1
  /\ body = <<>> /\ pos = 1 /\ open = <<>>
  /\ rules = <<>>
  /\ stage = "reading"

DoubleQuote == "\""
Space == {" ", "\t"}
Digit == {"0", "1", "2", "3", "4", "5", "6", "7", "8", "9"}
Letter == {"A", "B", "C", "D", "E", "F", "G", "H", "I", "J", "K", "L", "M", "N", "O", "P", "Q",
           "R", "S", "T", "U", "V", "W", "X", "Y", "Z", "a", "b", "c", "d", "e", "f", "g", "h",
           "i", "j", "k", "l", "m", "n", "o", "p", "q", "r", "s", "t", "u", "v", "w", "x", "y",
           "z"}

-----------------------------------------------------------------------------
(* Lines. *)

\* From the first to the last character that is not white space.
Trimmed(s) ==
  LET black == {i \in DOMAIN s : s[i] \notin Space}
  IN IF black = {} THEN <<>> ELSE SubSeq(s, Min(black), Max(black))

\* What comes before and after the first c; everything is before one that is missing.
Before(s, c) == IF Contains(s, c) THEN SubSeq(s, 1, SelectInSeq(s, LAMBDA x : x = c) - 1) ELSE s
After(s, c) == SubSeq(s, Len(Before(s, c)) + 2, Len(s))

\* A line without its comment.
Content == Trimmed(Before(source[line], "#"))

SkipLine ==
  /\ stage = "reading" /\ line <= Len(source)
  /\ Content = <<>>
  /\ line' = line + 1
  /\ UNCHANGED <<source, body, pos, open, rules, stage>>

StartRule ==
  /\ stage = "reading" /\ line <= Len(source)
  /\ Contains(Content, "::=")
  /\ body' = Trimmed(After(Content, "::="))
  /\ pos' = 1
  /\ open' = <<[branches |-> <<>>, items |-> <<>>]>>
  /\ stage' = "parsing"
  /\ UNCHANGED <<source, line, rules>>

NoRule ==
  /\ stage = "reading" /\ line <= Len(source)
  /\ Content # <<>> /\ ~Contains(Content, "::=")
  /\ stage' = "refused"
  /\ UNCHANGED <<source, line, body, pos, open, rules>>

FinishReading ==
  /\ stage = "reading" /\ line > Len(source)
  /\ stage' = IF Root \in DOMAIN rules THEN "loaded" ELSE "refused"
  /\ UNCHANGED <<source, line, body, pos, open, rules>>

-----------------------------------------------------------------------------
(* Bodies. *)

End == Len(body) + 1

Peek(p) == IF p < End THEN body[p] ELSE "end"

\* Where the run of characters of S that starts at p is over.
Past(p, S) == Min({q \in p .. End : Peek(q) \notin S})

SkipWs(p) == Past(p, Space)

Next1 == Peek(SkipWs(pos))

\* What a function of the parser read and where it stopped, or Failed.
Read(value, next) == [ok |-> TRUE, value |-> value, next |-> next]
Failed == [ok |-> FALSE]

\* One character, itself or escaped.
Escapes == [n |-> "\n", t |-> "\t", r |-> "\r"]
OneChar(p) ==
  LET q == IF Peek(p) = "\\" THEN p + 1 ELSE p
      c == Peek(q)
  IN IF c = "end" THEN Failed
     ELSE Read(IF q > p /\ c \in DOMAIN Escapes THEN Escapes[c] ELSE c, q + 1)

\* What is left of a literal, from one of its characters on.
Literal[p \in 1 .. End] ==
  IF Peek(p) = DoubleQuote THEN Read(<<>>, p + 1)
  ELSE LET c == OneChar(p)
           rest == Literal[c.next]
       IN IF c.ok /\ rest.ok THEN Read(<<c.value>> \o rest.value, rest.next) ELSE Failed

\* A '-' makes a range, unless the class ends with it or an escape is before it.
Ranged(p, next) == Peek(p) # "\\" /\ Peek(next) = "-" /\ Peek(next + 1) # "]"

\* The ranges that are left of a class.
Ranges[p \in 1 .. End] ==
  IF Peek(p) = "]" THEN Read({}, p + 1)
  ELSE LET low == OneChar(p)
           high == IF low.ok /\ Ranged(p, low.next) THEN OneChar(low.next + 1) ELSE low
           rest == Ranges[high.next]
       IN IF high.ok /\ rest.ok
          THEN Read({<<low.value, high.value>>} \cup rest.value, rest.next)
          ELSE Failed

\* `node` in place of the value that was read, if one was.
As(node, read) == IF read.ok THEN Read(node, read.next) ELSE Failed

ParseLiteral(p) == As(Lit(Literal[p + 1].value), Literal[p + 1])

ParseClass(p) ==
  LET negated == Peek(p + 1) = "^"
      ranges == Ranges[IF negated THEN p + 2 ELSE p + 1]
  IN As(Class(ranges.value, negated), ranges)

NameStart == Letter \cup {"_"}
NameChar == NameStart \cup Digit \cup {"-"}

ParseRef(p) == LET q == Past(p, NameChar) IN Read(Ref(SubSeq(body, p, q - 1)), q)

\* A factor that is no group.
ParseFactor(p) ==
  CASE Peek(p) = DoubleQuote -> ParseLiteral(p)
    [] Peek(p) = "[" -> ParseClass(p)
    [] Peek(p) \in NameStart -> ParseRef(p)
    [] OTHER -> Failed

\* The rest of parse_term: the factor, repeated if a sign follows at once.
Repeated(factor) ==
  CASE Peek(factor.next) = "*" -> Read(Rep(factor.value, 0, FALSE), factor.next + 1)
    [] Peek(factor.next) = "+" -> Read(Rep(factor.value, 1, FALSE), factor.next + 1)
    [] Peek(factor.next) = "?" -> Read(Rep(factor.value, 0, TRUE), factor.next + 1)
    [] OTHER -> factor

\* The term is the next item of the innermost of the calls.
AddItem(calls, term) ==
  /\ open' = [calls EXCEPT ![Len(calls)].items = Append(@, term.value)]
  /\ pos' = term.next
  /\ UNCHANGED <<source, line, body, rules, stage>>

Top == Last(open)

\* The node of a call at the end of its last branch.
Alternatives == Group("alt", Append(Top.branches, Group("seq", Top.items)))

Term ==
  /\ stage = "parsing"
  /\ LET factor == ParseFactor(SkipWs(pos))
     IN factor.ok /\ AddItem(open, Repeated(factor))

OpenGroup ==
  /\ stage = "parsing" /\ Next1 = "("
  /\ open' = Append(open, [branches |-> <<>>, items |-> <<>>])
  /\ pos' = SkipWs(pos) + 1
  /\ UNCHANGED <<source, line, body, rules, stage>>

CloseGroup ==
  /\ stage = "parsing" /\ Next1 = ")"
  /\ Len(open) > 1 /\ Top.items # <<>>
  /\ AddItem(Front(open), Repeated(Read(Alternatives, SkipWs(pos) + 1)))

NextBranch ==
  /\ stage = "parsing" /\ Next1 = "|"
  /\ Top.items # <<>>
  /\ open' = [open EXCEPT ![Len(open)] =
       [branches |-> Append(@.branches, Group("seq", @.items)), items |-> <<>>]]
  /\ pos' = SkipWs(pos) + 1
  /\ UNCHANGED <<source, line, body, rules, stage>>

\* Mutation of EndRule: a parenthesis may stay open.
EndRule_Open ==
  /\ stage = "parsing" /\ Next1 = "end"
  /\ Top.items # <<>>
  /\ rules' = (Trimmed(Before(Content, "::=")) :> Alternatives) @@ rules
  /\ open' = <<>>
  /\ line' = line + 1
  /\ stage' = "reading"
  /\ UNCHANGED <<source, body, pos>>

\* The rule replaces an earlier one of the same name.
EndRule ==
  /\ stage = "parsing" /\ Next1 = "end"
  /\ Len(open) = 1 /\ Top.items # <<>>
  /\ rules' = (Trimmed(Before(Content, "::=")) :> Alternatives) @@ rules
  /\ open' = <<>>
  /\ line' = line + 1
  /\ stage' = "reading"
  /\ UNCHANGED <<source, body, pos>>

\* An empty sequence, a parenthesis without its counterpart, a factor that is
\* none or that breaks off.
SyntaxError ==
  /\ stage = "parsing"
  /\ IF Next1 \in {"|", ")", "end"}
     THEN \/ Top.items = <<>>
          \/ Next1 = ")" /\ Len(open) = 1
          \/ Next1 = "end" /\ Len(open) > 1
     ELSE Next1 # "(" /\ ~ParseFactor(SkipWs(pos)).ok
  /\ stage' = "refused"
  /\ UNCHANGED <<source, line, body, pos, open, rules>>

ParserNext ==
  \/ SkipLine \/ StartRule \/ NoRule \/ FinishReading
  \/ Term \/ OpenGroup \/ CloseGroup \/ NextBranch \/ EndRule \/ SyntaxError

\* What comes after: nobody changes a grammar that was read or refused.
Used ==
  /\ stage \notin {"reading", "parsing"}
  /\ stage' \notin {"reading", "parsing", "refused"}
  /\ UNCHANGED grammar

ParserSpec == ParserInit /\ [][ParserNext \/ Used]_parser

-----------------------------------------------------------------------------
(* What the parser ought to read: the notation as a grammar of itself.     *)
(*                                                                         *)
(*   alt    ::= seq | seq "|" alt                                          *)
(*   seq    ::= blank seq | item tail                                      *)
(*   tail   ::= "" | blank tail | item tail                                *)
(*   item   ::= factor | factor [*+?]                                      *)
(*   factor ::= literal | class | name | "(" alt ")"                       *)
(*                                                                         *)
(* A chart says of each position where what starts there can end; it is    *)
(* filled from the end of the body.                                        *)

\* The close is the first one after p that is not escaped; an odd run of
\* backslashes escapes.
Escaped(p, q) ==
  \E k \in p .. q - 1 :
    /\ \A i \in k .. q - 1 : body[i] = "\\"
    /\ k = p \/ body[k - 1] # "\\"
    /\ (q - k) % 2 = 1

Closes(p, close) == {q \in p .. Len(body) : body[q] = close /\ ~Escaped(p, q)}

Quoted(p, close) == {q + 1 : q \in {c \in Closes(p, close) : \A d \in Closes(p, close) : c <= d}}

Names(p) == {q \in p + 1 .. End : \A i \in p .. q - 1 : body[i] \in NameChar}

FactorEnds(p, chart) ==
  CASE Peek(p) = DoubleQuote -> Quoted(p + 1, DoubleQuote)
    [] Peek(p) = "[" -> Quoted(p + 1, "]")
    [] Peek(p) \in NameStart -> Names(p)
    [] Peek(p) = "(" -> {q + 1 : q \in {c \in chart[p + 1].alt : Peek(c) = ")"}}
    [] OTHER -> {}

\* A sign of repetition follows its factor at once.
Signed(p) == {p} \cup (IF Peek(p) \in {"*", "+", "?"} THEN {p + 1} ELSE {})

ItemEnds(p, chart) == UNION {Signed(q) : q \in FactorEnds(p, chart)}

\* What can be read from p, by what can be read from the positions after it.
Entry(p, chart) ==
  LET items == UNION {chart[q].tail : q \in ItemEnds(p, chart)}
      blank == Peek(p) \in Space
      seq == items \cup (IF blank THEN chart[p + 1].seq ELSE {})
  IN [tail |-> {p} \cup items \cup (IF blank THEN chart[p + 1].tail ELSE {}),
      seq |-> seq,
      alt |-> seq \cup UNION {chart[q + 1].alt : q \in {c \in seq : Peek(c) = "|"}}]

Chart[p \in 1 .. End] ==
  IF p = End THEN [q \in 1 .. End |-> [tail |-> {q}, seq |-> {}, alt |-> {}]]
  ELSE LET later == Chart[p + 1] IN [later EXCEPT ![p] = Entry(p, later)]

WellFormed == End \in Chart[1][1].alt

\* The parser reads a body to its end exactly when it is well-formed, and stops
\* at an empty sequence, a parenthesis without its counterpart, a literal, class
\* or escape that breaks off, a doubled repetition (grammar.rs:173-383).
ParserExact ==
  /\ stage = "refused" /\ open # <<>> => ~WellFormed
  /\ stage = "reading" /\ body # <<>> => WellFormed
=============================================================================
