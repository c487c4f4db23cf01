------------------------- MODULE MCVerdictDecoding -------------------------
(***************************************************************************)
(* Grammars for TLC: verdict.gbnf itself, every body of a few characters,  *)
(* and small grammars of several lines.                                    *)
(***************************************************************************)
EXTENDS VerdictDecoding

CONSTANT BodyLen  \* bound: parts of a body

Chars(string) == [i \in 1 .. Len(string) |-> SubSeq(string, i, i)]

RuleLine(name, expr) == Chars(name) \o <<" ", "::=", " ">> \o Chars(expr)

\* ctp-guard/grammar/verdict.gbnf
VerdictGbnf == <<
  Chars("# CTP guard verdict grammar"),
  <<>>,
  RuleLine("root",
    "\"{\\\"verdict\\\":\" verdict \",\\\"confidence\\\":\" confidence \",\\\"flags\\\":\" flags \"}\""),
  RuleLine("verdict", "\"\\\"PASS\\\"\" | \"\\\"BLOCK\\\"\""),
  RuleLine("confidence", "onenine \".\" digits"),
  RuleLine("onenine", "\"0\" | \"1\""),
  RuleLine("digits", "digit | digit digit"),
  RuleLine("digit", "[0-9]"),
  RuleLine("flags", "\"[]\" | \"[\" flaglist \"]\""),
  RuleLine("flaglist", "flag | flag \",\" flaglist"),
  RuleLine("flag", "\"\\\"\" flagchars \"\\\"\""),
  RuleLine("flagchars", "flagchar | flagchar flagchars"),
  RuleLine("flagchar", "[a-z0-9_]")>>

Upto(n, S) == UNION {[1 .. k -> S] : k \in 0 .. n}

\* Bodies of every shape: expressions, classes, literals.
Bodies ==
  {FlattenSeq([i \in DOMAIN b |-> Chars(b[i])]) :
     b \in Upto(BodyLen, {"\"a\"", "\"\"", "|", "(", ")", "+"})}
  \cup {<<"[">> \o b : b \in Upto(BodyLen - 1, {"]", "^", "-", "a", "b", "\\"})}
  \cup {<<"\"">> \o b : b \in Upto(BodyLen - 1, {"\"", "a", "n", "\\"})}

\* Repetition, nesting, recursion, names that do not exist, lines that are no rules.
Small == {
  <<RuleLine("root", "(\"a\" | [b-c]?)+ \"b\"*")>>,
  <<RuleLine("root", "([^b]* \"b\")? \"a\"")>>,
  <<RuleLine("root", "\"a\" root \"b\" | \"\"")>>,
  <<RuleLine("root", "item | item root"), <<>>, RuleLine("item", "\"a\" | \"ab\" # two")>>,
  <<RuleLine("root", "\"a\""), RuleLine("root", "\"b\"")>>,
  <<RuleLine("root", "nothing | \"a\"")>>,
  <<RuleLine("leaf", "\"a\"")>>,
  <<RuleLine("root", "\"a#b\"")>>,
  <<Chars("root = \"a\"")>>}

MCSources == {VerdictGbnf} \cup Small \cup {<<RuleLine("root", "") \o b>> : b \in Bodies}
=============================================================================
