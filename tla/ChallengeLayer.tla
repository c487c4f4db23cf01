--------------------------- MODULE ChallengeLayer ---------------------------
(***************************************************************************)
(* One pass of the challenge layer over a payload: the registry            *)
(* (ctp-challenge/src/registry.rs) runs every rule and collects findings.  *)
(* UnicodeHomoglyphRule (rules/homoglyph.rs) is modelled whole; what the   *)
(* encoding rule finds (see EncodingScan) and which configured patterns    *)
(* match (rules/data_driven.rs) are choices.                               *)
(*                                                                         *)
(* A payload is a sequence of character classes, those the homoglyph rule  *)
(* tells apart.  Letters are of two scripts that have lookalikes of each   *)
(* other, or CJK.                                                          *)
(***************************************************************************)
EXTENDS Integers, Sequences, FiniteSets, FiniteSetsExt, SequencesExt

CONSTANTS
  MaxLength,      \* bound: characters of a payload
  MaxInvisible,   \* max_invisible
  BlockPatterns,  \* configured rules with action = "block"
  FlagPatterns    \* configured rules with action = "flag"

ASSUME ChallengeAssumption ==
  /\ MaxLength \in Nat /\ MaxInvisible \in Nat
  /\ BlockPatterns \cap FlagPatterns = {}

VARIABLES
  text,      \* the payload, by character classes
  oversize,  \* it is longer than max_payload_bytes
  phase,     \* size, chars, words, rules, done
  at,        \* cursor: the next character
  counts,    \* Counts
  pending,   \* rules that have yet to run
  findings,  \* what the layer returns
  matches    \* what every rule but homoglyph makes of the payload

payload == <<text, oversize, matches>>
vars == <<payload, phase, at, counts, pending, findings>>

Letters == {"latin", "lookalike", "foreign", "cjk"}

Classes ==
  Letters \cup {"tag", "override", "zwsp", "bom", "joiner", "soft", "broken", "other"}

Counters ==
  {"tag", "override", "density", "intra_word", "joiner", "soft", "broken",
   "confusable", "mixed"}

OtherRules == {"encoding_bypass"} \cup BlockPatterns \cup FlagPatterns

\* What a rule may come to.
Results(rule) ==
  CASE rule \in BlockPatterns -> {"pass", "block"}
    [] rule \in FlagPatterns -> {"pass", "flag"}
    [] rule = "encoding_bypass" -> {"pass", "block", "flag"}

Init ==
  /\ text \in SeqOf(Classes, MaxLength)
  /\ oversize \in BOOLEAN
  /\ phase = "size"
  /\ at = 1
  /\ counts = [k \in Counters |-> 0]
  /\ pending = OtherRules
  /\ findings = {}
  /\ matches \in {f \in [OtherRules -> {"pass", "block", "flag"}] :
                    \A rule \in OtherRules : f[rule] \in Results(rule)}

Finding(rule, disposition) == [rule |-> rule, disposition |-> disposition]

-----------------------------------------------------------------------------
(* The registry. *)

\* Feeding the rules megabytes is itself the hazard: the cap comes first.
Oversize ==
  /\ phase = "size"
  /\ oversize
  /\ findings' = {Finding("max_payload_bytes", "block")}
  /\ phase' = "done"
  /\ UNCHANGED <<payload, at, counts, pending>>

FirstRule ==
  /\ phase = "size"
  /\ ~oversize
  /\ phase' = "chars"
  /\ UNCHANGED <<payload, at, counts, pending, findings>>

\* The finding a result becomes, if it is one.
FindingOf(rule) ==
  IF matches[rule] = "pass" THEN {} ELSE {Finding(rule, matches[rule])}

\* Mutation of RunRule: the first block ends the pass.
RunRule_EarlyExit(rule) ==
  /\ phase = "rules"
  /\ rule \in pending
  /\ pending' = IF matches[rule] = "block" THEN {} ELSE pending \ {rule}
  /\ findings' = findings \cup FindingOf(rule)
  /\ UNCHANGED <<payload, phase, at, counts>>

\* The next rule runs, whatever the others found.  The order in which the
\* configured rules run is not told apart.
RunRule(rule) ==
  /\ phase = "rules"
  /\ rule \in pending
  /\ pending' = pending \ {rule}
  /\ findings' = findings \cup FindingOf(rule)
  /\ UNCHANGED <<payload, phase, at, counts>>

Return ==
  /\ phase = "rules"
  /\ pending = {}
  /\ phase' = "done"
  /\ UNCHANGED <<payload, at, counts, pending, findings>>

-----------------------------------------------------------------------------
(* UnicodeHomoglyphRule::check. *)

IsLetter(i) == i \in DOMAIN text /\ text[i] \in Letters

\* DENSITY_SET, but for a BOM in front.
IsInvisible(i) == text[i] = "zwsp" \/ (text[i] = "bom" /\ i # 1)

\* The counters a character moves.
Counted(i) ==
  IF IsInvisible(i)
  THEN {"density"} \cup (IF IsLetter(i - 1) /\ IsLetter(i + 1) THEN {"intra_word"} ELSE {})
  ELSE {text[i]} \cap Counters

Bump(kinds) == counts' = [k \in Counters |-> counts[k] + (IF k \in kinds THEN 1 ELSE 0)]

\* One iteration of the loop over the characters.
ScanChar ==
  /\ phase = "chars"
  /\ at <= Len(text)
  /\ Bump(Counted(at))
  /\ at' = at + 1
  /\ UNCHANGED <<payload, phase, pending, findings>>

FirstWord ==
  /\ phase = "chars"
  /\ at > Len(text)
  /\ phase' = "words"
  /\ at' = 1
  /\ UNCHANGED <<payload, counts, pending, findings>>

\* alphabetic_words: the next maximal run of letters at or behind the cursor.
LettersLeft == {i \in at .. Len(text) : IsLetter(i)}
WordStart == Min(LettersLeft)
WordEnd == Max({j \in WordStart .. Len(text) : \A i \in WordStart .. j : IsLetter(i)})

\* The counters a word moves, by the classes of its letters: words with CJK and
\* words of a single script move none.
WordCounted(word) ==
  IF "cjk" \in word \/ word = {"latin"} \/ "latin" \notin word
  THEN {}
  ELSE IF "lookalike" \in word THEN {"confusable"} ELSE {"mixed"}

\* One iteration of the loop over the words.
ScanWord ==
  /\ phase = "words"
  /\ LettersLeft # {}
  /\ Bump(WordCounted({text[i] : i \in WordStart .. WordEnd}))
  /\ at' = WordEnd + 1
  /\ UNCHANGED <<payload, phase, pending, findings>>

\* The chain of returns: any blocking class, then notes, then Pass.
HomoglyphResult(c) ==
  IF \/ c["tag"] > 0 \/ c["override"] > 0 \/ c["confusable"] > 0
     \/ c["intra_word"] > 0 \/ c["density"] > MaxInvisible
  THEN {"block"}
  ELSE IF \E k \in {"density", "joiner", "soft", "mixed", "broken"} : c[k] > 0
  THEN {"flag"} ELSE {}

HomoglyphReturns ==
  /\ phase = "words"
  /\ LettersLeft = {}
  /\ findings' = {Finding("unicode_homoglyph", r) : r \in HomoglyphResult(counts)}
  /\ phase' = "rules"
  /\ UNCHANGED <<payload, at, counts, pending>>

Next ==
  \/ Oversize \/ FirstRule
  \/ ScanChar \/ FirstWord \/ ScanWord \/ HomoglyphReturns
  \/ \E rule \in OtherRules : RunRule(rule)
  \/ Return

Spec == Init /\ [][Next]_vars

-----------------------------------------------------------------------------
(* What the homoglyph rule ought to find, without scanning (the table of   *)
(* homoglyph.rs:8-17).                                                     *)

Has(class) == \E i \in DOMAIN text : text[i] = class

SameWord(i, j) == \A k \in Min({i, j}) .. Max({i, j}) : IsLetter(k)

\* A letter of the other script beside a Latin one, in a word without CJK.
Mixes(class) ==
  \E i, j \in DOMAIN text :
    /\ text[i] = class /\ text[j] = "latin" /\ SameWord(i, j)
    /\ \A k \in DOMAIN text : text[k] = "cjk" => ~SameWord(i, k)

SplitsWord == \E i \in DOMAIN text : IsInvisible(i) /\ IsLetter(i - 1) /\ IsLetter(i + 1)

Invisible == {i \in DOMAIN text : IsInvisible(i)}

MustBlock ==
  \/ Has("tag") \/ Has("override") \/ Mixes("lookalike") \/ SplitsWord
  \/ Cardinality(Invisible) > MaxInvisible

MayFlag ==
  Invisible # {} \/ Has("joiner") \/ Has("soft") \/ Has("broken") \/ Mixes("foreign")

HomoglyphFinds == IF MustBlock THEN {"block"} ELSE IF MayFlag THEN {"flag"} ELSE {}

\* "All rules always run" (registry.rs:5-6): the findings are exactly what every
\* single rule found, a block of one hiding nothing of another; and what the
\* homoglyph rule finds is a matter of the text, not of the order in which it is
\* scanned, of word boundaries or of which class comes first.  An oversize
\* payload has the one finding that blocks it.
ReportExact ==
  phase = "done" =>
    findings =
      IF oversize THEN {Finding("max_payload_bytes", "block")}
      ELSE (UNION {FindingOf(rule) : rule \in OtherRules})
           \cup {Finding("unicode_homoglyph", r) : r \in HomoglyphFinds}
=============================================================================
