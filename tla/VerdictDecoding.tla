-------------------------- MODULE VerdictDecoding --------------------------
(***************************************************************************)
(* How the guard's model comes to a verdict: `Grammar::parse` reads the    *)
(* grammar line by line, `infer` of the llama backend (inference.rs) lets  *)
(* the model continue the prompt token by token within that grammar and    *)
(* within two limits, the context and MAX_NEW_TOKENS, and `parse_strict`   *)
(* (parse.rs) reads what came out.                                         *)
(*                                                                         *)
(* The engine that masks the tokens is llama.cpp's: a derivation of the    *)
(* grammar's root, of which any branch may be taken.  A piece of text is a *)
(* literal of the grammar or one character of a class; a token carries up  *)
(* to MaxPieces of them.  The engine is modelled for grammars written like *)
(* verdict.gbnf, without repetitions.                                      *)
(***************************************************************************)
EXTENDS GrammarParsing, Grammar

CONSTANTS
  Deployed,      \* verdict.gbnf, one of the sources
  Picks,         \* the characters the sampler picks from a class
  Prompts,       \* lengths of the prompt, in tokens
  Context,       \* N_CTX
  MaxNewTokens,  \* MAX_NEW_TOKENS
  MaxPieces,     \* bound: pieces of text per token
  MaxRaw,        \* MAX_RAW_RESPONSE_BYTES, in pieces
  MaxFlags,      \* MAX_FLAGS
  MaxFlagLen,    \* MAX_FLAG_LEN
  Alphabet,      \* the characters of the texts the acceptor is asked about
  ProbeLen       \* bound: their length

VARIABLES
  used, sampled, \* tokens in the context, and of those the sampled ones
  pending,       \* what the engine still has to derive
  text,          \* the pieces sampled so far
  answer         \* none, pass or block

output == <<used, sampled, pending, text>>
vars == <<parser, output, answer>>

Init ==
  /\ ParserInit
  /\ used = 0 /\ sampled = 0
  /\ pending = <<>> /\ text = <<>>
  /\ answer = "none"

Parse == ParserNext /\ UNCHANGED <<output, answer>>

-----------------------------------------------------------------------------
(* Decoding. *)

\* The pieces that can come next, each with what is pending after it.
RECURSIVE Steps(_)
Steps(todo) ==
  IF todo = <<>> THEN {}
  ELSE LET node == Head(todo)
           rest == Tail(todo)
       IN CASE node.kind = "lit" -> {<<node.chars, rest>>}
            [] node.kind = "class" ->
                 {<<<<c>>, rest>> : c \in {x \in Picks : InClass(node, x)}}
            [] node.kind = "ref" -> Steps(<<rules[node.name]>> \o rest)
            [] node.kind = "seq" -> Steps(node.nodes \o rest)
            [] node.kind = "alt" ->
                 UNION {Steps(<<node.nodes[i]>> \o rest) : i \in DOMAIN node.nodes}

\* The tokens the grammar leaves: sequences of pieces, and what is pending then.
RECURSIVE Tokens(_, _)
Tokens(todo, n) ==
  IF n = 0 THEN {}
  ELSE UNION {{<<<<s[1]>>, s[2]>>} \cup {<<<<s[1]>> \o t[1], t[2]>> : t \in Tokens(s[2], n - 1)}
              : s \in Steps(todo)}

\* The prompt goes into a fresh context; one that does not fit is an error.
Prefill ==
  /\ stage = "loaded" /\ source = Deployed
  /\ \E n \in Prompts :
       IF n > Context
       THEN stage' = "failed" /\ UNCHANGED output
       ELSE /\ stage' = "decoding"
            /\ used' = n
            /\ pending' = <<Ref(Root)>>
            /\ UNCHANGED <<sampled, text>>
  /\ UNCHANGED <<grammar, answer>>

\* Mutation of Sample: the grammar accepts the token a second time.
Sample_Twice ==
  /\ stage = "decoding"
  /\ sampled < MaxNewTokens
  /\ \E token \in Tokens(pending, MaxPieces) :
       /\ text' = text \o token[1]
       /\ pending' \in {token[2]} \cup {step[2] : step \in Steps(token[2])}
  /\ sampled' = sampled + 1
  /\ used' = used + 1
  /\ stage' = IF used < Context THEN "decoding" ELSE "failed"
  /\ UNCHANGED <<grammar, answer>>

\* One round of the loop: the token is appended, then decoded, which fails
\* when the context is full.
Sample ==
  /\ stage = "decoding"
  /\ sampled < MaxNewTokens
  /\ \E token \in Tokens(pending, MaxPieces) :
       /\ text' = text \o token[1]
       /\ pending' = token[2]
  /\ sampled' = sampled + 1
  /\ used' = used + 1
  /\ stage' = IF used < Context THEN "decoding" ELSE "failed"
  /\ UNCHANGED <<grammar, answer>>

\* The grammar leaves nothing but the end of the generation.
EndOfGeneration ==
  /\ stage = "decoding"
  /\ sampled < MaxNewTokens
  /\ pending = <<>>
  /\ stage' = "ended"
  /\ UNCHANGED <<grammar, output, answer>>

\* Mutation of TokenLimit: one round too many is waited for.
TokenLimit_Later ==
  /\ stage = "decoding"
  /\ sampled > MaxNewTokens
  /\ stage' = "ended"
  /\ UNCHANGED <<grammar, output, answer>>

\* The loop is over, wherever the text stands.
TokenLimit ==
  /\ stage = "decoding"
  /\ sampled = MaxNewTokens
  /\ stage' = "ended"
  /\ UNCHANGED <<grammar, output, answer>>

\* Any call into the library may fail.
BackendFails ==
  /\ stage \in {"loaded", "decoding"} /\ source = Deployed
  /\ stage' = "failed"
  /\ UNCHANGED <<grammar, output, answer>>

-----------------------------------------------------------------------------
(* Reading the verdict. *)

Quote == <<"\"">>
Pass == <<"\"", "P", "A", "S", "S", "\"">>

\* The lengths of the flags: every other quote opens one.
FlagLengths(pieces) ==
  LET quotes == SetToSortSeq({i \in DOMAIN pieces : pieces[i] = Quote}, <)
  IN [k \in 1 .. Len(quotes) \div 2 |-> quotes[2 * k] - quotes[2 * k - 1] - 1]

\* The brace that closes the object is the last thing it has.
Complete(pieces) == pieces # <<>> /\ Last(pieces) = <<"}">>

\* Mutations of Strict: text that breaks off is read as far as it goes; an
\* empty list of flags is not a list.
Strict_Lenient(pieces) == IF Pass \in Range(pieces) THEN "pass" ELSE "block"
Strict_NeedsFlag(pieces) ==
  IF ~Complete(pieces) \/ FlagLengths(pieces) = <<>> THEN "malformed"
  ELSE IF Pass \in Range(pieces) THEN "pass" ELSE "block"

\* `parse_strict`, its checks in their order.
Strict(pieces) ==
  LET flags == FlagLengths(pieces)
  IN IF Len(pieces) > MaxRaw THEN "too_large"
     ELSE IF ~Complete(pieces) THEN "malformed"
     ELSE IF Len(flags) > MaxFlags THEN "many_flags"
     ELSE IF \E k \in DOMAIN flags : flags[k] \notin 1 .. MaxFlagLen THEN "bad_flag"
     ELSE IF Pass \in Range(pieces) THEN "pass" ELSE "block"

\* The server's answer: what was read, or BLOCK.
Answer ==
  /\ stage \in {"ended", "failed", "refused"}
  /\ answer' = IF stage = "ended" /\ Strict(text) = "pass" THEN "pass" ELSE "block"
  /\ stage' = IF stage = "ended" THEN "read" ELSE "broken"
  /\ UNCHANGED <<grammar, output>>

Next ==
  \/ Parse
  \/ Prefill \/ Sample \/ EndOfGeneration \/ TokenLimit \/ BackendFails
  \/ Answer

\* A call that has begun runs by itself; nothing makes the library fail.
Spec ==
  /\ Init /\ [][Next]_vars
  /\ WF_vars(Prefill)
  /\ WF_vars(Sample \/ EndOfGeneration \/ TokenLimit) /\ WF_vars(Answer)

-----------------------------------------------------------------------------
\* The acceptor decides membership: whatever the text and whatever the grammar
\* of Sources, it accepts exactly the language the rules denote
\* (grammar.rs:11-16: "membership for these constructs is standard and
\* unambiguous", "backtracking and repetition are handled").  Sources has every
\* construct, but no left-recursive grammar: the parser accepts those, and
\* `accepts` then calls itself on the same position until the stack overflows.
AcceptorExact ==
  stage = "loaded" =>
    \A t \in UNION {[1 .. n -> Alphabet] : n \in 0 .. ProbeLen} :
      Accepts(rules, t) <=> t \in Language(rules, Alphabet, ProbeLen)

\* What the acceptor says of the asset is what constrains the decoder
\* (grammar.rs:13-15): the text the engine has produced is a sentence exactly
\* when the engine has nothing left to derive, so no sentence goes on.
AcceptorFollowsDecoder ==
  stage \in {"decoding", "ended", "read"} =>
    (Accepts(rules, FlattenSeq(text)) <=> pending = <<>>)

\* Only a whole sentence of the grammar that says PASS passes: not one that the
\* token limit (inference.rs:245) or a full context (271-272) cut short, not the text
\* of a call that failed, and nothing without its grammar (232-236).
OnlySentencesPass ==
  answer = "pass" => /\ stage = "read"
                     /\ Accepts(rules, FlattenSeq(text))
                     /\ text[2] = Pass

\* The grammar "can be the tighter of the two" (verdict.gbnf:20-21): the strict
\* parser reads every sentence of it except one that is too long, has more flags
\* than eight or a flag of more than 48 characters; there the parser is tighter.
SentencesAreRead ==
  stage = "read" /\ pending = <<>> =>
    \/ Strict(text) = (IF text[2] = Pass THEN "pass" ELSE "block")
    \/ Len(text) > MaxRaw
    \/ Len(FlagLengths(text)) > MaxFlags
    \/ \E k \in DOMAIN FlagLengths(text) : FlagLengths(text)[k] > MaxFlagLen

\* Every call is answered, although the grammar allows flags for ever: "this only
\* bounds a runaway decode" (inference.rs:163-164).
Decodes == (stage = "loaded" /\ source = Deployed) ~> (answer # "none")
=============================================================================
