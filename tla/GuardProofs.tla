----------------------------- MODULE GuardProofs -----------------------------
(***************************************************************************)
(* Theorems about ctp-guard: its grammar parser, for any grammar that is   *)
(* made of characters, and its process, for any calls, workers and start   *)
(* limit.                                                                  *)
(*                                                                         *)
(* The parser reads a body from the left, one function at a time, and      *)
(* never goes back; what is well-formed is told by a chart that is filled  *)
(* from the right.  The invariant puts the two together: of each call that *)
(* is under way it names the positions where it may end (its goal), and    *)
(* the body is well-formed exactly if the chart leads from where the       *)
(* parser is to the goal of the innermost call.                            *)
(***************************************************************************)
EXTENDS GrammarParsing, GuardProcess, Sums, SequenceTheorems, TLAPS

-----------------------------------------------------------------------------
(* The characters of a body. *)

\* The characters of a body; the end is none of them.
BodyOK == body \in Seq(STRING \ {"end"})

\* A quotation mark is no other character of the notation.
LEMMA QuoteIs ==
  DoubleQuote \notin {"end", "\\", "[", "]", "(", ")", "|", "*", "+", "?", "-", "^"}
                     \cup Space \cup NameChar
BY Zenon DEF DoubleQuote, Space, NameChar, NameStart, Letter, Digit

\* Peek sees the end of the body past its last character and nowhere else
\* (grammar.rs:185-187).
LEMMA PeekIs ==
  ASSUME BodyOK
  PROVE  /\ End \in Nat \ {0} /\ End - 1 = Len(body)
         /\ \A p \in 1 .. End : Peek(p) = "end" <=> p = End
         /\ \A p \in Nat \ {0} : p >= End => Peek(p) = "end"
         /\ \A p \in 1 .. Len(body) : Peek(p) = body[p]
<1>1. End \in Nat \ {0} /\ End - 1 = Len(body) /\ \A p \in 1 .. Len(body) : body[p] # "end"
  BY DEF BodyOK, End
<1>2. \A p \in 1 .. Len(body) : p < End /\ Peek(p) = body[p]
  BY <1>1 DEF Peek
<1>3. \A p \in Nat \ {0} : p >= End => ~(p < End) /\ Peek(p) = "end"
  BY <1>1 DEF Peek
<1>4. \A p \in Nat \ {0} : p >= End \/ p \in 1 .. Len(body)
  BY <1>1
<1>5. QED
  BY <1>1, <1>2, <1>3, <1>4

\* A run of characters of S is skipped to the first that is none of them.
LEMMA PastIs ==
  ASSUME BodyOK, NEW S, "end" \notin S, NEW p \in 1 .. End
  PROVE  /\ Past(p, S) \in p .. End /\ Peek(Past(p, S)) \notin S
         /\ \A i \in p .. Past(p, S) - 1 : Peek(i) \in S
<1> DEFINE out == {q \in p .. End : Peek(q) \notin S}
<1>1. End \in out /\ out \in SUBSET Nat
  BY PeekIs
<1>2. Min(out) \in out /\ \A q \in out : Min(out) <= q
  <2> HIDE DEF out
  <2>1. QED
    BY <1>1, MinIsLeast
<1>3. Past(p, S) = Min(out)
  BY DEF Past
<1> DEFINE m == Min(out)
<1>4. m \in p .. End /\ Peek(m) \notin S
  BY <1>2
<1>5. \A i \in p .. m - 1 : i \in p .. End /\ ~(m <= i)
  BY <1>4, PeekIs
<1> HIDE DEF m
<1>6. \A i \in p .. m - 1 : Peek(i) \in S
  BY <1>2, <1>5 DEF m
<1>7. QED
  BY <1>3, <1>4, <1>6 DEF m

\* The characters of values.
Chars == {Peek(q) : q \in Nat \ {0}} \cup {"\n", "\t", "\r"}

\* What one character is read from.
LEMMA OneCharIs ==
  ASSUME BodyOK, NEW p \in 1 .. End
  PROVE  /\ OneChar(p).ok \in BOOLEAN
         /\ OneChar(p).ok => /\ OneChar(p).next \in p + 1 .. End
                             /\ OneChar(p).value \in Chars
         /\ OneChar(p).ok <=> p # End /\ ~(Peek(p) = "\\" /\ p + 1 = End)
         /\ OneChar(p).ok => OneChar(p).next = IF Peek(p) = "\\" THEN p + 2 ELSE p + 1
         /\ ~OneChar(p).ok => OneChar(p) = Failed
<1>1. CASE Peek(p) = "\\"
  <2>1. p # End
    BY <1>1, PeekIs
  <2>2. p + 1 \in 1 .. End /\ Peek(p + 1) \in Chars
    BY <2>1, PeekIs DEF Chars
  <2> DEFINE c == Peek(p + 1)
             v == IF c \in DOMAIN Escapes THEN Escapes[c] ELSE c
  <2>3. OneChar(p) = IF c = "end" THEN Failed ELSE Read(v, p + 2)
    BY <1>1, <2>2 DEF OneChar
  <2>4. v \in Chars
    BY <2>2 DEF Escapes, Chars
  <2>5. c = "end" <=> p + 1 = End
    BY <2>2, PeekIs
  <2>6. c # "end" => p + 2 \in p + 1 .. End
    BY <2>1, <2>5, PeekIs
  <2> HIDE DEF c, v
  <2>7. QED
    BY <1>1, <2>1, <2>3, <2>4, <2>5, <2>6 DEF Read, Failed
<1>2. CASE Peek(p) # "\\"
  <2>1. OneChar(p) = IF Peek(p) = "end" THEN Failed ELSE Read(Peek(p), p + 1)
    BY <1>2 DEF OneChar
  <2>2. Peek(p) \in Chars /\ (Peek(p) = "end" <=> p = End) /\ (p # End => p + 1 \in p + 1 .. End)
    BY PeekIs DEF Chars
  <2>3. QED
    BY <1>2, <2>1, <2>2 DEF Read, Failed
<1>3. QED
  BY <1>1, <1>2

-----------------------------------------------------------------------------
(* What is quoted. *)

\* An escape at p leaves what is after it as it is without what is before.
LEMMA EscapedAfterOther ==
  ASSUME BodyOK, NEW p \in 1 .. Len(body), body[p] # "\\", NEW q \in p + 1 .. Len(body)
  PROVE  Escaped(p, q) <=> Escaped(p + 1, q)
<1>1. ASSUME Escaped(p, q) PROVE Escaped(p + 1, q)
  <2>1. PICK k \in p .. q - 1 : /\ \A i \in k .. q - 1 : body[i] = "\\"
                                /\ k = p \/ body[k - 1] # "\\"
                                /\ (q - k) % 2 = 1
    BY <1>1 DEF Escaped
  <2>2. k # p /\ k \in p + 1 .. q - 1
    BY <2>1
  <2>3. QED
    BY <2>1, <2>2 DEF Escaped
<1>2. ASSUME Escaped(p + 1, q) PROVE Escaped(p, q)
  <2>1. PICK k \in p + 1 .. q - 1 : /\ \A i \in k .. q - 1 : body[i] = "\\"
                                    /\ k = p + 1 \/ body[k - 1] # "\\"
                                    /\ (q - k) % 2 = 1
    BY <1>2 DEF Escaped
  <2>2. k \in p .. q - 1
    OBVIOUS
  <2>3. body[k - 1] # "\\"
    BY <2>1
  <2>4. QED
    BY <2>1, <2>2, <2>3 DEF Escaped
<1>3. QED
  BY <1>1, <1>2

\* An escape takes the character after it with it.
LEMMA EscapedAfterEscape ==
  ASSUME BodyOK, NEW p \in 1 .. Len(body), body[p] = "\\", NEW q \in p + 2 .. Len(body)
  PROVE  Escaped(p, q) <=> Escaped(p + 2, q)
<1>1. ASSUME Escaped(p, q) PROVE Escaped(p + 2, q)
  <2>1. PICK k \in p .. q - 1 : /\ \A i \in k .. q - 1 : body[i] = "\\"
                                /\ k = p \/ body[k - 1] # "\\"
                                /\ (q - k) % 2 = 1
    BY <1>1 DEF Escaped
  <2>2. k # p + 1
    BY <2>1
  <2>3. CASE k = p
    <3>1. p + 2 \in p + 2 .. q - 1
      BY <2>1, <2>3
    <3>2. (q - (p + 2)) % 2 = 1
      BY <2>1, <2>3
    <3>3. \A i \in p + 2 .. q - 1 : body[i] = "\\"
      BY <2>1, <2>3
    <3>4. QED
      BY <3>1, <3>2, <3>3 DEF Escaped
  <2>4. CASE k # p
    <3>1. k \in p + 2 .. q - 1
      BY <2>2, <2>4
    <3>2. QED
      BY <2>1, <2>4, <3>1 DEF Escaped
  <2>5. QED
    BY <2>3, <2>4
<1>2. ASSUME Escaped(p + 2, q) PROVE Escaped(p, q)
  <2>1. PICK k \in p + 2 .. q - 1 : /\ \A i \in k .. q - 1 : body[i] = "\\"
                                    /\ k = p + 2 \/ body[k - 1] # "\\"
                                    /\ (q - k) % 2 = 1
    BY <1>2 DEF Escaped
  <2>2. CASE body[k - 1] # "\\"
    <3>1. k \in p .. q - 1
      OBVIOUS
    <3>2. QED
      BY <2>1, <2>2, <3>1 DEF Escaped
  <2>3. CASE k = p + 2 /\ body[k - 1] = "\\"
    <3>1. body[p + 1] = "\\" /\ \A i \in p .. q - 1 : i = p \/ i = p + 1 \/ i \in k .. q - 1
      BY <2>3
    <3>2. p \in p .. q - 1 /\ (q - p) % 2 = 1
      BY <2>1, <2>3
    <3>3. \A i \in p .. q - 1 : body[i] = "\\"
      BY <2>1, <3>1
    <3>4. QED
      BY <3>2, <3>3 DEF Escaped
  <2>4. QED
    BY <2>1, <2>2, <2>3
<1>3. QED
  BY <1>1, <1>2

\* The close of what is quoted is not in the character that is read first.
LEMMA ClosesStep ==
  ASSUME BodyOK, NEW close, close # "\\", NEW p \in 1 .. End, Peek(p) # close
  PROVE  IF OneChar(p).ok THEN Closes(p, close) = Closes(OneChar(p).next, close)
         ELSE Closes(p, close) = {}
<1>1. CASE p = End
  BY <1>1, OneCharIs, PeekIs DEF Closes
<1>2. CASE p # End /\ Peek(p) # "\\"
  <2>1. OneChar(p).ok /\ OneChar(p).next = p + 1 /\ p \in 1 .. Len(body)
    BY <1>2, OneCharIs, PeekIs
  <2>2. body[p] # "\\" /\ body[p] # close
    BY <1>2, <2>1, PeekIs
  <2>3. \A q \in p + 1 .. Len(body) : Escaped(p, q) <=> Escaped(p + 1, q)
    BY <2>1, <2>2, EscapedAfterOther
  <2>4. Closes(p, close) = Closes(p + 1, close)
    BY <2>1, <2>2, <2>3, PeekIs DEF Closes
  <2>5. QED
    BY <2>1, <2>4
<1>3. CASE p # End /\ Peek(p) = "\\"
  <2>1. p \in 1 .. Len(body) /\ body[p] = "\\"
    BY <1>3, PeekIs
  <2>2. ASSUME p + 1 <= Len(body) PROVE Escaped(p, p + 1)
    <3>1. p \in p .. (p + 1) - 1 /\ ((p + 1) - p) % 2 = 1 /\ \A i \in p .. (p + 1) - 1 : i = p
      BY <2>1
    <3>2. QED
      BY <2>1, <3>1 DEF Escaped
  <2>3. \A q \in p + 2 .. Len(body) : Escaped(p, q) <=> Escaped(p + 2, q)
    BY <2>1, EscapedAfterEscape
  <2>4. CASE p + 1 = End
    BY <2>1, <2>4, <1>3, OneCharIs, PeekIs DEF Closes
  <2>5. CASE p + 1 # End
    <3>1. OneChar(p).ok /\ OneChar(p).next = p + 2
      BY <1>3, <2>5, OneCharIs
    <3>2. \A q \in p .. Len(body) : q = p \/ q = p + 1 \/ q \in p + 2 .. Len(body)
      BY PeekIs
    <3>3. Closes(p, close) = Closes(p + 2, close)
      BY <2>1, <2>2, <2>3, <3>2, PeekIs DEF Closes
    <3>4. QED
      BY <3>1, <3>3
  <2>6. QED
    BY <2>4, <2>5
<1>4. QED
  BY <1>1, <1>2, <1>3

\* The close itself ends what is quoted.
LEMMA QuotedHere ==
  ASSUME BodyOK, NEW close, close # "end", NEW p \in 1 .. End, Peek(p) = close
  PROVE  p # End /\ Quoted(p, close) = {p + 1}
<1>1. p \in 1 .. Len(body) /\ body[p] = close
  BY PeekIs
<1>2. ~Escaped(p, p)
  BY DEF Escaped
<1>3. p \in Closes(p, close) /\ \A q \in Closes(p, close) : p <= q
  BY <1>1, <1>2, PeekIs DEF Closes
<1>4. {q \in Closes(p, close) : \A d \in Closes(p, close) : q <= d} = {p}
  BY <1>3, PeekIs DEF Closes
<1>5. QED
  BY <1>1, <1>4, PeekIs DEF Quoted

\* Any other character leaves the close where it is.
LEMMA QuotedStep ==
  ASSUME BodyOK, NEW close, close # "\\", NEW p \in 1 .. End, Peek(p) # close
  PROVE  Quoted(p, close) = IF OneChar(p).ok THEN Quoted(OneChar(p).next, close) ELSE {}
BY ClosesStep DEF Quoted

\* What is quoted has a close after where it begins.
LEMMA QuotedRange ==
  ASSUME BodyOK, NEW close, NEW p \in 1 .. End
  PROVE  Quoted(p, close) \subseteq p + 1 .. End
BY PeekIs DEF Quoted, Closes

-----------------------------------------------------------------------------
(* What the parser's functions read. *)

\* What can be read, of values in V.
Reads(V) == [ok : {TRUE}, value : V, next : 1 .. End] \cup {Failed}

\* What a function that reads returns.
LEMMA ReadsIs ==
  ASSUME NEW V, NEW r \in Reads(V)
  PROVE  /\ r.ok \in BOOLEAN
         /\ r.ok => r.value \in V /\ r.next \in 1 .. End
         /\ ~r.ok => r = Failed
<1>1. CASE r = Failed
  BY <1>1 DEF Failed
<1>2. CASE r # Failed
  <2>1. r \in [ok : {TRUE}, value : V, next : 1 .. End]
    BY <1>2 DEF Reads
  <2>2. r.ok = TRUE /\ r.value \in V /\ r.next \in 1 .. End
    BY <2>1
  <2>3. QED
    BY <2>2
<1>3. QED
  BY <1>1, <1>2

\* A value that was read, and none.
LEMMA ReadIs ==
  ASSUME NEW v, NEW n
  PROVE  /\ Read(v, n).ok = TRUE /\ Read(v, n).value = v /\ Read(v, n).next = n
         /\ \A V : v \in V /\ n \in 1 .. End => Read(v, n) \in Reads(V)
         /\ Failed.ok = FALSE /\ \A V : Failed \in Reads(V)
BY DEF Read, Reads, Failed

\* The function of the positions obeys its definition, and what it reads of a
\* literal is characters.
LEMMA LiteralIs ==
  ASSUME BodyOK
  PROVE  \A p \in 1 .. End :
           /\ Literal[p] \in Reads(Seq(Chars))
           /\ Literal[p] = IF Peek(p) = DoubleQuote THEN Read(<<>>, p + 1)
                           ELSE LET c == OneChar(p)
                                    rest == Literal[c.next]
                                IN IF c.ok /\ rest.ok THEN Read(<<c.value>> \o rest.value, rest.next)
                                   ELSE Failed
<1> DEFINE More(p, g) ==
             LET c == OneChar(p)
                 rest == g[c.next]
             IN IF c.ok /\ rest.ok THEN Read(<<c.value>> \o rest.value, rest.next) ELSE Failed
           From(p, g) == IF Peek(p) = DoubleQuote THEN Read(<<>>, p + 1) ELSE More(p, g)
           R == Reads(Seq(Chars))
           Domain == (1 .. End) \X UNION {[(p + 1) .. End -> R] : p \in 1 .. End}
           G == [a \in Domain |-> From(a[1], a[2])]
           T == [p \in 1 .. End |-> R]
           Defines(f) == f = [p \in 1 .. End |-> From(p, f)]
<1>1. End \in Nat
  BY PeekIs
<1>2. ASSUME NEW p \in 1 .. End, NEW g \in [(p + 1) .. End -> R] PROVE From(p, g) \in R
  <2>1. CASE Peek(p) = DoubleQuote
    <3>1. p + 1 \in 1 .. End
      BY <2>1, PeekIs, QuoteIs
    <3>2. Read(<<>>, p + 1) \in R
      <4>1. <<>> \in Seq(Chars)
        OBVIOUS
      <4>2. QED
        BY <3>1, <4>1, ReadIs
    <3>3. QED
      BY <2>1, <3>2
  <2>2. CASE Peek(p) # DoubleQuote
    <3> DEFINE c == OneChar(p)
               rest == g[c.next]
    <3>1. CASE c.ok /\ rest.ok
      <4>1. rest \in R
        BY <3>1, OneCharIs
      <4>2. rest.value \in Seq(Chars) /\ rest.next \in 1 .. End
        <5> HIDE DEF rest
        <5>1. QED
          BY <3>1, <4>1, ReadsIs
      <4>3. c.value \in Chars
        BY <3>1, OneCharIs
      <4> HIDE DEF c, rest
      <4>4. <<c.value>> \o rest.value \in Seq(Chars)
        BY <4>2, <4>3
      <4>5. Read(<<c.value>> \o rest.value, rest.next) \in R
        BY <4>2, <4>4, ReadIs
      <4>6. QED
        BY <2>2, <3>1, <4>5 DEF c, rest
    <3>2. CASE ~(c.ok /\ rest.ok)
      BY <2>2, <3>2 DEF Reads
    <3>3. QED
      BY <3>1, <3>2
  <2>3. QED
    BY <2>1, <2>2
<1>3. ASSUME NEW p \in 1 .. End, NEW f, NEW g, \A q \in (p + 1) .. End : f[q] = g[q]
      PROVE  From(p, f) = From(p, g)
  <2>1. OneChar(p).ok => OneChar(p).next \in (p + 1) .. End
    BY OneCharIs
  <2>2. QED
    BY <1>3, <2>1
<1> HIDE DEF More, From, R
<1>4. ASSUME NEW p \in 1 .. End, NEW g,
             g = Restrict(g, (p + 1) .. End), \A q \in (p + 1) .. End : g[q] \in T[q]
      PROVE  G[<<p, g>>] = From(p, g) /\ G[<<p, g>>] \in T[p]
  <2>1. g \in [(p + 1) .. End -> R]
    BY <1>1, <1>4 DEF Restrict
  <2>2. <<p, g>> \in Domain
    BY <2>1
  <2>3. QED
    BY <1>2, <2>1, <2>2
<1>5. PICK f : SolvedBy(f, End, T, G)
  <2>1. Descends(End, T, G)
    <3> HIDE DEF G, T
    <3>1. QED
      BY <1>4 DEF Descends
  <2> HIDE DEF G, T
  <2>2. QED
    BY <1>1, <2>1, DescendingRecursion
<1>6. ASSUME NEW p \in 1 .. End PROVE f[p] = From(p, f)
  <2> DEFINE g == Restrict(f, (p + 1) .. End)
  <2>1. \A q \in (p + 1) .. End : g[q] \in T[q] /\ f[q] = g[q]
    <3>1. \A q \in (p + 1) .. End : q \in 1 .. End /\ f[q] = g[q]
      BY <1>1 DEF Restrict
    <3> HIDE DEF G, T, g
    <3>2. QED
      BY <1>5, <3>1 DEF SolvedBy
  <2>2. g = Restrict(g, (p + 1) .. End)
    BY DEF Restrict
  <2>3. f[p] = G[<<p, g>>]
    BY <1>5 DEF SolvedBy
  <2> HIDE DEF g, G, T
  <2>4. G[<<p, g>>] = From(p, g)
    BY <1>4, <2>1, <2>2
  <2>5. From(p, f) = From(p, g)
    BY <1>3, <2>1
  <2>6. QED
    BY <2>3, <2>4, <2>5
<1>7. Defines(f)
  BY <1>5, <1>6 DEF Restrict, SolvedBy
<1>8. Literal = CHOOSE g : Defines(g)
  BY DEF Literal, From, More
<1>9. Defines(Literal)
  <2> HIDE DEF Defines
  <2>1. QED
    BY <1>7, <1>8
<1>10. \A p \in 1 .. End : Literal[p] = From(p, Literal)
  <2> DEFINE literal == Literal
  <2>1. literal = [p \in 1 .. End |-> From(p, literal)]
    BY <1>9
  <2> HIDE DEF literal
  <2>2. \A p \in 1 .. End : literal[p] = From(p, literal)
    BY <2>1
  <2>3. QED
    BY <2>2 DEF literal
<1>11. 1 .. End \subseteq {p \in 1 .. End : Literal[p] \in R}
  <2> DEFINE S == {p \in 1 .. End : Literal[p] \in R}
  <2>1. ASSUME NEW p \in 1 .. End, (p + 1) .. End \subseteq S PROVE p \in S
    <3> DEFINE g == [q \in (p + 1) .. End |-> Literal[q]]
    <3>1. g \in [(p + 1) .. End -> R] /\ \A q \in (p + 1) .. End : Literal[q] = g[q]
      BY <2>1
    <3> HIDE DEF g
    <3>2. From(p, Literal) \in R
      BY <1>2, <1>3, <3>1
    <3>3. QED
      BY <1>10, <3>2
  <2> HIDE DEF S
  <2>2. 1 .. End \subseteq S
    BY <1>1, <2>1, DescendingInduction
  <2>3. QED
    BY <2>2 DEF S
<1>12. QED
  BY <1>10, <1>11 DEF From, More, R

\* A literal is read to its close, if it has one.
LEMMA LiteralReadsQuoted ==
  ASSUME BodyOK
  PROVE  \A p \in 1 .. End :
           /\ Literal[p].ok \in BOOLEAN
           /\ Quoted(p, DoubleQuote) = IF Literal[p].ok THEN {Literal[p].next} ELSE {}
<1> DEFINE Same(p) == Quoted(p, DoubleQuote) = IF Literal[p].ok THEN {Literal[p].next} ELSE {}
           S == {p \in 1 .. End : Same(p)}
<1>1. ASSUME NEW p \in 1 .. End, (p + 1) .. End \subseteq S PROVE Same(p)
  <2>1. CASE Peek(p) = DoubleQuote
    <3>1. Literal[p] = Read(<<>>, p + 1)
      BY <2>1, LiteralIs
    <3>2. Quoted(p, DoubleQuote) = {p + 1}
      BY <2>1, QuotedHere, QuoteIs
    <3>3. Literal[p].ok = TRUE /\ Literal[p].next = p + 1
      BY <3>1 DEF Read
    <3>4. QED
      BY <3>2, <3>3
  <2>2. CASE Peek(p) # DoubleQuote
    <3> DEFINE c == OneChar(p)
               rest == Literal[c.next]
    <3>1. Quoted(p, DoubleQuote) = IF c.ok THEN Quoted(c.next, DoubleQuote) ELSE {}
      BY <2>2, QuotedStep, QuoteIs
    <3>2. Literal[p] = IF c.ok /\ rest.ok THEN Read(<<c.value>> \o rest.value, rest.next) ELSE Failed
      BY <2>2, LiteralIs
    <3>3. c.ok \in BOOLEAN /\ (c.ok => c.next \in (p + 1) .. End)
      BY OneCharIs
    <3>4. c.ok => Same(c.next)
      BY <1>1, <3>3
    <3>5. CASE c.ok /\ rest.ok
      <4>1. Literal[p].ok = TRUE /\ Literal[p].next = rest.next
        <5> HIDE DEF c, rest
        <5>1. QED
          BY <3>2, <3>5 DEF Read
      <4>2. QED
        BY <3>1, <3>4, <3>5, <4>1
    <3>6. CASE ~(c.ok /\ rest.ok)
      <4>1. Literal[p].ok = FALSE
        <5> HIDE DEF c, rest
        <5>1. QED
          BY <3>2, <3>6, ReadIs
      <4>2. QED
        BY <3>1, <3>4, <3>6, <4>1
    <3>7. QED
      BY <3>5, <3>6
  <2>3. QED
    BY <2>1, <2>2
<1>2. 1 .. End \subseteq S
  <2>1. \A p \in 1 .. End : (p + 1) .. End \subseteq S => p \in S
    BY <1>1
  <2> HIDE DEF S
  <2>2. QED
    BY <2>1, PeekIs, DescendingInduction
<1>3. QED
  BY <1>2, LiteralIs, ReadsIs

\* The upper character of the range at p, which may be the lower one.
HighOf(p) ==
  LET low == OneChar(p) IN IF low.ok /\ Ranged(p, low.next) THEN OneChar(low.next + 1) ELSE low

\* A range is read from one or two characters and the '-' between them, none of
\* which closes the class.
LEMMA HighIs ==
  ASSUME BodyOK, NEW p \in 1 .. End
  PROVE  /\ HighOf(p).ok \in BOOLEAN
         /\ HighOf(p).ok => /\ HighOf(p).next \in p + 1 .. End
                            /\ HighOf(p).value \in Chars /\ OneChar(p).value \in Chars
         /\ Peek(p) # "]" =>
              Quoted(p, "]") = IF HighOf(p).ok THEN Quoted(HighOf(p).next, "]") ELSE {}
<1> DEFINE low == OneChar(p)
<1>1. CASE low.ok /\ Ranged(p, low.next)
  <2>1. low.next \in p + 1 .. End /\ low.value \in Chars
    BY <1>1, OneCharIs
  <2>2. Peek(low.next) = "-" /\ Peek(low.next + 1) # "]"
    BY <1>1 DEF Ranged
  <2> HIDE DEF low
  <2>3. low.next # End /\ low.next + 1 \in p + 1 .. End
    BY <2>1, <2>2, PeekIs
  <2>4. OneChar(low.next).ok /\ OneChar(low.next).next = low.next + 1
    BY <2>1, <2>2, <2>3, OneCharIs
  <2>5. Quoted(low.next, "]") = Quoted(low.next + 1, "]")
    BY <2>1, <2>2, <2>4, QuotedStep
  <2> DEFINE n == low.next + 1
  <2>6. Quoted(n, "]") = IF OneChar(n).ok THEN Quoted(OneChar(n).next, "]") ELSE {}
    BY <2>2, <2>3, QuotedStep
  <2>7. HighOf(p) = OneChar(n)
    BY <1>1 DEF HighOf, low
  <2>8. OneChar(n).ok \in BOOLEAN
        /\ (OneChar(n).ok => OneChar(n).next \in n + 1 .. End /\ OneChar(n).value \in Chars)
    BY <2>3, OneCharIs
  <2>9. Peek(p) # "]" => Quoted(p, "]") = Quoted(low.next, "]")
    BY <1>1, QuotedStep DEF low
  <2>10. \A m \in n + 1 .. End : m \in p + 1 .. End
    BY <2>1, <2>3
  <2> HIDE DEF n
  <2>11. QED
    BY <2>1, <2>5, <2>6, <2>7, <2>8, <2>9, <2>10 DEF low, n
<1>2. CASE ~(low.ok /\ Ranged(p, low.next))
  <2>1. HighOf(p) = low
    BY <1>2 DEF HighOf
  <2>2. QED
    BY <2>1, OneCharIs, QuotedStep
<1>3. QED
  BY <1>1, <1>2

\* The same of a class: what it reads are its ranges.
LEMMA RangesAre ==
  ASSUME BodyOK
  PROVE  \A p \in 1 .. End :
           /\ Ranges[p] \in Reads(SUBSET (Chars \X Chars))
           /\ Ranges[p] = IF Peek(p) = "]" THEN Read({}, p + 1)
                          ELSE LET high == HighOf(p)
                                   rest == Ranges[high.next]
                               IN IF high.ok /\ rest.ok
                                  THEN Read({<<OneChar(p).value, high.value>>} \cup rest.value, rest.next)
                                  ELSE Failed
<1> DEFINE More(p, g) ==
             LET high == HighOf(p)
                 rest == g[high.next]
             IN IF high.ok /\ rest.ok
                THEN Read({<<OneChar(p).value, high.value>>} \cup rest.value, rest.next)
                ELSE Failed
           From(p, g) == IF Peek(p) = "]" THEN Read({}, p + 1) ELSE More(p, g)
           R == Reads(SUBSET (Chars \X Chars))
           Domain == (1 .. End) \X UNION {[(p + 1) .. End -> R] : p \in 1 .. End}
           G == [a \in Domain |-> From(a[1], a[2])]
           T == [p \in 1 .. End |-> R]
           Defines(f) == f = [p \in 1 .. End |-> From(p, f)]
<1>1. End \in Nat
  BY PeekIs
<1>2. ASSUME NEW p \in 1 .. End, NEW g \in [(p + 1) .. End -> R] PROVE From(p, g) \in R
  <2>1. CASE Peek(p) = "]"
    <3>1. p + 1 \in 1 .. End
      BY <2>1, PeekIs
    <3>2. Read({}, p + 1) \in R
      <4>1. {} \in SUBSET (Chars \X Chars)
        OBVIOUS
      <4>2. QED
        BY <3>1, <4>1, ReadIs
    <3>3. QED
      BY <2>1, <3>2
  <2>2. CASE Peek(p) # "]"
    <3> DEFINE high == HighOf(p)
               rest == g[high.next]
    <3>1. CASE high.ok /\ rest.ok
      <4>1. rest \in R
        BY <3>1, HighIs
      <4>2. rest.value \in SUBSET (Chars \X Chars) /\ rest.next \in 1 .. End
        <5> HIDE DEF rest
        <5>1. QED
          BY <3>1, <4>1, ReadsIs
      <4>3. OneChar(p).value \in Chars /\ high.value \in Chars
        BY <3>1, HighIs
      <4> HIDE DEF high, rest
      <4>4. {<<OneChar(p).value, high.value>>} \cup rest.value \in SUBSET (Chars \X Chars)
        BY <4>2, <4>3
      <4>5. Read({<<OneChar(p).value, high.value>>} \cup rest.value, rest.next) \in R
        BY <4>2, <4>4, ReadIs
      <4>6. QED
        BY <2>2, <3>1, <4>5 DEF high, rest
    <3>2. CASE ~(high.ok /\ rest.ok)
      BY <2>2, <3>2 DEF Reads
    <3>3. QED
      BY <3>1, <3>2
  <2>3. QED
    BY <2>1, <2>2
<1>3. ASSUME NEW p \in 1 .. End, NEW f, NEW g, \A q \in (p + 1) .. End : f[q] = g[q]
      PROVE  From(p, f) = From(p, g)
  <2>1. HighOf(p).ok => HighOf(p).next \in (p + 1) .. End
    BY HighIs
  <2>2. QED
    BY <1>3, <2>1
<1> HIDE DEF More, From, R
<1>4. ASSUME NEW p \in 1 .. End, NEW g,
             g = Restrict(g, (p + 1) .. End), \A q \in (p + 1) .. End : g[q] \in T[q]
      PROVE  G[<<p, g>>] = From(p, g) /\ G[<<p, g>>] \in T[p]
  <2>1. g \in [(p + 1) .. End -> R]
    BY <1>1, <1>4 DEF Restrict
  <2>2. <<p, g>> \in Domain
    BY <2>1
  <2>3. QED
    BY <1>2, <2>1, <2>2
<1>5. PICK f : SolvedBy(f, End, T, G)
  <2>1. Descends(End, T, G)
    <3> HIDE DEF G, T
    <3>1. QED
      BY <1>4 DEF Descends
  <2> HIDE DEF G, T
  <2>2. QED
    BY <1>1, <2>1, DescendingRecursion
<1>6. ASSUME NEW p \in 1 .. End PROVE f[p] = From(p, f)
  <2> DEFINE g == Restrict(f, (p + 1) .. End)
  <2>1. \A q \in (p + 1) .. End : g[q] \in T[q] /\ f[q] = g[q]
    <3>1. \A q \in (p + 1) .. End : q \in 1 .. End /\ f[q] = g[q]
      BY <1>1 DEF Restrict
    <3> HIDE DEF G, T, g
    <3>2. QED
      BY <1>5, <3>1 DEF SolvedBy
  <2>2. g = Restrict(g, (p + 1) .. End)
    BY DEF Restrict
  <2>3. f[p] = G[<<p, g>>]
    BY <1>5 DEF SolvedBy
  <2> HIDE DEF g, G, T
  <2>4. G[<<p, g>>] = From(p, g)
    BY <1>4, <2>1, <2>2
  <2>5. From(p, f) = From(p, g)
    BY <1>3, <2>1
  <2>6. QED
    BY <2>3, <2>4, <2>5
<1>7. Defines(f)
  BY <1>5, <1>6 DEF Restrict, SolvedBy
<1>8. Ranges = CHOOSE g : Defines(g)
  BY DEF Ranges, From, More, HighOf
<1>9. Defines(Ranges)
  <2> HIDE DEF Defines
  <2>1. QED
    BY <1>7, <1>8
<1>10. \A p \in 1 .. End : Ranges[p] = From(p, Ranges)
  <2> DEFINE literal == Ranges
  <2>1. literal = [p \in 1 .. End |-> From(p, literal)]
    BY <1>9
  <2> HIDE DEF literal
  <2>2. \A p \in 1 .. End : literal[p] = From(p, literal)
    BY <2>1
  <2>3. QED
    BY <2>2 DEF literal
<1>11. 1 .. End \subseteq {p \in 1 .. End : Ranges[p] \in R}
  <2> DEFINE S == {p \in 1 .. End : Ranges[p] \in R}
  <2>1. ASSUME NEW p \in 1 .. End, (p + 1) .. End \subseteq S PROVE p \in S
    <3> DEFINE g == [q \in (p + 1) .. End |-> Ranges[q]]
    <3>1. g \in [(p + 1) .. End -> R] /\ \A q \in (p + 1) .. End : Ranges[q] = g[q]
      BY <2>1
    <3> HIDE DEF g
    <3>2. From(p, Ranges) \in R
      BY <1>2, <1>3, <3>1
    <3>3. QED
      BY <1>10, <3>2
  <2> HIDE DEF S
  <2>2. 1 .. End \subseteq S
    BY <1>1, <2>1, DescendingInduction
  <2>3. QED
    BY <2>2 DEF S
<1>12. QED
  BY <1>10, <1>11 DEF From, More, R

\* A class, without what negates it, is read to its close, if it has one.
LEMMA RangesReadQuoted ==
  ASSUME BodyOK
  PROVE  \A p \in 1 .. End :
           /\ Ranges[p].ok \in BOOLEAN
           /\ Quoted(p, "]") = IF Ranges[p].ok THEN {Ranges[p].next} ELSE {}
<1> DEFINE Same(p) == Quoted(p, "]") = IF Ranges[p].ok THEN {Ranges[p].next} ELSE {}
           S == {p \in 1 .. End : Same(p)}
<1>1. ASSUME NEW p \in 1 .. End, (p + 1) .. End \subseteq S PROVE Same(p)
  <2>1. CASE Peek(p) = "]"
    <3>1. Ranges[p] = Read({}, p + 1)
      BY <2>1, RangesAre
    <3>2. Quoted(p, "]") = {p + 1}
      BY <2>1, QuotedHere
    <3>3. Ranges[p].ok = TRUE /\ Ranges[p].next = p + 1
      BY <3>1 DEF Read
    <3>4. QED
      BY <3>2, <3>3
  <2>2. CASE Peek(p) # "]"
    <3> DEFINE high == HighOf(p)
               rest == Ranges[high.next]
    <3>1. Quoted(p, "]") = IF high.ok THEN Quoted(high.next, "]") ELSE {}
      BY <2>2, HighIs
    <3>2. Ranges[p] = IF high.ok /\ rest.ok
                     THEN Read({<<OneChar(p).value, high.value>>} \cup rest.value, rest.next)
                     ELSE Failed
      BY <2>2, RangesAre
    <3>3. high.ok \in BOOLEAN /\ (high.ok => high.next \in (p + 1) .. End)
      BY HighIs
    <3>4. high.ok => Same(high.next)
      BY <1>1, <3>3
    <3>5. CASE high.ok /\ rest.ok
      <4>1. Ranges[p].ok = TRUE /\ Ranges[p].next = rest.next
        <5> HIDE DEF high, rest
        <5>1. QED
          BY <3>2, <3>5 DEF Read
      <4>2. QED
        BY <3>1, <3>4, <3>5, <4>1
    <3>6. CASE ~(high.ok /\ rest.ok)
      <4>1. Ranges[p].ok = FALSE
        <5> HIDE DEF high, rest
        <5>1. QED
          BY <3>2, <3>6, ReadIs
      <4>2. QED
        BY <3>1, <3>4, <3>6, <4>1
    <3>7. QED
      BY <3>5, <3>6
  <2>3. QED
    BY <2>1, <2>2
<1>2. 1 .. End \subseteq S
  <2>1. \A p \in 1 .. End : (p + 1) .. End \subseteq S => p \in S
    BY <1>1
  <2> HIDE DEF S
  <2>2. QED
    BY <2>1, PeekIs, DescendingInduction
<1>3. QED
  BY <1>2, RangesAre, ReadsIs

-----------------------------------------------------------------------------
(* The chart. *)

\* The entries of a chart.
Ends == [tail : SUBSET (1 .. End), seq : SUBSET (1 .. End), alt : SUBSET (1 .. End)]

\* What can be read from p, told by the positions after it.
IsChart(c) ==
  /\ c \in [1 .. End -> Ends]
  /\ \A p \in 1 .. End : /\ c[p] = Entry(p, c)
                         /\ c[p].tail \subseteq p .. End
                         /\ c[p].seq \subseteq p .. End
                         /\ c[p].alt \subseteq p .. End

\* What a chart says of the positions from p on.
Told(c, p) ==
  \A q \in p .. End : /\ c[q] \in Ends
                      /\ c[q].tail \subseteq q .. End
                      /\ c[q].seq \subseteq q .. End
                      /\ c[q].alt \subseteq q .. End

\* A factor ends after where it begins, and an item does.
LEMMA FactorEndsRange ==
  ASSUME BodyOK, NEW p \in 1 .. End, NEW c, Told(c, p + 1)
  PROVE  FactorEnds(p, c) \subseteq p + 1 .. End
<1>1. CASE p = End
  <2>1. Peek(p) = "end"
    BY <1>1, PeekIs
  <2>2. DoubleQuote # "end" /\ "end" \notin NameStart
    BY QuoteIs DEF NameStart, Letter
  <2>3. FactorEnds(p, c) = {}
    BY <2>1, <2>2 DEF FactorEnds
  <2>4. QED
    BY <2>3
<1>2. CASE p # End
  <2>1. p + 1 \in 1 .. End
    BY <1>2, PeekIs
  <2>2. \A close : Quoted(p + 1, close) \subseteq p + 1 .. End
    <3>1. ASSUME NEW close PROVE Quoted(p + 1, close) \subseteq p + 2 .. End
      BY <2>1, QuotedRange
    <3>2. QED
      BY <3>1
  <2>3. Names(p) \subseteq p + 1 .. End
    BY DEF Names
  <2>4. {q + 1 : q \in {t \in c[p + 1].alt : Peek(t) = ")"}} \subseteq p + 1 .. End
    <3>1. ASSUME NEW t \in c[p + 1].alt, Peek(t) = ")" PROVE t + 1 \in p + 1 .. End
      <4>1. t \in p + 1 .. End
        BY <2>1, PeekIs DEF Told
      <4>2. t # End
        BY <3>1, <4>1, PeekIs
      <4>3. QED
        BY <4>1, <4>2, PeekIs
    <3>2. QED
      BY <3>1
  <2>5. QED
    BY <2>2, <2>3, <2>4 DEF FactorEnds
<1>3. QED
  BY <1>1, <1>2

LEMMA ItemEndsRange ==
  ASSUME BodyOK, NEW p \in 1 .. End, NEW c, Told(c, p + 1)
  PROVE  ItemEnds(p, c) \subseteq p + 1 .. End
<1>1. FactorEnds(p, c) \subseteq p + 1 .. End
  BY FactorEndsRange
<1>2. ASSUME NEW q \in p + 1 .. End PROVE Signed(q) \subseteq p + 1 .. End
  <2>1. CASE Peek(q) \in {"*", "+", "?"}
    <3>1. q # End
      BY <2>1, PeekIs
    <3>2. q + 1 \in p + 1 .. End
      BY <3>1, PeekIs
    <3>3. QED
      BY <3>2 DEF Signed
  <2>2. CASE Peek(q) \notin {"*", "+", "?"}
    BY <2>2 DEF Signed
  <2>3. QED
    BY <2>1, <2>2
<1>3. QED
  BY <1>1, <1>2 DEF ItemEnds

\* An entry has no other use for a chart than the positions after its own.
LEMMA EntryIs ==
  ASSUME BodyOK, NEW p \in 1 .. End, NEW c, Told(c, p + 1)
  PROVE  /\ Entry(p, c) \in Ends
         /\ Entry(p, c).tail \subseteq p .. End
         /\ Entry(p, c).seq \subseteq p .. End
         /\ Entry(p, c).alt \subseteq p .. End
<1> DEFINE items == UNION {c[q].tail : q \in ItemEnds(p, c)}
           blank == Peek(p) \in Space
           seq == items \cup (IF blank THEN c[p + 1].seq ELSE {})
           tail == {p} \cup items \cup (IF blank THEN c[p + 1].tail ELSE {})
           alt == seq \cup UNION {c[q + 1].alt : q \in {t \in seq : Peek(t) = "|"}}
<1>1. items \subseteq p .. End
  <2>1. ASSUME NEW q \in ItemEnds(p, c) PROVE c[q].tail \subseteq p .. End
    <3>1. q \in p + 1 .. End
      BY ItemEndsRange
    <3>2. c[q].tail \subseteq q .. End
      BY <3>1 DEF Told
    <3>3. QED
      BY <3>1, <3>2
  <2>2. QED
    BY <2>1
<1>2. blank => c[p + 1].seq \subseteq p .. End /\ c[p + 1].tail \subseteq p .. End
  <2>1. blank => p # End
    BY PeekIs DEF Space
  <2>2. blank => p + 1 \in p + 1 .. End
    BY <2>1, PeekIs
  <2> HIDE DEF blank
  <2>3. blank => c[p + 1].seq \subseteq p + 1 .. End /\ c[p + 1].tail \subseteq p + 1 .. End
    BY <2>2 DEF Told
  <2>4. QED
    BY <2>3
<1> HIDE DEF items, blank
<1>3. seq \subseteq p .. End /\ tail \subseteq p .. End
  <2>1. p \in p .. End
    BY PeekIs
  <2>2. CASE blank
    BY <1>1, <1>2, <2>1, <2>2
  <2>3. CASE ~blank
    BY <1>1, <2>1, <2>3
  <2>4. QED
    BY <2>2, <2>3
<1> HIDE DEF seq, tail
<1>4. alt \subseteq p .. End
  <2>1. ASSUME NEW t \in seq, Peek(t) = "|" PROVE c[t + 1].alt \subseteq p .. End
    <3>1. t \in p .. End /\ t # End
      BY <1>3, <2>1, PeekIs
    <3>2. t + 1 \in p + 1 .. End
      BY <3>1, PeekIs
    <3>3. c[t + 1].alt \subseteq t + 1 .. End
      BY <3>2 DEF Told
    <3>4. QED
      BY <3>2, <3>3
  <2>2. QED
    BY <1>3, <2>1
<1>5. Entry(p, c) = [tail |-> tail, seq |-> seq, alt |-> alt]
  BY DEF Entry, items, blank, seq, tail
<1> HIDE DEF alt
<1>6. QED
  BY <1>3, <1>4, <1>5 DEF Ends

\* Two charts that agree after p have the same entry at p.
LEMMA EntrySame ==
  ASSUME BodyOK, NEW p \in 1 .. End, NEW c, NEW d, Told(c, p + 1),
         \A q \in p + 1 .. End : c[q] = d[q]
  PROVE  Entry(p, c) = Entry(p, d)
<1>1. Peek(p) \in Space \cup {"("} => p + 1 \in p + 1 .. End
  <2>1. Peek(p) \in Space \cup {"("} => p # End
    BY PeekIs DEF Space
  <2>2. QED
    BY <2>1, PeekIs
<1>2. Peek(p) \in Space \cup {"("} => c[p + 1] = d[p + 1]
  BY <1>1
<1>3. FactorEnds(p, c) = FactorEnds(p, d)
  BY <1>2 DEF FactorEnds
<1>4. ItemEnds(p, c) = ItemEnds(p, d)
  BY <1>3 DEF ItemEnds
<1> DEFINE items(f) == UNION {f[q].tail : q \in ItemEnds(p, f)}
           blank == Peek(p) \in Space
           seq(f) == items(f) \cup (IF blank THEN f[p + 1].seq ELSE {})
           tail(f) == {p} \cup items(f) \cup (IF blank THEN f[p + 1].tail ELSE {})
           alt(f) == seq(f) \cup UNION {f[q + 1].alt : q \in {t \in seq(f) : Peek(t) = "|"}}
<1>5. items(c) = items(d)
  <2>1. \A q \in ItemEnds(p, c) : c[q] = d[q]
    BY ItemEndsRange
  <2>2. QED
    BY <1>4, <2>1
<1> HIDE DEF items
<1>6. seq(c) = seq(d) /\ tail(c) = tail(d)
  BY <1>2, <1>5
<1>7. alt(c) = alt(d)
  <2>1. \A t \in seq(c) : Peek(t) = "|" => t \in 1 .. End /\ t >= p
    <3>1. Entry(p, c).seq = seq(c)
      BY DEF Entry, items
    <3>2. QED
      BY <3>1, EntryIs
  <2>2. \A t \in seq(c) : Peek(t) = "|" => c[t + 1] = d[t + 1]
    <3>1. ASSUME NEW t \in seq(c), Peek(t) = "|" PROVE c[t + 1] = d[t + 1]
      <4>1. t \in 1 .. End /\ t >= p /\ t # End
        BY <2>1, <3>1, PeekIs
      <4>2. t + 1 \in p + 1 .. End
        BY <4>1, PeekIs
      <4>3. QED
        BY <4>2
    <3>2. QED
      BY <3>1
  <2> HIDE DEF seq
  <2>3. {c[q + 1].alt : q \in {t \in seq(c) : Peek(t) = "|"}}
          = {d[q + 1].alt : q \in {t \in seq(d) : Peek(t) = "|"}}
    BY <1>6, <2>2
  <2>4. QED
    BY <1>6, <2>3
<1>8. \A f : Entry(p, f) = [tail |-> tail(f), seq |-> seq(f), alt |-> alt(f)]
  BY DEF Entry, items
<1> HIDE DEF seq, tail, alt
<1>9. QED
  BY <1>6, <1>7, <1>8

\* The chart that is built position by position is one.
LEMMA ChartIs == BodyOK => IsChart(Chart[1])
<1> SUFFICES ASSUME BodyOK PROVE IsChart(Chart[1])
  OBVIOUS
<1> DEFINE blank(q) == [tail |-> {q}, seq |-> {}, alt |-> {}]
           Filled(g, p) == [q \in 1 .. End |-> IF q < p THEN blank(q) ELSE g[q]]
           From(p, g) == IF p = End THEN blank(p) ELSE Entry(p, Filled(g, p + 1))
           Domain == (1 .. End) \X UNION {[(p + 1) .. End -> Ends] : p \in 1 .. End}
           G == [a \in Domain |-> From(a[1], a[2])]
           T == [p \in 1 .. End |-> {r \in Ends : /\ r.tail \subseteq p .. End
                                                  /\ r.seq \subseteq p .. End
                                                  /\ r.alt \subseteq p .. End}]
           Defines(f) == f = [p \in 1 .. End |->
             IF p = End THEN [q \in 1 .. End |-> blank(q)]
             ELSE [f[p + 1] EXCEPT ![p] = Entry(p, f[p + 1])]]
<1>1. End \in Nat \ {0}
  BY PeekIs
<1>2. ASSUME NEW p \in 1 .. End, NEW g, \A q \in p + 1 .. End : g[q] \in T[q]
      PROVE  Told(Filled(g, p + 1), p + 1)
  <2>1. \A q \in p + 1 .. End : q \in 1 .. End /\ Filled(g, p + 1)[q] = g[q]
    OBVIOUS
  <2> HIDE DEF Filled
  <2>2. QED
    BY <1>2, <2>1 DEF Told
<1>3. ASSUME NEW p \in 1 .. End, NEW g, \A q \in p + 1 .. End : g[q] \in T[q]
      PROVE  From(p, g) \in T[p]
  <2>1. CASE p = End
    <3>1. blank(p) \in Ends /\ blank(p).tail \subseteq p .. End
          /\ blank(p).seq \subseteq p .. End /\ blank(p).alt \subseteq p .. End
      BY <1>1 DEF Ends
    <3> HIDE DEF blank
    <3>2. QED
      BY <2>1, <3>1
  <2>2. CASE p # End
    <3> HIDE DEF Filled
    <3>1. QED
      BY <1>2, <1>3, <2>2, EntryIs
  <2>3. QED
    BY <2>1, <2>2
<1> HIDE DEF From
<1>4. ASSUME NEW p \in 1 .. End, NEW g,
             g = Restrict(g, (p + 1) .. End), \A q \in (p + 1) .. End : g[q] \in T[q]
      PROVE  G[<<p, g>>] = From(p, g) /\ G[<<p, g>>] \in T[p]
  <2>1. \A q \in (p + 1) .. End : g[q] \in Ends
    <3>1. \A q \in (p + 1) .. End : q \in 1 .. End
      BY <1>1
    <3>2. \A q \in 1 .. End : T[q] \subseteq Ends
      OBVIOUS
    <3> HIDE DEF T
    <3>3. QED
      BY <1>4, <3>1, <3>2
  <2>2. g \in [(p + 1) .. End -> Ends]
    BY <1>4, <2>1 DEF Restrict
  <2>3. <<p, g>> \in Domain
    BY <2>2
  <2>4. G[<<p, g>>] = From(p, g)
    BY <2>3
  <2> HIDE DEF G, T
  <2>5. QED
    BY <1>3, <1>4, <2>4
<1>5. PICK e : SolvedBy(e, End, T, G)
  <2>1. Descends(End, T, G)
    <3> HIDE DEF G, T
    <3>1. QED
      BY <1>4 DEF Descends
  <2> HIDE DEF G, T
  <2>2. QED
    BY <1>1, <2>1, DescendingRecursion
<1>6. \A p \in 1 .. End : e[p] \in T[p]
  <2> HIDE DEF G, T
  <2>1. QED
    BY <1>5 DEF SolvedBy
<1>7. ASSUME NEW p \in 1 .. End PROVE Told(Filled(e, p), p)
  <2>1. \A q \in p .. End : q \in 1 .. End /\ Filled(e, p)[q] = e[q]
    OBVIOUS
  <2> HIDE DEF Filled
  <2>2. QED
    BY <1>6, <2>1 DEF Told
<1>8. ASSUME NEW p \in 1 .. End PROVE e[p] = From(p, e)
  <2> DEFINE g == Restrict(e, (p + 1) .. End)
  <2>1. \A q \in (p + 1) .. End : q \in 1 .. End /\ e[q] = g[q]
    BY <1>1 DEF Restrict
  <2>2. \A q \in (p + 1) .. End : g[q] \in T[q]
    <3> HIDE DEF T, g
    <3>1. QED
      BY <1>6, <2>1
  <2>3. g = Restrict(g, (p + 1) .. End)
    BY DEF Restrict
  <2>4. e[p] = G[<<p, g>>]
    BY <1>5 DEF SolvedBy
  <2>5. Filled(e, p + 1) = Filled(g, p + 1)
    <3> HIDE DEF g, blank
    <3>1. \A q \in 1 .. End : ~(q < p + 1) => q \in (p + 1) .. End
      OBVIOUS
    <3>2. QED
      BY <2>1, <3>1
  <2> HIDE DEF g, G, T, Filled
  <2>6. G[<<p, g>>] = From(p, g)
    BY <1>4, <2>2, <2>3
  <2>7. QED
    BY <2>4, <2>5, <2>6 DEF From
<1> DEFINE f == [p \in 1 .. End |-> Filled(e, p)]
<1>9. Defines(f)
  <2>1. ASSUME NEW p \in 1 .. End
        PROVE  f[p] = IF p = End THEN [q \in 1 .. End |-> blank(q)]
                      ELSE [f[p + 1] EXCEPT ![p] = Entry(p, f[p + 1])]
    <3>1. f[p] = Filled(e, p)
      OBVIOUS
    <3>2. CASE p = End
      <4>1. e[End] = blank(End)
        BY <1>8, <3>2 DEF From
      <4>2. \A q \in 1 .. End : q < End \/ q = End
        BY <1>1
      <4> HIDE DEF blank
      <4>3. QED
        BY <3>1, <3>2, <4>1, <4>2
    <3>3. CASE p # End
      <4>1. p + 1 \in 1 .. End
        BY <1>1, <3>3
      <4>2. f[p + 1] = Filled(e, p + 1)
        BY <4>1
      <4>3. e[p] = Entry(p, f[p + 1])
        BY <1>8, <3>3, <4>2 DEF From
      <4>4. [f[p + 1] EXCEPT ![p] = e[p]] = Filled(e, p)
        <5> HIDE DEF f, blank
        <5>1. [Filled(e, p + 1) EXCEPT ![p] = e[p]] = Filled(e, p)
          <6>1. \A q \in 1 .. End : q # p => (q < p + 1 <=> q < p)
            OBVIOUS
          <6>2. ~(p < p)
            OBVIOUS
          <6>3. \A q \in 1 .. End : [Filled(e, p + 1) EXCEPT ![p] = e[p]][q] = Filled(e, p)[q]
            BY <6>1, <6>2
          <6>4. QED
            BY <6>3
        <5>2. QED
          BY <4>2, <5>1
      <4> HIDE DEF f, Filled
      <4>5. QED
        BY <3>1, <3>3, <4>3, <4>4
    <3>4. QED
      BY <3>2, <3>3
  <2> DEFINE h(p) == IF p = End THEN [q \in 1 .. End |-> blank(q)]
                     ELSE [f[p + 1] EXCEPT ![p] = Entry(p, f[p + 1])]
  <2>2. \A p \in 1 .. End : f[p] = h(p)
    BY <2>1
  <2>3. f = [p \in 1 .. End |-> f[p]]
    <3> HIDE DEF Filled
    <3>1. QED
      OBVIOUS
  <2> HIDE DEF f
  <2>4. f = [p \in 1 .. End |-> h(p)]
    <3> HIDE DEF h
    <3>1. QED
      BY <2>2, <2>3
  <2>5. QED
    BY <2>4
<1>10. Chart = CHOOSE g : Defines(g)
  BY DEF Chart
<1>11. Defines(Chart)
  <2> HIDE DEF Defines
  <2>1. QED
    BY <1>9, <1>10
<1>12. \A p \in 1 .. End : Chart[p] = IF p = End THEN [q \in 1 .. End |-> blank(q)]
                                      ELSE [Chart[p + 1] EXCEPT ![p] = Entry(p, Chart[p + 1])]
  <2> DEFINE chart == Chart
  <2>1. chart = [p \in 1 .. End |-> IF p = End THEN [q \in 1 .. End |-> blank(q)]
                                    ELSE [chart[p + 1] EXCEPT ![p] = Entry(p, chart[p + 1])]]
    BY <1>11
  <2> HIDE DEF chart, blank
  <2>2. \A p \in 1 .. End : chart[p] = IF p = End THEN [q \in 1 .. End |-> blank(q)]
                                       ELSE [chart[p + 1] EXCEPT ![p] = Entry(p, chart[p + 1])]
    BY <2>1
  <2>3. QED
    BY <2>2 DEF chart
<1>13. \A p \in 1 .. End : f[p] = IF p = End THEN [q \in 1 .. End |-> blank(q)]
                                  ELSE [f[p + 1] EXCEPT ![p] = Entry(p, f[p + 1])]
  <2> HIDE DEF f, blank
  <2>1. QED
    BY <1>9
<1>14. Chart[1] = Filled(e, 1)
  <2> DEFINE S == {p \in 1 .. End : Chart[p] = f[p]}
  <2>1. ASSUME NEW p \in 1 .. End, (p + 1) .. End \subseteq S PROVE Chart[p] = f[p]
    <3>1. p # End => p + 1 \in (p + 1) .. End
      BY <1>1
    <3>2. p # End => Chart[p + 1] = f[p + 1]
      BY <2>1, <3>1
    <3> HIDE DEF f, blank
    <3>3. QED
      BY <1>12, <1>13, <3>2
  <2>2. \A p \in 1 .. End : (p + 1) .. End \subseteq S => p \in S
    BY <2>1
  <2> HIDE DEF S
  <2>3. 1 .. End \subseteq S
    BY <1>1, <2>2, DescendingInduction
  <2>4. 1 \in 1 .. End
    BY <1>1
  <2>5. Chart[1] = f[1]
    BY <2>3, <2>4 DEF S
  <2> HIDE DEF Filled
  <2>6. QED
    BY <2>4, <2>5
<1> DEFINE c == Filled(e, 1)
<1>15. Told(c, 1)
  BY <1>1, <1>7
<1>16. ASSUME NEW p \in 1 .. End PROVE c[p] = Entry(p, c)
  <2>1. c[p] = e[p] /\ \A q \in p + 1 .. End : Filled(e, p + 1)[q] = c[q]
    <3>1. \A q \in p + 1 .. End : q \in 1 .. End /\ ~(q < p + 1)
      OBVIOUS
    <3>2. \A q \in 1 .. End : ~(q < 1)
      OBVIOUS
    <3> HIDE DEF blank
    <3>3. QED
      BY <3>1, <3>2
  <2>2. CASE p = End
    <3>1. c[p] = blank(p)
      BY <1>8, <2>1, <2>2 DEF From
    <3>2. Told(c, p + 1)
      BY <2>2, <1>1 DEF Told
    <3>3. ItemEnds(p, c) = {}
      <4>1. ItemEnds(p, c) \subseteq p + 1 .. End
        BY <3>2, ItemEndsRange
      <4>2. QED
        BY <2>2, <1>1, <4>1
    <3>4. Peek(p) \notin Space
      BY <2>2, PeekIs DEF Space
    <3> HIDE DEF c
    <3>5. Entry(p, c) = [tail |-> {p}, seq |-> {}, alt |-> {}]
      BY <3>3, <3>4 DEF Entry
    <3>6. QED
      BY <3>1, <3>5
  <2>3. CASE p # End
    <3>1. p + 1 \in 1 .. End
      BY <1>1, <2>3
    <3> HIDE DEF Filled
    <3>2. Told(Filled(e, p + 1), p + 1)
      BY <1>7, <3>1
    <3>3. Entry(p, Filled(e, p + 1)) = Entry(p, c)
      BY <2>1, <3>2, EntrySame
    <3>4. QED
      BY <1>8, <2>1, <2>3, <3>3 DEF From
  <2>4. QED
    BY <2>2, <2>3
<1>17. c \in [1 .. End -> Ends]
  <2>1. c = [q \in 1 .. End |-> c[q]] /\ \A q \in 1 .. End : q \in 1 .. End /\ c[q] \in Ends
    BY <1>15 DEF Told
  <2> HIDE DEF c
  <2>2. QED
    BY <2>1
<1>18. QED
  <2> HIDE DEF c
  <2>1. \A p \in 1 .. End : c[p].tail \subseteq p .. End /\ c[p].seq \subseteq p .. End
                            /\ c[p].alt \subseteq p .. End
    BY <1>15 DEF Told
  <2>2. IsChart(c)
    BY <1>16, <1>17, <2>1 DEF IsChart
  <2>3. QED
    BY <1>14, <2>2 DEF c

\* There is one chart.
LEMMA OneChart ==
  ASSUME BodyOK, NEW c, IsChart(c), NEW d, IsChart(d)
  PROVE  c = d
<1> DEFINE S == {p \in 1 .. End : c[p] = d[p]}
<1>1. ASSUME NEW p \in 1 .. End, (p + 1) .. End \subseteq S PROVE p \in S
  <2>1. \A q \in p + 1 .. End : q \in 1 .. End /\ c[q] = d[q]
    BY <1>1
  <2>2. Told(c, p + 1)
    BY <2>1 DEF Told, IsChart
  <2>3. Entry(p, c) = Entry(p, d)
    BY <2>1, <2>2, EntrySame
  <2>4. QED
    BY <2>3 DEF IsChart
<1>2. 1 .. End \subseteq S
  <2> HIDE DEF S
  <2>1. QED
    BY <1>1, PeekIs, DescendingInduction
<1>3. \A p \in 1 .. End : c[p] = d[p]
  BY <1>2
<1> HIDE DEF S
<1>4. c = [p \in 1 .. End |-> c[p]] /\ d = [p \in 1 .. End |-> d[p]]
  BY DEF IsChart
<1>5. QED
  BY <1>3, <1>4

-----------------------------------------------------------------------------
(* Reaching a goal. *)

\* A goal is where the innermost of the calls can end.
IsGoal(goal) == goal \subseteq {q \in 1 .. End : Peek(q) \in {")", "end"}}

\* What an alternation that is under way can still read.
Onward(c, p) == c[p].tail \cup UNION {c[q + 1].alt : q \in {t \in c[p].tail : Peek(t) = "|"}}

\* The goal can be reached from where a branch begins, or after one of its items.
Starts(c, p, goal) == c[p].alt \cap goal # {}
Continues(c, p, goal) == Onward(c, p) \cap goal # {}

\* How a goal is reached from a position, by the positions after it.
LEMMA ReachIs ==
  ASSUME BodyOK, NEW c, IsChart(c), NEW p \in 1 .. End, NEW goal
  PROVE  /\ Starts(c, p, goal) <=> \/ \E q \in ItemEnds(p, c) : Continues(c, q, goal)
                                   \/ Peek(p) \in Space /\ Starts(c, p + 1, goal)
         /\ Continues(c, p, goal) <=> \/ p \in goal
                                      \/ Peek(p) = "|" /\ Starts(c, p + 1, goal)
                                      \/ \E q \in ItemEnds(p, c) : Continues(c, q, goal)
                                      \/ Peek(p) \in Space /\ Continues(c, p + 1, goal)
<1> DEFINE items == ItemEnds(p, c)
           blank == Peek(p) \in Space
           Past1(Q, x) == x \in Q \/ \E t \in Q : Peek(t) = "|" /\ x \in c[t + 1].alt
<1>1. \A n \in 1 .. End : \A t :
        t \in c[n].tail <=>
          \/ t = n
          \/ \E q \in ItemEnds(n, c) : t \in c[q].tail
          \/ Peek(n) \in Space /\ t \in c[n + 1].tail
  <2> SUFFICES ASSUME NEW n \in 1 .. End, NEW t
               PROVE  t \in c[n].tail <=>
                        \/ t = n
                        \/ \E q \in ItemEnds(n, c) : t \in c[q].tail
                        \/ Peek(n) \in Space /\ t \in c[n + 1].tail
    OBVIOUS
  <2>1. c[n] = Entry(n, c)
    BY DEF IsChart
  <2>2. Entry(n, c).tail = {n} \cup (UNION {c[q].tail : q \in ItemEnds(n, c)})
                               \cup (IF Peek(n) \in Space THEN c[n + 1].tail ELSE {})
    BY DEF Entry
  <2>3. QED
    BY <2>1, <2>2
<1>2. \A n \in 1 .. End : \A t :
        t \in c[n].seq <=>
          \/ \E q \in ItemEnds(n, c) : t \in c[q].tail
          \/ Peek(n) \in Space /\ t \in c[n + 1].seq
  <2> SUFFICES ASSUME NEW n \in 1 .. End, NEW t
               PROVE  t \in c[n].seq <=>
                        \/ \E q \in ItemEnds(n, c) : t \in c[q].tail
                        \/ Peek(n) \in Space /\ t \in c[n + 1].seq
    OBVIOUS
  <2>1. c[n] = Entry(n, c)
    BY DEF IsChart
  <2>2. Entry(n, c).seq = (UNION {c[q].tail : q \in ItemEnds(n, c)})
                            \cup (IF Peek(n) \in Space THEN c[n + 1].seq ELSE {})
    BY DEF Entry
  <2>3. QED
    BY <2>1, <2>2
<1>3. \A n \in 1 .. End : \A x : x \in c[n].alt <=> Past1(c[n].seq, x)
  <2> SUFFICES ASSUME NEW n \in 1 .. End PROVE \A x : x \in c[n].alt <=> Past1(c[n].seq, x)
    OBVIOUS
  <2>1. c[n] = Entry(n, c)
    BY DEF IsChart
  <2>2. Entry(n, c).alt = Entry(n, c).seq
          \cup UNION {c[q + 1].alt : q \in {t \in Entry(n, c).seq : Peek(t) = "|"}}
    BY DEF Entry
  <2>3. QED
    BY <2>1, <2>2
<1>4. \A n, x : x \in Onward(c, n) <=> Past1(c[n].tail, x)
  BY DEF Onward
<1>5. blank => p + 1 \in 1 .. End
  <2>1. blank => p # End
    BY PeekIs DEF Space
  <2>2. QED
    BY <2>1, PeekIs
<1>6. \A x : Past1(c[p].seq, x) <=>
                 \/ \E q \in items : Past1(c[q].tail, x)
                 \/ blank /\ Past1(c[p + 1].seq, x)
  BY <1>2
<1>7. \A x : Past1(c[p].tail, x) <=>
                 \/ x = p
                 \/ Peek(p) = "|" /\ x \in c[p + 1].alt
                 \/ \E q \in items : Past1(c[q].tail, x)
                 \/ blank /\ Past1(c[p + 1].tail, x)
  BY <1>1
<1> HIDE DEF Past1, items, blank
<1>8. Starts(c, p, goal) <=> \/ \E q \in items : Continues(c, q, goal)
                             \/ blank /\ Starts(c, p + 1, goal)
  <2>1. Starts(c, p, goal) <=> \E x \in goal : Past1(c[p].seq, x)
    BY <1>3 DEF Starts
  <2>2. blank => (Starts(c, p + 1, goal) <=> \E x \in goal : Past1(c[p + 1].seq, x))
    BY <1>3, <1>5 DEF Starts
  <2>3. \A q : Continues(c, q, goal) <=> \E x \in goal : Past1(c[q].tail, x)
    BY <1>4 DEF Continues
  <2>4. QED
    BY <1>6, <2>1, <2>2, <2>3
<1>9. Continues(c, p, goal) <=> \/ p \in goal
                                \/ Peek(p) = "|" /\ Starts(c, p + 1, goal)
                                \/ \E q \in items : Continues(c, q, goal)
                                \/ blank /\ Continues(c, p + 1, goal)
  <2>1. \A q : Continues(c, q, goal) <=> \E x \in goal : Past1(c[q].tail, x)
    BY <1>4 DEF Continues
  <2>2. Starts(c, p + 1, goal) <=> \E x \in goal : x \in c[p + 1].alt
    BY DEF Starts
  <2>3. QED
    BY <1>7, <2>1, <2>2
<1>10. QED
  BY <1>8, <1>9 DEF items, blank

\* A factor begins with one of these.
FactorStart == {DoubleQuote, "[", "("} \cup NameStart

\* What a factor begins with is none of the other characters.
LEMMA NoFactorStarts ==
  FactorStart \cap (Space \cup Digit \cup {"|", ")", "end", "*", "+", "?", "-"}) = {}
<1>1. DoubleQuote \notin Space \cup Digit \cup {"|", ")", "end", "*", "+", "?", "-"}
  BY QuoteIs DEF NameChar
<1>2. ({"[", "("} \cup NameStart) \cap (Space \cup Digit \cup {"|", ")", "end", "*", "+", "?", "-"}) = {}
  BY DEF NameStart, Letter, Space, Digit
<1>3. QED
  BY <1>1, <1>2 DEF FactorStart

\* Without a factor there is no item.
LEMMA NoItem ==
  ASSUME NEW p, NEW c, Peek(p) \notin FactorStart
  PROVE  ItemEnds(p, c) = {}
<1>1. FactorEnds(p, c) = {}
  BY DEF FactorEnds, FactorStart
<1>2. QED
  BY <1>1 DEF ItemEnds

\* A sign is read with the factor before it.
AfterSign(q) == IF Peek(q) \in {"*", "+", "?"} THEN q + 1 ELSE q

\* What is no factor: white space, the end of a branch or of a call, and what
\* cannot be there at all.
LEMMA NoFactorIs ==
  ASSUME BodyOK, NEW c, IsChart(c), NEW p \in 1 .. End, NEW goal, IsGoal(goal),
         Peek(p) \notin FactorStart
  PROVE  /\ Peek(p) \in Space => /\ p + 1 \in 1 .. End
                                 /\ Starts(c, p, goal) <=> Starts(c, p + 1, goal)
                                 /\ Continues(c, p, goal) <=> Continues(c, p + 1, goal)
         /\ Peek(p) \notin Space => ~Starts(c, p, goal)
         /\ Peek(p) = "|" => /\ p + 1 \in 1 .. End
                             /\ Continues(c, p, goal) <=> Starts(c, p + 1, goal)
         /\ Peek(p) \in {")", "end"} => (Continues(c, p, goal) <=> p \in goal)
         /\ Peek(p) \notin Space \cup {"|", ")", "end"} => ~Continues(c, p, goal)
<1>1. ItemEnds(p, c) = {}
  BY NoItem
<1>2. /\ Starts(c, p, goal) <=> Peek(p) \in Space /\ Starts(c, p + 1, goal)
      /\ Continues(c, p, goal) <=> \/ p \in goal
                                   \/ Peek(p) = "|" /\ Starts(c, p + 1, goal)
                                   \/ Peek(p) \in Space /\ Continues(c, p + 1, goal)
  BY <1>1, ReachIs
<1>3. p \in goal => Peek(p) \in {")", "end"}
  BY DEF IsGoal
<1>4. Peek(p) # "end" => p + 1 \in 1 .. End
  BY PeekIs
<1>5. Space \cap {"|", ")", "end"} = {}
  BY DEF Space
<1>6. QED
  BY <1>2, <1>3, <1>4, <1>5

\* White space makes no difference.
LEMMA SkipWsIs ==
  ASSUME BodyOK, NEW c, IsChart(c), NEW p \in 1 .. End, NEW goal, IsGoal(goal)
  PROVE  /\ SkipWs(p) \in p .. End /\ Peek(SkipWs(p)) \notin Space
         /\ Starts(c, p, goal) <=> Starts(c, SkipWs(p), goal)
         /\ Continues(c, p, goal) <=> Continues(c, SkipWs(p), goal)
<1> DEFINE m == SkipWs(p)
           Same(q) == /\ Starts(c, q, goal) <=> Starts(c, m, goal)
                      /\ Continues(c, q, goal) <=> Continues(c, m, goal)
           S == {q \in 1 .. m : q >= p => Same(q)}
<1>1. m \in p .. End /\ Peek(m) \notin Space /\ \A i \in p .. m - 1 : Peek(i) \in Space
  BY PastIs DEF SkipWs, Space
<1> HIDE DEF m
<1>2. \A q \in p .. m - 1 : q \in 1 .. End /\ Peek(q) \in Space
  BY <1>1, PeekIs
<1>3. \A q \in p .. m - 1 : /\ Starts(c, q, goal) <=> Starts(c, q + 1, goal)
                            /\ Continues(c, q, goal) <=> Continues(c, q + 1, goal)
  <2>1. \A x \in Space : x \notin FactorStart
    BY NoFactorStarts
  <2>2. QED
    BY <1>2, <2>1, NoFactorIs
<1>4. ASSUME NEW q \in 1 .. m, (q + 1) .. m \subseteq S PROVE q \in S
  <2>1. CASE q < p
    BY <2>1
  <2>2. CASE q = m
    BY <2>2
  <2>3. CASE q >= p /\ q # m
    <3>1. q \in p .. m - 1 /\ q + 1 \in (q + 1) .. m /\ q + 1 >= p
      BY <1>1, <2>3
    <3>2. Same(q + 1)
      BY <1>4, <3>1
    <3>3. Same(q)
      BY <1>3, <3>1, <3>2
    <3> HIDE DEF Same
    <3>4. QED
      BY <3>3
  <2>4. QED
    BY <1>1, <2>1, <2>2, <2>3
<1>5. 1 .. m \subseteq S
  <2> HIDE DEF S
  <2>1. m \in Nat
    BY <1>1
  <2>2. QED
    BY <1>4, <2>1, DescendingInduction
<1>6. p \in S
  BY <1>1, <1>5
<1>7. QED
  BY <1>1, <1>6 DEF m

\* A sign of repetition is read where there is one: nothing else could read it.
LEMMA SignedIs ==
  ASSUME BodyOK, NEW c, IsChart(c), NEW q \in 1 .. End, NEW goal, IsGoal(goal)
  PROVE  /\ (\E r \in Signed(q) : Continues(c, r, goal)) <=> Continues(c, AfterSign(q), goal)
         /\ AfterSign(q) \in q .. End
<1>1. CASE Peek(q) \in {"*", "+", "?"}
  <2>1. Peek(q) \notin FactorStart /\ Peek(q) \notin Space \cup {"|", ")", "end"}
    BY <1>1, NoFactorStarts DEF Space
  <2>2. ~Continues(c, q, goal)
    BY <2>1, NoFactorIs
  <2>3. q + 1 \in q .. End
    BY <2>1, PeekIs
  <2>4. QED
    BY <1>1, <2>2, <2>3 DEF Signed, AfterSign
<1>2. CASE Peek(q) \notin {"*", "+", "?"}
  BY <1>2, PeekIs DEF Signed, AfterSign
<1>3. QED
  BY <1>1, <1>2

\* A factor leads to where it can end.
LEMMA FactorIs ==
  ASSUME BodyOK, NEW c, IsChart(c), NEW p \in 1 .. End, NEW goal, IsGoal(goal),
         Peek(p) \in FactorStart
  PROVE  /\ Starts(c, p, goal) <=>
              \E q \in FactorEnds(p, c) : Continues(c, AfterSign(q), goal)
         /\ Continues(c, p, goal) <=> Starts(c, p, goal)
<1>1. Peek(p) \notin Space \cup {"|", ")", "end"}
  BY NoFactorStarts
<1>2. p \notin goal
  BY <1>1 DEF IsGoal
<1>3. /\ Starts(c, p, goal) <=> \E q \in ItemEnds(p, c) : Continues(c, q, goal)
      /\ Continues(c, p, goal) <=> \E q \in ItemEnds(p, c) : Continues(c, q, goal)
  BY <1>1, <1>2, ReachIs
<1>4. FactorEnds(p, c) \subseteq 1 .. End
  <2>1. Told(c, p + 1)
    <3>1. \A q \in p + 1 .. End : q \in 1 .. End
      OBVIOUS
    <3>2. QED
      BY <3>1 DEF Told, IsChart
  <2>2. FactorEnds(p, c) \subseteq p + 1 .. End
    BY <2>1, FactorEndsRange
  <2>3. QED
    BY <2>2
<1>5. (\E q \in ItemEnds(p, c) : Continues(c, q, goal))
        <=> \E q \in FactorEnds(p, c) : \E r \in Signed(q) : Continues(c, r, goal)
  BY DEF ItemEnds
<1>6. \A q \in FactorEnds(p, c) :
        (\E r \in Signed(q) : Continues(c, r, goal)) <=> Continues(c, AfterSign(q), goal)
  BY <1>4, SignedIs
<1>7. QED
  BY <1>3, <1>5, <1>6

\* The parenthesis that is opened at p closes where its call can end.
Inner(c, goal) == {q \in 1 .. End : Peek(q) = ")" /\ Continues(c, AfterSign(q + 1), goal)}

\* A parenthesis leads to the goal if what is in it leads to the end of it.
LEMMA GroupIs ==
  ASSUME BodyOK, NEW c, IsChart(c), NEW p \in 1 .. End, NEW goal, IsGoal(goal), Peek(p) = "("
  PROVE  /\ p + 1 \in 1 .. End /\ IsGoal(Inner(c, goal))
         /\ Starts(c, p, goal) <=> Starts(c, p + 1, Inner(c, goal))
         /\ Continues(c, p, goal) <=> Starts(c, p + 1, Inner(c, goal))
<1>1. p + 1 \in 1 .. End
  BY PeekIs
<1>2. FactorEnds(p, c) = {q + 1 : q \in {t \in c[p + 1].alt : Peek(t) = ")"}}
  <2>1. Peek(p) # DoubleQuote /\ Peek(p) # "[" /\ Peek(p) \notin NameStart
    BY QuoteIs DEF NameStart, Letter
  <2>2. QED
    BY <2>1 DEF FactorEnds
<1>3. c[p + 1].alt \subseteq 1 .. End
  BY <1>1 DEF IsChart
<1>4. (\E q \in FactorEnds(p, c) : Continues(c, AfterSign(q), goal))
        <=> c[p + 1].alt \cap Inner(c, goal) # {}
  BY <1>2, <1>3 DEF Inner
<1>5. Peek(p) \in FactorStart
  BY DEF FactorStart
<1>6. IsGoal(Inner(c, goal))
  BY DEF IsGoal, Inner
<1>7. QED
  BY <1>1, <1>4, <1>5, <1>6, FactorIs DEF Starts

\* A name is read to its end: what is left of it would be no item, or another name.
LEMMA NameIs ==
  ASSUME BodyOK, NEW c, IsChart(c), NEW p \in 1 .. End, NEW goal, IsGoal(goal),
         Peek(p) \in NameStart
  PROVE  LET m == Past(p, NameChar)
         IN /\ m \in p + 1 .. End
            /\ Starts(c, p, goal) <=> Continues(c, AfterSign(m), goal)
            /\ Continues(c, p, goal) <=> Continues(c, AfterSign(m), goal)
<1> DEFINE m == Past(p, NameChar)
<1>1. NameStart \subseteq NameChar /\ "end" \notin NameChar
  BY DEF NameChar, NameStart, Letter, Digit
<1>2. m \in p .. End /\ Peek(m) \notin NameChar /\ \A i \in p .. m - 1 : Peek(i) \in NameChar
  BY <1>1, PastIs
<1>3. m \in p + 1 .. End
  <2>1. m # p
    BY <1>1, <1>2
  <2>2. QED
    BY <1>2, <2>1
<1> HIDE DEF m
<1>4. \A q \in p .. m - 1 : q \in 1 .. End /\ q \in 1 .. Len(body) /\ Peek(q) = body[q]
  BY <1>2, PeekIs
\* From inside the name, only its end is reached.
<1>5. ASSUME NEW q \in p .. m - 1
      PROVE  \A r : r \in Names(q) <=> r \in q + 1 .. m
  <2>1. ASSUME NEW r \in Names(q) PROVE r \in q + 1 .. m
    <3>1. r \in q + 1 .. End /\ \A i \in q .. r - 1 : body[i] \in NameChar
      BY <2>1 DEF Names
    <3>2. ~(m \in q .. r - 1)
      <4>1. m \in q .. r - 1 => m \in 1 .. Len(body)
        BY <1>2, <3>1, PeekIs
      <4>2. m \in 1 .. Len(body) => Peek(m) = body[m]
        BY PeekIs
      <4>3. QED
        BY <1>2, <3>1, <4>1, <4>2
    <3>3. QED
      BY <1>2, <3>1, <3>2
  <2>2. ASSUME NEW r \in q + 1 .. m PROVE r \in Names(q)
    <3>1. r \in q + 1 .. End
      BY <1>2, PeekIs
    <3>2. \A i \in q .. r - 1 : i \in p .. m - 1
      BY <1>2
    <3>3. \A i \in q .. r - 1 : body[i] \in NameChar
      BY <1>2, <1>4, <3>2
    <3>4. QED
      BY <3>1, <3>3 DEF Names
  <2>3. QED
    BY <2>1, <2>2
<1> DEFINE Ok(q) == Continues(c, AfterSign(q), goal)
<1>6. ASSUME NEW q \in p .. m - 1, Peek(q) \in NameStart
      PROVE  /\ Starts(c, q, goal) <=> \E r \in q + 1 .. m : Ok(r)
             /\ Continues(c, q, goal) <=> \E r \in q + 1 .. m : Ok(r)
  <2>1. Peek(q) \in FactorStart
    BY <1>6 DEF FactorStart
  <2>2. FactorEnds(q, c) = Names(q)
    <3>1. Peek(q) # DoubleQuote
      BY <1>1, <1>6, QuoteIs
    <3>2. Peek(q) # "[" /\ Peek(q) # "("
      BY <1>6 DEF NameStart, Letter
    <3>3. QED
      BY <1>6, <3>1, <3>2 DEF FactorEnds
  <2>3. q \in 1 .. End
    BY <1>4
  <2>4. QED
    BY <1>5, <2>1, <2>2, <2>3, FactorIs
<1>7. ASSUME NEW q \in p .. m - 1, Peek(q) \notin NameStart PROVE ~Ok(q)
  <2>1. Peek(q) \in Digit \cup {"-"}
    BY <1>2, <1>7 DEF NameChar
  <2>2. Peek(q) \notin FactorStart /\ Peek(q) \notin Space \cup {"|", ")", "end", "*", "+", "?"}
    <3>1. (Digit \cup {"-"}) \cap (Space \cup {"|", ")", "end", "*", "+", "?"}) = {}
      BY DEF Digit, Space
    <3>2. QED
      BY <2>1, <3>1, NoFactorStarts
  <2>3. ~Continues(c, q, goal)
    BY <1>4, <2>2, NoFactorIs
  <2>4. AfterSign(q) = q
    BY <2>2 DEF AfterSign
  <2>5. QED
    BY <2>3, <2>4
<1>8. ASSUME NEW q \in p .. m - 1, Peek(q) \in NameStart PROVE AfterSign(q) = q
  BY <1>8 DEF AfterSign, NameStart, Letter
<1> DEFINE S == {q \in 1 .. m : q > p => (Ok(q) => Ok(m))}
<1> HIDE DEF Ok
<1>9. ASSUME NEW q \in 1 .. m, (q + 1) .. m \subseteq S PROVE q \in S
  <2>1. CASE q <= p
    BY <1>3, <2>1
  <2>2. CASE q = m
    BY <2>2
  <2>3. CASE q > p /\ q # m /\ Ok(q)
    <3>1. q \in p .. m - 1
      BY <1>3, <2>3
    <3>2. Peek(q) \in NameStart
      BY <1>7, <2>3, <3>1
    <3>3. Continues(c, q, goal)
      BY <1>8, <2>3, <3>1, <3>2 DEF Ok
    <3>4. PICK r \in q + 1 .. m : Ok(r)
      BY <1>6, <3>1, <3>2, <3>3
    <3>5. Ok(m)
      BY <1>3, <1>9, <2>3, <3>4
    <3>6. QED
      BY <3>5
  <2>4. CASE q > p /\ q # m /\ ~Ok(q)
    BY <2>4
  <2>5. QED
    BY <1>3, <2>1, <2>2, <2>3, <2>4
<1>10. 1 .. m \subseteq S
  <2> HIDE DEF S
  <2>1. m \in Nat
    BY <1>3
  <2>2. QED
    BY <1>9, <2>1, DescendingInduction
<1>11. (\E r \in p + 1 .. m : Ok(r)) <=> Ok(m)
  BY <1>3, <1>10
<1>12. p \in p .. m - 1
  BY <1>3
<1>13. QED
  BY <1>3, <1>6, <1>11, <1>12 DEF Ok, m

\* A factor that is no group is read to where it leads to the goal, and the parser
\* fails where nothing does.
LEMMA ParseFactorIs ==
  ASSUME BodyOK, NEW c, IsChart(c), NEW p \in 1 .. End, NEW goal, IsGoal(goal)
  PROVE  LET f == ParseFactor(p)
         IN /\ f.ok \in BOOLEAN
            /\ f.ok => /\ f.next \in p + 1 .. End /\ Peek(p) \in FactorStart
                       /\ Starts(c, p, goal) <=> Continues(c, AfterSign(f.next), goal)
                       /\ Continues(c, p, goal) <=> Continues(c, AfterSign(f.next), goal)
            /\ ~f.ok /\ Peek(p) \notin Space \cup {"(", "|", ")", "end"}
                 => ~Starts(c, p, goal) /\ ~Continues(c, p, goal)
<1> DEFINE f == ParseFactor(p)
           Right == /\ f.ok \in BOOLEAN
                    /\ f.ok => /\ f.next \in p + 1 .. End /\ Peek(p) \in FactorStart
                               /\ Starts(c, p, goal) <=> Continues(c, AfterSign(f.next), goal)
                               /\ Continues(c, p, goal) <=> Continues(c, AfterSign(f.next), goal)
                    /\ ~f.ok /\ Peek(p) \notin Space \cup {"(", "|", ")", "end"}
                         => ~Starts(c, p, goal) /\ ~Continues(c, p, goal)
<1> SUFFICES Right
  OBVIOUS
<1>1. /\ Peek(p) = DoubleQuote => Peek(p) # "[" /\ Peek(p) # "(" /\ Peek(p) \notin NameStart
      /\ Peek(p) = "[" => Peek(p) # "(" /\ Peek(p) \notin NameStart
      /\ Peek(p) = "(" => Peek(p) \notin NameStart
  <2>1. Peek(p) = DoubleQuote => Peek(p) # "[" /\ Peek(p) # "(" /\ Peek(p) \notin NameStart
    BY QuoteIs DEF NameChar
  <2>2. {"[", "("} \cap NameStart = {}
    BY DEF NameStart, Letter
  <2>3. QED
    BY <2>1, <2>2
\* What is quoted, and a factor that is read to its close.
<1>2. ASSUME NEW ends, FactorEnds(p, c) = ends, NEW read, read.ok \in BOOLEAN,
             ends = IF read.ok THEN {read.next} ELSE {}, ends \subseteq p + 1 .. End,
             f.ok = read.ok, f.ok => f.next = read.next,
             Peek(p) \in FactorStart
      PROVE  Right
  <2> HIDE DEF f
  <2>1. Starts(c, p, goal) <=> \E q \in ends : Continues(c, AfterSign(q), goal)
    BY <1>2, FactorIs
  <2>2. Continues(c, p, goal) <=> Starts(c, p, goal)
    BY <1>2, FactorIs
  <2>3. QED
    BY <1>2, <2>1, <2>2
<1>3. \A node, read : read.ok \in BOOLEAN =>
        /\ As(node, read).ok = read.ok
        /\ read.ok => As(node, read).next = read.next
  BY DEF As, Read, Failed
<1>4. CASE Peek(p) = DoubleQuote
  <2>1. p + 1 \in 1 .. End
    BY <1>4, QuoteIs, PeekIs
  <2>2. FactorEnds(p, c) = Quoted(p + 1, DoubleQuote)
    BY <1>1, <1>4 DEF FactorEnds
  <2>3. f = As(Lit(Literal[p + 1].value), Literal[p + 1])
    BY <1>1, <1>4 DEF ParseFactor, ParseLiteral
  <2> DEFINE read == Literal[p + 1]
             ends == Quoted(p + 1, DoubleQuote)
  <2>4. read.ok \in BOOLEAN /\ ends = IF read.ok THEN {read.next} ELSE {}
    BY <2>1, LiteralReadsQuoted
  <2>5. ends \subseteq p + 1 .. End
    <3>1. ends \subseteq (p + 1) + 1 .. End
      BY <2>1, QuotedRange
    <3>2. QED
      BY <3>1
  <2>6. Peek(p) \in FactorStart
    BY <1>4 DEF FactorStart
  <2> HIDE DEF read, ends, f, Right
  <2>7. f.ok = read.ok /\ (f.ok => f.next = read.next)
    BY <1>3, <2>3, <2>4 DEF read
  <2>8. FactorEnds(p, c) = ends
    BY <2>2 DEF ends
  <2>9. QED
    BY <1>2, <2>4, <2>5, <2>6, <2>7, <2>8
<1>5. CASE Peek(p) = "["
  <2> DEFINE negated == Peek(p + 1) = "^"
             from == IF negated THEN p + 2 ELSE p + 1
             read == Ranges[from]
             ends == Quoted(p + 1, "]")
  <2>1. p + 1 \in 1 .. End
    BY <1>5, PeekIs
  <2>2. FactorEnds(p, c) = ends
    BY <1>1, <1>5 DEF FactorEnds
  <2>3. f = As(Class(read.value, negated), read)
    BY <1>1, <1>5 DEF ParseFactor, ParseClass
  <2>4. from \in 1 .. End /\ Quoted(from, "]") = ends
    <3>1. CASE negated
      <4>1. p + 1 # End /\ p + 2 \in 1 .. End
        BY <2>1, <3>1, PeekIs
      <4>2. OneChar(p + 1).ok /\ OneChar(p + 1).next = p + 2
        BY <2>1, <3>1, <4>1, OneCharIs
      <4>3. Quoted(p + 1, "]") = Quoted(p + 2, "]")
        BY <2>1, <3>1, <4>2, QuotedStep
      <4>4. QED
        BY <3>1, <4>1, <4>3
    <3>2. CASE ~negated
      BY <2>1, <3>2
    <3>3. QED
      BY <3>1, <3>2
  <2>5. read.ok \in BOOLEAN /\ ends = IF read.ok THEN {read.next} ELSE {}
    <3> HIDE DEF from, ends
    <3>1. QED
      BY <2>4, RangesReadQuoted
  <2>6. ends \subseteq p + 1 .. End
    <3>1. ends \subseteq (p + 1) + 1 .. End
      BY <2>1, QuotedRange
    <3>2. QED
      BY <3>1
  <2>7. Peek(p) \in FactorStart
    BY <1>5 DEF FactorStart
  <2> HIDE DEF read, ends, f, Right
  <2>8. f.ok = read.ok /\ (f.ok => f.next = read.next)
    BY <1>3, <2>3, <2>5
  <2>9. QED
    BY <1>2, <2>2, <2>5, <2>6, <2>7, <2>8
<1>6. CASE Peek(p) \in NameStart
  <2>1. f = ParseRef(p)
    BY <1>1, <1>6 DEF ParseFactor
  <2>2. f.ok = TRUE /\ f.next = Past(p, NameChar)
    BY <2>1 DEF ParseRef, Read
  <2>3. Peek(p) \in FactorStart
    BY <1>6 DEF FactorStart
  <2> HIDE DEF f
  <2>4. QED
    BY <1>6, <2>2, <2>3, NameIs
<1>7. CASE Peek(p) # DoubleQuote /\ Peek(p) # "[" /\ Peek(p) \notin NameStart
  <2>1. f = Failed
    BY <1>7 DEF ParseFactor
  <2>2. f.ok = FALSE
    BY <2>1 DEF Failed
  <2>3. Peek(p) # "(" => Peek(p) \notin FactorStart
    BY <1>7 DEF FactorStart
  <2> HIDE DEF f
  <2>4. QED
    BY <2>2, <2>3, NoFactorIs
<1>8. QED
  BY <1>4, <1>5, <1>6, <1>7

-----------------------------------------------------------------------------
(* The steps. *)

\* What is cut out of a line has no other characters than the line.
LEMMA CutIs ==
  ASSUME NEW C, NEW s \in Seq(C), NEW x
  PROVE  Trimmed(s) \in Seq(C) /\ Before(s, x) \in Seq(C) /\ After(s, x) \in Seq(C)
<1>1. \A m \in 1 .. Len(s) + 1 : \A n \in m - 1 .. Len(s) : SubSeq(s, m, n) \in Seq(C)
  BY SubSeqProperties
<1>2. Trimmed(s) \in Seq(C)
  <2> DEFINE black == {i \in DOMAIN s : s[i] \notin Space}
  <2>1. CASE black = {}
    BY <2>1 DEF Trimmed
  <2>2. CASE black # {}
    <3>1. black \in SUBSET Nat /\ black \in SUBSET (0 .. Len(s)) /\ black \in SUBSET (1 .. Len(s)) /\ Len(s) \in Nat
      OBVIOUS
    <3> DEFINE m == Min(black)
               n == Max(black)
    <3>2. m \in black /\ n \in black /\ m <= n
      <4> HIDE DEF black
      <4>1. m \in black /\ \A i \in black : m <= i
        BY <2>2, <3>1, MinIsLeast
      <4>2. n \in black
        BY <2>2, <3>1, MaxIsGreatest
      <4>3. QED
        BY <4>1, <4>2
    <3>3. Trimmed(s) = SubSeq(s, m, n)
      BY <2>2 DEF Trimmed
    <3> HIDE DEF m, n, black
    <3>4. QED
      BY <1>1, <3>1, <3>2, <3>3
  <2>3. QED
    BY <2>1, <2>2
<1>3. Before(s, x) \in Seq(C) /\ Len(Before(s, x)) \in 0 .. Len(s)
  <2>1. CASE Contains(s, x)
    <3> DEFINE hits == {i \in 1 .. Len(s) : s[i] = x}
               m == Min(hits)
    <3>1. hits # {} /\ hits \in SUBSET Nat
      BY <2>1 DEF Contains
    <3>2. m \in hits
      <4> HIDE DEF hits
      <4>1. QED
        BY <3>1, MinIsLeast
    <3>3. Before(s, x) = SubSeq(s, 1, m - 1)
      BY <2>1, <3>1 DEF Before, SelectInSeq
    <3> HIDE DEF m
    <3>4. m - 1 \in 0 .. Len(s) /\ 1 \in 1 .. Len(s) + 1
      BY <3>2
    <3>5. QED
      BY <3>3, <3>4, SubSeqProperties
  <2>2. CASE ~Contains(s, x)
    BY <2>2 DEF Before
  <2>3. QED
    BY <2>1, <2>2
<1>4. After(s, x) \in Seq(C)
  <2> DEFINE b == Len(Before(s, x))
  <2>1. CASE b = Len(s)
    <3>1. After(s, x) = SubSeq(s, Len(s) + 2, Len(s))
      BY <2>1 DEF After
    <3>2. SubSeq(s, Len(s) + 2, Len(s)) = <<>>
      BY SubSeqEmpty
    <3>3. QED
      BY <3>1, <3>2
  <2>2. CASE b # Len(s)
    <3>1. b + 2 \in 1 .. Len(s) + 1 /\ Len(s) \in (b + 2) - 1 .. Len(s)
      BY <1>3, <2>2
    <3>2. QED
      BY <1>1, <3>1 DEF After
  <2>3. QED
    BY <2>1, <2>2
<1>5. QED
  BY <1>2, <1>3, <1>4

\* The call under way, with goals for it and the calls around it.
IsGoals(goals, c, n) ==
  /\ goals[0] = {End}
  /\ \A d \in 0 .. n - 1 : goals[d + 1] = Inner(c, goals[d])

\* Every call that is under way has a goal.
LEMMA GoalsAre ==
  ASSUME BodyOK, NEW c, NEW n \in Nat, NEW goals, IsGoals(goals, c, n), NEW d \in 0 .. n
  PROVE  IsGoal(goals[d])
<1>1. CASE d = 0
  BY <1>1, PeekIs DEF IsGoals, IsGoal
<1>2. CASE d # 0
  <2>1. d - 1 \in 0 .. n - 1 /\ (d - 1) + 1 = d
    BY <1>2
  <2>2. goals[d] = Inner(c, goals[d - 1])
    BY <2>1 DEF IsGoals
  <2>3. QED
    BY <2>2 DEF IsGoal, Inner
<1>3. QED
  BY <1>1, <1>2

\* The body can be completed as it has been read so far.
Hope(c, goal) == IF Top.items = <<>> THEN Starts(c, pos, goal) ELSE Continues(c, pos, goal)

\* A body is well-formed as long as there is hope for it.
Sound(c) ==
  /\ IsChart(c)
  /\ stage = "parsing" =>
       \E goals : /\ IsGoals(goals, c, Len(open) - 1)
                  /\ End \in c[1].alt <=> Hope(c, goals[Len(open) - 1])
  /\ stage = "refused" /\ open # <<>> => End \notin c[1].alt
  /\ stage = "reading" /\ body # <<>> => End \in c[1].alt

\* A call under way: its branches and its items.
Frame(S) == [branches : Seq(S), items : Seq(S)]

\* The inductive invariant: at every step the body can still be completed exactly
\* if it is well-formed.
ParserInv ==
  /\ source \in Sources /\ line \in Nat \ {0}
  /\ BodyOK /\ pos \in 1 .. End
  /\ \E S : open \in Seq(Frame(S))
  /\ stage = "reading" => open = <<>>
  /\ stage = "parsing" => open # <<>>
  /\ \E c : Sound(c)

\* What is said of a body is said of it until the next one.
LEMMA BodyStays ==
  ASSUME body' = body
  PROVE  /\ BodyOK' <=> BodyOK
         /\ End' = End
         /\ \A p : Peek(p)' = Peek(p)
         /\ \A c : IsChart(c)' <=> IsChart(c)
         /\ \A c, p, goal : Continues(c, p, goal)' <=> Continues(c, p, goal)
         /\ \A goals, c, n : IsGoals(goals, c, n)' <=> IsGoals(goals, c, n)
<1>1. End' = End
  BY DEF End
<1>2. \A p : Peek(p)' = Peek(p)
  BY <1>1 DEF Peek
<1>3. \A p, close : Quoted(p, close)' = Quoted(p, close)
  <2>1. \A p, q : Escaped(p, q)' <=> Escaped(p, q)
    BY DEF Escaped
  <2>2. \A p, close : Closes(p, close)' = Closes(p, close)
    BY <2>1 DEF Closes
  <2>3. QED
    BY <2>2 DEF Quoted
<1>4. \A p : Names(p)' = Names(p)
  BY <1>1 DEF Names
<1>5. \A p, c : FactorEnds(p, c)' = FactorEnds(p, c)
  BY <1>2, <1>3, <1>4 DEF FactorEnds
<1>6. \A p : Signed(p)' = Signed(p)
  BY <1>2 DEF Signed
<1>7. \A p, c : ItemEnds(p, c)' = ItemEnds(p, c)
  BY <1>5, <1>6 DEF ItemEnds
<1>8. ASSUME NEW p, NEW c PROVE Entry(p, c)' = Entry(p, c)
  <2>1. ItemEnds(p, c)' = ItemEnds(p, c) /\ Peek(p)' = Peek(p)
    BY <1>2, <1>7
  <2>2. \A s : {q \in s : Peek(q)' = "|"} = {q \in s : Peek(q) = "|"}
    BY <1>2
  <2>3. QED
    BY <2>1, <2>2 DEF Entry
<1>9. Ends' = Ends
  BY <1>1 DEF Ends
<1>10. \A c : IsChart(c)' <=> IsChart(c)
  BY <1>1, <1>8, <1>9 DEF IsChart
<1>11. \A c, p : Onward(c, p)' = Onward(c, p)
  BY <1>2 DEF Onward
<1>12. \A c, p, goal : Continues(c, p, goal)' <=> Continues(c, p, goal)
  BY <1>11 DEF Continues
<1>13. \A p : AfterSign(p)' = AfterSign(p)
  BY <1>2 DEF AfterSign
<1>14. \A c, goal : Inner(c, goal)' = Inner(c, goal)
  BY <1>1, <1>2, <1>12, <1>13 DEF Inner
<1>15. \A goals, c, n : IsGoals(goals, c, n)' <=> IsGoals(goals, c, n)
  BY <1>1, <1>14 DEF IsGoals
<1>16. QED
  BY <1>1, <1>2, <1>10, <1>12, <1>15 DEF BodyOK

\* The nodes of the calls are of no account here.
LEMMA FramesGrow ==
  ASSUME NEW S, NEW v, NEW calls \in Seq(Frame(S))
  PROVE  calls \in Seq(Frame(S \cup {v}))
<1>1. Seq(S) \subseteq Seq(S \cup {v})
  BY SeqMonotonic
<1>2. Frame(S) \subseteq Frame(S \cup {v})
  BY <1>1 DEF Frame
<1>3. QED
  BY <1>2, SeqMonotonic

\* An item is added to the innermost of the calls, which then has one.
LEMMA AddItemIs ==
  ASSUME NEW S, NEW calls \in Seq(Frame(S)), calls # <<>>, NEW term, AddItem(calls, term)
  PROVE  /\ \E U : open' \in Seq(Frame(U))
         /\ Len(open') = Len(calls) /\ open' # <<>>
         /\ Top'.items # <<>>
<1> DEFINE U == S \cup {term.value}
           n == Len(calls)
           top == [calls[n] EXCEPT !.items = Append(@, term.value)]
<1>1. calls \in Seq(Frame(U)) /\ n \in 1 .. n /\ n \in Nat /\ DOMAIN calls = 1 .. n
  <2>1. calls \in Seq(Frame(U))
    BY FramesGrow
  <2>2. QED
    BY <2>1
<1>2. open' = [calls EXCEPT ![n] = top]
  BY <1>1 DEF AddItem
<1>3. calls[n] \in Frame(U)
  BY <1>1
<1>4. calls[n].items \in Seq(U) /\ term.value \in U
  BY <1>3 DEF Frame
<1> HIDE DEF U
<1>5. top.items = Append(calls[n].items, term.value) /\ top \in Frame(U)
  <2> DEFINE items == Append(calls[n].items, term.value)
  <2>1. items \in Seq(U)
    BY <1>4
  <2>2. top = [calls[n] EXCEPT !.items = items]
    OBVIOUS
  <2> HIDE DEF items, top, n
  <2>3. top \in Frame(U) /\ top.items = items
    BY <1>3, <2>1, <2>2 DEF Frame
  <2>4. QED
    BY <2>3 DEF items
<1>6. top.items # <<>>
  <2> HIDE DEF top, n
  <2>1. QED
    BY <1>4, <1>5
<1> HIDE DEF top, n
<1>7. open' \in Seq(Frame(U)) /\ Len(open') = n /\ open'[n] = top
  BY <1>1, <1>2, <1>5, ExceptSeq
<1>8. Top' = open'[n]
  BY <1>7 DEF Top, Last
<1>9. QED
  BY <1>1, <1>6, <1>7, <1>8 DEF n

\* A factor is read with the sign after it.
LEMMA RepeatedNext ==
  ASSUME NEW f
  PROVE  Repeated(f).next = AfterSign(f.next)
BY DEF Repeated, Read, AfterSign

\* As long as a body is being read, the chart does not change and there are goals
\* for the calls that are left.
LEMMA KeepsReading ==
  ASSUME ParserInv, stage = "parsing", stage' = "parsing", UNCHANGED <<source, line, body>>,
         NEW q \in 1 .. End, pos' = q, \E S : open' \in Seq(Frame(S)), open' # <<>>,
         NEW c, IsChart(c), NEW n, n = Len(open') - 1, NEW goals, IsGoals(goals, c, n),
         End \in c[1].alt <=>
           IF Top'.items = <<>> THEN Starts(c, q, goals[n]) ELSE Continues(c, q, goals[n])
  PROVE  ParserInv'
<1>1. IsChart(c)' /\ IsGoals(goals, c, n)' /\ End' = End /\ BodyOK'
  BY BodyStays DEF ParserInv
<1>2. Continues(c, q, goals[n])' <=> Continues(c, q, goals[n])
  BY BodyStays
<1>3. Hope(c, goals[n])' <=>
        IF Top'.items = <<>> THEN Starts(c, q, goals[n]) ELSE Continues(c, q, goals[n])
  BY <1>2 DEF Hope, Starts
<1>4. Sound(c)'
  <2>1. IsGoals(goals, c, Len(open) - 1)' /\ (End' \in c[1].alt <=> Hope(c, goals[Len(open) - 1])')
    BY <1>1, <1>3
  <2>2. QED
    BY <1>1, <2>1 DEF Sound
<1>5. QED
  BY <1>1, <1>4 DEF ParserInv

\* While a body is being read: the next character that is not white space is
\* where what is left of the innermost call has to reach its goal from.
LEMMA WhileReading ==
  ASSUME ParserInv, stage = "parsing"
  PROVE  LET p == SkipWs(pos)
             n == Len(open) - 1
         IN /\ BodyOK /\ n \in Nat /\ open # <<>>
            /\ \E c, goals :
                 /\ IsChart(c) /\ IsGoals(goals, c, n) /\ IsGoal(goals[n])
                 /\ p \in 1 .. End /\ Peek(p) \notin Space
                 /\ End \in c[1].alt <=>
                      IF Top.items = <<>> THEN Starts(c, p, goals[n]) ELSE Continues(c, p, goals[n])
<1> DEFINE p == SkipWs(pos)
           n == Len(open) - 1
<1>1. BodyOK /\ pos \in 1 .. End /\ open # <<>>
  BY DEF ParserInv
<1>2. PICK S : open \in Seq(Frame(S))
  BY DEF ParserInv
<1>3. n \in Nat
  BY <1>1, <1>2
<1>4. PICK c : Sound(c)
  BY DEF ParserInv
<1>5. IsChart(c)
  BY <1>4 DEF Sound
<1>6. PICK goals : IsGoals(goals, c, n) /\ (End \in c[1].alt <=> Hope(c, goals[n]))
  BY <1>4 DEF Sound
<1> DEFINE goal == goals[n]
<1> HIDE DEF n
<1>7. IsGoal(goal)
  <2>1. n \in 0 .. n
    BY <1>3
  <2>2. QED
    BY <1>1, <1>3, <1>6, <2>1, GoalsAre
<1> HIDE DEF goal
<1>8. p \in pos .. End /\ Peek(p) \notin Space
  BY <1>1, <1>5, <1>7, SkipWsIs
<1>9. /\ Starts(c, pos, goal) <=> Starts(c, p, goal)
      /\ Continues(c, pos, goal) <=> Continues(c, p, goal)
  BY <1>1, <1>5, <1>7, SkipWsIs
<1>10. p \in 1 .. End
  BY <1>1, <1>8
<1> HIDE DEF p
<1>11. End \in c[1].alt <=> IF Top.items = <<>> THEN Starts(c, p, goal) ELSE Continues(c, p, goal)
  BY <1>6, <1>9 DEF Hope, goal
<1>12. QED
  BY <1>1, <1>3, <1>5, <1>6, <1>7, <1>8, <1>10, <1>11 DEF goal, n, p

\* The steps of a body. A factor or a parenthesis adds to a branch, a bar begins one.
LEMMA TermKeeps == ParserInv /\ Term => ParserInv'
<1> SUFFICES ASSUME ParserInv, Term PROVE ParserInv'
  OBVIOUS
<1> DEFINE p == SkipWs(pos)
           f == ParseFactor(p)
           n == Len(open) - 1
<1>1. f.ok /\ AddItem(open, Repeated(f)) /\ stage = "parsing"
  BY DEF Term
<1>2. BodyOK /\ n \in Nat /\ open # <<>>
  BY <1>1, WhileReading
<1>3. PICK c, goals :
        /\ IsChart(c) /\ IsGoals(goals, c, n) /\ IsGoal(goals[n])
        /\ p \in 1 .. End /\ Peek(p) \notin Space
        /\ End \in c[1].alt <=>
             IF Top.items = <<>> THEN Starts(c, p, goals[n]) ELSE Continues(c, p, goals[n])
  BY <1>1, WhileReading
<1> DEFINE goal == goals[n]
<1> HIDE DEF p, n
<1>4. /\ f.next \in p + 1 .. End
      /\ Starts(c, p, goal) <=> Continues(c, AfterSign(f.next), goal)
      /\ Continues(c, p, goal) <=> Continues(c, AfterSign(f.next), goal)
  BY <1>1, <1>2, <1>3, ParseFactorIs
<1> HIDE DEF f
<1>5. AfterSign(f.next) \in 1 .. End
  <2>1. f.next \in 1 .. End
    BY <1>3, <1>4
  <2>2. AfterSign(f.next) \in f.next .. End
    BY <1>2, <1>3, <2>1, SignedIs
  <2>3. QED
    BY <2>1, <2>2
<1>6. pos' = AfterSign(f.next) /\ UNCHANGED <<source, line, body, stage>>
  BY <1>1, RepeatedNext DEF AddItem
<1>7. (\E U : open' \in Seq(Frame(U))) /\ Len(open') = Len(open) /\ open' # <<>> /\ Top'.items # <<>>
  <2>1. PICK S : open \in Seq(Frame(S))
    BY DEF ParserInv
  <2>2. QED
    BY <1>1, <1>2, <2>1, AddItemIs
<1>8. n = Len(open') - 1
  BY <1>7 DEF n
<1>9. QED
  BY <1>1, <1>3, <1>4, <1>5, <1>6, <1>7, <1>8, KeepsReading

LEMMA OpenGroupKeeps == ParserInv /\ OpenGroup => ParserInv'
<1> SUFFICES ASSUME ParserInv, OpenGroup PROVE ParserInv'
  OBVIOUS
<1> DEFINE p == SkipWs(pos)
           n == Len(open) - 1
           frame == [branches |-> <<>>, items |-> <<>>]
<1>1. /\ stage = "parsing" /\ stage' = "parsing" /\ Peek(p) = "("
      /\ open' = Append(open, frame) /\ pos' = p + 1 /\ UNCHANGED <<source, line, body>>
  BY DEF OpenGroup, Next1
<1>2. BodyOK /\ n \in Nat /\ open # <<>>
  BY <1>1, WhileReading
<1>3. PICK c, goals :
        /\ IsChart(c) /\ IsGoals(goals, c, n) /\ IsGoal(goals[n])
        /\ p \in 1 .. End /\ Peek(p) \notin Space
        /\ End \in c[1].alt <=>
             IF Top.items = <<>> THEN Starts(c, p, goals[n]) ELSE Continues(c, p, goals[n])
  BY <1>1, WhileReading
<1> DEFINE goal == goals[n]
           more == [d \in 0 .. n + 1 |-> IF d = n + 1 THEN Inner(c, goal) ELSE goals[d]]
<1>4. PICK S : open \in Seq(Frame(S))
  BY DEF ParserInv
<1>5. /\ open' \in Seq(Frame(S)) /\ open' # <<>>
      /\ Len(open') = Len(open) + 1 /\ open'[Len(open')] = frame
  <2>1. frame \in Frame(S)
    BY DEF Frame
  <2> HIDE DEF frame
  <2>2. QED
    BY <1>1, <1>4, <2>1
<1>6. Top'.items = <<>>
  BY <1>5 DEF Top, Last
<1>7. n + 1 = Len(open') - 1
  BY <1>2, <1>5
<1> HIDE DEF p, n, frame
\* The goal of the new call is where its parenthesis closes.
<1>8. IsGoals(more, c, n + 1) /\ more[n + 1] = Inner(c, goal)
  <2>1. more[0] = goals[0] /\ more[n + 1] = Inner(c, goal) /\ \A d \in 0 .. n : more[d] = goals[d]
    BY <1>2
  <2> HIDE DEF more
  <2>2. ASSUME NEW d \in 0 .. n PROVE more[d + 1] = Inner(c, more[d])
    <3>1. CASE d = n
      BY <1>2, <2>1, <3>1
    <3>2. CASE d # n
      <4>1. d \in 0 .. n - 1 /\ d + 1 \in 0 .. n
        BY <1>2, <3>2
      <4>2. QED
        BY <1>3, <2>1, <4>1 DEF IsGoals
    <3>3. QED
      BY <3>1, <3>2
  <2>3. QED
    BY <1>2, <1>3, <2>1, <2>2 DEF IsGoals
<1> HIDE DEF more
<1>9. /\ p + 1 \in 1 .. End
      /\ Starts(c, p, goal) <=> Starts(c, p + 1, Inner(c, goal))
      /\ Continues(c, p, goal) <=> Starts(c, p + 1, Inner(c, goal))
  BY <1>1, <1>2, <1>3, GroupIs
<1>10. QED
  BY <1>1, <1>3, <1>5, <1>6, <1>7, <1>8, <1>9, KeepsReading

\* One call fewer than are open.
LEMMA OneCallLess ==
  ASSUME NEW S, open \in Seq(Frame(S))
  PROVE  /\ Len(open) > 1 => Len(open) - 1 \in Nat \ {0}
         /\ Len(open) = 1 => Len(open) - 1 = 0
<1>1. PICK k \in Nat : k = Len(open)
  OBVIOUS
<1>2. (k > 1 => k - 1 \in Nat \ {0}) /\ (k = 1 => k - 1 = 0)
  OBVIOUS
<1>3. QED
  BY <1>1, <1>2

LEMMA CloseGroupKeeps == ParserInv /\ CloseGroup => ParserInv'
<1> SUFFICES ASSUME ParserInv, CloseGroup PROVE ParserInv'
  OBVIOUS
<1> DEFINE p == SkipWs(pos)
           n == Len(open) - 1
           f == Read(Alternatives, p + 1)
<1>1. /\ stage = "parsing" /\ Peek(p) = ")" /\ Len(open) > 1 /\ Top.items # <<>>
      /\ AddItem(Front(open), Repeated(f))
  BY DEF CloseGroup, Next1
<1>2. BodyOK /\ n \in Nat /\ open # <<>>
  BY <1>1, WhileReading
<1>3. PICK c, goals :
        /\ IsChart(c) /\ IsGoals(goals, c, n) /\ IsGoal(goals[n])
        /\ p \in 1 .. End /\ Peek(p) \notin Space
        /\ End \in c[1].alt <=>
             IF Top.items = <<>> THEN Starts(c, p, goals[n]) ELSE Continues(c, p, goals[n])
  BY <1>1, WhileReading
<1>4. PICK S : open \in Seq(Frame(S))
  BY DEF ParserInv
<1>5. n \in Nat \ {0}
  BY <1>1, <1>4, OneCallLess
<1>6. Front(open) \in Seq(Frame(S)) /\ Len(Front(open)) = n /\ Front(open) # <<>>
  <2>1. Front(open) = SubSeq(open, 1, n)
    BY DEF Front
  <2>2. 1 \in 1 .. Len(open) + 1 /\ n \in 1 - 1 .. Len(open)
    BY <1>4, <1>5
  <2> HIDE DEF n
  <2>3. Front(open) \in Seq(Frame(S)) /\ Len(Front(open)) = n
    BY <1>4, <1>5, <2>1, <2>2, SubSeqProperties
  <2>4. QED
    BY <1>5, <2>3
<1> DEFINE outer == goals[n - 1]
<1> HIDE DEF p, n
<1>7. IsGoal(outer) /\ goals[n] = Inner(c, outer) /\ IsGoals(goals, c, n - 1)
  <2>1. n - 1 \in 0 .. n /\ n - 1 \in 0 .. n - 1 /\ n = (n - 1) + 1
    BY <1>5
  <2>2. goals[n] = Inner(c, outer) /\ IsGoals(goals, c, n - 1)
    BY <1>3, <1>5, <2>1 DEF IsGoals
  <2>3. QED
    BY <1>2, <1>3, <2>1, <2>2, GoalsAre
<1>8. Continues(c, p, goals[n]) <=> Continues(c, AfterSign(p + 1), outer)
  <2>1. Peek(p) \notin FactorStart
    BY <1>1, NoFactorStarts
  <2>2. Continues(c, p, goals[n]) <=> p \in goals[n]
    BY <1>1, <1>2, <1>3, <2>1, NoFactorIs
  <2>3. p \in goals[n] <=> Continues(c, AfterSign(p + 1), outer)
    BY <1>1, <1>3, <1>7 DEF Inner
  <2>4. QED
    BY <2>2, <2>3
<1>9. f.next = p + 1
  BY DEF Read
<1> HIDE DEF f
<1>10. (\E U : open' \in Seq(Frame(U))) /\ Len(open') = n /\ open' # <<>> /\ Top'.items # <<>>
  BY <1>1, <1>6, AddItemIs
<1>11. pos' = AfterSign(p + 1) /\ UNCHANGED <<source, line, body, stage>>
  BY <1>1, <1>9, RepeatedNext DEF AddItem
<1>12. AfterSign(p + 1) \in 1 .. End
  <2>1. p + 1 \in 1 .. End
    BY <1>1, <1>2, <1>3, PeekIs
  <2>2. AfterSign(p + 1) \in p + 1 .. End
    BY <1>2, <1>3, <2>1, SignedIs
  <2>3. QED
    BY <2>1, <2>2
<1>13. n - 1 = Len(open') - 1
  BY <1>10
<1>14. QED
  BY <1>1, <1>3, <1>7, <1>8, <1>10, <1>11, <1>12, <1>13, KeepsReading

LEMMA NextBranchKeeps == ParserInv /\ NextBranch => ParserInv'
<1> SUFFICES ASSUME ParserInv, NextBranch PROVE ParserInv'
  OBVIOUS
<1> DEFINE p == SkipWs(pos)
           n == Len(open) - 1
           m == Len(open)
           node == Group("seq", open[m].items)
           frame == [branches |-> Append(open[m].branches, node), items |-> <<>>]
<1>1. /\ stage = "parsing" /\ stage' = "parsing" /\ Peek(p) = "|" /\ Top.items # <<>>
      /\ open' = [open EXCEPT ![m] = frame] /\ pos' = p + 1 /\ UNCHANGED <<source, line, body>>
  BY DEF NextBranch, Next1
<1>2. BodyOK /\ n \in Nat /\ open # <<>>
  BY <1>1, WhileReading
<1>3. PICK c, goals :
        /\ IsChart(c) /\ IsGoals(goals, c, n) /\ IsGoal(goals[n])
        /\ p \in 1 .. End /\ Peek(p) \notin Space
        /\ End \in c[1].alt <=>
             IF Top.items = <<>> THEN Starts(c, p, goals[n]) ELSE Continues(c, p, goals[n])
  BY <1>1, WhileReading
<1>4. PICK S : open \in Seq(Frame(S))
  BY DEF ParserInv
<1> HIDE DEF node
<1>5. frame \in Frame(S \cup {node}) /\ open \in Seq(Frame(S \cup {node}))
  <2>1. open \in Seq(Frame(S \cup {node}))
    BY <1>4, FramesGrow
  <2>2. open[m] \in Frame(S \cup {node})
    BY <1>2, <2>1
  <2>3. open[m].branches \in Seq(S \cup {node})
    BY <2>2 DEF Frame
  <2>4. Append(open[m].branches, node) \in Seq(S \cup {node})
    BY <2>3
  <2>5. QED
    BY <2>1, <2>4 DEF Frame
<1>6. frame.items = <<>>
  OBVIOUS
<1> HIDE DEF frame
<1>7. /\ \E U : open' \in Seq(Frame(U))
      /\ Len(open') = m /\ open'[m] = frame /\ open' # <<>>
  <2>1. m \in 1 .. m
    BY <1>2, <1>4
  <2>2. open' \in Seq(Frame(S \cup {node})) /\ Len(open') = m /\ open'[m] = frame
    BY <1>1, <1>5, <2>1, ExceptSeq
  <2>3. QED
    BY <2>1, <2>2
<1>8. Top'.items = <<>> /\ n = Len(open') - 1
  BY <1>6, <1>7 DEF Top, Last
<1> HIDE DEF p, n, m
<1>9. p + 1 \in 1 .. End /\ (Continues(c, p, goals[n]) <=> Starts(c, p + 1, goals[n]))
  <2>1. Peek(p) \notin FactorStart
    BY <1>1, NoFactorStarts
  <2>2. QED
    BY <1>1, <1>2, <1>3, <2>1, NoFactorIs
<1>10. QED
  BY <1>1, <1>3, <1>7, <1>8, <1>9, KeepsReading

\* The body ends with the last of the calls, or is refused.
LEMMA EndKeeps == ParserInv /\ (EndRule \/ SyntaxError) => ParserInv'
<1> SUFFICES ASSUME ParserInv, EndRule \/ SyntaxError PROVE ParserInv'
  OBVIOUS
<1> DEFINE p == SkipWs(pos)
           n == Len(open) - 1
<1>1. stage = "parsing" /\ UNCHANGED <<source, body, pos>> /\ line' \in Nat \ {0}
  BY DEF EndRule, SyntaxError, ParserInv
<1>2. BodyOK /\ n \in Nat /\ open # <<>>
  BY <1>1, WhileReading
<1>3. PICK c, goals :
        /\ IsChart(c) /\ IsGoals(goals, c, n) /\ IsGoal(goals[n])
        /\ p \in 1 .. End /\ Peek(p) \notin Space
        /\ End \in c[1].alt <=>
             IF Top.items = <<>> THEN Starts(c, p, goals[n]) ELSE Continues(c, p, goals[n])
  BY <1>1, WhileReading
<1>4. IsChart(c)' /\ BodyOK' /\ End' = End
  BY <1>1, <1>2, <1>3, BodyStays
<1>5. goals[0] = {End} /\ (n # 0 => Peek(End) = "end" /\ End \notin goals[n])
  <2>1. goals[0] = {End}
    BY <1>3 DEF IsGoals
  <2>2. ASSUME n # 0 PROVE End \notin goals[n]
    <3> HIDE DEF n
    <3>1. n - 1 \in 0 .. n - 1 /\ n = (n - 1) + 1
      BY <1>2, <2>2
    <3>2. goals[n] = Inner(c, goals[n - 1])
      BY <1>3, <3>1 DEF IsGoals
    <3>3. QED
      BY <1>2, <3>2, PeekIs DEF Inner
  <2>3. QED
    BY <1>2, <2>1, <2>2, PeekIs
<1>6. Peek(p) = "end" <=> p = End
  BY <1>2, <1>3, PeekIs
\* Where a branch or a call ends, there has to be an item, and the goal.
<1>7. ASSUME Peek(p) \in {"|", ")", "end"}
      PROVE  /\ ~Starts(c, p, goals[n])
             /\ Peek(p) # "|" => (Continues(c, p, goals[n]) <=> p \in goals[n])
  <2> HIDE DEF p, n
  <2>1. Peek(p) \notin FactorStart
    BY <1>7, NoFactorStarts
  <2>2. QED
    BY <1>2, <1>3, <1>7, <2>1, NoFactorIs
<1> HIDE DEF p
<1>8. CASE EndRule
  <2>1. Peek(p) = "end" /\ n = 0 /\ Top.items # <<>> /\ stage' = "reading" /\ open' = <<>>
    BY <1>8 DEF EndRule, Next1, p
  <2>2. End \in c[1].alt
    BY <1>3, <1>5, <1>6, <1>7, <2>1
  <2>3. Sound(c)'
    BY <1>4, <2>1, <2>2 DEF Sound
  <2>4. \E S : open' \in Seq(Frame(S))
    BY <2>1
  <2>5. QED
    BY <1>1, <1>4, <2>1, <2>3, <2>4 DEF ParserInv
<1>9. CASE SyntaxError
  <2>1. stage' = "refused" /\ open' = open
    BY <1>9 DEF SyntaxError
  <2>2. End \notin c[1].alt
    <3>1. CASE Peek(p) \in {"|", ")", "end"}
      <4>1. \/ Top.items = <<>>
            \/ Peek(p) = ")" /\ n = 0
            \/ Peek(p) = "end" /\ n # 0
        <5>1. (Len(open) = 1 => n = 0) /\ (Len(open) > 1 => n # 0)
          <6>1. PICK S : open \in Seq(Frame(S))
            BY DEF ParserInv
          <6>2. /\ Len(open) > 1 => n \in Nat \ {0}
                /\ Len(open) = 1 => n = 0
            BY <6>1, OneCallLess
          <6>3. QED
            BY <6>2
        <5> HIDE DEF n
        <5>2. QED
          BY <1>9, <3>1, <5>1 DEF SyntaxError, Next1, p
      <4> HIDE DEF n
      <4>2. QED
        BY <1>3, <1>5, <1>6, <1>7, <3>1, <4>1
    <3>2. CASE Peek(p) \notin {"|", ")", "end"}
      <4>1. Peek(p) # "(" /\ ~ParseFactor(p).ok
        BY <1>9, <3>2 DEF SyntaxError, Next1, p
      <4> HIDE DEF n
      <4>2. ~Starts(c, p, goals[n]) /\ ~Continues(c, p, goals[n])
        <5>1. Peek(p) \notin Space \cup {"(", "|", ")", "end"}
          BY <1>3, <3>2, <4>1
        <5>2. QED
          BY <1>2, <1>3, <4>1, <5>1, ParseFactorIs
      <4>3. QED
        BY <1>3, <4>2
    <3>3. QED
      BY <3>1, <3>2
  <2>3. Sound(c)'
    BY <1>4, <2>1, <2>2 DEF Sound
  <2>4. QED
    BY <1>1, <1>2, <1>4, <2>1, <2>3 DEF ParserInv
<1>10. QED
  BY <1>8, <1>9

\* There is always a position to read at.
LEMMA EndIs == BodyOK => End \in Nat \ {0}
BY PeekIs

\* Between two rules; the body of the next one is cut out of its line.
LEMMA LineKeeps == ParserInv /\ (SkipLine \/ StartRule \/ NoRule \/ FinishReading) => ParserInv'
<1> SUFFICES ASSUME ParserInv, SkipLine \/ StartRule \/ NoRule \/ FinishReading PROVE ParserInv'
  OBVIOUS
<1>1. stage = "reading" /\ open = <<>> /\ source' = source
  BY DEF ParserInv, SkipLine, StartRule, NoRule, FinishReading
<1>2. CASE SkipLine \/ NoRule \/ FinishReading
  <2>1. /\ UNCHANGED <<body, pos, open>> /\ line' \in Nat \ {0}
        /\ stage' \in {"reading", "refused", "loaded"}
    BY <1>2 DEF SkipLine, NoRule, FinishReading, ParserInv
  <2>2. PICK c : Sound(c)
    BY DEF ParserInv
  <2>3. IsChart(c)' /\ End' = End /\ BodyOK'
    BY <2>1, <2>2, BodyStays DEF Sound, ParserInv
  <2>4. Sound(c)'
    BY <1>1, <2>1, <2>2, <2>3 DEF Sound
  <2>5. \E S : open' \in Seq(Frame(S))
    BY <1>1, <2>1
  <2>6. QED
    BY <1>1, <2>1, <2>3, <2>4, <2>5 DEF ParserInv
<1>3. CASE StartRule
  <2> DEFINE frame == [branches |-> <<>>, items |-> <<>>]
  <2>1. /\ body' = Trimmed(After(Content, "::=")) /\ pos' = 1 /\ open' = <<frame>>
        /\ stage' = "parsing" /\ line' = line /\ line <= Len(source)
    BY <1>3 DEF StartRule
  <2>2. BodyOK'
    <3> DEFINE C == STRING \ {"end"}
    <3>1. source \in Seq(Seq(C)) /\ line \in 1 .. Len(source)
      BY <2>1, ParserAssumption DEF ParserInv
    <3>2. source[line] \in Seq(C)
      BY <3>1
    <3> HIDE DEF C
    <3>3. Content \in Seq(C)
      BY <3>2, CutIs DEF Content
    <3>4. body' \in Seq(C)
      BY <2>1, <3>3, CutIs
    <3>5. QED
      BY <3>4 DEF C, BodyOK
  <2>3. \E c : IsChart(c)'
    <3>1. (BodyOK => IsChart(Chart[1]))'
      BY ChartIs, PTL
    <3>2. IsChart(Chart[1])'
      BY <2>2, <3>1
    <3>3. QED
      BY <3>2
  <2>4. PICK c : IsChart(c)'
    BY <2>3
  <2>5. End' \in Nat \ {0}
    <3>1. (BodyOK => End \in Nat \ {0})'
      BY EndIs, PTL
    <3>2. QED
      BY <2>2, <3>1
  <2>6. open' # <<>> /\ Len(open') - 1 = 0 /\ Top'.items = <<>> /\ \E S : open' \in Seq(Frame(S))
    <3>1. frame \in Frame({})
      BY DEF Frame
    <3>2. frame.items = <<>>
      OBVIOUS
    <3> HIDE DEF frame
    <3>3. open' \in Seq(Frame({})) /\ Len(open') = 1 /\ open'[1] = frame
      BY <2>1, <3>1
    <3>4. QED
      BY <3>2, <3>3 DEF Top, Last
  <2>7. \E g : g[0] = {End'}
    <3>1. [d \in {0} |-> {End'}][0] = {End'}
      OBVIOUS
    <3>2. QED
      BY <3>1
  <2>8. PICK g : g[0] = {End'}
    BY <2>7
  <2>9. IsGoals(g, c, Len(open) - 1)'
    <3>1. 0 .. (Len(open') - 1) - 1 = {}
      <4>1. 0 .. 0 - 1 = {}
        OBVIOUS
      <4>2. QED
        BY <2>6, <4>1
    <3>2. QED
      BY <2>8, <3>1 DEF IsGoals
  <2>10. Hope(c, g[Len(open) - 1])' <=> End' \in c[1].alt
    BY <2>1, <2>6, <2>8 DEF Hope, Starts
  <2>11. Sound(c)'
    BY <2>1, <2>4, <2>9, <2>10 DEF Sound
  <2>12. pos' \in 1 .. End'
    BY <2>1, <2>5
  <2>13. QED
    BY <1>1, <2>1, <2>2, <2>6, <2>11, <2>12 DEF ParserInv
<1>4. QED
  BY <1>2, <1>3

\* The invariant holds of a source that has not been read, and every step keeps it.
LEMMA ParserInitInv == ParserInit => ParserInv
<1> SUFFICES ASSUME ParserInit PROVE ParserInv
  OBVIOUS
<1>1. BodyOK /\ body = <<>>
  BY DEF ParserInit, BodyOK
<1>2. Sound(Chart[1])
  BY <1>1, ChartIs DEF ParserInit, Sound
<1>3. pos \in 1 .. End
  BY <1>1 DEF ParserInit, End
<1>4. open \in Seq(Frame({}))
  BY DEF ParserInit
<1>5. QED
  BY <1>1, <1>2, <1>3, <1>4 DEF ParserInit, ParserInv

LEMMA ParserStepInv == ParserInv /\ [ParserNext \/ Used]_parser => ParserInv'
<1> SUFFICES ASSUME ParserInv, [ParserNext \/ Used]_parser PROVE ParserInv'
  OBVIOUS
<1>1. CASE Used \/ UNCHANGED parser
  <2>1. UNCHANGED grammar /\ (stage' = stage \/ stage' \notin {"reading", "parsing", "refused"})
    BY <1>1 DEF Used, parser
  <2>2. UNCHANGED <<source, line, body, pos, open>>
    BY <2>1 DEF grammar
  <2>3. PICK c : Sound(c)
    BY DEF ParserInv
  <2>4. IsChart(c)' /\ End' = End /\ BodyOK'
    BY <2>2, <2>3, BodyStays DEF Sound, ParserInv
  <2>5. Sound(c)'
    <3>1. CASE stage' # stage
      BY <2>1, <2>4, <3>1 DEF Sound
    <3>2. CASE stage' = stage
      <4>1. ASSUME stage = "parsing"
            PROVE  \E goals : /\ IsGoals(goals, c, Len(open) - 1)'
                              /\ End' \in c[1].alt <=> Hope(c, goals[Len(open) - 1])'
        <5>1. PICK goals : /\ IsGoals(goals, c, Len(open) - 1)
                           /\ End \in c[1].alt <=> Hope(c, goals[Len(open) - 1])
          BY <2>3, <4>1 DEF Sound
        <5>2. IsGoals(goals, c, Len(open) - 1)'
          BY <2>2, <5>1, BodyStays
        <5>3. Hope(c, goals[Len(open) - 1])' <=> Hope(c, goals[Len(open) - 1])
          BY <2>2, BodyStays DEF Hope, Starts, Top
        <5>4. QED
          BY <2>4, <5>1, <5>2, <5>3
      <4>2. QED
        BY <2>2, <2>3, <2>4, <3>2, <4>1 DEF Sound
    <3>3. QED
      BY <3>1, <3>2
  <2>6. stage' = "reading" \/ stage' = "parsing" => stage' = stage
    BY <2>1
  <2>7. QED
    BY <2>2, <2>4, <2>5, <2>6 DEF ParserInv
<1>2. QED
  BY <1>1, LineKeeps, TermKeeps, OpenGroupKeeps, CloseGroupKeeps, NextBranchKeeps, EndKeeps
     DEF ParserNext

\* The parser reads a body to its end exactly when it is well-formed
\* (grammar.rs:173-383), whatever the grammar: the chart, which is made from the
\* notation alone, says from each position whether the end can be reached.
THEOREM ParserReadsExactly == ParserSpec => []ParserExact
<1>1. ParserInv => ParserExact
  <2> SUFFICES ASSUME ParserInv PROVE ParserExact
    OBVIOUS
  <2>1. PICK c : Sound(c)
    BY DEF ParserInv
  <2>2. IsChart(c) /\ IsChart(Chart[1])
    BY <2>1, ChartIs DEF Sound, ParserInv
  <2>3. c = Chart[1]
    BY <2>2, OneChart DEF ParserInv
  <2>4. QED
    BY <2>1, <2>3 DEF ParserExact, WellFormed, Sound
<1>2. QED
  BY <1>1, ParserInitInv, ParserStepInv, PTL DEF ParserSpec

-----------------------------------------------------------------------------
(* The process. *)

USE DEF Forms, Deviations, Outputs, NoCall

\* A call's record, and what PassIsTheModels says of one.
Record ==
  [form : Forms, phase : {"idle", "queued", "running", "hung"}, waited : BOOLEAN,
   said : Outputs \cup {"nothing"}, answer : {"none", "pass", "block", "unavailable"}]

Honest(c) ==
  c.answer # "none" =>
    (c.answer = "pass" <=> c.form = "good" /\ c.said \in {"pass", "odd_pass"})

\* Only requests in order get as far as the model.
Vetted(c) == c.phase \in {"running", "hung"} => c.form = "good"

Good(c) == c \in Record /\ Honest(c) /\ Vetted(c)

GoodCalls == /\ call \in [Calls -> Record]
             /\ \A r \in Calls : Good(call[r])

ServiceOK ==
  /\ unit \in {"active", "failed"}
  /\ starts \in 0 .. StartLimit
  /\ proc \in {"down", "loading", "loaded", "cleared", "bound", "ready", "draining"}
  /\ socket \in {"absent", "stale", "live"}

CalmOK == calm \in BOOLEAN

IInv == ServiceOK /\ CalmOK /\ GoodCalls

-----------------------------------------------------------------------------
\* Replacing one call by a good one keeps all of them good: what every handler
\* of a call does.
LEMMA OneCall ==
  ASSUME GoodCalls, NEW r \in Calls, NEW c, Good(c), call' = [call EXCEPT ![r] = c]
  PROVE  GoodCalls'
BY DEF GoodCalls, Good, Honest, Vetted

\* A settled call is good if its answer is the model's, or a block of a request
\* that was refused.
LEMMA SettledGood ==
  ASSUME GoodCalls, NEW r \in Calls,
         NEW said \in Outputs \cup {"nothing"}, NEW answer \in {"pass", "block"},
         answer = "pass" <=> call[r].form = "good" /\ said \in {"pass", "odd_pass"},
         Settle(r, said, answer)
  PROVE  GoodCalls'
<1> DEFINE c == [NoCall EXCEPT !.form = call[r].form, !.said = said, !.answer = answer]
<1>1. call[r].form \in Forms
  BY DEF GoodCalls, Good, Record
<1>2. /\ c.form = call[r].form /\ c.phase = "idle"
      /\ c.said = said /\ c.answer = answer
  OBVIOUS
<1>3. Good(c)
  <2>1. c \in Record
    BY <1>1 DEF Record
  <2> QED
    BY <1>1, <1>2, <2>1 DEF Good, Honest, Vetted
<1>4. call' = [call EXCEPT ![r] = c]
  BY DEF Settle
<1> QED
  BY <1>3, <1>4, OneCall

\* Nobody is answered by a process that ends, but no call is left behind.
LEMMA DieGood == GoodCalls /\ Die => GoodCalls'
<1> SUFFICES ASSUME GoodCalls, Die PROVE GoodCalls'
  OBVIOUS
<1>1. ASSUME NEW r \in Calls PROVE Good(call'[r])
  <2>1. Good(call[r])
    BY DEF GoodCalls
  <2>2. CASE call[r].phase = "idle"
    BY <2>1, <2>2 DEF Die
  <2>3. CASE call[r].phase # "idle" /\ call[r].waited
    <3>1. call'[r] = [form |-> call[r].form, phase |-> "idle", waited |-> FALSE,
                      said |-> "nothing", answer |-> "unavailable"]
      BY <2>3 DEF Die
    <3> QED
      BY <2>1, <3>1 DEF Good, Record, Honest, Vetted
  <2>4. CASE call[r].phase # "idle" /\ ~call[r].waited
    <3>1. call'[r] = NoCall
      BY <2>4 DEF Die
    <3> QED
      BY <3>1 DEF Good, Record, Honest, Vetted
  <2> QED
    BY <2>2, <2>3, <2>4
<1>2. DOMAIN call' = Calls /\ call' = [r \in Calls |-> call'[r]]
  BY DEF Die
<1>3. call' \in [Calls -> Record]
  BY <1>1, <1>2 DEF Good
<1> QED
  BY <1>1, <1>3 DEF GoodCalls, Good, Honest, Vetted

\* No handler of a call does anything to the others.
LEMMA CallsStayGood ==
  ASSUME GoodCalls, NEW r \in Calls,
         Send(r) \/ Reject(r) \/ Infer(r) \/ Hang(r) \/ Finish(r) \/ GiveUp(r)
  PROVE  GoodCalls'
<1>0. Good(call[r]) /\ call[r] \in Record
  BY DEF GoodCalls, Good
<1>1. CASE Send(r)
  <2>1. PICK form \in Forms :
          call' = [call EXCEPT ![r] =
            [NoCall EXCEPT !.form = form, !.phase = "queued", !.waited = TRUE]]
    BY <1>1 DEF Send
  <2>2. Good([NoCall EXCEPT !.form = form, !.phase = "queued", !.waited = TRUE])
    BY DEF Good, Record, Honest, Vetted
  <2> QED
    BY <2>1, <2>2, OneCall
<1>2. CASE Reject(r)
  BY <1>2, SettledGood DEF Reject
<1>3. CASE Infer(r)
  <2>1. Good([call[r] EXCEPT !.phase = "running"])
    BY <1>0, <1>3 DEF Infer, Good, Record, Honest, Vetted
  <2>2. call' = [call EXCEPT ![r] = [call[r] EXCEPT !.phase = "running"]]
    BY <1>3 DEF Infer
  <2> QED
    BY <2>1, <2>2, OneCall
<1>4. CASE Hang(r)
  <2>1. Good([call[r] EXCEPT !.phase = "hung"])
    BY <1>0, <1>4 DEF Hang, Good, Record, Honest, Vetted
  <2>2. call' = [call EXCEPT ![r] = [call[r] EXCEPT !.phase = "hung"]]
    BY <1>4 DEF Hang
  <2> QED
    BY <2>1, <2>2, OneCall
<1>5. CASE Finish(r)
  <2>1. call[r].form = "good"
    BY <1>0, <1>5 DEF Finish, Good, Vetted
  <2>2. PICK raw \in Outputs :
          IF call[r].waited THEN Settle(r, raw, Verdict(raw))
          ELSE call' = [call EXCEPT ![r] = NoCall]
    BY <1>5 DEF Finish
  <2>3. CASE call[r].waited
    BY <2>1, <2>2, <2>3, SettledGood DEF Verdict
  <2>4. CASE ~call[r].waited
    <3>1. Good(NoCall)
      BY DEF Good, Record, Honest, Vetted
    <3> QED
      BY <2>2, <2>4, <3>1, OneCall
  <2> QED
    BY <2>3, <2>4
<1>6. CASE GiveUp(r)
  <2> DEFINE c == IF call[r].phase = "queued" THEN NoCall
                  ELSE [call[r] EXCEPT !.waited = FALSE]
  <2>1. Good(c)
    BY <1>0 DEF Good, Record, Honest, Vetted
  <2>2. call' = [call EXCEPT ![r] = c]
    BY <1>6 DEF GiveUp
  <2> QED
    BY <2>1, <2>2, OneCall
<1> QED
  BY <1>1, <1>2, <1>3, <1>4, <1>5, <1>6

-----------------------------------------------------------------------------
LEMMA InitInv == Init => IInv
<1> SUFFICES ASSUME Init PROVE IInv
  OBVIOUS
<1>1. ServiceOK
  BY GuardProcessAssumption DEF Init, ServiceOK
<1>2. CalmOK
  BY DEF Init, CalmOK
<1>3. GoodCalls
  BY DEF Init, GoodCalls, Good, Record, Honest, Vetted
<1> QED
  BY <1>1, <1>2, <1>3 DEF IInv

LEMMA StepInv == IInv /\ [Next]_vars => IInv'
<1> SUFFICES ASSUME IInv, [Next]_vars PROVE IInv'
  OBVIOUS
<1> USE GuardProcessAssumption
<1>1. CASE UNCHANGED vars
  <2>1. ServiceOK' /\ GoodCalls'
    BY <1>1 DEF IInv, ServiceOK, GoodCalls, Good, Honest, Vetted, vars, service
  <2>2. CalmOK'
    BY <1>1 DEF IInv, CalmOK, vars, service
  <2> QED
    BY <2>1, <2>2 DEF IInv
<1>2. ASSUME NEW r \in Calls,
             Send(r) \/ Reject(r) \/ Infer(r) \/ Hang(r) \/ Finish(r) \/ GiveUp(r)
      PROVE  IInv'
  <2>1. GoodCalls'
    BY <1>2, CallsStayGood DEF IInv
  <2>2. UNCHANGED <<service, proc, socket>>
    BY <1>2 DEF Send, Reject, Infer, Hang, Finish, GiveUp
  <2>3. ServiceOK'
    BY <2>2 DEF IInv, ServiceOK, service
  <2>4. CalmOK'
    BY <2>2 DEF IInv, CalmOK, service
  <2> QED
    BY <2>1, <2>3, <2>4 DEF IInv
<1>3. ASSUME Die PROVE IInv'
  <2>1. GoodCalls'
    BY <1>3, DieGood DEF IInv
  <2>2. ServiceOK'
    BY <1>3 DEF Die, IInv, ServiceOK, service
  <2>3. CalmOK'
    BY <1>3 DEF Die, IInv, CalmOK, service
  <2> QED
    BY <2>1, <2>2, <2>3 DEF IInv
<1>4. ASSUME Start \/ LimitHit \/ IntervalPasses \/ Reset \/ Load \/ Prepare
             \/ Announce \/ Terminate \/ Drained \/ Calm
      PROVE  IInv'
  <2>1. UNCHANGED call
    BY <1>4 DEF Start, LimitHit, IntervalPasses, Reset, Load, Prepare, Announce,
                Terminate, Drained, Calm
  <2>2. GoodCalls'
    BY <2>1 DEF IInv, GoodCalls, Good, Honest, Vetted
  <2>3. ServiceOK'
    BY <1>4 DEF IInv, ServiceOK, service, Start, LimitHit, IntervalPasses, Reset, Load,
                Prepare, Announce, Terminate, Drained, Calm
  <2>4. CalmOK'
    <3>1. calm' = calm \/ calm' = TRUE
      BY <1>4 DEF service, Start, LimitHit, IntervalPasses, Reset, Load, Prepare, Announce,
                  Terminate, Drained, Calm
    <3> QED
      BY <3>1 DEF IInv, CalmOK
  <2> QED
    BY <2>2, <2>3, <2>4 DEF IInv
<1>5. CASE Bind
  <2>1. CASE socket = "absent"
    <3>1. GoodCalls'
      BY <1>5, <2>1 DEF Bind, IInv, GoodCalls, Good, Honest, Vetted
    <3>2. ServiceOK'
      BY <1>5, <2>1 DEF Bind, IInv, ServiceOK, service
    <3>3. CalmOK'
      BY <1>5, <2>1 DEF Bind, IInv, CalmOK, service
    <3> QED
      BY <3>1, <3>2, <3>3 DEF IInv
  <2>2. CASE socket # "absent"
    BY <1>3, <1>5, <2>2 DEF Bind
  <2> QED
    BY <2>1, <2>2
<1>6. CASE Crash \/ WatchdogKill \/ StopTimeout
  BY <1>3, <1>6 DEF Crash, WatchdogKill, StopTimeout
<1> QED
  BY <1>1, <1>2, <1>4, <1>5, <1>6 DEF Next

LEMMA SpecInv == Spec => []IInv
BY InitInv, StepInv, PTL DEF Spec

\* Every variable of the guard process keeps its type: `serve` and `classify`
\* leave no call half settled, whatever crashes or restarts in between.
THEOREM GuardProcessTypeCorrect == Spec => []TypeOK
<1>1. IInv => TypeOK
  BY DEF IInv, ServiceOK, CalmOK, GoodCalls, Record, TypeOK
<1> QED
  BY <1>1, SpecInv, PTL

\* For any number of calls, workers and restarts, the guard passes exactly what
\* its model passed (server.rs:66-95): a failed backend, text that breaks the
\* contract, a refused request and a process that ends pass nothing.
THEOREM GuardPassIsTheModels == Spec => []PassIsTheModels
<1>1. IInv => PassIsTheModels
  BY DEF IInv, GoodCalls, Good, Honest, PassIsTheModels
<1> QED
  BY <1>1, SpecInv, PTL
=============================================================================
