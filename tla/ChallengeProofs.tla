-------------------------- MODULE ChallengeProofs --------------------------
(***************************************************************************)
(* Theorems about the challenge layer: that the encoding rule's scan finds *)
(* what is hidden, for every tree of blobs, horizon and budget; and that   *)
(* the layer reports exactly what its rules find, for every payload.       *)
(***************************************************************************)
EXTENDS EncodingScan, ChallengeLayer, Sums, SequenceTheorems, TLAPS

-----------------------------------------------------------------------------
(* The tree. *)

\* What ScanInit chooses and no step changes.
TreeOK ==
  /\ parent \in [Blobs -> 0 .. NumBlobs] /\ \A b \in Blobs : parent[b] < b
  /\ size \in [Blobs -> Nat]
  /\ hit \in [Blobs -> BOOLEAN] /\ printable \in [Blobs -> BOOLEAN]

LEMMA ParentIsBefore ==
  ASSUME TreeOK
  PROVE  /\ NumBlobs \in Nat /\ Blobs = 1 .. NumBlobs
         /\ \A b \in Blobs : parent[b] # 0 => parent[b] \in Blobs /\ parent[b] < b
BY EncodingAssumption DEF EncodingAssumption, Blobs, TreeOK

\* What passes from parent to blob, and holds of the blobs of the payload, holds
\* of all.
LEMMA ParentInduction ==
  ASSUME TreeOK, NEW S, \A b \in Blobs : parent[b] \in S \cup {0} => b \in S
  PROVE  Blobs \subseteq S
<1> DEFINE Sizes == {n \in Nat : \A b \in Blobs : b <= n => b \in S}
<1>1. 0 \in Sizes
  BY ParentIsBefore
<1>2. ASSUME NEW n \in Nat, n \in Sizes PROVE n + 1 \in Sizes
  <2> SUFFICES ASSUME NEW b \in Blobs, b <= n + 1 PROVE b \in S
    OBVIOUS
  <2>1. parent[b] = 0 \/ (parent[b] \in Blobs /\ parent[b] <= n)
    BY ParentIsBefore
  <2>2. QED
    BY <1>2, <2>1
<1>3. NumBlobs \in Sizes
  <2> HIDE DEF Sizes
  <2>1. QED
    BY <1>1, <1>2, ParentIsBefore, NatSetInduction
<1>4. QED
  BY <1>3, ParentIsBefore

\* f is defined by what it is for the blobs of the payload, and by what it is for
\* a blob given what it is for its parent.
ByParent(f, base, step) ==
  \A b \in Blobs : f[b] = IF parent[b] = 0 THEN base[b] ELSE step[b][f[parent[b]]]

LEMMA ParentRecursion ==
  ASSUME TreeOK, NEW V, NEW base \in [Blobs -> V], NEW step \in [Blobs -> [V -> V]]
  PROVE  \E f \in [Blobs -> V] : ByParent(f, base, step)
<1> DEFINE Value(f, b) == IF parent[b] = 0 THEN base[b] ELSE step[b][f[parent[b]]]
           Sizes == {n \in Nat : \E f \in [Blobs -> V] :
                                   \A b \in Blobs : b <= n => f[b] = Value(f, b)}
<1>1. 0 \in Sizes
  <2>1. \A b \in Blobs : ~(b <= 0)
    BY ParentIsBefore
  <2>2. QED
    BY <2>1
<1>2. ASSUME NEW n \in Nat, n \in Sizes PROVE n + 1 \in Sizes
  <2>1. PICK f \in [Blobs -> V] : \A b \in Blobs : b <= n => f[b] = Value(f, b)
    BY <1>2
  <2>2. CASE n + 1 \notin Blobs
    <3>1. \A b \in Blobs : b <= n + 1 => b <= n
      BY <2>2, ParentIsBefore
    <3>2. QED
      BY <2>1, <3>1
  <2>3. CASE n + 1 \in Blobs
    <3> DEFINE g == [f EXCEPT ![n + 1] = Value(f, n + 1)]
    <3>1. Value(f, n + 1) \in V
      BY <2>3, ParentIsBefore
    <3>2. g \in [Blobs -> V]
      BY <3>1
    <3>3. \A b \in Blobs : b <= n + 1 /\ parent[b] # 0 => g[parent[b]] = f[parent[b]]
      BY ParentIsBefore
    <3>4. \A b \in Blobs : b <= n + 1 => Value(g, b) = Value(f, b)
      BY <3>3
    <3>5. \A b \in Blobs : b <= n + 1 => g[b] = Value(f, b)
      BY <2>1, ParentIsBefore
    <3>6. \A b \in Blobs : b <= n + 1 => g[b] = Value(g, b)
      BY <3>4, <3>5
    <3> HIDE DEF g, Value
    <3>7. QED
      BY <3>2, <3>6
  <2>4. QED
    BY <2>2, <2>3
<1>3. NumBlobs \in Sizes
  <2> HIDE DEF Sizes
  <2>1. QED
    BY <1>1, <1>2, ParentIsBefore, NatSetInduction
<1>4. QED
  BY <1>3, ParentIsBefore DEF ByParent

LEMMA LevelIs ==
  ASSUME TreeOK
  PROVE  \A b \in Blobs :
           /\ Level[b] \in Nat
           /\ Level[b] = IF parent[b] = 0 THEN 1 ELSE Level[parent[b]] + 1
<1> DEFINE values == Nat
           base == [b \in Blobs |-> 1]
           step == [b \in Blobs |-> [n \in values |-> n + 1]]
           Defines(f) == f = [b \in Blobs |-> IF parent[b] = 0 THEN 1 ELSE f[parent[b]] + 1]
<1>1. base \in [Blobs -> values] /\ step \in [Blobs -> [values -> values]]
  OBVIOUS
<1>2. PICK f \in [Blobs -> values] : ByParent(f, base, step)
  <2> HIDE DEF base, step, values
  <2>1. QED
    BY <1>1, ParentRecursion
<1>3. \A b \in Blobs : f[b] = IF parent[b] = 0 THEN 1 ELSE f[parent[b]] + 1
  BY <1>2, ParentIsBefore DEF ByParent
<1>4. Defines(f)
  BY <1>3
<1>5. Level = CHOOSE g : Defines(g)
  BY DEF Level
<1>6. Defines(Level)
  <2> HIDE DEF Defines
  <2>1. QED
    BY <1>4, <1>5
<1>7. \A b \in Blobs : Level[b] = IF parent[b] = 0 THEN 1 ELSE Level[parent[b]] + 1
  <2> HIDE DEF base, step, values
  <2> DEFINE level == Level
  <2>1. level = [b \in Blobs |-> IF parent[b] = 0 THEN 1 ELSE level[parent[b]] + 1]
    BY <1>6
  <2> HIDE DEF level
  <2>2. \A b \in Blobs : level[b] = IF parent[b] = 0 THEN 1 ELSE level[parent[b]] + 1
    BY <2>1
  <2>3. QED
    BY <2>2 DEF level
<1>8. Blobs \subseteq {b \in Blobs : Level[b] \in Nat}
  <2> DEFINE typed == {b \in Blobs : Level[b] \in Nat}
  <2>1. \A b \in Blobs : parent[b] \in typed \cup {0} => b \in typed
    BY <1>7
  <2> HIDE DEF typed
  <2>2. Blobs \subseteq typed
    BY <2>1, ParentInduction
  <2>3. QED
    BY <2>2 DEF typed
<1>9. QED
  BY <1>7, <1>8

LEMMA ReachableIs ==
  ASSUME TreeOK
  PROVE  \A b \in Blobs :
           Reachable[b] <=> parent[b] = 0 \/ (printable[parent[b]] /\ Reachable[parent[b]])
<1> DEFINE base == [b \in Blobs |-> TRUE]
           step == [b \in Blobs |-> [r \in BOOLEAN |-> printable[parent[b]] /\ r]]
           Defines(f) == f = [b \in Blobs |->
                                parent[b] = 0 \/ (printable[parent[b]] /\ f[parent[b]])]
<1>1. base \in [Blobs -> BOOLEAN] /\ step \in [Blobs -> [BOOLEAN -> BOOLEAN]]
  OBVIOUS
<1>2. PICK f \in [Blobs -> BOOLEAN] : ByParent(f, base, step)
  <2> HIDE DEF base, step
  <2>1. QED
    BY <1>1, ParentRecursion
<1>3. \A b \in Blobs : f[b] = (parent[b] = 0 \/ (printable[parent[b]] /\ f[parent[b]]))
  BY <1>2, ParentIsBefore DEF ByParent
<1>4. Defines(f)
  BY <1>3
<1>5. Reachable = CHOOSE g : Defines(g)
  BY DEF Reachable
<1>6. Defines(Reachable)
  <2> HIDE DEF Defines
  <2>1. QED
    BY <1>4, <1>5
<1>7. QED
  <2> DEFINE reachable == Reachable
  <2>1. reachable = [b \in Blobs |->
                       parent[b] = 0 \/ (printable[parent[b]] /\ reachable[parent[b]])]
    BY <1>6
  <2> HIDE DEF reachable
  <2>2. \A b \in Blobs :
          reachable[b] <=> parent[b] = 0 \/ (printable[parent[b]] /\ reachable[parent[b]])
    BY <2>1
  <2>3. QED
    BY <2>2 DEF reachable

-----------------------------------------------------------------------------
(* The scan. *)

ScanTypeOK ==
  /\ TreeOK
  /\ stack \in Seq(SUBSET Blobs)
  /\ budget_left \in Nat /\ opaque_blobs \in Nat
  /\ block \in {"none", "budget", "pattern", "horizon"}
  /\ result \in {"scanning", "block", "flag", "pass"}

\* An open call of scan_level has yet to look at the blob.
Ahead(b) == \E i \in 1 .. Len(stack) : b \in stack[i]

LargeOpaque(S) == {b \in S : ~printable[b] /\ size[b] >= OpaqueLen}

\* Hidden, with the sum as the lemmas on sums have it.
ToFind ==
  \/ \E b \in Visible : hit[b]
  \/ \E b \in Visible : printable[b] /\ Level[b] = MaxDepth /\ Candidates(b) # {}
  \/ Total(size, Visible) > Budget

\* The scan stands between V, what it has been through, and what is ahead.  The
\* two are disjoint, they hold the parents they were reached by and every blob
\* that can be reached from V, and budget and counter have settled V.
Explored(V) ==
  /\ \A i \in 1 .. Len(stack) : \A b \in stack[i] : b \in Visible \ V /\ Level[b] = i
  /\ \A b \in Blobs : b \in V \/ Ahead(b) => parent[b] \in V \cup {0}
  /\ \A b \in Visible : parent[b] \in V \cup {0} => b \in V \/ Ahead(b)
  /\ \A b \in V : ~hit[b]
  /\ \A b \in V : printable[b] /\ Level[b] = MaxDepth => Candidates(b) = {}
  /\ budget_left = Budget - Total(size, V)
  /\ opaque_blobs = Cardinality(LargeOpaque(V))

ScanInv ==
  /\ ScanTypeOK
  /\ block # "none" => ToFind
  /\ block = "none" => \E V \in SUBSET Visible : Explored(V)
  /\ result # "scanning" =>
       /\ stack = <<>>
       /\ result = IF block # "none" THEN "block"
                   ELSE IF opaque_blobs > 0 THEN "flag" ELSE "pass"

\* Whatever the order in which a set is spent: it is finite, and its sizes add up.
LEMMA BlobsFinite ==
  ASSUME TreeOK, NEW V \in SUBSET Blobs
  PROVE  IsFiniteSet(V) /\ (\A b \in V : size[b] \in Nat) /\ Total(size, V) \in Nat
<1>1. IsFiniteSet(Blobs)
  BY ParentIsBefore, FS_Interval
<1>2. IsFiniteSet(V) /\ \A b \in V : size[b] \in Nat
  BY <1>1, FS_Subset DEF TreeOK
<1>3. QED
  BY <1>2, TotalType

\* The steps leave the tree, and with it what there is to find, as it is.
LEMMA TreeStays ==
  ASSUME UNCHANGED tree
  PROVE  /\ TreeOK' <=> TreeOK
         /\ Level' = Level /\ Visible' = Visible /\ (ToFind' <=> ToFind)
         /\ \A b \in Blobs : Candidates(b)' = Candidates(b)
         /\ \A S : LargeOpaque(S)' = LargeOpaque(S)
<1>1. parent' = parent /\ size' = size /\ hit' = hit /\ printable' = printable
  BY DEF tree
<1>2. TreeOK' <=> TreeOK
  BY <1>1 DEF TreeOK
<1>3. Level' = Level /\ Reachable' = Reachable
  BY <1>1 DEF Level, Reachable
<1>4. Visible' = Visible /\ (\A b \in Blobs : Candidates(b)' = Candidates(b))
  BY <1>1, <1>3 DEF Visible, Candidates
<1>5. \A S : LargeOpaque(S)' = LargeOpaque(S)
  BY <1>1 DEF LargeOpaque
<1>6. ToFind' <=> ToFind
  BY <1>1, <1>3, <1>4 DEF ToFind, Visible
<1>7. QED
  BY <1>2, <1>3, <1>4, <1>5, <1>6

LEMMA InitScan == ScanInit => ScanInv
<1> SUFFICES ASSUME ScanInit PROVE ScanInv
  OBVIOUS
<1>1. TreeOK
  BY EncodingAssumption DEF ScanInit, TreeOK, EncodingAssumption
<1>2. /\ stack = <<Candidates(0)>> /\ budget_left = Budget /\ opaque_blobs = 0
      /\ block = "none" /\ result = "scanning"
  BY DEF ScanInit
<1>3. Candidates(0) \in SUBSET Blobs /\ \A b \in Blobs : b \in Candidates(0) <=> parent[b] = 0
  BY DEF Candidates
<1>4. Len(stack) = 1 /\ stack[1] = Candidates(0) /\ stack \in Seq(SUBSET Blobs)
  BY <1>2, <1>3
<1>5. ScanTypeOK
  BY <1>1, <1>2, <1>4, EncodingAssumption DEF ScanTypeOK, EncodingAssumption
<1>6. \A b : Ahead(b) <=> b \in Candidates(0)
  BY <1>4 DEF Ahead
<1>7. \A b \in Candidates(0) : b \in Visible /\ Level[b] = 1
  BY <1>1, <1>3, LevelIs, ReachableIs, EncodingAssumption DEF Visible, EncodingAssumption
<1>8. LargeOpaque({}) = {} /\ Cardinality({}) = 0 /\ Total(size, {}) = 0
  BY FS_EmptySet, TotalEmpty DEF LargeOpaque
<1>9. Budget \in Nat
  BY EncodingAssumption DEF EncodingAssumption
<1>10. Explored({})
  <2>1. \A i \in 1 .. Len(stack) : \A b \in stack[i] : b \in Visible \ {} /\ Level[b] = i
    BY <1>4, <1>7
  <2>2. \A b \in Blobs : b \in {} \/ Ahead(b) => parent[b] \in {} \cup {0}
    BY <1>3, <1>6
  <2>3. \A b \in Visible : parent[b] \in {} \cup {0} => b \in {} \/ Ahead(b)
    BY <1>3, <1>6 DEF Visible
  <2>4. budget_left = Budget - Total(size, {}) /\ opaque_blobs = Cardinality(LargeOpaque({}))
    BY <1>2, <1>8, <1>9
  <2>5. QED
    BY <2>1, <2>2, <2>3, <2>4 DEF Explored
<1>11. QED
  BY <1>2, <1>5, <1>10 DEF ScanInv

\* The candidate at hand, whatever becomes of it.
LEMMA AtHand ==
  ASSUME ScanInv, AtCandidate
  PROVE  /\ Len(stack) \in Nat \ {0} /\ Current \in stack[Len(stack)] /\ Current \in Visible
         /\ Level[Current] = Len(stack) /\ Len(stack) <= MaxDepth
         /\ block = "none" /\ result = "scanning"
<1>1. Len(stack) \in Nat \ {0} /\ stack[Len(stack)] # {} /\ block = "none"
      /\ stack[Len(stack)] \in SUBSET Blobs
  BY DEF AtCandidate, Last, ScanInv, ScanTypeOK
<1>2. Current \in stack[Len(stack)]
  <2>1. stack[Len(stack)] \in SUBSET Nat
    BY <1>1, ParentIsBefore DEF ScanInv, ScanTypeOK
  <2>2. QED
    BY <1>1, <2>1, MinIsLeast DEF Current, Last
<1>3. PICK V \in SUBSET Visible : Explored(V)
  BY <1>1 DEF ScanInv
<1>4. Current \in Visible /\ Level[Current] = Len(stack)
  BY <1>1, <1>2, <1>3 DEF Explored
<1>5. Len(stack) <= MaxDepth
  BY <1>4 DEF Visible
<1>6. result = "scanning"
  BY <1>1 DEF ScanInv
<1>7. QED
  BY <1>1, <1>2, <1>4, <1>5, <1>6

LEMMA FrontIs ==
  ASSUME NEW S, NEW s \in Seq(S), s # <<>>
  PROVE  /\ Len(s) \in Nat \ {0} /\ Front(s) \in Seq(S) /\ Len(Front(s)) = Len(s) - 1
         /\ \A i \in 1 .. Len(s) - 1 : Front(s)[i] = s[i]
<1>1. Len(s) \in Nat \ {0} /\ \A i \in 1 .. Len(s) : s[i] \in S
  OBVIOUS
<1> DEFINE n == Len(s) - 1
<1>2. n \in Nat /\ \A i \in 1 .. n : s[i] \in S
  BY <1>1
<1> HIDE DEF n
<1>3. /\ SubSeq(s, 1, n) \in Seq(S) /\ Len(SubSeq(s, 1, n)) = n
      /\ \A i \in 1 .. n : SubSeq(s, 1, n)[i] = s[i]
  BY <1>2, SubSeqProperties
<1>4. QED
  BY <1>1, <1>3 DEF Front, n

\* The candidates an open call has left when one is taken.
LEMMA RemainingIs ==
  ASSUME ScanInv, AtCandidate
  PROVE  /\ Remaining \in Seq(SUBSET Blobs) /\ Len(Remaining) = Len(stack)
         /\ \A i \in 1 .. Len(stack) :
              Remaining[i] = IF i = Len(stack) THEN stack[i] \ {Current} ELSE stack[i]
<1> DEFINE left == stack[Len(stack)] \ {Current}
<1>1. stack \in Seq(SUBSET Blobs) /\ stack # <<>>
  BY DEF AtCandidate, ScanInv, ScanTypeOK
<1>2. left \in SUBSET Blobs
  BY <1>1
<1>3. Remaining = Front(stack) \o <<left>>
  BY DEF Remaining, Last
<1> HIDE DEF left
<1>4. /\ Len(stack) \in Nat \ {0} /\ Front(stack) \in Seq(SUBSET Blobs)
      /\ Len(Front(stack)) = Len(stack) - 1
      /\ \A i \in 1 .. Len(stack) - 1 : Front(stack)[i] = stack[i]
  BY <1>1, FrontIs
<1>5. /\ Remaining \in Seq(SUBSET Blobs) /\ Len(Remaining) = Len(stack)
      /\ Remaining[Len(stack)] = left
      /\ \A i \in 1 .. Len(stack) - 1 : Remaining[i] = Front(stack)[i]
  BY <1>2, <1>3, <1>4
<1>6. ASSUME NEW i \in 1 .. Len(stack)
      PROVE  Remaining[i] = IF i = Len(stack) THEN stack[i] \ {Current} ELSE stack[i]
  <2>1. i = Len(stack) \/ i \in 1 .. Len(stack) - 1
    BY <1>4
  <2>2. QED
    BY <1>4, <1>5, <2>1 DEF left
<1>7. QED
  BY <1>5, <1>6

\* A candidate that gives no reason to block is one more the scan has been
\* through, and what it decodes to is ahead.
LEMMA VisitKeeps ==
  ASSUME ScanInv, Spend, ~hit[Current],
         printable[Current] /\ Level[Current] = MaxDepth => Candidates(Current) = {},
         UNCHANGED <<tree, block, result>>,
         opaque_blobs' = IF ~printable[Current] /\ size[Current] >= OpaqueLen
                         THEN opaque_blobs + 1 ELSE opaque_blobs,
         \/ stack' = Remaining /\ (printable[Current] => Candidates(Current) = {})
         \/ /\ stack' = Append(Remaining, Candidates(Current))
            /\ printable[Current] /\ Len(stack) < MaxDepth
  PROVE  ScanInv'
<1>0. PICK c \in Visible, d \in Nat \ {0} : c = Current /\ d = Len(stack)
  BY AtHand DEF Spend
<1>1. /\ d \in Nat \ {0} /\ c \in stack[d] /\ c \in Visible
      /\ Level[c] = d /\ block = "none" /\ result = "scanning"
  BY <1>0, AtHand DEF Spend
<1>2. TreeOK /\ budget_left \in Nat /\ opaque_blobs \in Nat /\ stack \in Seq(SUBSET Blobs)
  BY DEF ScanInv, ScanTypeOK
<1>3. c \in Blobs /\ c \in Nat \ {0} /\ Reachable[c]
  BY <1>1, <1>2, ParentIsBefore DEF Visible
<1>4. size[c] \in Nat /\ size[c] <= budget_left /\ budget_left' = budget_left - size[c]
  BY <1>0, <1>2, <1>3 DEF Spend, Affordable, TreeOK
<1>5. PICK V \in SUBSET Visible : Explored(V)
  BY <1>1 DEF ScanInv
<1>6. c \notin V
  BY <1>0, <1>1, <1>5 DEF Explored
<1>7. /\ Remaining \in Seq(SUBSET Blobs) /\ Len(Remaining) = d
      /\ \A i \in 1 .. d : Remaining[i] = IF i = d THEN stack[i] \ {c} ELSE stack[i]
  BY <1>0, RemainingIs DEF Spend
<1>8. Candidates(c) \in SUBSET Blobs /\ \A b \in Blobs : b \in Candidates(c) <=> parent[b] = c
  BY DEF Candidates
<1>9. /\ stack' \in Seq(SUBSET Blobs)
      /\ \A i \in 1 .. Len(stack') : \A b \in stack'[i] :
           \/ i \in 1 .. d /\ b \in stack[i] /\ b # c
           \/ i = d + 1 /\ parent[b] = c /\ b \in Blobs /\ printable[c] /\ d < MaxDepth
      /\ \A b : Ahead(b) /\ b # c => Ahead(b)'
      /\ \A b \in Visible : parent[b] = c => Ahead(b)'
  <2>1. \A i \in 1 .. d : \A b \in Remaining[i] : b \in stack[i] /\ b # c
    <3> SUFFICES ASSUME NEW i \in 1 .. d, NEW b \in Remaining[i] PROVE b \in stack[i] /\ b # c
      OBVIOUS
    <3>1. CASE i = d
      BY <1>7, <3>1
    <3>2. CASE i # d
      <4>1. b \in stack[i]
        BY <1>7, <3>2
      <4>2. Level[b] = i
        BY <1>0, <1>5, <4>1 DEF Explored
      <4>3. QED
        BY <1>1, <3>2, <4>1, <4>2
    <3>3. QED
      BY <3>1, <3>2
  <2>2. CASE stack' = Remaining /\ (printable[c] => Candidates(c) = {})
    <3>1. \A i \in 1 .. Len(stack') : \A b \in stack'[i] : i \in 1 .. d /\ b \in stack[i] /\ b # c
      BY <1>7, <2>1, <2>2
    <3>2. \A b : Ahead(b) /\ b # c => Ahead(b)'
      BY <1>0, <1>7, <2>2 DEF Ahead
    <3>3. ASSUME NEW b \in Visible, parent[b] = c PROVE FALSE
      BY <1>2, <1>3, <1>8, <2>2, <3>3, ReachableIs DEF Visible
    <3>4. QED
      BY <1>7, <2>2, <3>1, <3>2, <3>3
  <2>3. CASE stack' = Append(Remaining, Candidates(c)) /\ printable[c] /\ d < MaxDepth
    <3>1. /\ stack' \in Seq(SUBSET Blobs) /\ Len(stack') = d + 1
          /\ stack'[d + 1] = Candidates(c) /\ \A i \in 1 .. d : stack'[i] = Remaining[i]
      BY <1>1, <1>7, <1>8, <2>3
    <3>2. \A i \in 1 .. Len(stack') : i \in 1 .. d \/ i = d + 1
      BY <1>1, <3>1
    <3>3. \A i \in 1 .. Len(stack') : \A b \in stack'[i] :
            \/ i \in 1 .. d /\ b \in stack[i] /\ b # c
            \/ i = d + 1 /\ parent[b] = c /\ b \in Blobs
      BY <1>8, <2>1, <3>1, <3>2
    <3>4. 1 .. d \subseteq 1 .. Len(stack') /\ d + 1 \in 1 .. Len(stack')
      BY <1>1, <3>1
    <3>5. \A b : Ahead(b) /\ b # c => Ahead(b)'
      BY <1>0, <1>7, <3>1, <3>4 DEF Ahead
    <3>6. \A b \in Visible : parent[b] = c => Ahead(b)'
      BY <1>8, <3>1, <3>4 DEF Ahead, Visible
    <3>7. QED
      BY <2>3, <3>1, <3>3, <3>5, <3>6
  <2>4. QED
    BY <1>0, <2>2, <2>3
<1>10. \A b \in Blobs : Ahead(b)' => (Ahead(b) /\ b # c) \/ parent[b] = c
  BY <1>0, <1>9 DEF Ahead
<1>11. /\ parent' = parent /\ size' = size /\ hit' = hit /\ printable' = printable
       /\ block' = block /\ result' = result /\ TreeOK' /\ Level' = Level /\ Visible' = Visible
       /\ \A b \in Blobs : Candidates(b)' = Candidates(b)
       /\ \A S : LargeOpaque(S)' = LargeOpaque(S)
  BY <1>2, TreeStays DEF tree
<1>12. V \cup {c} \in SUBSET Visible /\ V \in SUBSET Blobs /\ V \cup {c} \in SUBSET Blobs
  BY <1>1, <1>5 DEF Visible
<1>13. /\ IsFiniteSet(V) /\ Total(size, V) \in Nat
       /\ Total(size, V \cup {c}) = Total(size, V) + size[c]
  BY <1>2, <1>6, <1>12, BlobsFinite, TotalAdd
<1>14. Cardinality(LargeOpaque(V \cup {c})) = opaque_blobs'
  <2>1. IsFiniteSet(LargeOpaque(V)) /\ opaque_blobs = Cardinality(LargeOpaque(V))
    BY <1>5, <1>13, FS_Subset DEF LargeOpaque, Explored
  <2>2. c \notin LargeOpaque(V)
    BY <1>6 DEF LargeOpaque
  <2>3. CASE ~printable[c] /\ size[c] >= OpaqueLen
    <3>1. LargeOpaque(V \cup {c}) = LargeOpaque(V) \cup {c}
      BY <2>3 DEF LargeOpaque
    <3>2. QED
      BY <1>0, <2>1, <2>2, <2>3, <3>1, FS_AddElement
  <2>4. CASE ~(~printable[c] /\ size[c] >= OpaqueLen)
    <3>1. LargeOpaque(V \cup {c}) = LargeOpaque(V)
      BY <2>4 DEF LargeOpaque
    <3>2. QED
      BY <1>0, <2>1, <2>4, <3>1
  <2>5. QED
    BY <2>3, <2>4
<1>15. Explored(V \cup {c})'
  <2> DEFINE W == V \cup {c}
  <2>1. ASSUME NEW i \in 1 .. Len(stack'), NEW b \in stack'[i]
        PROVE  b \in Visible \ W /\ Level[b] = i
    <3>1. CASE i \in 1 .. d /\ b \in stack[i] /\ b # c
      BY <1>0, <1>5, <3>1 DEF Explored
    <3>2. CASE i = d + 1 /\ parent[b] = c /\ b \in Blobs /\ printable[c] /\ d < MaxDepth
      <4>1. Reachable[b] /\ Level[b] = d + 1
        BY <1>1, <1>2, <1>3, <3>2, ReachableIs, LevelIs
      <4>2. b \in Visible
        BY <1>1, <3>2, <4>1, EncodingAssumption DEF Visible, EncodingAssumption
      <4>3. b \notin V
        BY <1>3, <1>5, <1>6, <3>2 DEF Explored
      <4>4. b # c
        BY <1>1, <4>1
      <4>5. QED
        BY <3>2, <4>1, <4>2, <4>3, <4>4
    <3>3. QED
      BY <1>9, <3>1, <3>2
  <2>2. \A b \in Blobs : b \in W \/ Ahead(b)' => parent[b] \in W \cup {0}
    <3>1. Ahead(c)
      BY <1>0, <1>1 DEF Ahead
    <3>2. QED
      BY <1>5, <1>10, <3>1 DEF Explored
  <2>3. \A b \in Visible : parent[b] \in W \cup {0} => b \in W \/ Ahead(b)'
    BY <1>5, <1>9 DEF Explored
  <2>4. \A b \in W : ~hit[b]
    BY <1>0, <1>5 DEF Explored
  <2>5. \A b \in W : printable[b] /\ Level[b] = MaxDepth => Candidates(b) = {}
    BY <1>0, <1>5 DEF Explored
  <2>6. budget_left' = Budget - Total(size, W)
    BY <1>4, <1>5, <1>13, EncodingAssumption DEF Explored, EncodingAssumption
  <2>7. QED
    BY <1>11, <1>12, <1>14, <2>1, <2>2, <2>3, <2>4, <2>5, <2>6 DEF Explored
<1>16. ScanTypeOK'
  BY <1>2, <1>4, <1>9, <1>11 DEF ScanInv, ScanTypeOK
<1>17. QED
  BY <1>1, <1>11, <1>12, <1>15, <1>16 DEF ScanInv

-----------------------------------------------------------------------------
(* One step. *)

LEMMA TreeIsTyped == ASSUME ScanInv PROVE TreeOK /\ \A b \in Visible : b \in Blobs
BY DEF ScanInv, ScanTypeOK, Visible

\* What blocks is really there: the blobs looked at and the one at hand are all
\* visible, so more than the budget for them is more than the budget for all.
LEMMA OverBudget == ScanInv /\ BudgetExhausted => ScanInv'
<1> SUFFICES ASSUME ScanInv, BudgetExhausted PROVE ScanInv'
  OBVIOUS
<1>1. PICK c \in Visible : c = Current
  BY AtHand DEF BudgetExhausted
<1>2. PICK V \in SUBSET Visible : Explored(V)
  BY AtHand DEF BudgetExhausted, ScanInv
<1>3. /\ TreeOK /\ V \in SUBSET Blobs /\ Visible \in SUBSET Blobs /\ c \in Blobs
      /\ V \cup {c} \in SUBSET Visible
  BY <1>1, <1>2, TreeIsTyped
<1>4. c \notin V
  BY <1>1, <1>2, AtHand DEF BudgetExhausted, Explored
<1>5. /\ IsFiniteSet(V) /\ IsFiniteSet(Visible) /\ size[c] \in Nat
      /\ Total(size, V) \in Nat /\ Total(size, Visible) \in Nat
      /\ \A b \in Visible : size[b] \in Nat
  BY <1>3, BlobsFinite
<1>6. Total(size, V \cup {c}) = Total(size, V) + size[c]
  BY <1>1, <1>2, <1>4, <1>5, TotalAdd
<1>7. Total(size, V \cup {c}) <= Total(size, Visible)
  BY <1>3, <1>5, TotalMonotone
<1>8. budget_left = Budget - Total(size, V) /\ ~(size[c] <= budget_left)
  BY <1>1, <1>2 DEF BudgetExhausted, Affordable, Explored
<1>9. Total(size, Visible) > Budget
  BY <1>5, <1>6, <1>7, <1>8, EncodingAssumption DEF EncodingAssumption
<1>10. ToFind
  BY <1>9 DEF ToFind
<1>11. QED
  BY <1>10, TreeStays, AtHand DEF BudgetExhausted, Block, ScanInv, ScanTypeOK

LEMMA FoundPattern == ScanInv /\ PatternFound => ScanInv'
<1> SUFFICES ASSUME ScanInv, PatternFound PROVE ScanInv'
  OBVIOUS
<1>1. AtCandidate /\ Affordable(Current) /\ budget_left' = budget_left - size[Current]
  BY DEF PatternFound, Spend
<1>2. Current \in Visible /\ result = "scanning"
  BY <1>1, AtHand
<1>3. ToFind
  BY <1>2 DEF PatternFound, ToFind
<1>4. budget_left' \in Nat
  BY <1>1, <1>2, TreeIsTyped, BlobsFinite DEF Affordable, ScanInv, ScanTypeOK, TreeOK
<1>5. QED
  BY <1>2, <1>3, <1>4, TreeStays DEF PatternFound, Block, ScanInv, ScanTypeOK

LEMMA FoundHorizon == ScanInv /\ BeyondHorizon => ScanInv'
<1> SUFFICES ASSUME ScanInv, BeyondHorizon PROVE ScanInv'
  OBVIOUS
<1>1. AtCandidate /\ Affordable(Current) /\ budget_left' = budget_left - size[Current]
  BY DEF BeyondHorizon, Spend
<1>2. /\ Current \in Visible /\ result = "scanning" /\ Level[Current] = Len(stack)
      /\ Len(stack) <= MaxDepth /\ Len(stack) \in Nat
  BY <1>1, AtHand
<1>3. Level[Current] = MaxDepth
  BY <1>2, EncodingAssumption DEF BeyondHorizon, Depth, EncodingAssumption
<1>4. ToFind
  BY <1>2, <1>3 DEF BeyondHorizon, ToFind
<1>5. budget_left' \in Nat
  BY <1>1, <1>2, TreeIsTyped DEF Affordable, ScanInv, ScanTypeOK, TreeOK
<1>6. QED
  BY <1>2, <1>4, <1>5, TreeStays DEF BeyondHorizon, Block, ScanInv, ScanTypeOK

\* scan_level returns: no candidate is lost, unless something has blocked.
LEMMA ReturnKeeps == ScanInv /\ ScanReturn => ScanInv'
<1> SUFFICES ASSUME ScanInv, ScanReturn PROVE ScanInv'
  OBVIOUS
<1>1. PICK d \in Nat \ {0} : d = Len(stack)
  BY FrontIs DEF ScanReturn, ScanInv, ScanTypeOK
<1>2. /\ stack' \in Seq(SUBSET Blobs) /\ Len(stack') = d - 1
      /\ \A i \in 1 .. d - 1 : stack'[i] = stack[i]
  BY <1>1, FrontIs DEF ScanReturn, ScanInv, ScanTypeOK
<1>3. /\ UNCHANGED <<tree, budget_left, opaque_blobs, block, result>>
      /\ stack # <<>> /\ result = "scanning"
  BY DEF ScanReturn, ScanInv
<1>4. ScanTypeOK' /\ (ToFind' <=> ToFind) /\ Visible' = Visible
  BY <1>2, <1>3, TreeStays DEF ScanInv, ScanTypeOK
<1>5. ASSUME block = "none" PROVE \E V \in SUBSET Visible : Explored(V)'
  <2>1. stack[d] = {}
    BY <1>1, <1>5 DEF ScanReturn, Last
  <2>2. PICK V \in SUBSET Visible : Explored(V)
    BY <1>5 DEF ScanInv
  <2>3. \A b : Ahead(b)' <=> Ahead(b)
    <3>1. \A i \in 1 .. d : i = d \/ i \in 1 .. d - 1
      OBVIOUS
    <3>2. \A i \in 1 .. d - 1 : i \in 1 .. d
      OBVIOUS
    <3>3. QED
      BY <1>1, <1>2, <2>1, <3>1, <3>2 DEF Ahead
  <2>4. \A i \in 1 .. Len(stack') : i \in 1 .. Len(stack) /\ stack'[i] = stack[i]
    BY <1>1, <1>2
  <2>5. /\ parent' = parent /\ size' = size /\ hit' = hit /\ printable' = printable
        /\ Level' = Level /\ (\A b \in Blobs : Candidates(b)' = Candidates(b))
        /\ LargeOpaque(V)' = LargeOpaque(V)
        /\ budget_left' = budget_left /\ opaque_blobs' = opaque_blobs
    BY <1>3, TreeStays DEF tree
  <2>6. V \in SUBSET Blobs
    BY TreeIsTyped
  <2>7. Explored(V)'
    BY <1>4, <2>2, <2>3, <2>4, <2>5, <2>6 DEF Explored
  <2>8. QED
    BY <2>7
<1>6. QED
  BY <1>3, <1>4, <1>5 DEF ScanInv

LEMMA StackStays ==
  ASSUME ScanInv, UNCHANGED <<tree, stack, budget_left, opaque_blobs>>,
         NEW V \in SUBSET Visible, Explored(V)
  PROVE  Explored(V)'
<1>1. V \in SUBSET Blobs
  BY TreeIsTyped
<1>2. Len(stack') = Len(stack) /\ \A b : Ahead(b)' <=> Ahead(b)
  BY DEF Ahead
<1>3. /\ parent' = parent /\ size' = size /\ hit' = hit /\ printable' = printable
      /\ Level' = Level /\ Visible' = Visible
      /\ \A b \in Blobs : Candidates(b)' = Candidates(b)
      /\ LargeOpaque(V)' = LargeOpaque(V)
  BY TreeStays DEF tree
<1>4. QED
  BY <1>1, <1>2, <1>3 DEF Explored

LEMMA NextScan == ScanInv /\ [ScanNext]_scanVars => ScanInv'
<1> SUFFICES ASSUME ScanInv, [ScanNext]_scanVars PROVE ScanInv'
  OBVIOUS
<1>1. CASE BudgetExhausted
  BY <1>1, OverBudget
<1>2. CASE PatternFound
  BY <1>2, FoundPattern
<1>3. CASE Opaque
  BY <1>3, VisitKeeps DEF Opaque
<1>4. CASE BeyondHorizon
  BY <1>4, FoundHorizon
<1>5. CASE Leaf
  BY <1>5, VisitKeeps DEF Leaf
<1>6. CASE Descend
  <2>1. Level[Current] = Len(stack) /\ Len(stack) \in Nat
    BY <1>6, AtHand DEF Descend, Spend
  <2>2. QED
    BY <1>6, <2>1, VisitKeeps, EncodingAssumption DEF Descend, Depth, EncodingAssumption
<1>7. CASE ScanReturn
  BY <1>7, ReturnKeeps
<1>8. CASE Conclude
  <2>1. /\ UNCHANGED <<tree, stack, budget_left, opaque_blobs, block>> /\ stack = <<>>
        /\ result' = IF block # "none" THEN "block" ELSE IF opaque_blobs > 0 THEN "flag" ELSE "pass"
    BY <1>8 DEF Conclude
  <2>2. ScanTypeOK' /\ (ToFind' <=> ToFind)
    BY <2>1, TreeStays DEF ScanInv, ScanTypeOK
  <2>3. \A V \in SUBSET Visible : Explored(V) => Explored(V)'
    BY <2>1, StackStays
  <2>4. Visible' = Visible
    BY <2>1, TreeStays
  <2>5. QED
    BY <2>1, <2>2, <2>3, <2>4 DEF ScanInv
<1>9. CASE UNCHANGED scanVars
  <2>1. UNCHANGED <<tree, stack, budget_left, opaque_blobs, block, result>>
    BY <1>9 DEF scanVars
  <2>2. ScanTypeOK' /\ (ToFind' <=> ToFind)
    BY <2>1, TreeStays DEF ScanInv, ScanTypeOK
  <2>3. \A V \in SUBSET Visible : Explored(V) => Explored(V)'
    BY <2>1, StackStays
  <2>4. Visible' = Visible
    BY <2>1, TreeStays
  <2>5. QED
    BY <2>1, <2>2, <2>3, <2>4 DEF ScanInv
<1>10. QED
  BY <1>1, <1>2, <1>3, <1>4, <1>5, <1>6, <1>7, <1>8, <1>9 DEF ScanNext

-----------------------------------------------------------------------------
(* The verdict. *)

\* A scan that ends unblocked has been through everything visible: the parent of
\* a visible blob is visible, and nothing reachable from V is ahead or left out.
LEMMA AllExplored ==
  ASSUME TreeOK, stack = <<>>, NEW V \in SUBSET Visible, Explored(V)
  PROVE  V = Visible
<1> DEFINE S == {b \in Blobs : b \in Visible => b \in V}
<1>1. ASSUME NEW b \in Blobs, parent[b] \in S \cup {0} PROVE b \in S
  <2>1. ~Ahead(b)
    BY DEF Ahead
  <2>2. CASE parent[b] = 0
    BY <2>1, <2>2 DEF Explored
  <2>3. CASE parent[b] \in S /\ b \in Visible
    <3>1. /\ parent[b] \in Blobs /\ parent[b] # 0
          /\ Level[parent[b]] \in Nat /\ Level[b] = Level[parent[b]] + 1 /\ Reachable[parent[b]]
      BY <2>3, ParentIsBefore, LevelIs, ReachableIs DEF Visible
    <3>2. parent[b] \in Visible
      BY <2>3, <3>1, EncodingAssumption DEF Visible, EncodingAssumption
    <3>3. QED
      BY <2>1, <2>3, <3>2 DEF Explored
  <2>4. QED
    BY <1>1, <2>2, <2>3
<1> HIDE DEF S
<1>2. Blobs \subseteq S
  BY <1>1, ParentInduction
<1>3. QED
  BY <1>2 DEF S, Visible

\* Nothing of what the rule exists to stop is left when all is explored.
LEMMA NothingHidden ==
  ASSUME ScanInv, block = "none", stack = <<>>
  PROVE  ~ToFind /\ opaque_blobs = Cardinality(LargeOpaque(Visible))
<1>1. PICK V \in SUBSET Visible : Explored(V)
  BY DEF ScanInv
<1>2. V = Visible
  BY <1>1, TreeIsTyped, AllExplored
<1>3. Total(size, V) \in Nat
  BY TreeIsTyped, BlobsFinite
<1>4. ~(Total(size, V) > Budget)
  BY <1>1, <1>3, EncodingAssumption DEF Explored, EncodingAssumption, ScanInv, ScanTypeOK
<1>5. QED
  BY <1>1, <1>2, <1>4 DEF Explored, ToFind

LEMMA ScanInvImplies == ASSUME ScanInv PROVE BlocksIffHidden /\ FlagsIffOpaque
<1>1. Hidden <=> ToFind
  BY DEF Hidden, ToFind, Total
<1>2. opaque_blobs \in Nat
  BY DEF ScanInv, ScanTypeOK
<1>3. ASSUME result # "scanning"
      PROVE  /\ stack = <<>> /\ (result = "block" <=> block # "none")
             /\ block = "none" => (result = "flag" <=> opaque_blobs > 0)
  BY <1>2, <1>3 DEF ScanInv
<1>4. BlocksIffHidden
  BY <1>1, <1>3, NothingHidden DEF BlocksIffHidden, ScanInv
<1>5. FlagsIffOpaque
  BY <1>3, NothingHidden DEF FlagsIffOpaque, LargeOpaque
<1>6. QED
  BY <1>4, <1>5

\* The rule blocks if and only if something is hidden within its horizon, in
\* whatever order blobs are found and the budget is spent (scan_level,
\* encoding.rs).
THEOREM EncodingBlocksIffHidden == ScanSpec => []BlocksIffHidden
<1>1. ScanInv => BlocksIffHidden
  BY ScanInvImplies
<1>2. QED
  BY InitScan, NextScan, <1>1, PTL DEF ScanSpec

\* An unblocked payload is flagged if and only if a large opaque blob is visible,
\* and each is counted once, whatever calls are open when it is met.
THEOREM EncodingFlagsIffOpaque == ScanSpec => []FlagsIffOpaque
<1>1. ScanInv => FlagsIffOpaque
  BY ScanInvImplies
<1>2. QED
  BY InitScan, NextScan, <1>1, PTL DEF ScanSpec

-----------------------------------------------------------------------------
(* The layer. *)

\* The characters the homoglyph rule has been through.
CharsSeen == IF phase = "chars" THEN 1 .. at - 1 ELSE DOMAIN text

\* A mixture within the first n characters.
MixesBefore(class, n) ==
  \E i, j \in 1 .. n :
    /\ text[i] = class /\ text[j] = "latin" /\ SameWord(i, j)
    /\ \A k \in DOMAIN text : text[k] = "cjk" => ~SameWord(i, k)

LayerTypeOK ==
  /\ text \in Seq(Classes)
  /\ phase \in {"size", "chars", "words", "rules", "done"}
  /\ at \in 1 .. Len(text) + 1
  /\ counts \in [Counters -> Nat]
  /\ pending \in SUBSET OtherRules

\* A counter that a character moves has moved if one of those seen moves it.
CharsCounted ==
  /\ \A k \in Counters \ {"confusable", "mixed"} :
       counts[k] > 0 <=> \E i \in CharsSeen : k \in Counted(i)
  /\ counts["density"] = Cardinality({i \in CharsSeen : IsInvisible(i)})

\* The cursor is between words, and the counters tell what those behind it mix: a
\* word that mixes both other kinds counts as confusable.
WordsCounted ==
  /\ at = 1 \/ ~IsLetter(at)
  /\ counts["confusable"] > 0 <=> MixesBefore("lookalike", at - 1)
  /\ counts["mixed"] > 0 => MixesBefore("foreign", at - 1)
  /\ MixesBefore("foreign", at - 1) => counts["mixed"] > 0 \/ counts["confusable"] > 0

LayerInv ==
  /\ LayerTypeOK
  /\ phase = "size" => at = 1 /\ \A k \in Counters : counts[k] = 0
  /\ phase = "chars" => counts["confusable"] = 0 /\ counts["mixed"] = 0
  /\ phase \in {"chars", "words"} => CharsCounted
  /\ phase = "words" => WordsCounted
  /\ phase \in {"size", "chars", "words"} => pending = OtherRules
  /\ oversize => phase \in {"size", "done"}
  /\ oversize /\ phase = "done" => findings = {Finding("max_payload_bytes", "block")}
  /\ ~oversize /\ phase \in {"rules", "done"} =>
       findings = (UNION {FindingOf(rule) : rule \in OtherRules \ pending})
                  \cup {Finding("unicode_homoglyph", r) : r \in HomoglyphFinds}
  /\ ~oversize /\ phase = "done" => pending = {}

\* Two letters are of one word if everything between them is a letter.
LEMMA SameWordIs ==
  ASSUME NEW i \in Nat, NEW j \in Nat
  PROVE  SameWord(i, j) <=>
           \A k \in Nat : (i <= k /\ k <= j) \/ (j <= k /\ k <= i) => IsLetter(k)
<1> DEFINE least == Min({i, j})
           greatest == Max({i, j})
<1>1. least \in {i, j} /\ least <= i /\ least <= j
  BY MinIsLeast
<1>2. greatest \in {i, j} /\ i <= greatest /\ j <= greatest
  <2>1. {i, j} \in SUBSET (0 .. i + j) /\ i + j \in Nat
    OBVIOUS
  <2>2. QED
    BY <2>1, MaxIsGreatest
<1>3. SameWord(i, j) <=> \A k \in least .. greatest : IsLetter(k)
  BY DEF SameWord
<1> HIDE DEF least, greatest
<1>4. QED
  BY <1>1, <1>2, <1>3

\* The next word is a maximal run of letters, and no letter lies before it.
LEMMA NextWord ==
  ASSUME LayerTypeOK, at = 1 \/ ~IsLetter(at), LettersLeft # {}
  PROVE  /\ WordStart \in at .. Len(text) /\ WordEnd \in WordStart .. Len(text)
         /\ \A i \in WordStart .. WordEnd : IsLetter(i)
         /\ \A i \in at .. WordStart - 1 : ~IsLetter(i)
         /\ ~IsLetter(WordStart - 1) /\ ~IsLetter(WordEnd + 1)
<1>1. at \in Nat \ {0} /\ Len(text) \in Nat /\ at <= Len(text) + 1
      /\ DOMAIN text = 1 .. Len(text)
  BY DEF LayerTypeOK
<1> DEFINE s == WordStart
           e == WordEnd
           Run == {j \in s .. Len(text) : \A i \in s .. j : IsLetter(i)}
<1>2. s \in LettersLeft /\ \A i \in LettersLeft : s <= i
  <2>1. LettersLeft \in SUBSET Nat
    BY <1>1 DEF LettersLeft
  <2>2. QED
    BY <2>1, MinIsLeast DEF WordStart
<1>3. s \in at .. Len(text) /\ s \in Nat \ {0} /\ IsLetter(s)
  BY <1>1, <1>2 DEF LettersLeft
<1>4. \A i \in at .. s - 1 : ~IsLetter(i)
  BY <1>1, <1>2, <1>3 DEF LettersLeft
<1>5. e \in Run /\ \A j \in Run : j <= e
  <2>1. s \in Run
    BY <1>1, <1>3
  <2>2. Run \in SUBSET (0 .. Len(text))
    BY <1>1, <1>3
  <2>3. e = Max(Run)
    BY DEF WordEnd
  <2> HIDE DEF Run, s, e
  <2>4. QED
    BY <1>1, <2>1, <2>2, <2>3, MaxIsGreatest
<1> HIDE DEF s, e
<1>6. ~IsLetter(s - 1)
  <2>1. CASE s = at
    <3>1. at = 1
      BY <1>3, <2>1
    <3>2. QED
      BY <1>1, <2>1, <3>1 DEF IsLetter
  <2>2. CASE s # at
    BY <1>1, <1>3, <1>4, <2>2
  <2>3. QED
    BY <2>1, <2>2
<1>7. ~IsLetter(e + 1)
  <2> SUFFICES ASSUME IsLetter(e + 1) PROVE FALSE
    OBVIOUS
  <2>1. e + 1 \in s .. Len(text)
    BY <1>1, <1>3, <1>5 DEF IsLetter
  <2>2. \A i \in s .. e + 1 : i \in s .. e \/ i = e + 1
    BY <1>3, <1>5
  <2>3. e + 1 \in Run
    BY <1>5, <2>1, <2>2
  <2>4. QED
    BY <1>3, <1>5, <2>3
<1>8. QED
  BY <1>3, <1>4, <1>5, <1>6, <1>7 DEF s, e

WordClasses == {text[i] : i \in WordStart .. WordEnd}

\* A word mixes what it has beside Latin, unless it has CJK; no mixture spans two
\* words.
LEMMA WordMixes ==
  ASSUME LayerTypeOK, at = 1 \/ ~IsLetter(at), LettersLeft # {}, NEW class
  PROVE  MixesBefore(class, WordEnd) <=>
           \/ MixesBefore(class, at - 1)
           \/ class \in WordClasses /\ "latin" \in WordClasses /\ "cjk" \notin WordClasses
<1> DEFINE s == WordStart
           e == WordEnd
<1>1. /\ s \in at .. Len(text) /\ e \in s .. Len(text)
      /\ \A i \in s .. e : IsLetter(i)
      /\ \A i \in at .. s - 1 : ~IsLetter(i)
      /\ ~IsLetter(s - 1) /\ ~IsLetter(e + 1)
  BY NextWord
<1>2. /\ at \in Nat \ {0} /\ Len(text) \in Nat /\ DOMAIN text = 1 .. Len(text)
  BY DEF LayerTypeOK
<1>3. WordClasses = {text[i] : i \in s .. e}
  BY DEF WordClasses
<1> HIDE DEF s, e
<1>4. s \in Nat \ {0} /\ e \in Nat \ {0} /\ at <= s /\ s <= e /\ e <= Len(text)
  BY <1>1, <1>2
<1>5. ASSUME NEW i \in s .. e, NEW k \in Nat PROVE SameWord(i, k) <=> k \in s .. e
  <2>0. i \in Nat /\ s - 1 \in Nat /\ e + 1 \in Nat
    BY <1>4
  <2>1. CASE k \in s .. e
    BY <1>1, <1>4, <2>0, <2>1, SameWordIs
  <2>2. CASE k <= s - 1
    BY <1>1, <1>4, <2>0, <2>2, SameWordIs
  <2>3. CASE k >= e + 1
    BY <1>1, <1>4, <2>0, <2>3, SameWordIs
  <2>4. QED
    BY <1>4, <2>1, <2>2, <2>3
<1> DEFINE Pure(i) == \A k \in DOMAIN text : text[k] = "cjk" => ~SameWord(i, k)
<1>6. \A i \in s .. e : Pure(i) <=> "cjk" \notin WordClasses
  <2>1. \A k \in s .. e : k \in DOMAIN text
    BY <1>2, <1>4
  <2>2. \A k \in DOMAIN text : k \in Nat
    BY <1>2
  <2>3. QED
    BY <1>3, <1>5, <2>1, <2>2
<1>7. ASSUME NEW i \in 1 .. e, NEW j \in 1 .. e, SameWord(i, j)
      PROVE  (i \in s .. e /\ j \in s .. e) \/ (i \in 1 .. at - 1 /\ j \in 1 .. at - 1)
  <2>1. i \in Nat /\ j \in Nat /\ IsLetter(i) /\ IsLetter(j)
    BY <1>4, <1>7, SameWordIs
  <2>2. (i \in s .. e \/ i \in 1 .. at - 1) /\ (j \in s .. e \/ j \in 1 .. at - 1)
    BY <1>1, <1>2, <1>4, <2>1
  <2>3. i \in s .. e => j \in s .. e
    BY <1>5, <1>7, <2>1
  <2>4. j \in s .. e => i \in s .. e
    <3>1. SameWord(j, i)
      BY <1>7, <2>1, SameWordIs
    <3>2. QED
      BY <1>5, <2>1, <3>1
  <2>5. QED
    BY <2>2, <2>3, <2>4
<1>8. 1 .. at - 1 \subseteq 1 .. e /\ s .. e \subseteq 1 .. e
  BY <1>2, <1>4
<1>9. \A i, j \in s .. e : SameWord(i, j)
  BY <1>4, <1>5
<1>10. MixesBefore(class, e) <=>
         \/ MixesBefore(class, at - 1)
         \/ \E i, j \in s .. e : text[i] = class /\ text[j] = "latin" /\ Pure(i)
  <2> HIDE DEF Pure
  <2> DEFINE Mixed(i, j) == text[i] = class /\ text[j] = "latin" /\ SameWord(i, j) /\ Pure(i)
  <2>1. \A n : MixesBefore(class, n) <=> \E i, j \in 1 .. n : Mixed(i, j)
    BY DEF MixesBefore, Pure
  <2>2. QED
    BY <1>7, <1>8, <1>9, <2>1
<1>11. QED
  <2> HIDE DEF Pure
  <2>1. QED
    BY <1>3, <1>6, <1>10 DEF e

LEMMA InitLayer == Init => LayerInv
<1> SUFFICES ASSUME Init PROVE LayerInv
  OBVIOUS
<1>1. text \in Seq(Classes)
  <2>1. PICK m \in 0 .. MaxLength : text \in [1 .. m -> Classes]
    BY DEF Init, SeqOf
  <2>2. QED
    BY <2>1, ChallengeAssumption DEF ChallengeAssumption
<1>2. LayerTypeOK
  BY <1>1 DEF Init, LayerTypeOK
<1>3. QED
  BY <1>2 DEF Init, LayerInv

\* The specification says of a text, and the counters of a position, the same in
\* two states of one payload.
LEMMA PayloadStays ==
  ASSUME UNCHANGED payload
  PROVE  /\ text' = text /\ oversize' = oversize /\ matches' = matches
         /\ \A i : Counted(i)' = Counted(i) /\ (IsInvisible(i)' <=> IsInvisible(i))
                   /\ (IsLetter(i)' <=> IsLetter(i))
         /\ \A class, n : MixesBefore(class, n)' <=> MixesBefore(class, n)
         /\ HomoglyphFinds' = HomoglyphFinds
         /\ \A rule : FindingOf(rule)' = FindingOf(rule)
<1>1. text' = text /\ oversize' = oversize /\ matches' = matches
  BY DEF payload
<1>2. \A i : /\ (IsInvisible(i)' <=> IsInvisible(i))
            /\ (IsLetter(i)' <=> IsLetter(i))
  BY <1>1 DEF IsInvisible, IsLetter
<1>3. \A i : Counted(i)' = Counted(i)
  BY <1>1, <1>2 DEF Counted
<1>4. \A i, j : SameWord(i, j)' <=> SameWord(i, j)
  BY <1>2 DEF SameWord
<1>5. \A class, n : MixesBefore(class, n)' <=> MixesBefore(class, n)
  BY <1>1, <1>4 DEF MixesBefore
<1>6. HomoglyphFinds' = HomoglyphFinds
  BY <1>1 DEF HomoglyphFinds, MustBlock, MayFlag, Has, Mixes, SameWord, SplitsWord, Invisible,
              IsInvisible, IsLetter
<1>7. \A rule : FindingOf(rule)' = FindingOf(rule)
  BY <1>1 DEF FindingOf
<1>8. QED
  BY <1>1, <1>2, <1>3, <1>5, <1>6, <1>7

\* What the counters make of the whole text is what the text has.
LEMMA VerdictOfCounters ==
  ASSUME LayerTypeOK, phase = "words", CharsCounted, WordsCounted, LettersLeft = {}
  PROVE  HomoglyphResult(counts) = HomoglyphFinds
<1>1. /\ at \in Nat \ {0} /\ at <= Len(text) + 1 /\ Len(text) \in Nat
      /\ DOMAIN text = 1 .. Len(text) /\ counts \in [Counters -> Nat]
  BY DEF LayerTypeOK
<1>2. CharsSeen = DOMAIN text
  BY DEF CharsSeen
<1>3. ASSUME NEW k \in {"tag", "override", "joiner", "soft", "broken"}
      PROVE  counts[k] > 0 <=> Has(k)
  <2>1. k \in Counters \ {"confusable", "mixed"} /\ k # "density" /\ k # "intra_word"
    BY DEF Counters
  <2>2. \A i \in DOMAIN text : k \in Counted(i) <=> text[i] = k
    BY <2>1 DEF Counted, IsInvisible
  <2>3. QED
    BY <1>2, <2>1, <2>2 DEF CharsCounted, Has
<1>4. counts["intra_word"] > 0 <=> SplitsWord
  <2>1. "intra_word" \in Counters \ {"confusable", "mixed"} /\ "intra_word" \notin Classes
    BY DEF Counters, Classes, Letters
  <2>2. \A i \in DOMAIN text : "intra_word" \in Counted(i) <=>
          IsInvisible(i) /\ IsLetter(i - 1) /\ IsLetter(i + 1)
    BY <2>1 DEF Counted, LayerTypeOK
  <2>3. QED
    BY <1>2, <2>1, <2>2 DEF CharsCounted, SplitsWord
<1>5. counts["density"] = Cardinality(Invisible)
  BY <1>2 DEF CharsCounted, Invisible
<1>6. counts["density"] > 0 <=> Invisible # {}
  <2>1. "density" \in Counters \ {"confusable", "mixed"} /\ "density" \notin Classes
    BY DEF Counters, Classes, Letters
  <2>2. \A i \in DOMAIN text : "density" \in Counted(i) <=> IsInvisible(i)
    BY <2>1 DEF Counted, LayerTypeOK
  <2>3. QED
    BY <1>2, <2>1, <2>2 DEF CharsCounted, Invisible
<1>7. ASSUME NEW class PROVE Mixes(class) <=> MixesBefore(class, at - 1)
  <2>1. \A i \in DOMAIN text : IsLetter(i) => i \in 1 .. at - 1
    BY <1>1 DEF LettersLeft
  <2>2. \A i, j \in DOMAIN text : SameWord(i, j) => IsLetter(i) /\ IsLetter(j)
    BY <1>1, SameWordIs
  <2>3. 1 .. at - 1 \subseteq DOMAIN text
    BY <1>1
  <2>4. QED
    BY <2>1, <2>2, <2>3 DEF Mixes, MixesBefore
<1>8. counts["confusable"] > 0 <=> Mixes("lookalike")
  BY <1>7 DEF WordsCounted
<1>9. /\ counts["mixed"] > 0 => Mixes("foreign")
      /\ Mixes("foreign") => counts["mixed"] > 0 \/ counts["confusable"] > 0
  BY <1>7 DEF WordsCounted
<1> DEFINE blocks == \/ counts["tag"] > 0 \/ counts["override"] > 0 \/ counts["confusable"] > 0
                     \/ counts["intra_word"] > 0 \/ counts["density"] > MaxInvisible
           flags == \E k \in {"density", "joiner", "soft", "mixed", "broken"} : counts[k] > 0
<1>10. blocks <=> MustBlock
  BY <1>3, <1>4, <1>5, <1>8 DEF MustBlock
<1>11. ~blocks => (flags <=> MayFlag)
  BY <1>3, <1>6, <1>9 DEF MayFlag
<1>12. HomoglyphResult(counts) = IF blocks THEN {"block"} ELSE IF flags THEN {"flag"} ELSE {}
  BY DEF HomoglyphResult
<1> HIDE DEF blocks, flags
<1>13. QED
  BY <1>10, <1>11, <1>12 DEF HomoglyphFinds

\* A character moves its counters by one, and no others.
LEMMA CharKeeps == LayerInv /\ ScanChar => LayerInv'
<1> SUFFICES ASSUME LayerInv, ScanChar PROVE LayerInv'
  OBVIOUS
<1>1. PICK n \in Nat \ {0} : n = at
  BY DEF LayerInv, LayerTypeOK
<1>2. /\ phase = "chars" /\ phase' = "chars" /\ n <= Len(text) /\ Len(text) \in Nat
      /\ at' = n + 1 /\ DOMAIN text = 1 .. Len(text) /\ counts \in [Counters -> Nat]
      /\ counts' = [k \in Counters |-> counts[k] + (IF k \in Counted(n) THEN 1 ELSE 0)]
      /\ UNCHANGED <<payload, pending, findings>> /\ CharsCounted
  BY <1>1 DEF ScanChar, Bump, LayerInv, LayerTypeOK
<1>3. text' = text /\ \A i : Counted(i)' = Counted(i) /\ (IsInvisible(i)' <=> IsInvisible(i))
  BY <1>2, PayloadStays
<1>4. CharsSeen = 1 .. n - 1 /\ CharsSeen' = 1 .. n /\ 1 .. n = (1 .. n - 1) \cup {n}
  BY <1>1, <1>2 DEF CharsSeen
<1>5. counts' \in [Counters -> Nat]
  BY <1>2
<1>6. LayerTypeOK'
  BY <1>2, <1>3, <1>5 DEF LayerInv, LayerTypeOK
<1>7. text[n] \in Classes
  BY <1>2 DEF LayerInv, LayerTypeOK
<1>8. "confusable" \notin Counted(n) /\ "mixed" \notin Counted(n)
  BY <1>7 DEF Counted, Classes, Letters
<1>9. counts'["confusable"] = 0 /\ counts'["mixed"] = 0
  <2>1. counts["confusable"] = 0 /\ counts["mixed"] = 0
    BY <1>2 DEF LayerInv
  <2>2. "confusable" \in Counters /\ "mixed" \in Counters
    BY DEF Counters
  <2>3. QED
    BY <1>2, <1>8, <2>1, <2>2
<1>10. ASSUME NEW k \in Counters \ {"confusable", "mixed"}
       PROVE  counts'[k] > 0 <=> \E i \in CharsSeen' : k \in Counted(i)'
  <2>1. counts[k] > 0 <=> \E i \in 1 .. n - 1 : k \in Counted(i)
    BY <1>2, <1>4 DEF CharsCounted
  <2>2. counts'[k] > 0 <=> counts[k] > 0 \/ k \in Counted(n)
    <3>1. counts[k] \in Nat /\ counts'[k] = counts[k] + (IF k \in Counted(n) THEN 1 ELSE 0)
      BY <1>2
    <3>2. QED
      BY <3>1
  <2>3. QED
    BY <1>3, <1>4, <2>1, <2>2
<1>11. counts'["density"] = Cardinality({i \in CharsSeen' : IsInvisible(i)'})
  <2> DEFINE Before == {i \in 1 .. n - 1 : IsInvisible(i)}
             After == {i \in 1 .. n : IsInvisible(i)}
  <2>1. counts["density"] = Cardinality(Before) /\ {i \in CharsSeen' : IsInvisible(i)'} = After
    BY <1>2, <1>3, <1>4 DEF CharsCounted
  <2>2. IsFiniteSet(Before) /\ n \notin Before
    <3>1. IsFiniteSet(1 .. n - 1)
      BY FS_Interval
    <3>2. QED
      BY <3>1, FS_Subset
  <2>3. "density" \in Counted(n) <=> IsInvisible(n)
    BY <1>7 DEF Counted, Classes, Letters
  <2>4. "density" \in Counters
    BY DEF Counters
  <2>5. After = IF IsInvisible(n) THEN Before \cup {n} ELSE Before
    BY <1>4
  <2> HIDE DEF Before, After
  <2>6. Cardinality(Before \cup {n}) = Cardinality(Before) + 1
    BY <2>2, FS_AddElement
  <2>7. counts'["density"] = counts["density"] + (IF IsInvisible(n) THEN 1 ELSE 0)
        /\ counts["density"] \in Nat
    BY <1>2, <2>3, <2>4
  <2>8. QED
    BY <2>1, <2>5, <2>6, <2>7
<1>12. CharsCounted'
  BY <1>10, <1>11 DEF CharsCounted
<1>13. pending' = OtherRules /\ (oversize' <=> oversize) /\ ~oversize
  BY <1>2, <1>3, PayloadStays DEF LayerInv
<1>14. QED
  BY <1>2, <1>6, <1>9, <1>12, <1>13 DEF LayerInv

LEMMA FirstWordKeeps == LayerInv /\ FirstWord => LayerInv'
<1> SUFFICES ASSUME LayerInv, FirstWord PROVE LayerInv'
  OBVIOUS
<1>1. /\ phase = "chars" /\ phase' = "words" /\ at' = 1
      /\ UNCHANGED <<payload, counts, pending, findings>> /\ CharsCounted
      /\ counts["confusable"] = 0 /\ counts["mixed"] = 0 /\ ~oversize
      /\ pending = OtherRules
  BY DEF FirstWord, LayerInv
<1>2. text' = text /\ (oversize' <=> oversize)
      /\ \A i : Counted(i)' = Counted(i) /\ (IsInvisible(i)' <=> IsInvisible(i))
  BY <1>1, PayloadStays
<1>3. CharsSeen = DOMAIN text /\ CharsSeen' = DOMAIN text
  <2>1. DOMAIN text = 1 .. Len(text) /\ at \in 1 .. Len(text) + 1 /\ Len(text) \in Nat
    BY DEF LayerInv, LayerTypeOK
  <2>2. at = Len(text) + 1
    BY <2>1 DEF FirstWord
  <2>3. QED
    BY <1>1, <1>2, <2>1, <2>2 DEF CharsSeen
<1>4. CharsCounted'
  BY <1>1, <1>2, <1>3 DEF CharsCounted
<1>5. \A class : ~MixesBefore(class, at - 1)'
  BY <1>1 DEF MixesBefore
<1>6. WordsCounted'
  BY <1>1, <1>5 DEF WordsCounted
<1>7. LayerTypeOK'
  BY <1>1, <1>2 DEF LayerInv, LayerTypeOK
<1>8. QED
  BY <1>1, <1>2, <1>4, <1>6, <1>7 DEF LayerInv

\* A word moves one counter at most; a word with both kinds of mixture is counted
\* as confusable only.
LEMMA WordKeeps == LayerInv /\ ScanWord => LayerInv'
<1> SUFFICES ASSUME LayerInv, ScanWord PROVE LayerInv'
  OBVIOUS
<1>1. PICK e : e = WordEnd
  OBVIOUS
<1>2. /\ phase = "words" /\ phase' = "words" /\ LettersLeft # {} /\ at' = e + 1
      /\ counts \in [Counters -> Nat]
      /\ counts' = [k \in Counters |->
                      counts[k] + (IF k \in WordCounted(WordClasses) THEN 1 ELSE 0)]
      /\ UNCHANGED <<payload, pending, findings>>
      /\ CharsCounted /\ WordsCounted /\ ~oversize /\ pending = OtherRules
  BY <1>1 DEF ScanWord, Bump, WordClasses, LayerInv, LayerTypeOK
<1>3. /\ text' = text /\ (oversize' <=> oversize)
      /\ \A i : Counted(i)' = Counted(i) /\ (IsInvisible(i)' <=> IsInvisible(i))
                /\ (IsLetter(i)' <=> IsLetter(i))
      /\ \A class, n : MixesBefore(class, n)' <=> MixesBefore(class, n)
  BY <1>2, PayloadStays
<1>4. LayerTypeOK /\ (at = 1 \/ ~IsLetter(at))
  BY <1>2 DEF LayerInv, WordsCounted
<1>5. /\ WordStart \in at .. Len(text) /\ e \in WordStart .. Len(text)
      /\ \A i \in WordStart .. e : IsLetter(i)
      /\ ~IsLetter(e + 1)
  BY <1>1, <1>2, <1>4, NextWord
<1>6. /\ at \in Nat \ {0} /\ Len(text) \in Nat /\ WordStart \in Nat \ {0} /\ e \in Nat
      /\ at' \in 1 .. Len(text) + 1 /\ at' - 1 = e
  BY <1>2, <1>4, <1>5 DEF LayerTypeOK
<1>7. WordClasses \subseteq Letters
  BY <1>1, <1>5 DEF WordClasses, IsLetter
<1> DEFINE clean == "latin" \in WordClasses /\ "cjk" \notin WordClasses
<1>8. \A class : MixesBefore(class, e) <=>
        \/ MixesBefore(class, at - 1)
        \/ class \in WordClasses /\ clean
  BY <1>1, <1>2, <1>4, WordMixes
<1>9. "confusable" \in WordCounted(WordClasses) <=> clean /\ "lookalike" \in WordClasses
  BY DEF WordCounted
<1>10. "mixed" \in WordCounted(WordClasses) <=>
         clean /\ "lookalike" \notin WordClasses /\ "foreign" \in WordClasses
  <2>1. clean /\ "lookalike" \notin WordClasses =>
          (WordClasses # {"latin"} <=> "foreign" \in WordClasses)
    <3> SUFFICES ASSUME clean, "lookalike" \notin WordClasses
                 PROVE  WordClasses # {"latin"} <=> "foreign" \in WordClasses
      OBVIOUS
    <3>1. \A x \in WordClasses : x = "latin" \/ x = "foreign"
      BY <1>7 DEF Letters
    <3>2. "latin" \in WordClasses
      OBVIOUS
    <3> HIDE DEF clean
    <3>3. QED
      BY <3>1, <3>2
  <2>2. QED
    BY <2>1 DEF WordCounted
<1> HIDE DEF clean
<1>11. /\ counts'["confusable"] > 0 <=>
            counts["confusable"] > 0 \/ "confusable" \in WordCounted(WordClasses)
       /\ counts'["mixed"] > 0 <=>
            counts["mixed"] > 0 \/ "mixed" \in WordCounted(WordClasses)
  <2>1. "confusable" \in Counters /\ "mixed" \in Counters
    BY DEF Counters
  <2>2. QED
    BY <1>2, <2>1
<1>12. WordsCounted'
  <2>1. counts'["confusable"] > 0 <=> MixesBefore("lookalike", e)
    BY <1>2, <1>8, <1>9, <1>11 DEF WordsCounted
  <2>2. counts'["mixed"] > 0 => MixesBefore("foreign", e)
    BY <1>2, <1>8, <1>10, <1>11 DEF WordsCounted
  <2>3. MixesBefore("foreign", e) => counts'["mixed"] > 0 \/ counts'["confusable"] > 0
    BY <1>2, <1>8, <1>9, <1>10, <1>11 DEF WordsCounted
  <2>4. \A class : MixesBefore(class, at - 1)' <=> MixesBefore(class, e)
    <3>1. \A i, j : SameWord(i, j)' <=> SameWord(i, j)
      BY <1>3 DEF SameWord
    <3>2. 1 .. at' - 1 = 1 .. e
      BY <1>6
    <3>3. QED
      BY <1>3, <3>1, <3>2 DEF MixesBefore
  <2>5. ~IsLetter(at)'
    BY <1>2, <1>3, <1>5 DEF IsLetter
  <2>6. QED
    BY <2>1, <2>2, <2>3, <2>4, <2>5 DEF WordsCounted
<1>13. CharsCounted'
  <2>1. CharsSeen' = CharsSeen
    BY <1>2, <1>3 DEF CharsSeen
  <2>2. \A k \in Counters \ {"confusable", "mixed"} : counts'[k] = counts[k]
    <3>1. WordCounted(WordClasses) \subseteq {"confusable", "mixed"}
      BY DEF WordCounted
    <3>2. QED
      BY <1>2, <3>1
  <2>3. "density" \in Counters
    BY DEF Counters
  <2>4. QED
    BY <1>2, <1>3, <2>1, <2>2, <2>3 DEF CharsCounted
<1>14. LayerTypeOK'
  BY <1>2, <1>3, <1>4, <1>6 DEF LayerTypeOK
<1>15. QED
  BY <1>2, <1>3, <1>12, <1>13, <1>14 DEF LayerInv

\* What every rule that has run found, whatever it was, is kept.
LEMMA RuleKeeps ==
  ASSUME LayerInv, NEW rule \in OtherRules, RunRule(rule)
  PROVE  LayerInv'
<1>1. /\ phase = "rules" /\ phase' = "rules" /\ rule \in pending /\ pending' = pending \ {rule}
      /\ findings' = findings \cup FindingOf(rule) /\ UNCHANGED <<payload, at, counts>>
      /\ ~oversize
      /\ findings = (UNION {FindingOf(r) : r \in OtherRules \ pending})
                     \cup {Finding("unicode_homoglyph", r) : r \in HomoglyphFinds}
  BY DEF RunRule, LayerInv
<1>2. /\ text' = text /\ (oversize' <=> oversize) /\ HomoglyphFinds' = HomoglyphFinds
      /\ \A r : FindingOf(r)' = FindingOf(r)
  BY <1>1, PayloadStays
<1>3. OtherRules \ pending' = (OtherRules \ pending) \cup {rule}
  BY <1>1
<1>4. (UNION {FindingOf(r)' : r \in OtherRules \ pending'}) =
        (UNION {FindingOf(r) : r \in OtherRules \ pending}) \cup FindingOf(rule)
  BY <1>2, <1>3
<1>5. LayerTypeOK'
  BY <1>1, <1>2 DEF LayerInv, LayerTypeOK
<1>6. findings' = (UNION {FindingOf(r)' : r \in OtherRules \ pending'})
                  \cup {Finding("unicode_homoglyph", r) : r \in HomoglyphFinds'}
  BY <1>1, <1>2, <1>4
<1>7. QED
  BY <1>1, <1>2, <1>5, <1>6 DEF LayerInv, Finding

LEMMA NextLayer == LayerInv /\ [Next]_vars => LayerInv'
<1> SUFFICES ASSUME LayerInv, [Next]_vars PROVE LayerInv'
  OBVIOUS
<1>1. CASE Oversize
  <2>1. LayerTypeOK' /\ (oversize' <=> oversize)
    BY <1>1, PayloadStays DEF Oversize, LayerInv, LayerTypeOK
  <2>2. pending' = pending /\ phase = "size"
    BY <1>1 DEF Oversize
  <2>3. QED
    BY <1>1, <2>1, <2>2 DEF Oversize, LayerInv, Finding
<1>2. CASE FirstRule
  <2>1. /\ LayerTypeOK' /\ text' = text /\ (oversize' <=> oversize) /\ at' = 1
        /\ phase' = "chars" /\ counts' = counts /\ pending' = OtherRules /\ ~oversize
        /\ \A k \in Counters : counts[k] = 0
    BY <1>2, PayloadStays DEF FirstRule, LayerInv, LayerTypeOK
  <2>2. CharsSeen' = {}
    BY <2>1 DEF CharsSeen
  <2>3. {"density", "confusable", "mixed"} \subseteq Counters
    BY DEF Counters
  <2>4. CharsCounted'
    BY <2>1, <2>2, <2>3, FS_EmptySet DEF CharsCounted
  <2>5. QED
    BY <2>1, <2>3, <2>4 DEF LayerInv
<1>3. CASE ScanChar
  BY <1>3, CharKeeps
<1>4. CASE FirstWord
  BY <1>4, FirstWordKeeps
<1>5. CASE ScanWord
  BY <1>5, WordKeeps
<1>6. CASE HomoglyphReturns
  <2>1. /\ phase = "words" /\ phase' = "rules" /\ LettersLeft = {}
        /\ findings' = {Finding("unicode_homoglyph", r) : r \in HomoglyphResult(counts)}
        /\ UNCHANGED <<payload, at, counts, pending>> /\ LayerTypeOK /\ CharsCounted
        /\ WordsCounted /\ ~oversize /\ pending = OtherRules
    BY <1>6 DEF HomoglyphReturns, LayerInv
  <2>2. /\ text' = text /\ (oversize' <=> oversize) /\ HomoglyphFinds' = HomoglyphFinds
        /\ \A r : FindingOf(r)' = FindingOf(r)
    BY <2>1, PayloadStays
  <2>3. HomoglyphResult(counts) = HomoglyphFinds
    BY <2>1, VerdictOfCounters
  <2>4. LayerTypeOK'
    BY <2>1, <2>2 DEF LayerTypeOK
  <2>5. (UNION {FindingOf(r)' : r \in OtherRules \ pending'}) = {}
    BY <2>1
  <2>6. findings' = (UNION {FindingOf(r)' : r \in OtherRules \ pending'})
                    \cup {Finding("unicode_homoglyph", r) : r \in HomoglyphFinds'}
    BY <2>1, <2>2, <2>3, <2>5
  <2>7. QED
    BY <2>1, <2>2, <2>4, <2>6 DEF LayerInv, Finding
<1>7. CASE \E rule \in OtherRules : RunRule(rule)
  BY <1>7, RuleKeeps
<1>8. CASE Return
  <2>1. /\ phase = "rules" /\ phase' = "done" /\ pending = {}
        /\ UNCHANGED <<payload, at, counts, pending, findings>> /\ ~oversize
    BY <1>8 DEF Return, LayerInv
  <2>2. /\ text' = text /\ (oversize' <=> oversize) /\ HomoglyphFinds' = HomoglyphFinds
        /\ \A r : FindingOf(r)' = FindingOf(r)
    BY <2>1, PayloadStays
  <2>3. LayerTypeOK'
    BY <2>1, <2>2 DEF LayerInv, LayerTypeOK
  <2>4. QED
    BY <2>1, <2>2, <2>3 DEF LayerInv, Finding
<1>9. CASE UNCHANGED vars
  <2>1. UNCHANGED <<payload, phase, at, counts, pending, findings>>
    BY <1>9 DEF vars
  <2>2. /\ text' = text /\ (oversize' <=> oversize) /\ HomoglyphFinds' = HomoglyphFinds
        /\ \A r : FindingOf(r)' = FindingOf(r)
        /\ \A i : Counted(i)' = Counted(i) /\ (IsInvisible(i)' <=> IsInvisible(i))
                  /\ (IsLetter(i)' <=> IsLetter(i))
        /\ \A class, n : MixesBefore(class, n)' <=> MixesBefore(class, n)
    BY <2>1, PayloadStays
  <2>3. LayerTypeOK'
    BY <2>1, <2>2 DEF LayerInv, LayerTypeOK
  <2>4. CharsSeen' = CharsSeen /\ (CharsCounted => CharsCounted')
    BY <2>1, <2>2 DEF CharsSeen, CharsCounted
  <2>5. WordsCounted => WordsCounted'
    <3>1. \A i, j : SameWord(i, j)' <=> SameWord(i, j)
      BY <2>2 DEF SameWord
    <3>2. QED
      BY <2>1, <2>2, <3>1 DEF WordsCounted, MixesBefore
  <2>6. QED
    BY <2>1, <2>2, <2>3, <2>4, <2>5 DEF LayerInv, Finding
<1>10. QED
  BY <1>1, <1>2, <1>3, <1>4, <1>5, <1>6, <1>7, <1>8, <1>9 DEF Next

\* All rules always run (ChallengeRegistry::run): for every payload, whatever the
\* configured rules and the order they run in, the layer reports what each rule
\* finds on its own; and the homoglyph rule, scanning characters and words, finds
\* what the text has.
THEOREM LayerReportsExactly == Spec => []ReportExact
<1>1. LayerInv => ReportExact
  <2> SUFFICES ASSUME LayerInv, phase = "done", ~oversize
               PROVE  findings = (UNION {FindingOf(rule) : rule \in OtherRules})
                                 \cup {Finding("unicode_homoglyph", r) : r \in HomoglyphFinds}
    BY DEF LayerInv, ReportExact
  <2>1. OtherRules \ pending = OtherRules
    BY DEF LayerInv
  <2>2. QED
    BY <2>1 DEF LayerInv
<1>2. QED
  BY InitLayer, NextLayer, <1>1, PTL DEF Spec
=============================================================================
