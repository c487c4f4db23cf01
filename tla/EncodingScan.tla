---------------------------- MODULE EncodingScan ----------------------------
(***************************************************************************)
(* EncodingBypassRule of ctp-challenge/src/rules/encoding.rs: blobs are    *)
(* decoded level by level and every decoded level is matched, within a     *)
(* depth and a byte budget.                                                *)
(*                                                                         *)
(* What a payload decodes to is a tree, chosen in Init: a blob is a        *)
(* candidate that decoded, its parent the data it was found in (0 is the   *)
(* payload itself).  decode_candidates yields the blobs of a parent in     *)
(* ascending order.  Decoding always shrinks, so a blob is smaller than    *)
(* what it was found in.  The recursion of scan_level is a stack of the    *)
(* candidates each open call has left, of which it takes the first found.  *)
(***************************************************************************)
EXTENDS Integers, FiniteSets, Sequences, SequencesExt, FiniteSetsExt

CONSTANTS
  NumBlobs,  \* bound: blobs a payload decodes to
  MaxSize,   \* bound: decoded size of a blob
  MaxDepth,  \* max_decode_depth
  Budget,    \* total_decode_budget
  OpaqueLen  \* opaque_flag_len

ASSUME EncodingAssumption ==
  /\ NumBlobs \in Nat /\ MaxSize \in Nat \ {0}
  /\ MaxDepth \in Nat \ {0} /\ Budget \in Nat /\ OpaqueLen \in Nat

VARIABLES
  parent, size, hit, printable,  \* of every blob; hit: a pattern matches; printable: it is text
  stack,        \* candidates left, one set per open call of scan_level
  budget_left,  \* ScanAccum
  opaque_blobs,
  block,        \* why the scan blocks, "none" if it does not
  result        \* "scanning", or the RuleResult

tree == <<parent, size, hit, printable>>
scanVars == <<tree, stack, budget_left, opaque_blobs, block, result>>

Blobs == 1 .. NumBlobs

\* decode_candidates: the blobs found in a parent.
Candidates(p) == {b \in Blobs : parent[b] = p}

ScanInit ==
  /\ parent \in {f \in [Blobs -> 0 .. NumBlobs] : \A b \in Blobs : f[b] < b}
  /\ size \in {f \in [Blobs -> 1 .. MaxSize] :
                 \A b \in Blobs : parent[b] # 0 => f[b] < f[parent[b]]}
  /\ hit \in [Blobs -> BOOLEAN]
  /\ printable \in [Blobs -> BOOLEAN]
  /\ stack = <<Candidates(0)>>
  /\ budget_left = Budget
  /\ opaque_blobs = 0
  /\ block = "none"
  /\ result = "scanning"

-----------------------------------------------------------------------------
Depth == Len(stack)
Current == Min(Last(stack))

\* The loop goes on to the next candidate of this level.
Remaining == Front(stack) \o <<Last(stack) \ {Current}>>

\* A candidate is at hand and nothing has blocked.
AtCandidate == stack # <<>> /\ Last(stack) # {} /\ block = "none"

Block(why) ==
  /\ block' = why
  /\ UNCHANGED <<tree, stack, opaque_blobs, result>>

Affordable(b) == size[b] <= budget_left

BudgetExhausted ==
  /\ AtCandidate
  /\ ~Affordable(Current)
  /\ Block("budget")
  /\ UNCHANGED budget_left

\* The blob is paid for before it is matched.
Spend ==
  /\ AtCandidate
  /\ Affordable(Current)
  /\ budget_left' = budget_left - size[Current]

PatternFound ==
  /\ Spend
  /\ hit[Current]
  /\ Block("pattern")

\* Binary does not nest further; a large one is counted.
Opaque ==
  /\ Spend
  /\ ~hit[Current]
  /\ ~printable[Current]
  /\ opaque_blobs' = IF size[Current] >= OpaqueLen THEN opaque_blobs + 1 ELSE opaque_blobs
  /\ stack' = Remaining
  /\ UNCHANGED <<tree, block, result>>

\* Text of the deepest level that still decodes.
BeyondHorizon ==
  /\ Spend
  /\ ~hit[Current]
  /\ printable[Current]
  /\ Depth >= MaxDepth
  /\ Candidates(Current) # {}
  /\ Block("horizon")

\* Mutations of Leaf: text that still decodes at the horizon is let pass; the
\* first leaf ends its level, siblings and all.
Leaf_Open ==
  /\ Spend
  /\ ~hit[Current]
  /\ printable[Current]
  /\ Depth >= MaxDepth
  /\ stack' = Remaining
  /\ UNCHANGED <<tree, opaque_blobs, block, result>>
Leaf_EndsLevel ==
  /\ Spend
  /\ ~hit[Current]
  /\ printable[Current]
  /\ Depth >= MaxDepth
  /\ Candidates(Current) = {}
  /\ stack' = Front(stack) \o <<{}>>
  /\ UNCHANGED <<tree, opaque_blobs, block, result>>

\* Text of the deepest level that decodes no further.
Leaf ==
  /\ Spend
  /\ ~hit[Current]
  /\ printable[Current]
  /\ Depth >= MaxDepth
  /\ Candidates(Current) = {}
  /\ stack' = Remaining
  /\ UNCHANGED <<tree, opaque_blobs, block, result>>

\* Text above the deepest level: scan_level calls itself on it.
Descend ==
  /\ Spend
  /\ ~hit[Current]
  /\ printable[Current]
  /\ Depth < MaxDepth
  /\ stack' = Append(Remaining, Candidates(Current))
  /\ UNCHANGED <<tree, opaque_blobs, block, result>>

\* scan_level returns to its caller: nothing is left, or something has blocked.
ScanReturn ==
  /\ stack # <<>>
  /\ Last(stack) = {} \/ block # "none"
  /\ stack' = Front(stack)
  /\ UNCHANGED <<tree, budget_left, opaque_blobs, block, result>>

\* check: a block wins over a flag.
Conclude ==
  /\ stack = <<>> /\ result = "scanning"
  /\ result' = IF block # "none" THEN "block" ELSE IF opaque_blobs > 0 THEN "flag" ELSE "pass"
  /\ UNCHANGED <<tree, stack, budget_left, opaque_blobs, block>>

ScanNext ==
  \/ BudgetExhausted \/ PatternFound \/ Opaque \/ BeyondHorizon \/ Leaf \/ Descend
  \/ ScanReturn \/ Conclude

ScanSpec == ScanInit /\ [][ScanNext]_scanVars

-----------------------------------------------------------------------------
(* What the scan ought to find, without scanning. *)

Level[b \in Blobs] == IF parent[b] = 0 THEN 1 ELSE Level[parent[b]] + 1

\* Every level above the blob is text, so it is decoded whatever the order.
Reachable[b \in Blobs] ==
  parent[b] = 0 \/ (printable[parent[b]] /\ Reachable[parent[b]])

Visible == {b \in Blobs : Reachable[b] /\ Level[b] <= MaxDepth}

\* Something the rule exists to stop: a pattern beneath an encoding, text that
\* still decodes at the horizon, or more to decode than the budget.
Hidden ==
  \/ \E b \in Visible : hit[b]
  \/ \E b \in Visible : printable[b] /\ Level[b] = MaxDepth /\ Candidates(b) # {}
  \/ MapThenSumSet(LAMBDA b : size[b], Visible) > Budget

\* The verdict does not depend on the order in which blobs are found, although
\* the budget is spent in that order and the scan stops at the first reason: the
\* rule blocks if and only if something is hidden anywhere within its horizon.
BlocksIffHidden == result # "scanning" => (result = "block" <=> Hidden)

\* A payload that is not blocked is flagged if and only if a large opaque blob
\* is visible, at any level; each is counted once.
FlagsIffOpaque ==
  result \in {"pass", "flag"} =>
    opaque_blobs = Cardinality({b \in Visible : ~printable[b] /\ size[b] >= OpaqueLen})
    /\ (result = "flag" <=> opaque_blobs > 0)
=============================================================================
