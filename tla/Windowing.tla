----------------------------- MODULE Windowing -----------------------------
(***************************************************************************)
(* GuardFanout::new and GuardFanout::windows of ctp-kernel/src/lib.rs: how *)
(* a payload is cut into overlapping windows before each one is classified *)
(* on its own.  The bytes do not matter, only the positions; a window      *)
(* [from, to) is the slice payload[from..to].                              *)
(***************************************************************************)
EXTENDS Integers

CONSTANTS
  Lengths,   \* payload lengths considered
  Widths,    \* values of max_window_bytes
  Overlaps   \* values of overlap, which GuardFanout::new does not check

ASSUME WindowingAssumption ==
  Lengths \subseteq Nat /\ Widths \subseteq Nat /\ Overlaps \subseteq Nat

VARIABLES
  len,      \* payload.len()
  width,    \* max_window_bytes, as GuardFanout::new stores it
  overlap,  \* overlap
  start,    \* the loop's cursor
  windows,  \* the windows pushed so far
  done      \* windows() has returned

cutVars == <<len, width, overlap, start, windows, done>>

\* GuardFanout::new: max_window_bytes.max(1).
AtLeastOne(n) == IF n = 0 THEN 1 ELSE n

CutInit ==
  /\ len \in Lengths
  /\ width \in {AtLeastOne(w) : w \in Widths}
  /\ overlap \in Overlaps
  /\ start = 0
  /\ windows = {}
  /\ done = FALSE

\* Mutations of Stride: the clamp to one forgotten, one byte too far.
Stride_Unclamped == IF overlap < width THEN width - overlap ELSE 0
Stride_OffByOne == IF overlap < width THEN width - overlap + 1 ELSE 1

\* max_window_bytes.saturating_sub(overlap).max(1).
Stride == IF overlap < width THEN width - overlap ELSE 1

EndOf(from) == IF from + width < len THEN from + width ELSE len

\* A payload no longer than a window, an empty one included, is one window.
Whole ==
  /\ ~done
  /\ len <= width
  /\ windows' = {[from |-> 0, to |-> len]}
  /\ done' = TRUE
  /\ UNCHANGED <<len, width, overlap, start>>

\* Mutation of Cut: without the break, the loop runs until the cursor itself
\* passes the end.
Cut_NoBreak ==
  /\ ~done
  /\ len > width
  /\ windows' = windows \cup {[from |-> start, to |-> EndOf(start)]}
  /\ start' = start + Stride
  /\ done' = (start' >= len)
  /\ UNCHANGED <<len, width, overlap>>

\* One iteration of the loop; it breaks when a window reaches the end.
Cut ==
  /\ ~done
  /\ len > width
  /\ start < len
  /\ windows' = windows \cup {[from |-> start, to |-> EndOf(start)]}
  /\ IF EndOf(start) = len
     THEN done' = TRUE /\ UNCHANGED start
     ELSE start' = start + Stride /\ UNCHANGED done
  /\ UNCHANGED <<len, width, overlap>>

CutNext == Whole \/ Cut

CutSpec == CutInit /\ [][CutNext]_cutVars

\* windows() is straight-line code between two awaits: it runs to its end.
FairCutSpec == CutSpec /\ WF_cutVars(CutNext)

-----------------------------------------------------------------------------
CutTypeOK ==
  /\ len \in Nat
  /\ width \in Nat \ {0}
  /\ overlap \in Nat
  /\ start \in Nat
  /\ windows \subseteq [from : Nat, to : Nat]
  /\ done \in BOOLEAN

\* The longest phrase that cannot be lost at a boundary.
PhraseBound == IF overlap < width THEN overlap + 1 ELSE width

SeenWhole(from, to) == \E w \in windows : w.from <= from /\ to <= w.to

\* What the overlap is for (lib.rs:62-63): wherever in the payload it lies, a
\* phrase of up to overlap + 1 bytes is whole in at least one window.  A longer
\* one may be split, and is then never seen whole.
PhrasesSeenWhole ==
  done => \A from, to \in 0 .. len :
            from <= to /\ to - from <= PhraseBound => SeenWhole(from, to)

\* The guard refuses a window longer than max_window_bytes without inference
\* (server.rs:56-62), so a longer slice would block every such payload.
WindowsFit ==
  \A w \in windows : w.from <= w.to /\ w.to <= len /\ w.to - w.from <= width

\* No window lies within another: each one costs an inference.
NoWindowRedundant ==
  \A v, w \in windows : v.from <= w.from /\ w.to <= v.to => v = w

\* The loop always leaves by its break: the cursor never passes the end of the
\* payload, so the last window always reaches it.
LeavesByBreak == ~done => (len = 0 \/ start < len)

\* Cutting ends, for every overlap, also one as large as the window.
Termination == <>done
=============================================================================
