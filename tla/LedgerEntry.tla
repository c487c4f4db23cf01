---------------------------- MODULE LedgerEntry ----------------------------
(***************************************************************************)
(* The life of ONE session's ledger entry, alone: what a session gets from *)
(* the ledger if no other session disturbs it.  The ledger may at any time *)
(* forget it (eviction), which puts it back to where it started; an entry  *)
(* that does not exist and a fresh one answer alike.  AnomalyLedger        *)
(* implements this specification for every session at once.                *)
(***************************************************************************)
EXTENDS Scoring

CONSTANT MaxFlags  \* bound: advisory flags one turn may raise

VARIABLES score, tainted

vars == <<score, tainted>>

Init == score = 0 /\ tainted = FALSE

\* One turn recorded for this session.
Turn(flags) ==
  /\ score' = Scored(score, tainted, flags)
  /\ tainted' = (tainted \/ flags > 0)

Flagged == \E flags \in 1 .. MaxFlags : Turn(flags)

\* The entry is evicted to make room for another session's.
Forgotten ==
  /\ score' = 0
  /\ tainted' = FALSE

Next == Turn(0) \/ Flagged \/ Forgotten

Spec == Init /\ [][Next]_vars

\* A session that raises a flag on every turn and is never evicted.  Nothing in
\* the code schedules a session: the fairness is the hypothesis that it goes on.
DripSpec == Init /\ [][Flagged]_vars /\ WF_vars(Flagged)

-----------------------------------------------------------------------------
TypeOK == score \in Nat /\ tainted \in BOOLEAN

\* ledger.rs:3-6: "The score crossing a threshold blocks the session even when
\* no single turn blocked on its own - the slow-burn attack that drips one
\* borderline payload per turn".
SlowBurnCaught == <>Blocks(score)
=============================================================================
