------------------------------ MODULE Scoring ------------------------------
(***************************************************************************)
(* The arithmetic of one ledger entry (ctp-kernel/src/ledger.rs, the body  *)
(* of `record` once the entry has been found): decay, floor, contribution  *)
(* of this turn's flags, comparison with the threshold.                    *)
(*                                                                         *)
(* The code computes in f64.  Here a score is a whole number of units and  *)
(* the decay factor is DecayNum/DecayDen, rounded down.  For a factor      *)
(* 1/DecayDen (the default is 1/2) and whole FlagWeight, Floor and         *)
(* Threshold, the model's score is exactly the floor of the exact score:   *)
(* \div nests, and adding or comparing with a whole number commutes with   *)
(* rounding down.  So `blocked` is decided as over the reals.              *)
(***************************************************************************)
EXTENDS Integers

CONSTANTS
  DecayNum, DecayDen, \* anomaly_decay = DecayNum / DecayDen, in (0, 1]
  Floor,              \* anomaly_floor
  FlagWeight,         \* flag_weight
  Threshold           \* anomaly_threshold

\* What KernelConfig::validate lets through (config.rs:75-99).
ASSUME ScoringAssumption ==
  /\ DecayDen \in Nat \ {0}
  /\ DecayNum \in 1 .. DecayDen
  /\ Threshold \in Nat \ {0}
  /\ Floor \in 0 .. Threshold - 1
  /\ FlagWeight \in Nat

\* Mutations of Decay, below: a linear decay that may pass zero, the inverted
\* factor.
Decay_Linear(score) == score - DecayDen
Decay_Inverted(score) == (score * DecayDen) \div DecayNum

Decay(score) == (score * DecayNum) \div DecayDen

\* Mutations of Faded: the floor armed before the first flag; no floor.
Faded_AlwaysFloor(score, tainted) ==
  IF Decay(score) < Floor THEN Floor ELSE Decay(score)
Faded_NoFloor(score, tainted) == Decay(score)

\* The score of an entry after the per-turn decay; the floor holds it up only
\* once the session is tainted.
Faded(score, tainted) ==
  IF tainted /\ Decay(score) < Floor THEN Floor ELSE Decay(score)

\* The score after a whole turn: decay first, then this turn's flags.
Scored(score, tainted, flags) == Faded(score, tainted) + flags * FlagWeight

Blocks(score) == score >= Threshold
=============================================================================
