----------------------------- MODULE WindowVote -----------------------------
(***************************************************************************)
(* What the guard layer promises, however windows are scheduled, answered, *)
(* lost or timed out: every window is settled once, as clear or not, and   *)
(* the payload passes if and only if all of them were settled clear.       *)
(***************************************************************************)
CONSTANT Windows

VARIABLES
  ballot,   \* "open", "clear" or "foul", for every window
  verdict   \* "none", "pass" or "block"

vars == <<ballot, verdict>>

Init ==
  /\ ballot = [w \in Windows |-> "open"]
  /\ verdict = "none"

Settle(w, b) ==
  /\ verdict = "none"
  /\ ballot[w] = "open"
  /\ ballot' = [ballot EXCEPT ![w] = b]
  /\ UNCHANGED verdict

Conclude ==
  /\ verdict = "none"
  /\ \A w \in Windows : ballot[w] # "open"
  /\ verdict' = IF \A w \in Windows : ballot[w] = "clear" THEN "pass" ELSE "block"
  /\ UNCHANGED ballot

Next ==
  \/ \E w \in Windows, b \in {"clear", "foul"} : Settle(w, b)
  \/ Conclude

Spec == Init /\ [][Next]_vars
=============================================================================
