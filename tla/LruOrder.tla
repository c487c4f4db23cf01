------------------------------ MODULE LruOrder ------------------------------
(***************************************************************************)
(* What "least-recently-updated is evicted" (ledger.rs:35) means, without  *)
(* ticks: the tracked sessions in order of their last turn, oldest first.  *)
(***************************************************************************)
EXTENDS Naturals, Sequences, SequencesExt

CONSTANTS
  Sessions,
  Capacity   \* sessions the order holds, at least one

VARIABLE order

Init == order = <<>>

\* A tracked session moves to the back.
Again(id) ==
  \E i \in DOMAIN order :
    /\ order[i] = id
    /\ order' = Append(RemoveAt(order, i), id)

\* A new session joins while there is room.
Join(id) ==
  /\ ~Contains(order, id)
  /\ Len(order) < Capacity
  /\ order' = Append(order, id)

\* A new session takes the place of the oldest, and of no other.
Displace(id) ==
  /\ ~Contains(order, id)
  /\ Len(order) = Capacity
  /\ order' = Append(Tail(order), id)

\* What a turn of a session does to the order.
Turn(id) == Again(id) \/ Join(id) \/ Displace(id)

Next == \E id \in Sessions : Turn(id)

Spec == Init /\ [][Next]_order
=============================================================================
