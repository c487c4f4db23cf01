-------------------------- MODULE MCConfiguration --------------------------
(***************************************************************************)
(* Files for TLC: the smallest one, with up to two of its keys changed,    *)
(* and two that set a coherent policy of other numbers.                    *)
(***************************************************************************)
EXTENDS Configuration, TLC

Smallest ==
  [k \in Required |-> IF k = "backend" THEN "mock" ELSE "section"]

Numbers == {-1, 0, NaN, Inf}

Settings ==
  [timeout |-> {0, 99, 1000, 1999}, window |-> {63, 64, 65536, 65537}, overlap |-> {0, 2047, 2048},
   backend |-> {"llama", "gpu"}, model |-> {"guard.gguf"}, prompt |-> {"guard_system_v2"},
   payload |-> {0, 65536}, rules |-> {"broken"}, listen |-> {"9464"}, timeout_msec |-> {500},
   threshold |-> Numbers \cup {1}, decay |-> Numbers \cup {2, 3},
   floor |-> Numbers \cup {5, 6}, weight |-> Numbers \cup {6}]

\* One key of `raw` changed.
Changed(raw) == UNION {{(k :> v) @@ raw : v \in Settings[k]} : k \in DOMAIN Settings}

MCFiles ==
  {Smallest} \cup Changed(Smallest) \cup UNION {Changed(raw) : raw \in Changed(Smallest)}
  \cup {[k \in Required \ {r} |-> Smallest[k]] : r \in Required}
=============================================================================
