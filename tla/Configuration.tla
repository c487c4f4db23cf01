--------------------------- MODULE Configuration ---------------------------
(***************************************************************************)
(* One ctp.toml and the two processes that are configured by it            *)
(* (ctp-core/src/config.rs, `serve` of ctp-guard and ctp-orchestrator):    *)
(* either reads, parses and validates the file when it starts, refuses to  *)
(* serve otherwise, and keeps what it read while the file is edited and    *)
(* the other process restarts.  What a configuration means shows in how    *)
(* the two treat the payloads of one session.                              *)
(*                                                                         *)
(* A file is a function from the keys it sets to their values.  Sizes and  *)
(* times are whole numbers; a number of the anomaly policy is a whole      *)
(* number of halves, or one of the two values of f64 that TOML can write   *)
(* and that compare and compute in their own way.  Finite numbers are      *)
(* exact here, of any size: that a sum of large finite weights overflows   *)
(* to infinity in f64 (ledger.rs:135-143), which no decay brings down      *)
(* again, is not modelled, nor are weights too small to count in halves.   *)
(***************************************************************************)
EXTENDS Integers, FiniteSets

CONSTANTS
  NaN, Inf,   \* values of f64
  Files,      \* the files an operator may write
  Windows,    \* values the operator may change max_window_bytes to
  Lengths,    \* sizes of payloads
  MaxFlags,   \* bound: advisory flags one payload may raise
  MaxScore,   \* bound: no flags are raised above it
  MaxEdits,   \* bound: how often the file is edited
  MaxTime,    \* u64::MAX
  LlamaBuilt  \* whether the guard was built with --features llama

\* The types of the keys; toml refuses a file that does not have them.
Sizes == {"timeout", "window", "overlap", "payload"}
Reals == {"threshold", "decay", "floor", "weight"}

ASSUME ConfigurationAssumption ==
  /\ NaN \notin Int /\ Inf \notin Int /\ NaN # Inf
  /\ MaxTime \in Nat /\ MaxTime >= 1000
  /\ Windows \subseteq Nat /\ Lengths \subseteq Nat
  /\ MaxFlags \in Nat
  /\ \A raw \in Files :
       /\ \A k \in Sizes \cap DOMAIN raw : raw[k] \in Nat
       /\ \A k \in Reals \cap DOMAIN raw : raw[k] \in Int \cup {NaN, Inf}
       /\ "timeout" \in DOMAIN raw => raw["timeout"] <= MaxTime

VARIABLES
  file, edits,          \* the file, and how often it was edited
  orchestrator, guard,  \* what each process runs with, or Down
  score, tainted,       \* the session's entry in the orchestrator's ledger
  outcome               \* what became of the session's last payload

vars == <<file, edits, orchestrator, guard, score, tainted, outcome>>

-----------------------------------------------------------------------------
(* Numbers of f64; every comparison with NaN is false. *)

Less(x, y) == x \notin {NaN, Inf} /\ y # NaN /\ (y # Inf => x < y)

AtMost(x, y) == Less(x, y) \/ (x = y /\ x # NaN)

Plus(x, y) == IF NaN \in {x, y} THEN NaN ELSE IF Inf \in {x, y} THEN Inf ELSE x + y

\* n times x, for a count n that is not zero.
Times(n, x) == IF x \in {NaN, Inf} THEN x ELSE n * x

\* x scaled by a number of halves, rounded down; a finite x stays finite, which f64
\* guarantees for a decay of at most 1, though not for Plus and Times.
Halves(x, d) == IF x \in {NaN, Inf} THEN x ELSE (x * d) \div 2

\* f64::max returns the other one if one is NaN.
Larger(x, y) == IF x = NaN \/ Less(x, y) THEN y ELSE x

-----------------------------------------------------------------------------
(* Reading a file. *)

Required == {"challenge", "guard", "kernel", "orchestrator", "backend"}

Defaults ==
  [timeout |-> 500, window |-> 2048, overlap |-> 256, model |-> "none",
   prompt |-> "guard_system_v1", payload |-> 32768, rules |-> "compile",
   threshold |-> 6, decay |-> 1, floor |-> 1, weight |-> 1,
   listen |-> "50051", metrics |-> "9464"]

\* Unknown keys are refused, and so is a file without a section or a backend.
Parses(raw) ==
  /\ Required \subseteq DOMAIN raw
  /\ DOMAIN raw \subseteq Required \cup DOMAIN Defaults
  /\ raw["backend"] \in {"mock", "llama"}

Parsed(raw) ==
  [k \in {"backend"} \cup DOMAIN Defaults |-> IF k \in DOMAIN raw THEN raw[k] ELSE Defaults[k]]

\* Mutation of CoherentPolicy: the floor's bounds negated one by one.
CoherentPolicy_Negated(c) ==
  /\ ~AtMost(c.threshold, 0)
  /\ Less(0, c.decay) /\ AtMost(c.decay, 2)
  /\ ~Less(c.weight, 0)
  /\ ~(Less(c.floor, 0) \/ AtMost(c.threshold, c.floor))

\* Mutation of CoherentPolicy: a floor at the threshold.
CoherentPolicy_FloorAtThreshold(c) ==
  /\ ~AtMost(c.threshold, 0)
  /\ Less(0, c.decay) /\ AtMost(c.decay, 2)
  /\ ~Less(c.weight, 0)
  /\ AtMost(0, c.floor) /\ AtMost(c.floor, c.threshold)

\* The checks of the anomaly policy, as the code writes them.
CoherentPolicy(c) ==
  /\ ~AtMost(c.threshold, 0)
  /\ Less(0, c.decay) /\ AtMost(c.decay, 2)
  /\ ~Less(c.weight, 0)
  /\ AtMost(0, c.floor) /\ Less(c.floor, c.threshold)

\* Mutation of Valid: an overlap as long as the window.
Valid_OverlapWhole(c) ==
  /\ c.timeout > 0
  /\ 64 <= c.window /\ c.window <= 65536
  /\ c.overlap <= c.window
  /\ c.backend = "llama" => c.model # "none"
  /\ c.payload > 0
  /\ CoherentPolicy(c)

Valid(c) ==
  /\ c.timeout > 0
  /\ 64 <= c.window /\ c.window <= 65536
  /\ c.overlap < c.window
  /\ c.backend = "llama" => c.model # "none"
  /\ c.payload > 0
  /\ CoherentPolicy(c)

Loads(raw) == Parses(raw) /\ Valid(Parsed(raw))

-----------------------------------------------------------------------------
(* The two processes. *)

Down == [state |-> "down"]

Init ==
  /\ file \in Files /\ edits = 0
  /\ orchestrator = Down /\ guard = Down
  /\ score = 0 /\ tainted = FALSE
  /\ outcome = "none"

EditFile ==
  /\ edits < MaxEdits
  /\ \E w \in Windows : file' = [k \in DOMAIN file \cup {"window"} |-> IF k = "window" THEN w ELSE file[k]]
  /\ edits' = edits + 1
  /\ UNCHANGED <<orchestrator, guard, score, tainted, outcome>>

\* `serve` of the orchestrator: the exporter, the rules, the gateway's address.
StartOrchestrator ==
  /\ orchestrator = Down
  /\ Loads(file)
  /\ LET c == Parsed(file)
     IN /\ c.rules = "compile"
        /\ c.listen # c.metrics
        /\ orchestrator' = c
  /\ score' = 0 /\ tainted' = FALSE
  /\ UNCHANGED <<file, edits, guard, outcome>>

\* `serve` of the guard: the prompt, the backend.  Loading the model may fail.
StartGuard ==
  /\ guard = Down
  /\ Loads(file)
  /\ LET c == Parsed(file)
     IN /\ c.prompt = "guard_system_v1"
        /\ c.backend = "llama" => LlamaBuilt
        /\ guard' = c
  /\ UNCHANGED <<file, edits, orchestrator, score, tainted, outcome>>

StopOrchestrator ==
  /\ orchestrator # Down
  /\ orchestrator' = Down
  /\ score' = 0 /\ tainted' = FALSE
  /\ UNCHANGED <<file, edits, guard, outcome>>

StopGuard ==
  /\ guard # Down
  /\ guard' = Down
  /\ UNCHANGED <<file, edits, orchestrator, score, tainted, outcome>>

-----------------------------------------------------------------------------
(* One session's payloads. *)

Blocks(x) == AtMost(orchestrator.threshold, x)

\* The ledger's `record` for this session.
Scored(flags) ==
  LET faded == Halves(score, orchestrator.decay)
      held == IF tainted THEN Larger(faded, orchestrator.floor) ELSE faded
  IN IF flags > 0 THEN Plus(held, Times(flags, orchestrator.weight)) ELSE held

\* The longest window of a payload.
Widest(length) == IF length <= orchestrator.window THEN length ELSE orchestrator.window

\* Mutation of Oversize: a full window is too long.
Oversize_Full(length) == Widest(length) >= guard.window

\* The guard measures windows by its own limit.
Oversize(length) == Widest(length) > guard.window

\* Refused by the challenge layer's cap, for want of a guard, or by the guard's.
TooLarge(length) ==
  /\ orchestrator # Down
  /\ length > orchestrator.payload
  /\ outcome' = "oversize_payload"
  /\ UNCHANGED <<file, edits, orchestrator, guard, score, tainted>>

Unanswered(length) ==
  /\ orchestrator # Down /\ guard = Down
  /\ length <= orchestrator.payload
  /\ outcome' = "guard_unavailable"
  /\ UNCHANGED <<file, edits, orchestrator, guard, score, tainted>>

WindowRefused(length) ==
  /\ orchestrator # Down /\ guard # Down
  /\ length <= orchestrator.payload /\ Oversize(length)
  /\ outcome' = "oversize_window"
  /\ UNCHANGED <<file, edits, orchestrator, guard, score, tainted>>

\* Passed by both layers; the ledger decides.
Turn(length, flags) ==
  /\ orchestrator # Down /\ guard # Down
  /\ length <= orchestrator.payload /\ ~Oversize(length)
  /\ score' = Scored(flags)
  /\ tainted' = (tainted \/ flags > 0)
  /\ outcome' = IF Blocks(score') THEN "anomaly_threshold" ELSE "pass"
  /\ UNCHANGED <<file, edits, orchestrator, guard>>

BenignTurn == \E length \in Lengths : Turn(length, 0)
FlaggedTurn ==
  /\ score \notin {NaN, Inf} => score <= MaxScore
  /\ \E length \in Lengths, flags \in 1 .. MaxFlags : Turn(length, flags)

Next ==
  \/ EditFile
  \/ StartOrchestrator \/ StartGuard \/ StopOrchestrator \/ StopGuard
  \/ \E length \in Lengths : TooLarge(length) \/ Unanswered(length) \/ WindowRefused(length)
  \/ BenignTurn \/ FlaggedTurn

\* Nothing schedules a session; the fairness is the hypothesis that it goes on
\* taking turns.
Spec == Init /\ [][Next]_vars /\ WF_vars(BenignTurn)

-----------------------------------------------------------------------------
\* The client's budget ends a call before the fan-out's backstop does.
Backstop(c) ==
  LET doubled == IF 2 * c.timeout > MaxTime THEN MaxTime ELSE 2 * c.timeout
  IN IF doubled < 200 THEN 200 ELSE doubled

Number(x) == x \notin {NaN, Inf}

\* The anomaly policy of a process, as the other modules compute with it.
Policy(c) == INSTANCE Scoring WITH
  DecayNum <- c.decay, DecayDen <- 2, Floor <- c.floor,
  FlagWeight <- c.weight, Threshold <- c.threshold

\* A process that serves runs with parameters that the other modules take for
\* granted: a policy of numbers meets the assumption of Scoring, a window is
\* longer than the overlap, and the backstop comes after the client's own timeout
\* except at the end of u64 (config.rs:49-100, lib.rs:39-42).
AssumptionsHold ==
  \A c \in {orchestrator, guard} \ {Down} :
    /\ (\A k \in {"threshold", "weight"} : Number(c[k])) => Policy(c)!ScoringAssumption
    /\ c.overlap \in 0 .. c.window - 1
    /\ c.timeout < Backstop(c) \/ c.timeout = MaxTime

\* Two processes that read the same file agree on what a window is: the guard
\* never refuses one of the orchestrator's for its length, whatever the file says.
\* Between an edit and the second restart it may (server.rs:51-63).
SameFileSameWindows ==
  orchestrator # Down /\ orchestrator = guard => \A length \in Lengths : ~Oversize(length)

\* No file disarms the ledger, except with a weight that is zero or no number or a
\* threshold that is infinite: enough flags always block (config.rs:75-98).
Armed ==
  orchestrator # Down /\ orchestrator.weight \notin {0, NaN} /\ orchestrator.threshold # Inf =>
    /\ orchestrator.threshold # NaN
    /\ \E flags \in 1 .. orchestrator.threshold : Blocks(Scored(flags))

\* No file makes one flag a death sentence (config.rs:88-93), except without decay
\* or with an infinite weight: a session that stops raising flags is in the end
\* served for good.
Redemption ==
  <>[](orchestrator # Down /\ guard # Down) /\ <>[][~FlaggedTurn]_vars =>
    <>[](orchestrator # Down /\ orchestrator.decay < 2 /\ orchestrator.weight # Inf => ~Blocks(score))
=============================================================================
