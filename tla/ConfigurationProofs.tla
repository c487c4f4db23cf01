------------------------ MODULE ConfigurationProofs ------------------------
(***************************************************************************)
(* What a process that serves can rely on, for every file.                 *)
(***************************************************************************)
EXTENDS Configuration, TLAPS

FileTyped(raw) ==
  /\ \A k \in Sizes \cap DOMAIN raw : raw[k] \in Nat
  /\ \A k \in Reals \cap DOMAIN raw : raw[k] \in Int \cup {NaN, Inf}
  /\ "timeout" \in DOMAIN raw => raw["timeout"] <= MaxTime

\* What a process keeps is typed and was found valid.
Typed(c) ==
  /\ \A k \in Sizes : c[k] \in Nat
  /\ \A k \in Reals : c[k] \in Int \cup {NaN, Inf}
  /\ c["timeout"] <= MaxTime

Sound(c) == c = Down \/ (Typed(c) /\ Valid(c))

IInv == FileTyped(file) /\ Sound(orchestrator) /\ Sound(guard)

-----------------------------------------------------------------------------
\* Defaults fill in what a file leaves out, with values of the same types.
LEMMA ParsedTyped ==
  ASSUME NEW raw, FileTyped(raw)
  PROVE  Typed(Parsed(raw))
<1> DEFINE c == Parsed(raw)
<1>1. ASSUME NEW k \in Sizes \cup Reals
      PROVE  c[k] = IF k \in DOMAIN raw THEN raw[k] ELSE Defaults[k]
  BY <1>1 DEF Parsed, Defaults, Sizes, Reals
<1>2. \A k \in Sizes : Defaults[k] \in Nat
  BY DEF Defaults, Sizes
<1>3. \A k \in Reals : Defaults[k] \in Int
  BY DEF Defaults, Reals
<1>4. Defaults["timeout"] <= MaxTime
  BY ConfigurationAssumption DEF ConfigurationAssumption, Defaults
<1> HIDE DEF c
<1>5. \A k \in Sizes : c[k] \in Nat
  BY <1>1, <1>2 DEF FileTyped
<1>6. \A k \in Reals : c[k] \in Int \cup {NaN, Inf}
  BY <1>1, <1>3 DEF FileTyped
<1>7. c["timeout"] <= MaxTime
  BY <1>1, <1>4 DEF FileTyped, Sizes
<1>8. QED
  BY <1>5, <1>6, <1>7 DEF Typed, c

\* A process starts with a sound configuration or not at all.
LEMMA LoadedSound ==
  ASSUME NEW raw, FileTyped(raw), Loads(raw)
  PROVE  Sound(Parsed(raw))
BY ParsedTyped DEF Sound, Loads

\* No step gives a process a configuration that is not sound.
LEMMA SoundForEver == Spec => []IInv
<1>1. Init => IInv
  BY ConfigurationAssumption DEF ConfigurationAssumption, Init, IInv, FileTyped, Sound
<1>2. IInv /\ [Next]_vars => IInv'
  <2> SUFFICES ASSUME IInv, [Next]_vars PROVE IInv'
    OBVIOUS
  <2>1. CASE EditFile
    <3>1. PICK w \in Windows :
            file' = [k \in DOMAIN file \cup {"window"} |-> IF k = "window" THEN w ELSE file[k]]
      BY <2>1 DEF EditFile
    <3>2. FileTyped(file')
      BY <3>1, ConfigurationAssumption
      DEF ConfigurationAssumption, IInv, FileTyped, Sizes, Reals
    <3>3. QED
      BY <2>1, <3>2 DEF EditFile, IInv, Sound, Typed
  <2>2. CASE StartOrchestrator
    BY <2>2, LoadedSound DEF StartOrchestrator, IInv
  <2>3. CASE StartGuard
    BY <2>3, LoadedSound DEF StartGuard, IInv
  <2>4. CASE StopOrchestrator
    BY <2>4 DEF StopOrchestrator, IInv, Sound
  <2>5. CASE StopGuard
    BY <2>5 DEF StopGuard, IInv, Sound
  <2>6. ASSUME UNCHANGED <<file, orchestrator, guard>> PROVE IInv'
    BY <2>6 DEF IInv
  <2>7. QED
    BY <2>1, <2>2, <2>3, <2>4, <2>5, <2>6
    DEF Next, TooLarge, Unanswered, WindowRefused, BenignTurn, FlaggedTurn, Turn, vars
<1>3. QED
  BY <1>1, <1>2, PTL DEF Spec

-----------------------------------------------------------------------------
\* The parameters that the other modules take for granted, of any valid file.
LEMMA SoundMeetsAssumptions ==
  ASSUME NEW c, Typed(c), Valid(c)
  PROVE  /\ (\A k \in {"threshold", "weight"} : Number(c[k])) => Policy(c)!ScoringAssumption
         /\ c.overlap \in 0 .. c.window - 1
         /\ c.timeout < Backstop(c) \/ c.timeout = MaxTime
<1>1. c.timeout \in Nat /\ c.window \in Nat /\ c.overlap \in Nat /\ c.timeout <= MaxTime
  BY DEF Typed, Sizes
<1>2. /\ c.threshold \in Int \cup {NaN, Inf} /\ c.decay \in Int \cup {NaN, Inf}
      /\ c.floor \in Int \cup {NaN, Inf} /\ c.weight \in Int \cup {NaN, Inf}
  BY DEF Typed, Reals
<1>3. /\ c.timeout > 0 /\ c.overlap < c.window
      /\ ~AtMost(c.threshold, 0) /\ Less(0, c.decay) /\ AtMost(c.decay, 2) /\ ~Less(c.weight, 0)
      /\ AtMost(0, c.floor) /\ Less(c.floor, c.threshold)
  BY DEF Valid, CoherentPolicy
<1>4. c.overlap \in 0 .. c.window - 1
  BY <1>1, <1>3
<1>5. c.timeout < Backstop(c) \/ c.timeout = MaxTime
  BY <1>1, <1>3, ConfigurationAssumption DEF ConfigurationAssumption, Backstop
<1>6. ASSUME Number(c.threshold), Number(c.weight)
      PROVE  Policy(c)!ScoringAssumption
  <2>1. c.threshold \in Int /\ c.weight \in Int
    BY <1>2, <1>6 DEF Number
  <2>2. c.decay \in 1 .. 2
    BY <1>2, <1>3, ConfigurationAssumption DEF ConfigurationAssumption, AtMost, Less
  <2>3. c.floor \in Int /\ 0 <= c.floor /\ c.floor < c.threshold
    BY <1>2, <1>3, <2>1, ConfigurationAssumption DEF ConfigurationAssumption, AtMost, Less
  <2>4. c.weight \in Nat
    BY <1>3, <2>1, ConfigurationAssumption DEF ConfigurationAssumption, Less
  <2>5. QED
    BY <2>1, <2>2, <2>3, <2>4 DEF Policy!ScoringAssumption
<1>7. QED
  BY <1>4, <1>5, <1>6

\* Whatever the file says, a process that serves meets the assumptions under which
\* the ledger, the windows and the fan-out are modelled (config.rs:49-100).
THEOREM ConfigurationMeetsAssumptions == Spec => []AssumptionsHold
<1>1. IInv => AssumptionsHold
  BY SoundMeetsAssumptions DEF IInv, Sound, AssumptionsHold
<1>2. QED
  BY <1>1, SoundForEver, PTL

\* The guard never finds a window of an orchestrator with the same configuration
\* too long (server.rs:56), for any file and any size of payload.
THEOREM ConfigurationSameWindows == Spec => []SameFileSameWindows
<1>1. IInv => SameFileSameWindows
  <2> SUFFICES ASSUME IInv, orchestrator # Down, orchestrator = guard, NEW length \in Lengths
               PROVE  ~Oversize(length)
    BY DEF SameFileSameWindows
  <2>1. orchestrator.window \in Nat /\ length \in Nat
    BY ConfigurationAssumption DEF ConfigurationAssumption, IInv, Sound, Typed, Sizes
  <2>2. QED
    BY <2>1 DEF Oversize, Widest
<1>2. QED
  BY <1>1, SoundForEver, PTL

-----------------------------------------------------------------------------
(* The ledger's arithmetic under a configuration. *)

\* A score is never negative, and is a number unless the weight is not.
ScoreOK ==
  /\ orchestrator = Down => score = 0
  /\ orchestrator # Down /\ Number(orchestrator.weight) => score \in Nat
  /\ orchestrator # Down /\ orchestrator.weight = Inf => score \in Nat \cup {Inf}

\* What the comparisons of f64 come to.
LEMMA Comparisons ==
  ASSUME NEW x \in Int \cup {NaN, Inf}, NEW y \in Int \cup {NaN, Inf}
  PROVE  /\ Less(x, y) <=> x \in Int /\ (y = Inf \/ (y \in Int /\ x < y))
         /\ AtMost(x, y) <=> (x = Inf /\ y = Inf) \/ (x \in Int /\ (y = Inf \/ (y \in Int /\ x <= y)))
BY ConfigurationAssumption DEF ConfigurationAssumption, Less, AtMost

\* The parts of a sound policy, one by one.
LEMMA SoundPolicy ==
  ASSUME NEW c, Typed(c), Valid(c)
  PROVE  /\ c.threshold = Inf \/ (c.threshold \in Nat /\ c.threshold > 0)
         /\ c.decay \in 1 .. 2
         /\ c.floor \in Nat /\ Less(c.floor, c.threshold)
         /\ c.weight \in Nat \cup {NaN, Inf}
<1>1. /\ c.threshold \in Int \cup {NaN, Inf} /\ c.decay \in Int \cup {NaN, Inf}
      /\ c.floor \in Int \cup {NaN, Inf} /\ c.weight \in Int \cup {NaN, Inf}
  BY DEF Typed, Reals
<1>2. /\ ~AtMost(c.threshold, 0) /\ Less(0, c.decay) /\ AtMost(c.decay, 2) /\ ~Less(c.weight, 0)
      /\ AtMost(0, c.floor) /\ Less(c.floor, c.threshold)
  BY DEF Valid, CoherentPolicy
<1>3. c.floor \in Nat /\ c.threshold \in Int \cup {Inf} /\ Less(c.floor, c.threshold)
  BY <1>1, <1>2, ConfigurationAssumption DEF ConfigurationAssumption, AtMost, Less
<1>4. c.threshold = Inf \/ (c.threshold \in Nat /\ c.threshold > 0)
  BY <1>1, <1>2, <1>3, Comparisons
<1>5. c.decay \in 1 .. 2
  <2>1. c.decay \in Int /\ c.decay <= 2
    BY <1>1, <1>2, ConfigurationAssumption DEF ConfigurationAssumption, AtMost, Less
  <2>2. 0 < c.decay
    BY <1>2, <2>1, Comparisons, ConfigurationAssumption DEF ConfigurationAssumption
  <2>3. QED
    BY <2>1, <2>2
<1>6. c.weight \in Nat \cup {NaN, Inf}
  BY <1>1, <1>2, Comparisons
<1>7. QED
  BY <1>3, <1>4, <1>5, <1>6

\* Decay and floor keep a score what it is: a natural number, or infinite.
LEMMA HeldType ==
  ASSUME NEW x \in Nat \cup {Inf}, NEW d \in 1 .. 2, NEW f \in Nat
  PROVE  /\ Halves(x, d) \in Nat \cup {Inf}
         /\ Larger(Halves(x, d), f) \in Nat \cup {Inf}
         /\ x \in Nat => Halves(x, d) \in Nat /\ Larger(Halves(x, d), f) \in Nat
<1>1. x \in Nat => (x * d) \div 2 \in Nat
  <2>1. CASE d = 1
    BY <2>1
  <2>2. CASE d = 2
    BY <2>2
  <2>3. QED
    BY <2>1, <2>2
<1>2. /\ Halves(x, d) \in Nat \cup {Inf}
      /\ x \in Nat => Halves(x, d) \in Nat
  BY <1>1, ConfigurationAssumption DEF ConfigurationAssumption, Halves
<1>3. QED
  BY <1>2, ConfigurationAssumption DEF ConfigurationAssumption, Larger, Less

\* A turn leaves a score of the same kind.
LEMMA ScoredType ==
  ASSUME Sound(orchestrator), orchestrator # Down, ScoreOK, NEW flags \in Nat
  PROVE  /\ Number(orchestrator.weight) => Scored(flags) \in Nat
         /\ orchestrator.weight = Inf => Scored(flags) \in Nat \cup {Inf}
<1> DEFINE held == IF tainted THEN Larger(Halves(score, orchestrator.decay), orchestrator.floor)
                   ELSE Halves(score, orchestrator.decay)
<1>1. /\ orchestrator.decay \in 1 .. 2 /\ orchestrator.floor \in Nat
      /\ orchestrator.weight \in Nat \cup {NaN, Inf}
  BY SoundPolicy DEF Sound
<1>2. Scored(flags) = IF flags > 0 THEN Plus(held, Times(flags, orchestrator.weight)) ELSE held
  BY DEF Scored
<1>3. ASSUME Number(orchestrator.weight) PROVE Scored(flags) \in Nat
  <2>1. score \in Nat /\ orchestrator.weight \in Nat
    BY <1>1, <1>3 DEF ScoreOK, Number
  <2>2. held \in Nat
    BY <1>1, <2>1, HeldType
  <2>3. flags * orchestrator.weight \in Nat
    BY <2>1
  <2>4. QED
    BY <1>2, <2>1, <2>2, <2>3, ConfigurationAssumption DEF ConfigurationAssumption, Plus, Times
<1>4. ASSUME orchestrator.weight = Inf PROVE Scored(flags) \in Nat \cup {Inf}
  <2>1. held \in Nat \cup {Inf}
    BY <1>1, <1>4, HeldType DEF ScoreOK
  <2>2. QED
    BY <1>2, <1>4, <2>1, ConfigurationAssumption DEF ConfigurationAssumption, Plus, Times
<1>5. QED
  BY <1>3, <1>4

LEMMA ScoreStaysOK == Spec => []ScoreOK
<1>1. Init => ScoreOK
  BY DEF Init, ScoreOK
<1>2. IInv /\ ScoreOK /\ [Next]_vars => ScoreOK'
  <2> SUFFICES ASSUME IInv, ScoreOK, [Next]_vars PROVE ScoreOK'
    OBVIOUS
  <2>1. ASSUME NEW length \in Lengths, NEW flags \in Nat, Turn(length, flags) PROVE ScoreOK'
    <3>1. /\ orchestrator # Down /\ orchestrator' = orchestrator
          /\ score' = Scored(flags)
      BY <2>1 DEF Turn
    <3>2. QED
      BY <3>1, ScoredType DEF IInv, ScoreOK
  <2>2. CASE BenignTurn
    BY <2>1, <2>2 DEF BenignTurn
  <2>3. CASE FlaggedTurn
    BY <2>1, <2>3, ConfigurationAssumption DEF ConfigurationAssumption, FlaggedTurn
  <2>4. CASE StartOrchestrator \/ StopOrchestrator
    BY <2>4 DEF StartOrchestrator, StopOrchestrator, ScoreOK
  <2>5. ASSUME UNCHANGED <<orchestrator, score>> PROVE ScoreOK'
    BY <2>5 DEF ScoreOK
  <2>6. QED
    BY <2>2, <2>3, <2>4, <2>5
    DEF Next, EditFile, StartGuard, StopGuard, TooLarge, Unanswered, WindowRefused, vars
<1>3. QED
  BY <1>1, <1>2, SoundForEver, PTL DEF Spec

\* No file that is accepted disarms the ledger, except by its weight or an infinite
\* threshold: as many flags as the threshold counts always block.  That a threshold
\* is a number rests on the check of the floor (config.rs:94), which is false for
\* NaN; the check of the threshold itself lets NaN pass.
THEOREM ConfigurationArmed == Spec => []Armed
<1>1. IInv /\ ScoreOK => Armed
  <2> SUFFICES ASSUME IInv, ScoreOK, orchestrator # Down,
                      orchestrator.weight \notin {0, NaN}, orchestrator.threshold # Inf
               PROVE  /\ orchestrator.threshold # NaN
                      /\ \E flags \in 1 .. orchestrator.threshold : Blocks(Scored(flags))
    BY DEF Armed
  <2> DEFINE t == orchestrator.threshold
             held == IF tainted THEN Larger(Halves(score, orchestrator.decay), orchestrator.floor)
                     ELSE Halves(score, orchestrator.decay)
  <2>1. /\ t \in Nat /\ t > 0 /\ orchestrator.decay \in 1 .. 2 /\ orchestrator.floor \in Nat
        /\ orchestrator.weight \in Nat \cup {NaN, Inf}
    BY SoundPolicy DEF IInv, Sound
  <2>2. Scored(t) = Plus(held, Times(t, orchestrator.weight))
    BY <2>1 DEF Scored
  <2>3. CASE orchestrator.weight = Inf
    <3>1. held \in Nat \cup {Inf}
      BY <2>1, <2>3, HeldType DEF ScoreOK
    <3>2. Scored(t) = Inf
      BY <2>2, <2>3, <3>1, ConfigurationAssumption DEF ConfigurationAssumption, Plus, Times
    <3>3. QED
      BY <2>1, <3>2, ConfigurationAssumption DEF ConfigurationAssumption, Blocks, AtMost, Less
  <2>4. CASE orchestrator.weight \in Nat \ {0}
    <3> score \in Nat
      BY <2>4, ConfigurationAssumption DEF ConfigurationAssumption, ScoreOK, Number
    <3>1. held \in Nat
      BY <2>1, HeldType
    <3>2. t * orchestrator.weight \in Nat /\ t <= t * orchestrator.weight
      BY <2>1, <2>4
    <3>3. Scored(t) \in Nat /\ t <= Scored(t)
      BY <2>1, <2>2, <2>4, <3>1, <3>2, ConfigurationAssumption
      DEF ConfigurationAssumption, Plus, Times
    <3>4. Blocks(Scored(t))
      BY <2>1, <3>3, ConfigurationAssumption DEF ConfigurationAssumption, Blocks, AtMost, Less
    <3>5. QED
      BY <2>1, <3>4, ConfigurationAssumption DEF ConfigurationAssumption
  <2>5. QED
    BY <2>1, <2>3, <2>4
<1>2. QED
  BY <1>1, SoundForEver, ScoreStaysOK, PTL

\* With a policy of numbers, a turn scores as in Scoring, where the ledger, the
\* kernel and the gateway are modelled (ledger.rs:134-150).
TurnsScoreAsModelled ==
  [][\A length \in Lengths, flags \in 0 .. MaxFlags :
       Turn(length, flags) /\ Number(orchestrator.threshold) /\ Number(orchestrator.weight) =>
         /\ score' = Policy(orchestrator)!Scored(score, tainted, flags)
         /\ outcome' = "anomaly_threshold" <=> Policy(orchestrator)!Blocks(score')]_vars

\* Whatever policy of numbers validation accepted, a process scores by it as the
\* other modules do.
THEOREM ConfigurationScoring == Spec => TurnsScoreAsModelled
<1>1. ASSUME IInv, ScoreOK, NEW length \in Lengths, NEW flags \in 0 .. MaxFlags,
             Turn(length, flags), Number(orchestrator.threshold), Number(orchestrator.weight)
      PROVE  /\ score' = Policy(orchestrator)!Scored(score, tainted, flags)
             /\ outcome' = "anomaly_threshold" <=> Policy(orchestrator)!Blocks(score')
  <2>1. /\ orchestrator # Down /\ score' = Scored(flags) /\ flags \in Nat
        /\ outcome' = IF Blocks(score') THEN "anomaly_threshold" ELSE "pass"
    BY <1>1, ConfigurationAssumption DEF ConfigurationAssumption, Turn
  <2>2. /\ orchestrator.threshold \in Nat /\ orchestrator.decay \in 1 .. 2
        /\ orchestrator.floor \in Nat /\ orchestrator.weight \in Nat
    BY <1>1, <2>1, SoundPolicy DEF IInv, Sound, Number
  <2>3. score \in Nat /\ score' \in Nat
    BY <1>1, <2>1, ScoredType DEF ScoreOK, IInv
  <2>4. /\ Halves(score, orchestrator.decay) = (score * orchestrator.decay) \div 2
        /\ Halves(score, orchestrator.decay) \in Nat
    <3>1. score \notin {NaN, Inf}
      BY <2>3, ConfigurationAssumption DEF ConfigurationAssumption
    <3>2. Halves(score, orchestrator.decay) \in Nat
      BY <2>2, <2>3, HeldType
    <3>3. QED
      BY <3>1, <3>2 DEF Halves
  <2>5. flags * orchestrator.weight \in Nat
    BY <2>1, <2>2
  <2>6. score' = Policy(orchestrator)!Scored(score, tainted, flags)
    BY <2>1, <2>2, <2>4, <2>5, ConfigurationAssumption
    DEF ConfigurationAssumption, Scored, Larger, Less, Plus, Times,
        Policy!Scored, Policy!Faded, Policy!Decay
  <2>7. Blocks(score') <=> Policy(orchestrator)!Blocks(score')
    BY <2>2, <2>3, ConfigurationAssumption
    DEF ConfigurationAssumption, Blocks, AtMost, Less, Policy!Blocks
  <2>8. QED
    BY <2>1, <2>6, <2>7
<1>2. IInv /\ ScoreOK /\ [Next]_vars =>
        [\A length \in Lengths, flags \in 0 .. MaxFlags :
           Turn(length, flags) /\ Number(orchestrator.threshold) /\ Number(orchestrator.weight) =>
             /\ score' = Policy(orchestrator)!Scored(score, tainted, flags)
             /\ outcome' = "anomaly_threshold" <=> Policy(orchestrator)!Blocks(score')]_vars
  BY <1>1
<1>3. QED
  BY <1>2, SoundForEver, ScoreStaysOK, PTL DEF Spec, TurnsScoreAsModelled
=============================================================================
