------------------------ MODULE AnomalyLedgerProofs ------------------------
(***************************************************************************)
(* Theorems about the anomaly ledger, for every number of sessions, every  *)
(* capacity and every setting of the scores that configuration validation  *)
(* accepts.                                                                *)
(***************************************************************************)
EXTENDS AnomalyLedger, Sums, SequenceTheorems, TLAPS

-----------------------------------------------------------------------------
(* Arithmetic of one entry. *)

\* Decay never raises a score and never takes it below zero (ledger.rs:134-138).
LEMMA DecayShrinks ==
  ASSUME NEW score \in Nat
  PROVE  Decay(score) \in Nat /\ Decay(score) <= score
BY ScoringAssumption DEF ScoringAssumption, Decay

\* After the decay of a turn the score is a score; a tainted one is at or above
\* the floor, and nothing exceeds what it was except by the lift to the floor.
LEMMA FadedBounds ==
  ASSUME NEW score \in Nat, NEW tainted \in BOOLEAN
  PROVE  /\ Faded(score, tainted) \in Nat
         /\ tainted => Faded(score, tainted) >= Floor
         /\ Faded(score, tainted) <= score \/ Faded(score, tainted) = Floor
         /\ ~tainted => Faded(score, tainted) <= score
BY DecayShrinks, ScoringAssumption DEF Faded, ScoringAssumption

\* The flags of a turn only ever add (ledger.rs:141-144).
LEMMA ScoredBounds ==
  ASSUME NEW score \in Nat, NEW tainted \in BOOLEAN, NEW flags \in Nat
  PROVE  /\ Scored(score, tainted, flags) \in Nat
         /\ Scored(score, tainted, flags) = Faded(score, tainted) + flags * FlagWeight
         /\ Scored(score, tainted, flags) >= Faded(score, tainted)
         /\ flags = 0 => Scored(score, tainted, flags) = Faded(score, tainted)
         /\ tainted => Scored(score, tainted, flags) >= Floor
<1>1. flags * FlagWeight \in Nat /\ (flags = 0 => flags * FlagWeight = 0)
  BY ScoringAssumption DEF ScoringAssumption
<1>2. QED
  BY <1>1, FadedBounds, ScoringAssumption DEF Scored, ScoringAssumption

-----------------------------------------------------------------------------
(* Type correctness. *)

\* The entry `record` works on is a well-formed one, found or fresh.
LEMMA EntryType ==
  ASSUME TypeOK, NEW id \in Sessions
  PROVE  Entry(id) \in SessionState
BY DEF TypeOK, Entry, SessionState

LEMMA RecordedType ==
  ASSUME TypeOK, NEW id \in Sessions, NEW flags \in Nat
  PROVE  Recorded(id, flags) \in SessionState
<1>1. Entry(id).score \in Nat /\ Entry(id).tainted \in BOOLEAN
  BY EntryType DEF SessionState
<1>2. Scored(Entry(id).score, Entry(id).tainted, flags) \in Nat
  BY <1>1, ScoredBounds
<1>3. tick + 1 \in Nat
  BY DEF TypeOK
<1>4. QED
  BY <1>1, <1>2, <1>3 DEF Recorded, SessionState

\* Eviction removes nothing, or one tracked session other than the one recorded.
LEMMA EvictionsAreTracked ==
  ASSUME NEW id, NEW evicted \in Evictions(id)
  PROVE  /\ evicted \subseteq Tracked
         /\ id \notin evicted
         /\ evicted = {} \/ (id \notin Tracked /\ \E o \in LeastRecent : evicted = {o})
BY DEF Evictions, LeastRecent

\* The shape of the map after a turn, cited by every invariant below.
LEMMA RecordShape ==
  ASSUME NEW id \in Sessions, NEW flags \in Nat, Record(id, flags)
  PROVE  \E evicted \in Evictions(id) :
           /\ Tracked' = (Tracked \ evicted) \cup {id}
           /\ sessions'[id] = Recorded(id, flags)
           /\ \A s \in Tracked' : s # id => s \in Tracked /\ sessions'[s] = sessions[s]
           /\ sessions' \in [Tracked' -> {sessions'[s] : s \in Tracked'}]
<1>1. PICK evicted \in Evictions(id) :
        sessions' = [s \in (Tracked \ evicted) \cup {id} |->
                       IF s = id THEN Recorded(id, flags) ELSE sessions[s]]
  BY DEF Record
<1>2. Tracked' = (Tracked \ evicted) \cup {id}
  BY <1>1 DEF Tracked
<1>3. QED
  BY <1>1, <1>2 DEF Tracked

\* The map holds well-formed entries of known sessions.
THEOREM LedgerTypeCorrect == Spec => []TypeOK
<1>1. Init => TypeOK
  BY DEF Init, TypeOK, Tracked, SessionState
<1>2. TypeOK /\ [Next]_vars => TypeOK'
  <2> SUFFICES ASSUME TypeOK, [Next]_vars PROVE TypeOK'
    OBVIOUS
  <2>1. ASSUME NEW id \in Sessions, NEW flags \in 0 .. MaxFlags, Record(id, flags)
        PROVE  TypeOK'
    <3>1. flags \in Nat
      BY LedgerAssumption DEF LedgerAssumption
    <3>2. PICK evicted \in Evictions(id) :
            /\ Tracked' = (Tracked \ evicted) \cup {id}
            /\ sessions'[id] = Recorded(id, flags)
            /\ \A s \in Tracked' : s # id => s \in Tracked /\ sessions'[s] = sessions[s]
            /\ sessions' \in [Tracked' -> {sessions'[s] : s \in Tracked'}]
      BY <2>1, <3>1, RecordShape
    <3>3. Tracked' \subseteq Sessions
      BY <3>2 DEF TypeOK
    <3>4. \A s \in Tracked' : sessions'[s] \in SessionState
      BY <3>1, <3>2, RecordedType DEF TypeOK
    <3>5. sessions' \in [Tracked' -> SessionState]
      BY <3>2, <3>4
    <3>6. tick' \in Nat /\ raised' \in [Sessions -> Nat]
      BY <2>1, <3>1 DEF Record, TypeOK
    <3>7. QED
      BY <3>3, <3>5, <3>6 DEF TypeOK
  <2>2. CASE UNCHANGED vars
    BY <2>2 DEF vars, TypeOK, Tracked
  <2>3. QED
    BY <2>1, <2>2 DEF Next
<1>3. QED
  BY <1>1, <1>2, PTL DEF Spec
-----------------------------------------------------------------------------
(* Safety invariants.  Each is inductive relative to TypeOK; the case of an *)
(* action is split into the session recorded and all the others, which      *)
(* RecordShape says are left alone or evicted.                              *)

\* The history counts the recorded session's flags and leaves the others alone.
LEMMA RaisedStep ==
  ASSUME TypeOK, NEW id \in Sessions, NEW flags \in Nat, Record(id, flags)
  PROVE  /\ raised'[id] = raised[id] + flags
         /\ \A s \in Sessions : s # id => raised'[s] = raised[s]
         /\ tick' = tick + 1
BY DEF Record, TypeOK

\* The sessions' last turns stay pairwise different: the one that takes the tick
\* `record` has just advanced is the only one that can hold it.
THEOREM LedgerRecencyTotal == Spec => []RecencyTotal
<1>1. Init => RecencyTotal
  BY DEF Init, RecencyTotal, Tracked
<1>2. TypeOK /\ RecencyTotal /\ [Next]_vars => RecencyTotal'
  <2> SUFFICES ASSUME TypeOK, RecencyTotal, [Next]_vars PROVE RecencyTotal'
    OBVIOUS
  <2>1. ASSUME NEW id \in Sessions, NEW flags \in 0 .. MaxFlags, Record(id, flags)
        PROVE  RecencyTotal'
    <3>1. flags \in Nat
      BY LedgerAssumption DEF LedgerAssumption
    <3>2. /\ sessions'[id] = Recorded(id, flags)
          /\ \A s \in Tracked' : s # id => s \in Tracked /\ sessions'[s] = sessions[s]
      BY <2>1, <3>1, RecordShape
    <3>3. sessions'[id].last_tick = tick + 1
      BY <3>2 DEF Recorded
    <3>4. tick \in Nat /\ tick' = tick + 1
      BY <2>1 DEF Record, TypeOK
    <3>5. \A s \in Tracked' : s # id =>
            sessions'[s].last_tick = sessions[s].last_tick /\ sessions[s].last_tick \in 1 .. tick
      BY <3>2 DEF RecencyTotal
    <3>6. \A s \in Tracked' : sessions'[s].last_tick \in 1 .. tick'
      BY <3>3, <3>4, <3>5
    <3>7. ASSUME NEW s \in Tracked', NEW t \in Tracked',
                 sessions'[s].last_tick = sessions'[t].last_tick
          PROVE  s = t
      <4>1. CASE s = id
        BY <4>1, <3>3, <3>4, <3>5, <3>7
      <4>2. CASE t = id
        BY <4>2, <3>3, <3>4, <3>5, <3>7
      <4>3. CASE s # id /\ t # id
        BY <4>3, <3>2, <3>7 DEF RecencyTotal
      <4>4. QED
        BY <4>1, <4>2, <4>3
    <3>8. QED
      BY <3>6, <3>7 DEF RecencyTotal
  <2>2. CASE UNCHANGED vars
    BY <2>2 DEF vars, RecencyTotal, Tracked
  <2>3. QED
    BY <2>1, <2>2 DEF Next
<1>3. QED
  BY <1>1, <1>2, LedgerTypeCorrect, PTL DEF Spec

\* A session that never raised a flag is never penalised: without a taint no
\* floor is applied, and decay of nothing is nothing (ledger.rs:128-138).
THEOREM LedgerBenignNeverPenalised == Spec => []BenignNeverPenalised
<1>1. Init => BenignNeverPenalised
  BY DEF Init, BenignNeverPenalised, Tracked
<1>2. TypeOK /\ BenignNeverPenalised /\ [Next]_vars => BenignNeverPenalised'
  <2> SUFFICES ASSUME TypeOK, BenignNeverPenalised, [Next]_vars
               PROVE  BenignNeverPenalised'
    OBVIOUS
  <2>1. ASSUME NEW id \in Sessions, NEW flags \in 0 .. MaxFlags, Record(id, flags)
        PROVE  BenignNeverPenalised'
    <3>1. flags \in Nat
      BY LedgerAssumption DEF LedgerAssumption
    <3>2. /\ sessions'[id] = Recorded(id, flags)
          /\ \A s \in Tracked' : s # id => s \in Tracked /\ sessions'[s] = sessions[s]
      BY <2>1, <3>1, RecordShape
    <3>3. raised'[id] = raised[id] + flags /\ \A s \in Sessions : s # id => raised'[s] = raised[s]
      BY <2>1, <3>1, RaisedStep
    <3>4. ASSUME raised'[id] = 0
          PROVE  sessions'[id].score = 0 /\ ~sessions'[id].tainted
      <4>1. flags = 0 /\ raised[id] = 0
        BY <3>1, <3>3, <3>4 DEF TypeOK
      <4>2. Entry(id).score = 0 /\ Entry(id).tainted = FALSE
        BY <4>1 DEF BenignNeverPenalised, Entry, TypeOK, SessionState
      <4>3. sessions'[id].score = Scored(0, FALSE, 0)
        <5>1. sessions'[id].score = Scored(Entry(id).score, Entry(id).tainted, flags)
          BY <3>2 DEF Recorded
        <5>2. QED
          BY ONLY <5>1, <4>1, <4>2, Zenon
      <4>4. Decay(0) = 0
        BY DecayShrinks
      <4>5. Scored(0, FALSE, 0) = 0
        BY <4>4, ScoringAssumption DEF Scored, Faded, ScoringAssumption
      <4>6. ~sessions'[id].tainted
        <5>1. sessions'[id].tainted = (Entry(id).tainted \/ flags > 0)
          BY <3>2 DEF Recorded
        <5>2. ~(flags > 0)
          BY <4>1
        <5>3. QED
          BY <4>2, <5>1, <5>2
      <4>7. QED
        BY <4>3, <4>5, <4>6
    <3>5. \A s \in Tracked' : s \in Sessions
      BY <2>1, <3>2 DEF TypeOK
    <3>6. QED
      BY <3>2, <3>3, <3>4, <3>5 DEF BenignNeverPenalised
  <2>2. CASE UNCHANGED vars
    BY <2>2 DEF vars, BenignNeverPenalised, Tracked
  <2>3. QED
    BY <2>1, <2>2 DEF Next
<1>3. QED
  BY <1>1, <1>2, LedgerTypeCorrect, PTL DEF Spec

\* No suspicion without evidence: decay only lowers a score or lifts it to the
\* floor, and only the session's own flags raise it.
THEOREM LedgerSuspicionNeedsEvidence == Spec => []SuspicionNeedsEvidence
<1>1. Init => SuspicionNeedsEvidence
  BY DEF Init, SuspicionNeedsEvidence, Tracked
<1>2. TypeOK /\ SuspicionNeedsEvidence /\ [Next]_vars => SuspicionNeedsEvidence'
  <2> SUFFICES ASSUME TypeOK, SuspicionNeedsEvidence, [Next]_vars
               PROVE  SuspicionNeedsEvidence'
    OBVIOUS
  <2>1. ASSUME NEW id \in Sessions, NEW flags \in 0 .. MaxFlags, Record(id, flags)
        PROVE  SuspicionNeedsEvidence'
    <3>1. flags \in Nat
      BY LedgerAssumption DEF LedgerAssumption
    <3>2. /\ sessions'[id] = Recorded(id, flags)
          /\ \A s \in Tracked' : s # id => s \in Tracked /\ sessions'[s] = sessions[s]
      BY <2>1, <3>1, RecordShape
    <3>3. raised'[id] = raised[id] + flags /\ \A s \in Sessions : s # id => raised'[s] = raised[s]
      BY <2>1, <3>1, RaisedStep
    <3>4. sessions'[id].score <= Floor + raised'[id] * FlagWeight
      <4> DEFINE old == Entry(id).score
                 faded == Faded(old, Entry(id).tainted)
      <4>1. old \in Nat /\ Entry(id).tainted \in BOOLEAN
        BY EntryType DEF SessionState
      <4>2. raised[id] \in Nat /\ FlagWeight \in Nat /\ Floor \in Nat
        BY ScoringAssumption DEF TypeOK, ScoringAssumption
      <4>3. raised[id] * FlagWeight \in Nat
        BY <4>2
      <4>4. old <= Floor + raised[id] * FlagWeight
        BY <4>2, <4>3 DEF Entry, SuspicionNeedsEvidence
      <4>5. faded \in Nat /\ faded <= Floor + raised[id] * FlagWeight
        BY <4>1, <4>2, <4>3, <4>4, FadedBounds
      <4>6. raised'[id] * FlagWeight = raised[id] * FlagWeight + flags * FlagWeight
        BY <3>1, <3>3, <4>2
      <4>7. flags * FlagWeight \in Nat
        BY <3>1, <4>2
      <4>8. sessions'[id].score = faded + flags * FlagWeight
        <5>1. sessions'[id].score = Scored(old, Entry(id).tainted, flags)
          BY <3>2 DEF Recorded
        <5>2. Scored(old, Entry(id).tainted, flags) = faded + flags * FlagWeight
          BY DEF Scored
        <5>3. QED
          BY <5>1, <5>2
      <4> HIDE DEF old, faded
      <4>9. QED
        BY <4>2, <4>3, <4>5, <4>6, <4>7, <4>8
    <3>5. \A s \in Tracked' : s \in Sessions
      BY <2>1, <3>2 DEF TypeOK
    <3>6. QED
      BY <3>2, <3>3, <3>4, <3>5 DEF SuspicionNeedsEvidence
  <2>2. CASE UNCHANGED vars
    BY <2>2 DEF vars, SuspicionNeedsEvidence, Tracked
  <2>3. QED
    BY <2>1, <2>2 DEF Next
<1>3. QED
  BY <1>1, <1>2, LedgerTypeCorrect, PTL DEF Spec

\* The bound of eviction_bounds_memory (ledger.rs:250-264), for every capacity:
\* a new entry takes the place of an evicted one once the map is full.
THEOREM LedgerCapacityHolds == Spec => []CapacityHolds
<1>1. Init => CapacityHolds
  <2> SUFFICES ASSUME Init PROVE CapacityHolds
    OBVIOUS
  <2>1. Tracked = {}
    BY DEF Init, Tracked
  <2>2. Cardinality(Tracked) = 0
    BY <2>1, FS_EmptySet
  <2>3. QED
    BY <2>2, LedgerAssumption DEF CapacityHolds, LedgerAssumption
<1>2. TypeOK /\ CapacityHolds /\ [Next]_vars => CapacityHolds'
  <2> SUFFICES ASSUME TypeOK, CapacityHolds, [Next]_vars PROVE CapacityHolds'
    OBVIOUS
  <2>1. ASSUME NEW id \in Sessions, NEW flags \in 0 .. MaxFlags, Record(id, flags)
        PROVE  CapacityHolds'
    <3>1. flags \in Nat /\ MaxSessions \in Nat
      BY LedgerAssumption DEF LedgerAssumption
    <3>2. PICK evicted \in Evictions(id) : Tracked' = (Tracked \ evicted) \cup {id}
      BY <2>1, <3>1, RecordShape
    <3>3. IsFiniteSet(Tracked) /\ Cardinality(Tracked) \in Nat
      BY LedgerAssumption, FS_Subset, FS_CardinalityType DEF TypeOK, LedgerAssumption
    <3>4. CASE id \in Tracked
      <4>1. Tracked' = Tracked
        BY <3>2, <3>4 DEF Evictions
      <4>2. QED
        BY <4>1 DEF CapacityHolds
    <3>5. CASE id \notin Tracked /\ evicted = {}
      <4>1. Tracked' = Tracked \cup {id}
        BY <3>2, <3>5
      <4>2. Cardinality(Tracked') = Cardinality(Tracked) + 1
        BY <3>3, <3>5, <4>1, FS_AddElement
      <4>3. Cardinality(Tracked) < MaxSessions \/ Cardinality(Tracked) = 0
        BY <3>1, <3>3, <3>5, FS_EmptySet DEF Evictions
      <4>4. QED
        BY <3>1, <3>3, <4>2, <4>3 DEF CapacityHolds
    <3>6. CASE id \notin Tracked /\ evicted # {}
      <4>1. PICK o \in Tracked : evicted = {o}
        BY <3>2, <3>6, EvictionsAreTracked
      <4>2. IsFiniteSet(Tracked \ {o}) /\ Cardinality(Tracked \ {o}) = Cardinality(Tracked) - 1
        BY <3>3, <4>1, FS_RemoveElement
      <4>3. Cardinality(Tracked') = Cardinality(Tracked \ {o}) + 1
        BY <3>2, <3>6, <4>1, <4>2, FS_AddElement
      <4>4. Cardinality(Tracked') = Cardinality(Tracked)
        BY <3>3, <4>2, <4>3
      <4>5. QED
        BY <4>4 DEF CapacityHolds
    <3>7. QED
      BY <3>4, <3>5, <3>6
  <2>2. CASE UNCHANGED vars
    BY <2>2 DEF vars, CapacityHolds, Tracked
  <2>3. QED
    BY <2>1, <2>2 DEF Next
<1>3. QED
  BY <1>1, <1>2, LedgerTypeCorrect, PTL DEF Spec

-----------------------------------------------------------------------------
(* What a step may do to an entry. *)

\* The floor is a floor for ever: no sequence of turns, of this session or of
\* others, lowers the score of a tainted session below it short of eviction.
THEOREM LedgerFloorHolds == Spec => FloorHolds
<1> DEFINE Held(s) == sessions[s].tainted =>
                        /\ sessions'[s].tainted
                        /\ \/ sessions'[s] = sessions[s]
                           \/ sessions'[s].score >= Floor
<1>1. ASSUME TypeOK, [Next]_vars
      PROVE  [\A s \in Tracked \cap DOMAIN sessions' : Held(s)]_vars
  <2>1. ASSUME NEW id \in Sessions, NEW flags \in 0 .. MaxFlags, Record(id, flags),
               NEW s \in Tracked \cap DOMAIN sessions', sessions[s].tainted
        PROVE  /\ sessions'[s].tainted
               /\ sessions'[s] = sessions[s] \/ sessions'[s].score >= Floor
    <3>1. flags \in Nat
      BY LedgerAssumption DEF LedgerAssumption
    <3>2. /\ sessions'[id] = Recorded(id, flags)
          /\ \A t \in Tracked' : t # id => t \in Tracked /\ sessions'[t] = sessions[t]
      BY <2>1, <3>1, RecordShape
    <3>3. CASE s # id
      BY <2>1, <3>2, <3>3 DEF Tracked
    <3>4. CASE s = id
      <4>1. Entry(id) = sessions[id]
        BY <2>1, <3>4 DEF Entry
      <4>2. Entry(id).tainted = TRUE /\ Entry(id).score \in Nat
        BY <1>1, <2>1, <3>4, <4>1, EntryType DEF SessionState
      <4>3. sessions'[id].tainted
        <5>1. sessions'[id].tainted = (Entry(id).tainted \/ flags > 0)
          BY <3>2 DEF Recorded
        <5>2. QED
          BY <4>2, <5>1
      <4>4. sessions'[id].score >= Floor
        <5>1. sessions'[id].score = Scored(Entry(id).score, Entry(id).tainted, flags)
          BY <3>2 DEF Recorded
        <5>2. Scored(Entry(id).score, Entry(id).tainted, flags) >= Floor
          BY <3>1, <4>2, ScoredBounds
        <5>3. QED
          BY <5>1, <5>2
      <4>5. QED
        BY <3>4, <4>3, <4>4
    <3>5. QED
      BY <3>3, <3>4
  <2>2. QED
    BY <1>1, <2>1 DEF Next
<1>2. QED
  BY <1>1, LedgerTypeCorrect, PTL DEF Spec, FloorHolds

\* The entry `record` works on is the one the session sees.
LEMMA EntryIsView ==
  ASSUME NEW id
  PROVE  Entry(id).score = ScoreOf(id) /\ Entry(id).tainted = TaintOf(id)
BY DEF Entry, ScoreOf, TaintOf

\* The ledger gives every session an entry of its own: a step of the ledger is a
\* turn of the recorded session's entry, and leaves any other session's entry
\* alone or evicts it.
THEOREM LedgerImplementsEntries == Spec => ImplementsEntries
<1>1. Init => \A s \in Sessions : EntryOf(s)!Init
  BY DEF Init, EntryOf!Init, ScoreOf, TaintOf, Tracked
<1> DEFINE Seen(s) ==
      IF s \in DOMAIN sessions' /\ sessions'[s].last_tick = tick'
      THEN EntryOf(s)!Turn(raised'[s] - raised[s])
      ELSE \/ UNCHANGED <<ScoreOf(s), TaintOf(s)>>
           \/ s \notin DOMAIN sessions' /\ EntryOf(s)!Forgotten
<1>2. ASSUME TypeOK, RecencyTotal, [Next]_vars
      PROVE  [\A s \in Sessions : Seen(s)]_vars
  <2>1. ASSUME NEW id \in Sessions, NEW flags \in 0 .. MaxFlags, Record(id, flags),
               NEW s \in Sessions
        PROVE  Seen(s)
    <3>1. flags \in Nat
      BY LedgerAssumption DEF LedgerAssumption
    <3>2. /\ id \in Tracked'
          /\ sessions'[id] = Recorded(id, flags)
          /\ \A t \in Tracked' : t # id => t \in Tracked /\ sessions'[t] = sessions[t]
      BY <2>1, <3>1, RecordShape
    <3>3. /\ raised'[id] - raised[id] = flags
          /\ tick' = tick + 1
          /\ tick \in Nat
      BY <1>2, <2>1, <3>1, RaisedStep DEF TypeOK
    <3>4. CASE s = id
      <4>1. ScoreOf(id)' = Recorded(id, flags).score /\ TaintOf(id)' = Recorded(id, flags).tainted
        BY <3>2 DEF ScoreOf, TaintOf
      <4>2. Recorded(id, flags).tainted = (TaintOf(id) \/ flags > 0)
        BY EntryIsView DEF Recorded
      <4>3. Recorded(id, flags).score = Scored(ScoreOf(id), TaintOf(id), flags)
        BY EntryIsView, Zenon DEF Recorded
      <4>4. EntryOf(id)!Turn(flags)
        BY <4>1, <4>2, <4>3
           DEF EntryOf!Turn, EntryOf!Scored, EntryOf!Faded, EntryOf!Decay, Scored, Faded, Decay
      <4>5. s \in DOMAIN sessions' /\ sessions'[s].last_tick = tick'
        BY <3>2, <3>3, <3>4 DEF Recorded, Tracked
      <4>6. QED
        BY <3>3, <3>4, <4>4, <4>5
    <3>5. CASE s # id /\ s \in Tracked'
      <4>1. s \in Tracked /\ sessions'[s] = sessions[s]
        BY <3>2, <3>5
      <4>2. sessions'[s].last_tick # tick'
        BY <1>2, <3>3, <4>1 DEF RecencyTotal
      <4>3. UNCHANGED <<ScoreOf(s), TaintOf(s)>>
        BY <3>5, <4>1 DEF ScoreOf, TaintOf
      <4>4. QED
        BY <4>2, <4>3
    <3>6. CASE s # id /\ s \notin Tracked'
      <4>1. EntryOf(s)!Forgotten
        BY <3>6 DEF EntryOf!Forgotten, ScoreOf, TaintOf
      <4>2. QED
        BY <3>6, <4>1 DEF Tracked
    <3>7. QED
      BY <3>4, <3>5, <3>6
  <2>2. QED
    BY <1>2, <2>1 DEF Next
<1>3. QED
  BY <1>1, <1>2, LedgerTypeCorrect, LedgerRecencyTotal, PTL DEF Spec, ImplementsEntries

\* An eviction costs a flood: when a session is forgotten, as many others as the map
\* holds have taken a turn since its last one, the new one among them.
THEOREM LedgerForgetsAfterFlood == Spec => ForgettingCostsAFlood
<1> DEFINE Later(s) == {o \in DOMAIN sessions' : sessions'[o].last_tick > sessions[s].last_tick}
<1>1. ASSUME TypeOK, RecencyTotal, [Next]_vars
      PROVE  [\A s \in Tracked \ DOMAIN sessions' : Cardinality(Later(s)) >= MaxSessions]_vars
  <2>1. ASSUME NEW id \in Sessions, NEW flags \in 0 .. MaxFlags, Record(id, flags),
               NEW s \in Tracked \ DOMAIN sessions'
        PROVE  Cardinality(Later(s)) >= MaxSessions
    <3>1. flags \in Nat /\ MaxSessions \in Nat
      BY LedgerAssumption DEF LedgerAssumption
    <3>2. PICK evicted \in Evictions(id) :
            /\ Tracked' = (Tracked \ evicted) \cup {id}
            /\ sessions'[id] = Recorded(id, flags)
            /\ \A t \in Tracked' : t # id => t \in Tracked /\ sessions'[t] = sessions[t]
      BY <2>1, <3>1, RecordShape
    <3>3. s \in evicted
      BY <2>1, <3>2 DEF Tracked
    <3>4. id \notin Tracked /\ evicted = {s} /\ s \in LeastRecent
      BY <3>2, <3>3, EvictionsAreTracked
    <3>5. Cardinality(Tracked) >= MaxSessions
      BY <3>2, <3>3 DEF Evictions
    <3>6. IsFiniteSet(Tracked) /\ Cardinality(Tracked) \in Nat
      BY <1>1, LedgerAssumption, FS_Subset, FS_CardinalityType DEF TypeOK, LedgerAssumption
    <3>7. IsFiniteSet(Tracked \ {s}) /\ Cardinality(Tracked \ {s}) = Cardinality(Tracked) - 1
      BY <2>1, <3>6, FS_RemoveElement
    <3>8. Cardinality(Tracked') = Cardinality(Tracked)
      <4>1. Tracked' = (Tracked \ {s}) \cup {id} /\ id \notin Tracked \ {s}
        BY <3>2, <3>4
      <4>2. Cardinality(Tracked') = Cardinality(Tracked \ {s}) + 1
        BY <3>7, <4>1, FS_AddElement
      <4>3. QED
        BY <3>6, <3>7, <4>2
    <3>9. ASSUME NEW o \in Tracked' PROVE sessions'[o].last_tick > sessions[s].last_tick
      <4>1. sessions[s].last_tick \in 1 .. tick /\ tick \in Nat
        BY <1>1, <2>1 DEF RecencyTotal, TypeOK
      <4>2. CASE o = id
        BY <3>2, <4>1, <4>2 DEF Recorded
      <4>3. CASE o # id
        <5>1. o \in Tracked /\ o # s /\ sessions'[o] = sessions[o]
          BY <2>1, <3>2, <3>4, <3>9, <4>3 DEF Tracked
        <5>2. /\ sessions[s].last_tick <= sessions[o].last_tick
              /\ sessions[o].last_tick # sessions[s].last_tick
              /\ sessions[o].last_tick \in 1 .. tick
          BY <1>1, <2>1, <3>4, <5>1 DEF LeastRecent, RecencyTotal
        <5>3. QED
          BY <4>1, <5>1, <5>2
      <4>4. QED
        BY <4>2, <4>3
    <3>10. Later(s) = Tracked'
      BY <3>9 DEF Tracked
    <3>11. QED
      BY <3>1, <3>5, <3>6, <3>8, <3>10
  <2>2. QED
    BY <1>1, <2>1 DEF Next
<1>2. QED
  BY <1>1, LedgerTypeCorrect, LedgerRecencyTotal, PTL DEF Spec, ForgettingCostsAFlood

-----------------------------------------------------------------------------
(* The order of eviction. *)

\* q lists the members of S by their values under f.
Lists(S, f, q) ==
  /\ q \in Seq(S) /\ Len(q) = Cardinality(S)
  /\ \A i, j \in 1 .. Len(q) : i < j => f[q[i]] < f[q[j]]

\* A list has every member: it has as many, and none twice.
LEMMA ListsHasAll ==
  ASSUME NEW S, IsFiniteSet(S), NEW f, \A s \in S : f[s] \in Nat, NEW q, Lists(S, f, q)
  PROVE  /\ \A i, j \in 1 .. Len(q) : q[i] = q[j] => i = j
         /\ \A s \in S : \E i \in 1 .. Len(q) : q[i] = s
<1> DEFINE n == Cardinality(S)
<1>1. n \in Nat /\ Len(q) = n /\ q \in [1 .. n -> S]
  BY FS_CardinalityType DEF Lists
<1>2. \A i, j \in 1 .. n : i < j => f[q[i]] < f[q[j]]
  BY <1>1 DEF Lists
<1> HIDE DEF n
<1>3. \A i, j \in 1 .. n : q[i] = q[j] => i = j
  <2> SUFFICES ASSUME NEW i \in 1 .. n, NEW j \in 1 .. n, q[i] = q[j], i # j PROVE FALSE
    OBVIOUS
  <2>1. f[q[i]] \in Nat /\ f[q[j]] \in Nat
    BY <1>1
  <2>2. i < j \/ j < i
    BY <1>1
  <2>3. QED
    BY <1>2, <2>1, <2>2
<1>4. q \in Injection(1 .. n, S)
  BY <1>1, <1>3 DEF Injection, IsInjective
<1>5. IsFiniteSet(1 .. n) /\ Cardinality(1 .. n) = n
  BY <1>1, FS_Interval
<1>6. q \in Surjection(1 .. n, S)
  BY <1>4, <1>5, FS_Injection DEF n
<1>7. QED
  BY <1>1, <1>3, <1>6 DEF Surjection

\* When no two values are equal there is one list, and InOrder is it.
LEMMA InOrderLists ==
  ASSUME NEW S, IsFiniteSet(S), NEW f, \A s \in S : f[s] \in Nat,
         \A s, t \in S : f[s] = f[t] => s = t
  PROVE  Lists(S, f, InOrder(S, f))
<1> DEFINE n == Cardinality(S)
           Below(s) == {t \in S : f[t] < f[s]}
           place == [s \in S |-> Cardinality(Below(s)) + 1]
<1>1. n \in Nat
  BY FS_CardinalityType
<1>2. \A s \in S : IsFiniteSet(Below(s)) /\ Cardinality(Below(s)) \in Nat
  BY FS_Subset, FS_CardinalityType
<1>3. ASSUME NEW s \in S, NEW t \in S, f[s] < f[t]
      PROVE  Cardinality(Below(s)) < Cardinality(Below(t))
  <2>1. Below(s) \cup {s} \in SUBSET Below(t) /\ s \notin Below(s)
    BY <1>3
  <2>2. Cardinality(Below(s) \cup {s}) = Cardinality(Below(s)) + 1
    BY <1>2, <2>1, FS_AddElement
  <2>3. Cardinality(Below(s) \cup {s}) <= Cardinality(Below(t))
    BY <1>2, <2>1, FS_Subset
  <2>4. Cardinality(Below(s)) \in Nat /\ Cardinality(Below(t)) \in Nat
    BY <1>2
  <2> HIDE DEF Below
  <2>5. QED
    BY <2>2, <2>3, <2>4
<1>4. ASSUME NEW s \in S PROVE place[s] \in 1 .. n
  <2>1. Below(s) \in SUBSET (S \ {s})
    OBVIOUS
  <2>2. IsFiniteSet(S \ {s}) /\ Cardinality(S \ {s}) = n - 1
    BY FS_RemoveElement
  <2>3. Cardinality(Below(s)) <= n - 1
    BY <2>1, <2>2, FS_Subset
  <2>4. QED
    BY <1>1, <1>2, <2>3
<1> HIDE DEF n, Below
<1>5. place \in [S -> 1 .. n]
  BY <1>4
<1>6. \A s, t \in S : place[s] < place[t] <=> f[s] < f[t]
  <2> SUFFICES ASSUME NEW s \in S, NEW t \in S PROVE place[s] < place[t] <=> f[s] < f[t]
    OBVIOUS
  <2>1. s = t \/ f[s] < f[t] \/ f[t] < f[s]
    OBVIOUS
  <2>2. Cardinality(Below(s)) \in Nat /\ Cardinality(Below(t)) \in Nat
    BY <1>2
  <2>3. f[s] \in Nat /\ f[t] \in Nat
    OBVIOUS
  <2>4. f[t] < f[s] => Cardinality(Below(t)) < Cardinality(Below(s))
    BY <1>3
  <2>5. f[s] < f[t] => Cardinality(Below(s)) < Cardinality(Below(t))
    BY <1>3
  <2>6. QED
    BY <2>1, <2>2, <2>3, <2>4, <2>5
<1>7. \A s, t \in S : place[s] = place[t] => s = t
  <2> SUFFICES ASSUME NEW s \in S, NEW t \in S, place[s] = place[t], s # t PROVE FALSE
    OBVIOUS
  <2>1. f[s] < f[t] \/ f[t] < f[s]
    OBVIOUS
  <2>2. place[s] < place[t] \/ place[t] < place[s]
    BY <1>6, <2>1
  <2>3. place[s] \in Nat /\ place[t] \in Nat
    BY <1>1, <1>5
  <2> HIDE DEF place
  <2>4. QED
    BY <2>2, <2>3
<1>8. InOrder(S, f) = [i \in 1 .. n |-> CHOOSE s \in S : Cardinality(Below(s)) = i - 1]
  BY DEF InOrder, n, Below
<1>9. InOrder(S, f) = [i \in 1 .. n |-> CHOOSE s \in S : place[s] = i]
  <2>1. \A i \in 1 .. n : \A s \in S : Cardinality(Below(s)) = i - 1 <=> place[s] = i
    BY <1>1, <1>2
  <2>2. \A i \in 1 .. n : (CHOOSE s \in S : Cardinality(Below(s)) = i - 1) =
                         (CHOOSE s \in S : place[s] = i)
    BY <2>1
  <2>3. QED
    BY <1>8, <2>2
<1> HIDE DEF place
<1>10. \A i \in 1 .. n : \E s \in S : place[s] = i
  <2>1. place \in Injection(S, 1 .. n)
    BY <1>5, <1>7 DEF Injection, IsInjective
  <2>2. IsFiniteSet(1 .. n) /\ Cardinality(1 .. n) = n
    BY <1>1, FS_Interval
  <2>3. place \in Surjection(S, 1 .. n)
    BY <2>1, <2>2, FS_Injection DEF n
  <2>4. QED
    BY <2>3 DEF Surjection
<1>11. ASSUME NEW i \in 1 .. n
       PROVE  InOrder(S, f)[i] \in S /\ place[InOrder(S, f)[i]] = i
  BY <1>9, <1>10
<1>12. InOrder(S, f) \in Seq(S) /\ Len(InOrder(S, f)) = n
  BY <1>1, <1>9, <1>11
<1>13. \A i, j \in 1 .. n : i < j => f[InOrder(S, f)[i]] < f[InOrder(S, f)[j]]
  BY <1>6, <1>11
<1>14. QED
  BY <1>12, <1>13 DEF Lists, n

LEMMA ListsUnique ==
  ASSUME NEW S, IsFiniteSet(S), NEW f, \A s \in S : f[s] \in Nat,
         NEW q, Lists(S, f, q), NEW r, Lists(S, f, r)
  PROVE  q = r
<1> DEFINE n == Cardinality(S)
           Agree == {m \in Nat : \A i \in 1 .. n : i <= m => q[i] = r[i]}
<1>1. /\ n \in Nat /\ q \in [1 .. n -> S] /\ r \in [1 .. n -> S]
      /\ \A i, j \in 1 .. n : i < j => f[q[i]] < f[q[j]] /\ f[r[i]] < f[r[j]]
  BY FS_CardinalityType DEF Lists
<1>2. /\ \A i, j \in 1 .. n : q[i] = q[j] \/ r[i] = r[j] => i = j
      /\ \A s \in S : (\E i \in 1 .. n : q[i] = s) /\ (\E i \in 1 .. n : r[i] = s)
  <2>1. Len(q) = n /\ Len(r) = n
    BY DEF Lists
  <2>2. QED
    BY <2>1, ListsHasAll
<1> HIDE DEF n
<1>3. 0 \in Agree
  OBVIOUS
<1>4. ASSUME NEW m \in Nat, m \in Agree PROVE m + 1 \in Agree
  <2> SUFFICES ASSUME m + 1 \in 1 .. n, q[m + 1] # r[m + 1] PROVE FALSE
    BY <1>1, <1>4
  <2> DEFINE k == m + 1
  <2>1. k \in 1 .. n /\ q[k] \in S /\ r[k] \in S /\ q[k] # r[k]
        /\ \A i \in 1 .. n : i < k => q[i] = r[i]
    BY <1>1, <1>4
  <2> HIDE DEF k
  <2>2. PICK i \in 1 .. n : q[i] = r[k]
    BY <1>2, <2>1
  <2>3. PICK j \in 1 .. n : r[j] = q[k]
    BY <1>2, <2>1
  <2>4. i # k /\ j # k
    BY <2>1, <2>2, <2>3
  <2>5. ~(i < k) /\ ~(j < k)
    BY <1>2, <2>1, <2>2, <2>3, <2>4
  <2>6. k < i /\ k < j
    BY <1>1, <2>1, <2>4, <2>5
  <2>7. f[q[k]] < f[r[k]] /\ f[r[k]] < f[q[k]]
    BY <1>1, <2>1, <2>2, <2>3, <2>6
  <2>8. f[q[k]] \in Nat /\ f[r[k]] \in Nat
    BY <2>1
  <2>9. QED
    BY <2>7, <2>8
<1> HIDE DEF Agree
<1>5. n \in Agree
  BY <1>1, <1>3, <1>4, NatSetInduction
<1>6. \A i \in 1 .. n : q[i] = r[i]
  BY <1>1, <1>5 DEF Agree
<1>7. QED
  BY <1>1, <1>6

\* A list without one member lists the others.
LEMMA ListsWithout ==
  ASSUME NEW S, IsFiniteSet(S), NEW f, \A s \in S : f[s] \in Nat,
         NEW q, Lists(S, f, q), NEW i \in 1 .. Len(q)
  PROVE  Lists(S \ {q[i]}, f, SubSeq(q, 1, i - 1) \o SubSeq(q, i + 1, Len(q)))
<1>1. PICK n \in Nat : n = Len(q) /\ n = Cardinality(S)
  BY FS_CardinalityType DEF Lists
<1>2. q \in Seq(S) /\ Len(q) = n /\ i \in 1 .. n /\ i \in Nat \ {0} /\ i <= n
      /\ (\A j \in 1 .. n : q[j] \in S)
      /\ \A j, k \in 1 .. n : j < k => f[q[j]] < f[q[k]]
  BY <1>1 DEF Lists
<1>3. \A j, k \in 1 .. n : q[j] = q[k] => j = k
  <2>1. \A j, k \in 1 .. Len(q) : q[j] = q[k] => j = k
    BY ListsHasAll
  <2>2. QED
    BY <1>1, <2>1
<1> DEFINE R == S \ {q[i]}
           front == SubSeq(q, 1, i - 1)
           back == SubSeq(q, i + 1, n)
           r == front \o back
           At(j) == IF j < i THEN j ELSE j + 1
<1>4. Cardinality(R) = n - 1
  BY <1>1, <1>2, FS_RemoveElement
<1>5. /\ front \in Seq(R) /\ Len(front) = i - 1
      /\ \A j \in 1 .. i - 1 : front[j] = q[j]
  <2>1. \A j \in 1 .. i - 1 : q[j] \in R
    BY <1>2, <1>3
  <2>2. QED
    BY <1>2, <2>1, SubSeqProperties
<1>6. /\ back \in Seq(R) /\ Len(back) = n - i
      /\ \A j \in 1 .. n - i : back[j] = q[j + i]
  <2>1. \A j \in i + 1 .. n : q[j] \in R
    BY <1>2, <1>3
  <2>2. /\ n - (i + 1) + 1 = n - i
        /\ \A j \in 1 .. n - i : i + 1 + j - 1 = j + i
    BY <1>2
  <2>3. /\ Len(back) = n - i
        /\ \A j \in 1 .. n - i : back[j] = q[j + i]
    BY <1>2, <2>2, SubSeqProperties
  <2>4. back \in Seq(R)
    BY <1>2, <2>1, SubSeqProperties
  <2>5. QED
    BY <2>3, <2>4
<1> HIDE DEF R, front, back
<1>7. r \in Seq(R) /\ Len(r) = n - 1 /\ \A j \in 1 .. n - 1 : r[j] = q[At(j)]
  <2>1. r \in Seq(R) /\ Len(r) = Len(front) + Len(back)
    BY <1>5, <1>6, ConcatProperties
  <2>2. ASSUME NEW j \in 1 .. n - 1 PROVE r[j] = q[At(j)]
    <3>1. CASE j < i
      BY <1>2, <1>5, <1>6, <3>1
    <3>2. CASE ~(j < i)
      <4>1. j - (i - 1) \in 1 .. n - i /\ (j - (i - 1)) + i = j + 1
        BY <1>2, <3>2
      <4>2. r[j] = back[j - (i - 1)]
        BY <1>2, <1>5, <1>6, <3>2
      <4>3. QED
        BY <1>6, <3>2, <4>1, <4>2
    <3>3. QED
      BY <3>1, <3>2
  <2>3. Len(r) = n - 1
    BY <1>2, <1>5, <1>6, <2>1
  <2>4. QED
    BY <2>1, <2>2, <2>3
<1> HIDE DEF r
<1>8. ASSUME NEW j \in 1 .. n - 1, NEW k \in 1 .. n - 1, j < k PROVE f[r[j]] < f[r[k]]
  <2>1. At(j) \in 1 .. n /\ At(k) \in 1 .. n /\ At(j) < At(k)
    BY <1>2, <1>8
  <2>2. QED
    BY <1>2, <1>7, <2>1
<1>9. Lists(R, f, r)
  BY <1>4, <1>7, <1>8 DEF Lists
<1>10. QED
  BY <1>1, <1>9 DEF R, r, front, back

\* A new member whose value is above all others goes to the back.
LEMMA ListsWith ==
  ASSUME NEW S, IsFiniteSet(S), NEW f, \A s \in S : f[s] \in Nat,
         NEW q, Lists(S, f, q),
         NEW x, x \notin S, NEW g, \A s \in S : g[s] = f[s] /\ f[s] < g[x]
  PROVE  Lists(S \cup {x}, g, Append(q, x))
<1>1. PICK n \in Nat : n = Len(q) /\ n = Cardinality(S)
  BY FS_CardinalityType DEF Lists
<1>2. q \in Seq(S) /\ Len(q) = n /\ (\A j \in 1 .. n : q[j] \in S)
      /\ \A j, k \in 1 .. n : j < k => f[q[j]] < f[q[k]]
  BY <1>1 DEF Lists
<1> DEFINE R == S \cup {x}
           r == Append(q, x)
<1>3. Cardinality(R) = n + 1
  BY <1>1, FS_AddElement
<1>4. /\ r \in Seq(R) /\ Len(r) = n + 1 /\ r[n + 1] = x /\ \A j \in 1 .. n : r[j] = q[j]
  BY <1>2
<1> HIDE DEF r
<1>5. ASSUME NEW j \in 1 .. n + 1, NEW k \in 1 .. n + 1, j < k PROVE g[r[j]] < g[r[k]]
  <2>1. j \in 1 .. n
    BY <1>5
  <2>2. CASE k = n + 1
    BY <1>2, <1>4, <2>1, <2>2
  <2>3. CASE k \in 1 .. n
    BY <1>2, <1>4, <1>5, <2>1, <2>3
  <2>4. QED
    BY <2>2, <2>3
<1>6. QED
  BY <1>3, <1>4, <1>5 DEF Lists, r

\* Each tracked session's last turn.
LastTicks == [s \in Tracked |-> sessions[s].last_tick]

\* The tracked sessions by recency, as the facts about lists have them.
LEMMA RecencyLists ==
  ASSUME TypeOK, RecencyTotal
  PROVE  /\ IsFiniteSet(Tracked) /\ Cardinality(Tracked) \in Nat
         /\ \A s \in Tracked : LastTicks[s] = sessions[s].last_tick /\ LastTicks[s] \in 1 .. tick
         /\ Lists(Tracked, LastTicks, ByRecency)
         /\ \A q : Lists(Tracked, LastTicks, q) => q = ByRecency
<1>1. IsFiniteSet(Tracked) /\ Cardinality(Tracked) \in Nat
  BY LedgerAssumption, FS_Subset, FS_CardinalityType DEF TypeOK, LedgerAssumption
<1>2. \A s \in Tracked : LastTicks[s] = sessions[s].last_tick /\ LastTicks[s] \in 1 .. tick
  BY DEF LastTicks, RecencyTotal
<1>3. /\ \A s \in Tracked : LastTicks[s] \in Nat
      /\ \A s, t \in Tracked : LastTicks[s] = LastTicks[t] => s = t
  BY <1>2 DEF RecencyTotal, TypeOK
<1>4. ByRecency = InOrder(Tracked, LastTicks)
  BY DEF ByRecency, LastTicks
<1>5. Lists(Tracked, LastTicks, ByRecency)
  BY <1>1, <1>3, <1>4, InOrderLists
<1>6. QED
  BY <1>1, <1>2, <1>3, <1>5, ListsUnique

\* After a turn the session is last in the list; before it come those that are
\* still tracked, as they were.
LEMMA RecordedIsLast ==
  ASSUME TypeOK, RecencyTotal, TypeOK', RecencyTotal',
         NEW id \in Sessions, NEW flags \in Nat, Record(id, flags),
         NEW S \in SUBSET Tracked, id \notin S, Tracked' = S \cup {id},
         NEW q, Lists(S, LastTicks, q)
  PROVE  ByRecency' = Append(q, id)
<1>1. /\ \A s \in Tracked : LastTicks[s] = sessions[s].last_tick /\ LastTicks[s] \in 1 .. tick
      /\ IsFiniteSet(S)
  BY RecencyLists, FS_Subset
<1>2. /\ sessions'[id] = Recorded(id, flags)
      /\ \A s \in Tracked' : s # id => s \in Tracked /\ sessions'[s] = sessions[s]
  BY RecordShape
<1>3. tick \in Nat /\ sessions'[id].last_tick = tick + 1
  BY <1>2 DEF TypeOK, Recorded
<1>4. \A s \in Tracked' : LastTicks'[s] = sessions'[s].last_tick
  BY DEF LastTicks
<1>5. ASSUME NEW s \in S PROVE LastTicks'[s] = LastTicks[s] /\ LastTicks[s] < LastTicks'[id]
  <2>1. s \in Tracked /\ s \in Tracked' /\ id \in Tracked' /\ s # id
    OBVIOUS
  <2>2. LastTicks'[s] = LastTicks[s]
    BY <1>1, <1>2, <1>4, <2>1
  <2>3. LastTicks'[id] = tick + 1 /\ LastTicks[s] \in 1 .. tick
    BY <1>1, <1>3, <1>4, <2>1
  <2>4. QED
    BY <1>3, <2>2, <2>3
<1>6. \A s \in S : LastTicks[s] \in Nat
  BY <1>1, <1>3
<1>7. PICK g : g = LastTicks'
  OBVIOUS
<1>8. Lists(S \cup {id}, g, Append(q, id))
  <2>1. \A s \in S : g[s] = LastTicks[s] /\ LastTicks[s] < g[id]
    BY <1>5, <1>7
  <2>2. PICK f : f = LastTicks
    OBVIOUS
  <2>3. /\ IsFiniteSet(S) /\ (\A s \in S : f[s] \in Nat) /\ Lists(S, f, q)
        /\ \A s \in S : g[s] = f[s] /\ f[s] < g[id]
    BY <1>1, <1>6, <2>1, <2>2
  <2>4. QED
    BY <2>3, ListsWith
<1>9. Lists(Tracked', LastTicks', Append(q, id))
  BY <1>7, <1>8
<1>10. PICK T, r : T = Tracked' /\ r = ByRecency'
  OBVIOUS
<1>11. Lists(T, g, r) /\ Lists(T, g, Append(q, id)) /\ IsFiniteSet(T) /\ \A s \in T : g[s] \in Nat
  <2>1. Tracked' \in SUBSET Sessions /\ IsFiniteSet(Tracked')
    BY LedgerAssumption, FS_Subset DEF TypeOK, LedgerAssumption
  <2>2. /\ \A s \in Tracked' : LastTicks'[s] \in Nat
        /\ \A s, t \in Tracked' : LastTicks'[s] = LastTicks'[t] => s = t
    BY <1>4 DEF RecencyTotal, TypeOK
  <2>3. ByRecency' = InOrder(Tracked', LastTicks')
    BY DEF ByRecency, LastTicks, InOrder
  <2>4. Lists(T, g, InOrder(T, g))
    <3>1. /\ IsFiniteSet(T) /\ \A s \in T : g[s] \in Nat
          /\ \A s, t \in T : g[s] = g[t] => s = t
      BY <1>7, <1>10, <2>1, <2>2
    <3>2. QED
      BY <3>1, InOrderLists
  <2>5. QED
    BY <1>7, <1>9, <1>10, <2>1, <2>2, <2>3, <2>4
<1>12. r = Append(q, id)
  BY <1>11, ListsUnique
<1>13. QED
  BY <1>10, <1>12

\* Ticks implement recency (ledger.rs:110-120): for any number of sessions and any
\* capacity, a turn moves its session to the back of the order, and the session
\* that makes room for a new one is the first of the order.
THEOREM LedgerImplementsLru == Spec => ImplementsLru
<1>1. Init => Recency!Init
  <2> SUFFICES ASSUME Init PROVE ByRecency = <<>>
    BY DEF Recency!Init
  <2>1. Tracked = {}
    BY DEF Init, Tracked
  <2>2. Cardinality(Tracked) = 0
    BY <2>1, FS_EmptySet
  <2>3. QED
    BY <2>2 DEF ByRecency, InOrder
<1>2. ASSUME TypeOK, RecencyTotal, CapacityHolds, TypeOK', RecencyTotal',
             NEW id \in Sessions, NEW flags \in 0 .. MaxFlags, Record(id, flags)
      PROVE  Recency!Turn(id)
  <2>1. flags \in Nat /\ MaxSessions \in Nat
    BY LedgerAssumption DEF LedgerAssumption
  <2>2. /\ IsFiniteSet(Tracked) /\ Cardinality(Tracked) \in Nat
        /\ \A s \in Tracked : LastTicks[s] = sessions[s].last_tick /\ LastTicks[s] \in Nat
        /\ Lists(Tracked, LastTicks, ByRecency)
    BY <1>2, RecencyLists DEF TypeOK
  <2>3. PICK q, n : q = ByRecency /\ n = Cardinality(Tracked)
    OBVIOUS
  <2>4. /\ Lists(Tracked, LastTicks, q) /\ q \in Seq(Tracked) /\ Len(q) = n /\ n \in Nat
        /\ DOMAIN q = 1 .. n /\ \A i \in 1 .. n : q[i] \in Tracked
    BY <2>2, <2>3 DEF Lists
  <2>5. /\ \A i, j \in 1 .. n : q[i] = q[j] => i = j
        /\ \A s \in Tracked : \E i \in 1 .. n : q[i] = s
    <3>1. PICK S, f : S = Tracked /\ f = LastTicks
      OBVIOUS
    <3>2. IsFiniteSet(S) /\ (\A s \in S : f[s] \in Nat) /\ Lists(S, f, q)
      BY <2>2, <2>4, <3>1
    <3>3. /\ \A i, j \in 1 .. Len(q) : q[i] = q[j] => i = j
          /\ \A s \in S : \E i \in 1 .. Len(q) : q[i] = s
      BY <3>2, ListsHasAll
    <3>4. QED
      BY <2>4, <3>1, <3>3
  <2>6. ASSUME NEW i \in 1 .. n
        PROVE  Lists(Tracked \ {q[i]}, LastTicks, Recency!RemoveAt(q, i))
    <3>1. PICK S, f : S = Tracked /\ f = LastTicks
      OBVIOUS
    <3>2. IsFiniteSet(S) /\ (\A s \in S : f[s] \in Nat) /\ Lists(S, f, q) /\ i \in 1 .. Len(q)
      BY <2>2, <2>4, <3>1
    <3>3. Lists(S \ {q[i]}, f, SubSeq(q, 1, i - 1) \o SubSeq(q, i + 1, Len(q)))
      BY <3>2, ListsWithout
    <3>4. QED
      BY <3>1, <3>3 DEF Recency!RemoveAt
  <2>7. PICK evicted \in Evictions(id) : Tracked' = (Tracked \ evicted) \cup {id}
    BY <1>2, <2>1, RecordShape
  <2>8. CASE id \in Tracked
    <3>1. PICK i \in 1 .. n : q[i] = id
      BY <2>5, <2>8
    <3>2. evicted = {}
      BY <2>7, <2>8 DEF Evictions
    <3>3. Tracked' = (Tracked \ {id}) \cup {id}
      BY <2>7, <3>2
    <3>4. ByRecency' = Append(Recency!RemoveAt(q, i), id)
      BY <1>2, <2>1, <2>6, <3>1, <3>3, RecordedIsLast
    <3>5. Recency!Again(id)
      BY <2>3, <2>4, <3>1, <3>4 DEF Recency!Again
    <3>6. QED
      BY <3>5 DEF Recency!Turn
  <2>9. CASE id \notin Tracked /\ evicted = {}
    <3>1. n < (IF MaxSessions = 0 THEN 1 ELSE MaxSessions)
      <4>1. n < MaxSessions \/ Tracked = {}
        BY <2>1, <2>3, <2>4, <2>7, <2>9 DEF Evictions
      <4>2. Tracked = {} => n = 0
        BY <2>3, FS_EmptySet
      <4>3. QED
        BY <2>1, <2>4, <4>1, <4>2
    <3>2. ByRecency' = Append(q, id)
      BY <1>2, <2>1, <2>4, <2>7, <2>9, RecordedIsLast
    <3>3. ~Recency!Contains(q, id)
      BY <2>4, <2>9 DEF Recency!Contains
    <3>4. Recency!Join(id)
      BY <2>3, <2>4, <3>1, <3>2, <3>3 DEF Recency!Join
    <3>5. QED
      BY <3>4 DEF Recency!Turn
  <2>10. CASE id \notin Tracked /\ evicted # {}
    <3>1. PICK o \in LeastRecent : evicted = {o}
      BY <2>7, <2>10, EvictionsAreTracked
    <3>2. o \in Tracked /\ \A s \in Tracked : LastTicks[o] <= LastTicks[s]
      BY <2>2, <3>1 DEF LeastRecent
    <3>3. PICK k \in 1 .. n : q[k] = o
      BY <2>5, <3>2
    <3>4. k = 1 /\ n >= 1
      <4>1. k # 1 => LastTicks[q[1]] < LastTicks[q[k]]
        BY <2>4, <3>3 DEF Lists
      <4>2. LastTicks[q[k]] <= LastTicks[q[1]] /\ LastTicks[q[1]] \in Nat /\ LastTicks[q[k]] \in Nat
        BY <2>2, <2>4, <3>2, <3>3
      <4>3. QED
        BY <3>3, <4>1, <4>2
    <3>5. n = IF MaxSessions = 0 THEN 1 ELSE MaxSessions
      <4>1. n >= MaxSessions
        BY <2>3, <2>7, <2>10 DEF Evictions
      <4>2. n <= IF MaxSessions = 0 THEN 1 ELSE MaxSessions
        BY <1>2, <2>3 DEF CapacityHolds
      <4>3. QED
        BY <2>1, <2>4, <3>4, <4>1, <4>2
    <3>6. Recency!RemoveAt(q, 1) = Tail(q)
      BY <2>4, <3>4, TailIsSubSeq DEF Recency!RemoveAt
    <3>7. Lists(Tracked \ {o}, LastTicks, Tail(q))
      BY <2>6, <3>3, <3>4, <3>6
    <3>8. ByRecency' = Append(Tail(q), id)
      BY <1>2, <2>1, <2>7, <2>10, <3>1, <3>7, RecordedIsLast
    <3>9. ~Recency!Contains(q, id)
      BY <2>4, <2>10 DEF Recency!Contains
    <3>10. Recency!Displace(id)
      BY <2>3, <2>4, <3>5, <3>8, <3>9 DEF Recency!Displace
    <3>11. QED
      BY <3>10 DEF Recency!Turn
  <2>11. QED
    BY <2>8, <2>9, <2>10
<1>3. ASSUME TypeOK, RecencyTotal, CapacityHolds, TypeOK', RecencyTotal'
      PROVE  [\A id \in Sessions :
                (\E flags \in 0 .. MaxFlags : Record(id, flags)) => Recency!Turn(id)]_vars
  BY <1>2, <1>3
<1>4. QED
  BY <1>1, <1>3, LedgerTypeCorrect, LedgerRecencyTotal, LedgerCapacityHolds, PTL
     DEF Spec, ImplementsLru
=============================================================================
