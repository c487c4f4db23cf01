------------------------ MODULE KernelWrapperProofs ------------------------
(***************************************************************************)
(* Theorems about KernelWrapper::execute, for any calls, tools and          *)
(* sessions, any number of calls in flight, and any ledger parameters.      *)
(***************************************************************************)
EXTENDS KernelWrapper, Sums, TLAPS

CallsTypeOK ==
  /\ stage \in [Calls -> {"idle", "outbound", "executing", "inbound", "returned"}]
  /\ session \in [Calls -> Sessions]
  /\ tool \in [Calls -> Tools]
  /\ advisory \in [Calls -> Nat]
  /\ outcome \in [Calls -> {"none", "denied", "refused", "failed", "cancelled",
                            "anomaly", "released"}]
  /\ vetted \in [Calls -> SUBSET {"outbound", "inbound"}]
  /\ ran \in [Calls -> BOOLEAN]

\* Each layer adds at most VetFlags, and no layer is passed twice.
FlagsByStage ==
  \A c \in Calls :
    /\ stage[c] = "idle" => advisory[c] = 0
    /\ stage[c] = "outbound" => advisory[c] <= VetFlags
    /\ stage[c] = "executing" => advisory[c] <= 2 * VetFlags
    /\ stage[c] = "inbound" => advisory[c] <= 3 * VetFlags

\* What a call has behind it at every await.
VettedByStage ==
  \A c \in Calls :
    /\ stage[c] = "outbound" => tool[c] \in EnabledTools
    /\ stage[c] \in {"executing", "inbound"} => ran[c]

IInv == CallsTypeOK /\ FlagsByStage /\ VettedByStage /\ NothingUnvetted

-----------------------------------------------------------------------------
LEMMA InitInv == Init => IInv
<1> SUFFICES ASSUME Init PROVE IInv
  OBVIOUS
<1>1. CallsTypeOK
  BY DEF Init, CallsTypeOK
<1>2. FlagsByStage /\ VettedByStage /\ NothingUnvetted
  BY KernelAssumption DEF KernelAssumption, Init, FlagsByStage, VettedByStage, NothingUnvetted
<1>3. QED
  BY <1>1, <1>2 DEF IInv

\* A call that returns early releases nothing.
LEMMA ReturnInv ==
  ASSUME IInv, NEW c \in Calls,
         NEW o \in {"denied", "refused", "failed", "cancelled"}, Return(c, o)
  PROVE  IInv'
<1> USE DEF Return
<1>1. CallsTypeOK'
  BY DEF IInv, CallsTypeOK
<1>2. FlagsByStage' /\ VettedByStage'
  BY DEF IInv, CallsTypeOK, FlagsByStage, VettedByStage
<1>3. NothingUnvetted'
  BY DEF IInv, CallsTypeOK, NothingUnvetted
<1>4. QED
  BY <1>1, <1>2, <1>3 DEF IInv

LEMMA ChallengeInv ==
  ASSUME IInv, NEW c \in Calls, NEW flags \in Flags, Challenge(c, flags)
  PROVE  IInv'
<1> USE KernelAssumption DEF KernelAssumption, Flags, Challenge, Advance
<1>1. CallsTypeOK'
  BY DEF IInv, CallsTypeOK
<1>2. FlagsByStage' /\ VettedByStage'
  BY DEF IInv, CallsTypeOK, FlagsByStage, VettedByStage
<1>3. NothingUnvetted'
  BY DEF IInv, NothingUnvetted
<1>4. QED
  BY <1>1, <1>2, <1>3 DEF IInv

\* The only step that runs a tool.
LEMMA OutboundPassesInv ==
  ASSUME IInv, NEW c \in Calls, NEW flags \in Flags, OutboundPasses(c, flags)
  PROVE  IInv'
<1> USE KernelAssumption DEF KernelAssumption, Flags, OutboundPasses, Advance
<1>1. CallsTypeOK'
  BY DEF IInv, CallsTypeOK
<1>2. FlagsByStage' /\ VettedByStage'
  BY DEF IInv, CallsTypeOK, FlagsByStage, VettedByStage
<1>3. tool[c] \in EnabledTools
  BY DEF IInv, VettedByStage
<1>4. NothingUnvetted'
  BY <1>3 DEF IInv, CallsTypeOK, NothingUnvetted
<1>5. QED
  BY <1>1, <1>2, <1>4 DEF IInv

LEMMA ResultChallengedInv ==
  ASSUME IInv, NEW c \in Calls, NEW flags \in Flags, ResultChallenged(c, flags)
  PROVE  IInv'
<1> USE KernelAssumption DEF KernelAssumption, Flags, ResultChallenged, Advance
<1>1. CallsTypeOK'
  BY DEF IInv, CallsTypeOK
<1>2. FlagsByStage' /\ VettedByStage'
  BY DEF IInv, CallsTypeOK, FlagsByStage, VettedByStage
<1>3. NothingUnvetted'
  BY DEF IInv, NothingUnvetted
<1>4. QED
  BY <1>1, <1>2, <1>3 DEF IInv

\* The only step that releases a result.
LEMMA DeliverInv ==
  ASSUME IInv, NEW c \in Calls, NEW total \in Nat, NEW blocked \in BOOLEAN,
         Deliver(c, total, blocked)
  PROVE  IInv'
<1> USE DEF Deliver, Advance
<1>1. CallsTypeOK'
  BY DEF IInv, CallsTypeOK
<1>2. FlagsByStage' /\ VettedByStage'
  BY DEF IInv, CallsTypeOK, FlagsByStage, VettedByStage
<1>3. ran[c] /\ "outbound" \in vetted[c]
  BY DEF IInv, VettedByStage, NothingUnvetted
<1>4. NothingUnvetted'
  BY <1>3 DEF IInv, CallsTypeOK, NothingUnvetted
<1>5. QED
  BY <1>1, <1>2, <1>4 DEF IInv

LEMMA InboundPassesInv ==
  ASSUME IInv, NEW c \in Calls, NEW flags \in Flags, InboundPasses(c, flags)
  PROVE  IInv'
<1>1. advisory[c] + flags \in Nat
  BY KernelAssumption DEF KernelAssumption, IInv, CallsTypeOK, Flags
<1>2. Ledger!WouldBlock(session[c], advisory[c] + flags) \in BOOLEAN
  BY DEF Ledger!WouldBlock, Ledger!Blocks
<1>3. QED
  BY <1>1, <1>2, DeliverInv DEF InboundPasses

LEMMA NextInv == IInv /\ [Next]_vars => IInv'
<1> SUFFICES ASSUME IInv, [Next]_vars PROVE IInv'
  OBVIOUS
<1>1. ASSUME NEW c \in Calls,
             \/ Deny(c) \/ ChallengeRefuses(c) \/ GuardRefuses(c)
             \/ ToolFails(c) \/ ResultRefused(c) \/ Cancel(c)
      PROVE  IInv'
  BY <1>1, ReturnInv
  DEF Deny, ChallengeRefuses, GuardRefuses, ToolFails, ResultRefused, Cancel
<1>2. ASSUME NEW c \in Calls, NEW flags \in Flags,
             \/ Challenge(c, flags) \/ OutboundPasses(c, flags)
             \/ ResultChallenged(c, flags) \/ InboundPasses(c, flags)
      PROVE  IInv'
  BY <1>2, ChallengeInv, OutboundPassesInv, ResultChallengedInv, InboundPassesInv
<1>3. CASE UNCHANGED vars
  BY <1>3 DEF vars, callVars, IInv, CallsTypeOK, FlagsByStage, VettedByStage, NothingUnvetted
<1>4. QED
  BY <1>1, <1>2, <1>3 DEF Next

LEMMA Invariance == Spec => []IInv
<1>1. Init => IInv
  BY InitInv
<1>2. IInv /\ [Next]_vars => IInv'
  BY NextInv
<1>3. QED
  BY <1>1, <1>2, PTL DEF Spec

\* Whatever calls overlap, fail or are dropped: a tool runs only if it is enabled
\* and its arguments passed both layers, and a result is released only if it
\* passed both layers as well.
THEOREM KernelReleasesOnlyVetted == Spec => []NothingUnvetted
<1>1. IInv => NothingUnvetted
  BY DEF IInv
<1>2. QED
  BY <1>1, Invariance, PTL

-----------------------------------------------------------------------------
\* A vetted turn carries no more flags than four passes of a layer can raise.
LEMMA TurnRecords ==
  ASSUME IInv, NEW c \in Calls, NEW flags \in Flags, InboundPasses(c, flags)
  PROVE  Ledger!Next
<1>1. advisory[c] + flags \in 0 .. MaxFlags
  BY KernelAssumption
  DEF KernelAssumption, IInv, CallsTypeOK, FlagsByStage, Flags, MaxFlags, InboundPasses, Deliver
<1>2. session[c] \in Sessions
  BY DEF IInv, CallsTypeOK
<1>3. QED
  BY <1>1, <1>2 DEF InboundPasses, Ledger!Next

LEMMA NextRecords == IInv /\ [Next]_vars => [Ledger!Next]_(Ledger!vars)
<1> SUFFICES ASSUME IInv, [Next]_vars PROVE [Ledger!Next]_(Ledger!vars)
  OBVIOUS
<1>1. CASE \E c \in Calls, flags \in Flags : InboundPasses(c, flags)
  BY <1>1, TurnRecords
<1>2. CASE UNCHANGED ledgerVars
  BY <1>2 DEF ledgerVars, Ledger!vars
<1>3. ASSUME NEW c \in Calls,
             \/ Deny(c) \/ ChallengeRefuses(c) \/ GuardRefuses(c)
             \/ ToolFails(c) \/ ResultRefused(c) \/ Cancel(c)
      PROVE  UNCHANGED ledgerVars
  BY <1>3
  DEF Deny, ChallengeRefuses, GuardRefuses, ToolFails, ResultRefused, Cancel, Return
<1>4. ASSUME NEW c \in Calls, NEW flags \in Flags,
             Challenge(c, flags) \/ OutboundPasses(c, flags) \/ ResultChallenged(c, flags)
      PROVE  UNCHANGED ledgerVars
  BY <1>4 DEF Challenge, OutboundPasses, ResultChallenged
<1>5. QED
  BY <1>1, <1>2, <1>3, <1>4 DEF Next, vars

\* The wrapper implements the ledger, so what is proved of every run of the
\* ledger holds of the ledger shared by any number of overlapping calls.
THEOREM KernelImplementsLedger == Spec => ImplementsLedger
<1>1. Init => Ledger!Init
  BY DEF Init
<1>2. IInv /\ [Next]_vars => [Ledger!Next]_(Ledger!vars)
  BY NextRecords
<1>3. QED
  BY <1>1, <1>2, Invariance, PTL DEF Spec, ImplementsLedger, Ledger!Spec

-----------------------------------------------------------------------------
(* What the ledger is charged.                                              *)

\* A call has an outcome once it has returned.
OutcomeByStage == \A c \in Calls : stage[c] # "returned" => outcome[c] = "none"

TurnsOf(s) == {c \in Recorded : session[c] = s}

\* Every vetted turn has been charged once.
Charging ==
  /\ OutcomeByStage
  /\ raised \in [Sessions -> Nat]
  /\ tick = Cardinality(Recorded)
  /\ \A s \in Sessions : raised[s] = Total(advisory, TurnsOf(s))

LEMMA TurnsFinite == IsFiniteSet(Recorded) /\ \A s : IsFiniteSet(TurnsOf(s))
<1>1. Recorded \in SUBSET Calls /\ \A s : TurnsOf(s) \in SUBSET Calls
  BY DEF Recorded, TurnsOf
<1>2. QED
  BY <1>1, FS_Subset, KernelAssumption DEF KernelAssumption

\* A vetted turn is charged to its session in the step that decides it.
LEMMA TurnIsCharged ==
  ASSUME IInv, Charging, NEW c \in Calls, NEW flags \in Flags, InboundPasses(c, flags)
  PROVE  Charging'
<1> DEFINE total == advisory[c] + flags
           id == session[c]
<1>1. /\ stage[c] = "inbound" /\ stage' = [stage EXCEPT ![c] = "returned"]
      /\ \E o \in {"anomaly", "released"} : outcome' = [outcome EXCEPT ![c] = o]
      /\ session' = session /\ advisory' = [advisory EXCEPT ![c] = total]
      /\ tick' = tick + 1 /\ raised' = [raised EXCEPT ![id] = @ + total]
  BY DEF InboundPasses, Deliver, Advance, Ledger!Record
<1>2. total \in Nat /\ id \in Sessions
  BY KernelAssumption DEF KernelAssumption, IInv, CallsTypeOK, Flags
<1> HIDE DEF total, id
<1>3. OutcomeByStage'
  BY <1>1 DEF Charging, OutcomeByStage, IInv, CallsTypeOK
<1>4. raised' \in [Sessions -> Nat]
  BY <1>1, <1>2 DEF Charging
<1>5. Recorded' = Recorded \cup {c} /\ c \notin Recorded
  BY <1>1 DEF Recorded, Charging, OutcomeByStage, IInv, CallsTypeOK
<1>6. tick' = Cardinality(Recorded')
  BY <1>1, <1>5, TurnsFinite, FS_AddElement DEF Charging
<1>7. ASSUME NEW s \in Sessions PROVE raised'[s] = Total(advisory', TurnsOf(s)')
  <2>1. c \notin TurnsOf(s) /\ TurnsOf(s) \subseteq Calls
    BY <1>5 DEF TurnsOf, Recorded
  <2>2. \A d \in TurnsOf(s) : advisory'[d] = advisory[d]
    BY <1>1, <2>1 DEF IInv, CallsTypeOK
  <2>3. Total(advisory', TurnsOf(s)) = Total(advisory, TurnsOf(s))
    BY <2>2, TurnsFinite, TotalSame
  <2>4. CASE s = id
    <3>1. TurnsOf(s)' = TurnsOf(s) \cup {c}
      BY <1>1, <1>5, <2>4 DEF TurnsOf, id
    <3>2. \A d \in TurnsOf(s) \cup {c} : advisory'[d] \in Nat
      BY <1>1, <1>2, <2>1 DEF IInv, CallsTypeOK
    <3>3. advisory'[c] = total
      BY <1>1 DEF IInv, CallsTypeOK
    <3>4. Total(advisory', TurnsOf(s) \cup {c}) = Total(advisory', TurnsOf(s)) + total
      BY <2>1, <3>2, <3>3, TurnsFinite, TotalAdd
    <3>5. raised'[s] = raised[s] + total
      BY <1>1, <2>4 DEF Charging
    <3>6. QED
      BY <2>3, <3>1, <3>4, <3>5 DEF Charging
  <2>5. CASE s # id
    <3>1. TurnsOf(s)' = TurnsOf(s)
      BY <1>1, <1>5, <2>5 DEF TurnsOf, id
    <3>2. raised'[s] = raised[s]
      BY <1>1, <2>5 DEF Charging
    <3>3. QED
      BY <2>3, <3>1, <3>2 DEF Charging
  <2>6. QED
    BY <2>4, <2>5
<1>8. QED
  BY <1>3, <1>4, <1>6, <1>7 DEF Charging

\* What every other step does: it records and releases nothing, and leaves the
\* calls that have returned alone.
Quiet ==
  /\ UNCHANGED ledgerVars /\ session' = session
  /\ \A c \in Calls : stage'[c] # "returned" => outcome'[c] = "none"
  /\ \A c \in Calls : IF outcome[c] = "none"
                      THEN outcome'[c] \notin {"released", "anomaly"}
                      ELSE outcome'[c] = outcome[c] /\ advisory'[c] = advisory[c]

LEMMA OtherStepIsQuiet ==
  ASSUME IInv, OutcomeByStage, [Next]_vars,
         ~ \E c \in Calls, flags \in Flags : InboundPasses(c, flags)
  PROVE  Quiet
<1>1. ASSUME NEW c \in Calls, NEW o \in {"denied", "refused", "failed", "cancelled"},
             stage[c] # "returned", Return(c, o)
      PROVE  Quiet
  <2>1. /\ stage' = [stage EXCEPT ![c] = "returned"] /\ outcome' = [outcome EXCEPT ![c] = o]
        /\ session' = session /\ advisory' = advisory /\ UNCHANGED ledgerVars
    BY <1>1 DEF Return
  <2>2. outcome[c] = "none"
    BY <1>1 DEF OutcomeByStage
  <2>3. QED
    BY <2>1, <2>2 DEF Quiet, OutcomeByStage, IInv, CallsTypeOK
<1>2. ASSUME NEW c \in Calls,
             \/ Deny(c) \/ ChallengeRefuses(c) \/ GuardRefuses(c)
             \/ ToolFails(c) \/ ResultRefused(c) \/ Cancel(c)
      PROVE  Quiet
  BY <1>1, <1>2
  DEF Deny, ChallengeRefuses, GuardRefuses, ToolFails, ResultRefused, Cancel
<1>3. ASSUME NEW c \in Calls, NEW flags \in Flags,
             Challenge(c, flags) \/ OutboundPasses(c, flags) \/ ResultChallenged(c, flags)
      PROVE  Quiet
  <2>1. /\ stage[c] # "returned" /\ outcome' = outcome /\ session' = session
        /\ \E s \in {"outbound", "executing", "inbound"} : stage' = [stage EXCEPT ![c] = s]
        /\ advisory' = [advisory EXCEPT ![c] = @ + flags] /\ UNCHANGED ledgerVars
    BY <1>3 DEF Challenge, OutboundPasses, ResultChallenged, Advance
  <2>2. outcome[c] = "none"
    BY <2>1 DEF OutcomeByStage
  <2>3. QED
    BY <2>1, <2>2 DEF Quiet, OutcomeByStage, IInv, CallsTypeOK
<1>4. CASE UNCHANGED vars
  BY <1>4 DEF vars, callVars, Quiet, OutcomeByStage
<1>5. QED
  BY <1>2, <1>3, <1>4 DEF Next

LEMMA QuietKeepsCharging ==
  ASSUME Charging, Quiet
  PROVE  Charging'
<1>1. raised' = raised /\ tick' = tick /\ session' = session
  BY DEF Quiet, ledgerVars
<1>2. OutcomeByStage'
  BY DEF Quiet, OutcomeByStage
<1>3. Recorded' = Recorded /\ \A c \in Recorded : advisory'[c] = advisory[c]
  BY DEF Quiet, Recorded
<1>4. ASSUME NEW s \in Sessions PROVE raised'[s] = Total(advisory', TurnsOf(s)')
  <2>1. TurnsOf(s)' = TurnsOf(s)
    BY <1>1, <1>3 DEF TurnsOf
  <2>2. Total(advisory', TurnsOf(s)) = Total(advisory, TurnsOf(s))
    BY <1>3, TurnsFinite, TotalSame DEF TurnsOf
  <2>3. QED
    BY <1>1, <2>1, <2>2 DEF Charging
<1>5. QED
  BY <1>1, <1>2, <1>3, <1>4 DEF Charging

LEMMA InitCharging == Init => Charging
<1> SUFFICES ASSUME Init PROVE Charging
  OBVIOUS
<1>1. OutcomeByStage /\ tick = 0 /\ raised = [s \in Sessions |-> 0]
  BY DEF Init, Ledger!Init, OutcomeByStage
<1>2. Recorded = {} /\ \A s : TurnsOf(s) = {}
  BY DEF Init, Recorded, TurnsOf
<1>3. QED
  BY <1>1, <1>2, FS_EmptySet, TotalEmpty DEF Charging

LEMMA NextCharging == IInv /\ Charging /\ [Next]_vars => Charging'
BY TurnIsCharged, OtherStepIsQuiet, QuietKeepsCharging DEF Charging

\* However many calls overlap, fail or are dropped: the ledger is charged every
\* turn that got through both layers exactly once, with all its flags, and it is
\* charged no other turn.
THEOREM KernelChargesOnce == Spec => []ChargedOnce
<1>1. Charging => ChargedOnce
  BY DEF Charging, ChargedOnce, Total, TurnsOf
<1>2. QED
  BY <1>1, InitCharging, NextCharging, Invariance, PTL DEF Spec

-----------------------------------------------------------------------------
(* The slow burn. *)

ReleasedOf(s) == {c \in Calls : session[c] = s /\ outcome[c] = "released"}

\* Nothing fades and nothing is forgotten.
NoRelief == DecayNum = DecayDen /\ Cardinality(Sessions) <= MaxSessions

\* Then the ledger's score of a session carries every flag the session was ever
\* charged, and what was released stayed below the threshold.
Burning ==
  /\ sessions \in [DOMAIN sessions -> [score : Nat, tainted : BOOLEAN, last_tick : Nat]]
  /\ DOMAIN sessions \subseteq Sessions
  /\ tick \in Nat
  /\ \A s \in Sessions \ DOMAIN sessions : raised[s] = 0
  /\ \A s \in DOMAIN sessions : sessions[s].score >= FlagWeight * raised[s]
  /\ \A s \in Sessions : FlagWeight * Total(advisory, ReleasedOf(s)) < Threshold

LEMMA ReleasedFinite ==
  ASSUME CallsTypeOK, NEW s
  PROVE  /\ IsFiniteSet(ReleasedOf(s)) /\ ReleasedOf(s) \subseteq TurnsOf(s)
         /\ Total(advisory, ReleasedOf(s)) \in Nat
         /\ Total(advisory, ReleasedOf(s)) <= Total(advisory, TurnsOf(s))
<1>1. ReleasedOf(s) \in SUBSET TurnsOf(s) /\ TurnsOf(s) \in SUBSET Calls
  BY DEF ReleasedOf, TurnsOf, Recorded
<1>2. IsFiniteSet(ReleasedOf(s)) /\ IsFiniteSet(TurnsOf(s))
  BY <1>1, TurnsFinite, FS_Subset
<1>3. \A c \in TurnsOf(s) : advisory[c] \in Nat
  BY <1>1 DEF CallsTypeOK
<1>4. \A c \in ReleasedOf(s) : advisory[c] \in Nat
  BY <1>1, <1>3
<1>5. QED
  BY <1>1, <1>2, <1>3, <1>4, TotalType, TotalMonotone

\* With a decay factor of one, decay changes nothing.
LEMMA NoDecay ==
  ASSUME DecayNum = DecayDen, NEW score \in Nat
  PROVE  Ledger!Decay(score) = score
<1>1. DecayNum \in Nat \ {0}
  BY LedgerParameters DEF Ledger!ScoringAssumption
<1>2. ASSUME NEW n \in Nat \ {0} PROVE (score * n) \div n = score
  OBVIOUS
<1>3. QED
  BY <1>1, <1>2 DEF Ledger!Decay

\* So the score after a turn carries the turn's flags on top of all before it.
LEMMA ScoreCarriesTurn ==
  ASSUME NoRelief, Charging, Burning, NEW id \in Sessions, NEW flags \in Nat
  PROVE  /\ Ledger!Recorded(id, flags) \in [score : Nat, tainted : BOOLEAN, last_tick : Nat]
         /\ Ledger!Recorded(id, flags).score >= FlagWeight * (raised[id] + flags)
<1>1. /\ Floor \in Nat /\ FlagWeight \in Nat /\ raised[id] \in Nat
  BY LedgerParameters DEF Ledger!ScoringAssumption, Charging
<1>2. /\ Ledger!Entry(id) \in [score : Nat, tainted : BOOLEAN, last_tick : Nat]
      /\ Ledger!Entry(id).score >= FlagWeight * raised[id]
  BY <1>1 DEF Ledger!Entry, Ledger!Tracked, Burning
<1> DEFINE old == Ledger!Entry(id).score
           tainted == Ledger!Entry(id).tainted
<1>3. old \in Nat /\ tainted \in BOOLEAN /\ old >= FlagWeight * raised[id]
  BY <1>2
<1> HIDE DEF old, tainted
<1>4. Ledger!Faded(old, tainted) \in Nat /\ Ledger!Faded(old, tainted) >= old
  BY <1>1, <1>3, NoDecay DEF Ledger!Faded, NoRelief
<1>5. /\ flags * FlagWeight \in Nat /\ FlagWeight * raised[id] \in Nat
      /\ FlagWeight * (raised[id] + flags) = FlagWeight * raised[id] + flags * FlagWeight
  BY <1>1
<1>6. /\ Ledger!Scored(old, tainted, flags) \in Nat
      /\ Ledger!Scored(old, tainted, flags) >= FlagWeight * (raised[id] + flags)
  BY <1>3, <1>4, <1>5 DEF Ledger!Scored
<1>7. tick + 1 \in Nat
  BY DEF Burning
<1>8. QED
  BY <1>3, <1>6, <1>7 DEF Ledger!Recorded, old, tainted

\* The ledger counts and bounds with the same operators.
LEMMA SameSizes ==
  \A S : Ledger!Cardinality(S) = Cardinality(S) /\ (Ledger!IsFiniteSet(S) <=> IsFiniteSet(S))
BY DEF Ledger!Cardinality, Cardinality, Ledger!IsFiniteSet, IsFiniteSet

\* While there is room for every session, none is evicted.
LEMMA NoEviction ==
  ASSUME NoRelief, Burning, NEW id \in Sessions
  PROVE  Ledger!Evictions(id) = {{}}
<1> SUFFICES ASSUME id \notin DOMAIN sessions, Cardinality(DOMAIN sessions) >= MaxSessions
             PROVE  FALSE
  BY SameSizes DEF Ledger!Evictions, Ledger!Tracked
<1>1. IsFiniteSet(Sessions) /\ MaxSessions \in Nat
  BY LedgerParameters, SameSizes DEF Ledger!LedgerAssumption
<1>2. DOMAIN sessions \in SUBSET Sessions
  BY DEF Burning
<1>3. /\ IsFiniteSet(DOMAIN sessions)
      /\ Cardinality(DOMAIN sessions) <= Cardinality(Sessions)
      /\ Cardinality(Sessions) = Cardinality(DOMAIN sessions) => Sessions = DOMAIN sessions
  BY <1>1, <1>2, FS_Subset
<1>4. Cardinality(Sessions) \in Nat /\ Cardinality(DOMAIN sessions) \in Nat
  BY <1>1, <1>3, FS_CardinalityType
<1>5. QED
  BY <1>1, <1>3, <1>4 DEF NoRelief

\* What a turn makes of the ledger.
LEMMA TurnBurns ==
  ASSUME NoRelief, Charging, Burning, NEW id \in Sessions, NEW flags \in Nat,
         Ledger!Record(id, flags)
  PROVE  /\ sessions' \in [DOMAIN sessions' -> [score : Nat, tainted : BOOLEAN, last_tick : Nat]]
         /\ DOMAIN sessions' = DOMAIN sessions \cup {id}
         /\ tick' \in Nat
         /\ raised'[id] = raised[id] + flags
         /\ \A s \in Sessions : s # id => raised'[s] = raised[s]
         /\ \A s \in Sessions \ DOMAIN sessions' : raised'[s] = 0
         /\ \A s \in DOMAIN sessions' : sessions'[s].score >= FlagWeight * raised'[s]
<1>1. sessions' = [s \in DOMAIN sessions \cup {id} |->
                     IF s = id THEN Ledger!Recorded(id, flags) ELSE sessions[s]]
  BY NoEviction DEF Ledger!Record, Ledger!Tracked
<1>2. /\ raised' = [raised EXCEPT ![id] = @ + flags] /\ tick' = tick + 1
  BY DEF Ledger!Record
<1>3. /\ raised'[id] = raised[id] + flags
      /\ \A s \in Sessions : s # id => raised'[s] = raised[s]
  BY <1>2 DEF Charging
<1>4. /\ Ledger!Recorded(id, flags) \in [score : Nat, tainted : BOOLEAN, last_tick : Nat]
      /\ Ledger!Recorded(id, flags).score >= FlagWeight * raised'[id]
  BY <1>3, ScoreCarriesTurn
<1> DEFINE entry == Ledger!Recorded(id, flags)
<1> HIDE DEF entry
<1>5. DOMAIN sessions' = DOMAIN sessions \cup {id} /\ tick' \in Nat
  BY <1>1, <1>2 DEF Burning
<1>6. \A s \in DOMAIN sessions' :
        sessions'[s] \in [score : Nat, tainted : BOOLEAN, last_tick : Nat]
  BY <1>1, <1>4 DEF Burning
<1>7. sessions' \in [DOMAIN sessions' -> [score : Nat, tainted : BOOLEAN, last_tick : Nat]]
  BY <1>1, <1>6
<1>8. \A s \in DOMAIN sessions' : sessions'[s].score >= FlagWeight * raised'[s]
  BY <1>1, <1>3, <1>4 DEF Burning
<1>9. \A s \in Sessions \ DOMAIN sessions' : raised'[s] = 0
  BY <1>3, <1>5 DEF Burning
<1>10. QED
  BY <1>2, <1>3, <1>5, <1>7, <1>8, <1>9

\* A result is released only if everything the session was ever charged, this
\* turn included, weighs less than the threshold.
LEMMA TurnKeepsBurning ==
  ASSUME NoRelief, IInv, IInv', Charging, Charging', Burning,
         NEW c \in Calls, NEW flags \in Flags, InboundPasses(c, flags)
  PROVE  Burning'
<1> DEFINE total == advisory[c] + flags
           id == session[c]
<1>1. /\ outcome' = [outcome EXCEPT ![c] =
                       IF Ledger!WouldBlock(id, total) THEN "anomaly" ELSE "released"]
      /\ session' = session /\ advisory' = [advisory EXCEPT ![c] = total]
      /\ Ledger!Record(id, total) /\ stage[c] = "inbound"
  BY DEF InboundPasses, Deliver
<1>2. total \in Nat /\ id \in Sessions
  BY KernelAssumption DEF KernelAssumption, IInv, CallsTypeOK, Flags
<1> HIDE DEF total
<1>3. /\ sessions' \in [DOMAIN sessions' -> [score : Nat, tainted : BOOLEAN, last_tick : Nat]]
      /\ DOMAIN sessions' = DOMAIN sessions \cup {id}
      /\ tick' \in Nat
      /\ raised'[id] = raised[id] + total
      /\ \A s \in Sessions \ DOMAIN sessions' : raised'[s] = 0
      /\ \A s \in DOMAIN sessions' : sessions'[s].score >= FlagWeight * raised'[s]
  BY <1>1, <1>2, TurnBurns
<1>4. FlagWeight \in Nat /\ Threshold \in Nat
  BY LedgerParameters DEF Ledger!ScoringAssumption
<1>5. outcome[c] = "none"
  BY <1>1 DEF Charging, OutcomeByStage
<1>6. ASSUME NEW s \in Sessions
      PROVE  FlagWeight * Total(advisory', ReleasedOf(s)') < Threshold
  <2>1. CASE s = id /\ ~Ledger!WouldBlock(id, total)
    <3>1. Ledger!Recorded(id, total).score < Threshold
      BY <1>2, <1>4, <2>1, ScoreCarriesTurn DEF Ledger!WouldBlock, Ledger!Blocks
    <3>2. FlagWeight * raised'[id] < Threshold
      <4>1. /\ Ledger!Recorded(id, total).score >= FlagWeight * (raised[id] + total)
            /\ Ledger!Recorded(id, total).score \in Nat
        BY <1>2, ScoreCarriesTurn
      <4>2. raised[id] + total \in Nat
        BY <1>2 DEF Charging
      <4>3. FlagWeight * (raised[id] + total) \in Nat
        BY <1>4, <4>2
      <4>4. QED
        BY <1>3, <1>4, <3>1, <4>1, <4>3
    <3>3. /\ raised'[id] = Total(advisory', TurnsOf(s)')
          /\ raised'[id] \in Nat
      BY <1>2, <2>1 DEF Charging
    <3>4. /\ Total(advisory', ReleasedOf(s)') \in Nat
          /\ Total(advisory', ReleasedOf(s)') <= raised'[id]
      <4>1. ReleasedOf(s)' \in SUBSET TurnsOf(s)' /\ TurnsOf(s)' \in SUBSET Calls
        BY DEF ReleasedOf, TurnsOf, Recorded
      <4>2. IsFiniteSet(ReleasedOf(s)') /\ IsFiniteSet(TurnsOf(s)')
        BY <4>1, KernelAssumption, FS_Subset DEF KernelAssumption
      <4>3. \A d \in TurnsOf(s)' : advisory'[d] \in Nat
        BY <4>1 DEF IInv, CallsTypeOK
      <4>4. \A d \in ReleasedOf(s)' : advisory'[d] \in Nat
        BY <4>1, <4>3
      <4>5. QED
        BY <3>3, <4>1, <4>2, <4>3, <4>4, TotalType, TotalMonotone
    <3>5. FlagWeight * Total(advisory', ReleasedOf(s)') <= FlagWeight * raised'[id]
      BY <1>4, <3>3, <3>4
    <3>6. QED
      BY <1>4, <3>2, <3>3, <3>4, <3>5
  <2>2. CASE s # id \/ Ledger!WouldBlock(id, total)
    <3>1. ReleasedOf(s)' = ReleasedOf(s) /\ c \notin ReleasedOf(s)
      BY <1>1, <1>5, <2>2 DEF ReleasedOf, IInv, CallsTypeOK
    <3>2. \A d \in ReleasedOf(s) : advisory'[d] = advisory[d]
      BY <1>1, <3>1 DEF ReleasedOf, IInv, CallsTypeOK
    <3>3. Total(advisory', ReleasedOf(s)) = Total(advisory, ReleasedOf(s))
      BY <3>2, ReleasedFinite, TotalSame DEF IInv
    <3>4. QED
      BY <3>1, <3>3 DEF Burning
  <2>3. QED
    BY <2>1, <2>2
<1>7. QED
  BY <1>2, <1>3, <1>6 DEF Burning

LEMMA QuietKeepsBurning ==
  ASSUME IInv, Burning, Quiet
  PROVE  Burning'
<1>1. raised' = raised /\ tick' = tick /\ sessions' = sessions /\ session' = session
  BY DEF Quiet, ledgerVars
<1>2. ASSUME NEW s \in Sessions
      PROVE  FlagWeight * Total(advisory', ReleasedOf(s)') < Threshold
  <2>1. ReleasedOf(s)' = ReleasedOf(s) /\ \A c \in ReleasedOf(s) : advisory'[c] = advisory[c]
    BY <1>1 DEF Quiet, ReleasedOf
  <2>2. Total(advisory', ReleasedOf(s)) = Total(advisory, ReleasedOf(s))
    BY <2>1, ReleasedFinite, TotalSame DEF IInv
  <2>3. QED
    BY <2>1, <2>2 DEF Burning
<1>3. QED
  BY <1>1, <1>2 DEF Burning

LEMMA InitBurning == Init => Burning
<1> SUFFICES ASSUME Init PROVE Burning
  OBVIOUS
<1>1. /\ sessions = [s \in {} |-> 0] /\ tick = 0 /\ raised = [s \in Sessions |-> 0]
  BY DEF Init, Ledger!Init
<1>2. \A s : ReleasedOf(s) = {}
  BY DEF Init, ReleasedOf
<1>3. Threshold > 0 /\ FlagWeight * 0 = 0
  BY LedgerParameters DEF Ledger!ScoringAssumption
<1>4. QED
  BY <1>1, <1>2, <1>3, TotalEmpty DEF Burning

LEMMA NextBurning ==
  NoRelief /\ IInv /\ Charging /\ Burning /\ [Next]_vars => Burning'
<1> SUFFICES ASSUME NoRelief, IInv, Charging, Burning, [Next]_vars PROVE Burning'
  OBVIOUS
<1>1. IInv' /\ Charging'
  BY NextInv, NextCharging
<1>2. CASE \E c \in Calls, flags \in Flags : InboundPasses(c, flags)
  BY <1>1, <1>2, TurnKeepsBurning
<1>3. CASE ~ \E c \in Calls, flags \in Flags : InboundPasses(c, flags)
  BY <1>3, OtherStepIsQuiet, QuietKeepsBurning DEF Charging
<1>4. QED
  BY <1>2, <1>3

\* Without decay and without eviction, whatever the number of calls in flight: a
\* session is never given results that carry, taken together, as many flags as
\* the threshold weighs.
THEOREM KernelBoundsSlowBurn == Spec => []SlowBurnBounded
<1>1. CASE NoRelief
  <2>1. Init => Burning
    BY InitBurning
  <2>2. IInv /\ Charging /\ Burning /\ [Next]_vars => Burning'
    BY <1>1, NextBurning
  <2>3. Burning => SlowBurnBounded
    BY DEF Burning, SlowBurnBounded, Total, ReleasedOf
  <2>4. QED
    BY <2>1, <2>2, <2>3, InitCharging, NextCharging, Invariance, PTL DEF Spec
<1>2. CASE ~NoRelief
  <2>1. SlowBurnBounded
    BY <1>2 DEF NoRelief, SlowBurnBounded
  <2>2. QED
    BY <2>1, PTL
<1>3. QED
  BY <1>1, <1>2
=============================================================================
