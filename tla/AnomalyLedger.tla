--------------------------- MODULE AnomalyLedger ---------------------------
(***************************************************************************)
(* AnomalyLedger of ctp-kernel/src/ledger.rs: a bounded map from sessions  *)
(* to scores behind one mutex.  `record` is its only operation; it holds   *)
(* the lock from its first line to its last, so it is one action.          *)
(***************************************************************************)
EXTENDS Scoring, FiniteSets

CONSTANTS
  Sessions,     \* the session ids that ever call
  MaxSessions,  \* max_sessions; validation lets 0 through
  MaxFlags,     \* bound: advisory flags one turn may raise
  MaxTick       \* bound: turns recorded

ASSUME LedgerAssumption ==
  /\ IsFiniteSet(Sessions)
  /\ MaxSessions \in Nat
  /\ MaxFlags \in Nat
  /\ MaxTick \in Nat

VARIABLES
  sessions,  \* Inner.sessions: SessionState of every tracked session
  tick,      \* Inner.tick
  raised     \* history: advisory flags each session ever raised

vars == <<sessions, tick, raised>>

SessionState == [score : Nat, tainted : BOOLEAN, last_tick : Nat]

Tracked == DOMAIN sessions

Init ==
  /\ sessions = [s \in {} |-> 0]
  /\ tick = 0
  /\ raised = [s \in Sessions |-> 0]

\* min_by_key over a HashMap: any entry that attains the least last_tick.
LeastRecent ==
  {o \in Tracked : \A s \in Tracked :
     sessions[o].last_tick <= sessions[s].last_tick}

\* Mutation of Evictions: nobody asks whether the session is new.
Evictions_EvenTracked(id) ==
  IF Cardinality(Tracked) >= MaxSessions /\ Tracked # {}
  THEN {{o} : o \in LeastRecent}
  ELSE {{}}

\* What is removed before `id` is looked up: one least recent entry if `id`
\* is new and the map is full, otherwise nothing.
Evictions(id) ==
  IF id \notin Tracked /\ Cardinality(Tracked) >= MaxSessions /\ Tracked # {}
  THEN {{o} : o \in LeastRecent}
  ELSE {{}}

\* Mutation of Entry: a new session is given the evicted one's entry as it was.
Entry_OfEvicted(id) ==
  CASE id \in Tracked -> sessions[id]
    [] Evictions(id) # {{}} -> sessions[CHOOSE o \in LeastRecent : TRUE]
    [] OTHER -> [score |-> 0, tainted |-> FALSE, last_tick |-> tick + 1]

\* The entry found for `id`, or the one or_insert creates.
Entry(id) ==
  IF id \in Tracked
  THEN sessions[id]
  ELSE [score |-> 0, tainted |-> FALSE, last_tick |-> tick + 1]

\* Mutation of Recorded: the last line of the update, last_tick, is missing.
Recorded_StaleTick(id, flags) ==
  [score     |-> Scored(Entry(id).score, Entry(id).tainted, flags),
   tainted   |-> Entry(id).tainted \/ flags > 0,
   last_tick |-> Entry(id).last_tick]

\* The entry of `id` after this turn.
Recorded(id, flags) ==
  [score     |-> Scored(Entry(id).score, Entry(id).tainted, flags),
   tainted   |-> Entry(id).tainted \/ flags > 0,
   last_tick |-> tick + 1]

\* Mutation of Record: the decay of a turn is applied to every session.
Record_DecaysAll(id, flags) ==
  /\ tick < MaxTick
  /\ tick' = tick + 1
  /\ \E evicted \in Evictions(id) :
       sessions' = [s \in (Tracked \ evicted) \cup {id} |->
                      IF s = id
                      THEN Recorded(id, flags)
                      ELSE [sessions[s] EXCEPT !.score = Faded(@, sessions[s].tainted)]]
  /\ raised' = [raised EXCEPT ![id] = @ + flags]

\* AnomalyLedger::record.
Record(id, flags) ==
  /\ tick < MaxTick
  /\ tick' = tick + 1
  /\ \E evicted \in Evictions(id) :
       sessions' = [s \in (Tracked \ evicted) \cup {id} |->
                      IF s = id THEN Recorded(id, flags) ELSE sessions[s]]
  /\ raised' = [raised EXCEPT ![id] = @ + flags]

\* LedgerOutcome.blocked of recording this turn now.
WouldBlock(id, flags) == Blocks(Recorded(id, flags).score)

Next == \E id \in Sessions, flags \in 0 .. MaxFlags : Record(id, flags)

Spec == Init /\ [][Next]_vars

\* What a session sees of the ledger: untracked, it answers as a fresh one.
ScoreOf(s) == IF s \in Tracked THEN sessions[s].score ELSE 0
TaintOf(s) == IF s \in Tracked THEN sessions[s].tainted ELSE FALSE

EntryOf(s) == INSTANCE LedgerEntry
  WITH score <- ScoreOf(s), tainted <- TaintOf(s)

\* The members of S by their values under f, least first.
InOrder(S, f) ==
  [i \in 1 .. Cardinality(S) |->
     CHOOSE s \in S : Cardinality({t \in S : f[t] < f[s]}) = i - 1]

\* The tracked sessions, the one that has gone longest without a turn first.
ByRecency == InOrder(Tracked, [s \in Tracked |-> sessions[s].last_tick])

Recency == INSTANCE LruOrder
  WITH order <- ByRecency,
       Capacity <- (IF MaxSessions = 0 THEN 1 ELSE MaxSessions)

-----------------------------------------------------------------------------
TypeOK ==
  /\ Tracked \subseteq Sessions
  /\ sessions \in [Tracked -> SessionState]
  /\ tick \in Nat
  /\ raised \in [Sessions -> Nat]

\* Ticks order the tracked sessions totally, so the entry `record` evicts does
\* not depend on the iteration order of the HashMap.
RecencyTotal ==
  /\ \A s \in Tracked : sessions[s].last_tick \in 1 .. tick
  /\ \A s, t \in Tracked : sessions[s].last_tick = sessions[t].last_tick => s = t

\* However many sessions call, the map never outgrows max_sessions; with
\* max_sessions = 0 it still holds the one session being recorded.
CapacityHolds ==
  Cardinality(Tracked) <= (IF MaxSessions = 0 THEN 1 ELSE MaxSessions)

\* A session that never raised a flag carries no suspicion at all, whatever
\* others did and whatever entries were evicted around it: the floor arms only
\* after a first flag (`if state.tainted`).
BenignNeverPenalised ==
  \A s \in Tracked :
    raised[s] = 0 => sessions[s].score = 0 /\ ~sessions[s].tainted

\* No suspicion without evidence: a score never exceeds the flags the session
\* raised, plus the floor its decay may have been lifted to.
SuspicionNeedsEvidence ==
  \A s \in Tracked : sessions[s].score <= Floor + raised[s] * FlagWeight

\* The anti-self-bypass: while it is tracked, a tainted session stays tainted
\* and every further turn leaves its score at or above the floor.
FloorHolds ==
  [][\A s \in Tracked \cap DOMAIN sessions' :
       sessions[s].tainted =>
         /\ sessions'[s].tainted
         /\ \/ sessions'[s] = sessions[s]
            \/ sessions'[s].score >= Floor]_vars

\* Suspicion is not lost cheaply: the ledger forgets a session only when
\* max_sessions others have all taken a turn since its last one.  That is what a
\* flood of sessions, anonymous ones included, has to pay (ledger.rs:110-120).
ForgettingCostsAFlood ==
  [][\A s \in Tracked \ DOMAIN sessions' :
       Cardinality({o \in DOMAIN sessions' : sessions'[o].last_tick > sessions[s].last_tick})
         >= MaxSessions]_vars

\* Sessions are isolated: each one sees the ledger as if it had an entry of its
\* own.  A step is a turn of the session, with the flags it raised, or leaves
\* its entry alone, or evicts it; it is never anything in between.
ImplementsEntries ==
  /\ \A s \in Sessions : EntryOf(s)!Init
  /\ [][\A s \in Sessions :
          IF s \in DOMAIN sessions' /\ sessions'[s].last_tick = tick'
          THEN EntryOf(s)!Turn(raised'[s] - raised[s])
          ELSE \/ UNCHANGED <<ScoreOf(s), TaintOf(s)>>
               \/ s \notin DOMAIN sessions' /\ EntryOf(s)!Forgotten]_vars

\* Ticks implement recency: recording a turn of a session moves that session to
\* the back, and what `record` evicts is the one that has gone longest without a
\* turn, one at a time and only when a new session needs room.
ImplementsLru ==
  /\ Recency!Init
  /\ [][\A id \in Sessions :
          (\E flags \in 0 .. MaxFlags : Record(id, flags)) => Recency!Turn(id)]_vars

\* ledger.rs:54 says of `tainted`: "Whether this session has ever raised an
\* anomaly".  Eviction drops the entry, and with it the taint.
TaintedIffEverRaised ==
  \A s \in Tracked : sessions[s].tainted <=> raised[s] > 0

\* ledger.rs:35 says of `max_sessions`: "Upper bound on tracked sessions".
TrackedWithinBound == Cardinality(Tracked) <= MaxSessions
=============================================================================
