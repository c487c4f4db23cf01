------------------------------ MODULE Gateway ------------------------------
(***************************************************************************)
(* The gRPC surface: GrpcGateway::evaluate of ctp-orchestrator/src/grpc.rs, *)
(* Orchestrator::evaluate of pipeline.rs and the counter it keeps, for any  *)
(* number of requests in flight at once, over one AnomalyLedger that a      *)
(* restart of the process empties.                                          *)
(*                                                                          *)
(* The only await of a request is the guard.  A request takes three steps:  *)
(* up to the guard's call; from the guard's answer to the decision, with    *)
(* the turn recorded under the ledger's mutex; and the decision counted and *)
(* returned.  Other threads may run between any two of them.                *)
(* Unlike KernelWrapper, a request is one direction and runs no tool: every *)
(* request that passes both layers is a turn of its own.                    *)
(*                                                                          *)
(* Every response carries the session id it ran under, a new one included,  *)
(* and any client may send it with a later request.                         *)
(***************************************************************************)
EXTENDS Integers, FiniteSets, FiniteSetsExt

CONSTANTS
  DecayNum, DecayDen, Floor, FlagWeight, Threshold,  \* of the ledger
  MaxSessions, MaxTick,
  Named,       \* session ids that clients make up
  Fresh,       \* what Uuid::new_v4 may return
  None,        \* no session id in the request, or one that does not parse
  Requests,    \* each made at most once
  VetFlags,    \* bound: advisory flags of one layer
  MaxRestarts  \* bound: restarts of the process

Sessions == Named \cup Fresh
MaxFlags == 2 * VetFlags

ASSUME GatewayAssumption ==
  /\ IsFiniteSet(Requests)
  /\ Named \cap Fresh = {} /\ None \notin Sessions
  /\ VetFlags \in Nat /\ MaxRestarts \in Nat

VARIABLES
  sessions, tick, raised,  \* the AnomalyLedger
  asked,     \* session id the request came with, or None
  valid,     \* its direction is Inbound or Outbound
  stage,     \* idle, guard, decided, returned
  session,   \* the session id it runs under, None before it is resolved
  advisory,  \* flags so far
  verdict,   \* what the pipeline decided
  reply,     \* history: the response its client was sent, lost if it never will be
  counted,   \* ctp_decisions_total, by verdict
  arrived,   \* history: requests the running process took in
  restarts

ledgerVars == <<sessions, tick, raised>>
requestVars == <<asked, valid, stage, session, advisory, verdict, reply, arrived>>
vars == <<ledgerVars, requestVars, counted, restarts>>

Ledger == INSTANCE AnomalyLedger

\* The ledger is built from a KernelConfig that passed validate().
ASSUME LedgerParameters == Ledger!ScoringAssumption

Flags == 0 .. VetFlags

NothingCounted == [pass |-> 0, block |-> 0]

Init ==
  /\ Ledger!Init
  /\ asked = [r \in Requests |-> None]
  /\ valid \in [Requests -> BOOLEAN]
  /\ stage = [r \in Requests |-> "idle"]
  /\ session = [r \in Requests |-> None]
  /\ advisory = [r \in Requests |-> 0]
  /\ verdict = [r \in Requests |-> "none"]
  /\ reply = [r \in Requests |-> "none"]
  /\ counted = NothingCounted
  /\ arrived = {}
  /\ restarts = 0

-----------------------------------------------------------------------------
\* The session ids that responses have carried to clients.
Told == {session[q] : q \in {p \in Requests : reply[p] \notin {"none", "lost"}}}

\* What a request may come with: no usable session id, one its client made up, or
\* one that some client was told.  Nobody guesses a Uuid.
Sendable == {None} \cup Named \cup Told

\* Mutation of SessionIds: requests without a session id share one.
SessionIds_Shared(id) == IF id = None THEN {CHOOSE s \in Fresh : TRUE} ELSE {id}

\* The session ids a request may run under: the one it sent, or a new one.
SessionIds(id) ==
  IF id = None
  THEN Fresh \ {session[q] : q \in Requests}
  ELSE {id}

\* The request comes in and its session id is resolved.
Resolve(r) ==
  /\ stage[r] = "idle"
  /\ \E id \in Sendable : \E s \in SessionIds(id) :
       /\ asked' = [asked EXCEPT ![r] = id]
       /\ session' = [session EXCEPT ![r] = s]
  /\ arrived' = arrived \cup {r}
  /\ UNCHANGED <<valid, counted, restarts>>

\* The handler comes to a decision, which it has still to count and to return.
Decided(r, o) ==
  /\ stage' = [stage EXCEPT ![r] = "decided"]
  /\ verdict' = [verdict EXCEPT ![r] = o]

\* The request is over for its client.
Answer(r, o) ==
  /\ stage' = [stage EXCEPT ![r] = "returned"]
  /\ reply' = [reply EXCEPT ![r] = o]

\* An unspecified or unknown direction is refused before the pipeline: nothing
\* is recorded, nothing is counted.
Reject(r) ==
  /\ Resolve(r)
  /\ ~valid[r]
  /\ Answer(r, "boundary")
  /\ UNCHANGED <<advisory, verdict, ledgerVars>>

\* The challenge layer refuses the payload.
ChallengeRefuses(r) ==
  /\ Resolve(r)
  /\ valid[r]
  /\ Decided(r, "block")
  /\ UNCHANGED <<advisory, reply, ledgerVars>>

\* The challenge layer passes it; the guard is awaited.
Challenge(r, flags) ==
  /\ Resolve(r)
  /\ valid[r]
  /\ stage' = [stage EXCEPT ![r] = "guard"]
  /\ advisory' = [advisory EXCEPT ![r] = flags]
  /\ UNCHANGED <<verdict, reply, ledgerVars>>

\* The guard blocks, times out or is gone.
GuardRefuses(r) ==
  /\ stage[r] = "guard"
  /\ Decided(r, "block")
  /\ UNCHANGED <<asked, valid, session, advisory, reply, counted, arrived, restarts, ledgerVars>>

\* Mutation of GuardPasses: a blocked turn leaves the ledger as it was.
GuardPasses_DropsBlocked(r, flags) ==
  LET total == advisory[r] + flags
      o == IF Ledger!WouldBlock(session[r], total) THEN "anomaly" ELSE "pass"
  IN /\ stage[r] = "guard"
     /\ IF o = "pass" THEN Ledger!Record(session[r], total) ELSE UNCHANGED ledgerVars
     /\ Decided(r, o)
     /\ advisory' = [advisory EXCEPT ![r] = total]
     /\ UNCHANGED <<asked, valid, session, reply, counted, arrived, restarts>>

\* The guard passes it; the turn is recorded and the ledger's answer decides.
GuardPasses(r, flags) ==
  LET total == advisory[r] + flags
      o == IF Ledger!WouldBlock(session[r], total) THEN "anomaly" ELSE "pass"
  IN /\ stage[r] = "guard"
     /\ Ledger!Record(session[r], total)
     /\ Decided(r, o)
     /\ advisory' = [advisory EXCEPT ![r] = total]
     /\ UNCHANGED <<asked, valid, session, reply, counted, arrived, restarts>>

\* Mutation of Count: the block of the ledger returns without it.
Count_NotAnomaly(o) ==
  counted' = CASE o = "pass"  -> [counted EXCEPT !.pass = @ + 1]
               [] o = "block" -> [counted EXCEPT !.block = @ + 1]
               [] OTHER       -> counted

\* record_decision.
Count(o) ==
  counted' = IF o = "pass"
             THEN [counted EXCEPT !.pass = @ + 1] ELSE [counted EXCEPT !.block = @ + 1]

\* The last lines of every path through the pipeline: the decision is counted and
\* returned.
Finish(r) ==
  /\ stage[r] = "decided"
  /\ Count(verdict[r])
  /\ Answer(r, verdict[r])
  /\ UNCHANGED <<asked, valid, session, advisory, verdict, arrived, restarts, ledgerVars>>

\* The client goes away while the guard is awaited: the handler is dropped.
Disconnect(r) ==
  /\ stage[r] = "guard"
  /\ Answer(r, "lost")
  /\ UNCHANGED <<asked, valid, session, advisory, verdict, counted, arrived, restarts, ledgerVars>>

\* AnomalyLedger::new.
LedgerEmptied ==
  /\ sessions' = [s \in {} |-> 0]
  /\ tick' = 0
  /\ raised' = [s \in Sessions |-> 0]

\* What a stop of the process does to the requests in flight: nobody answers them.
RequestsCutOff ==
  LET cut == {r \in Requests : stage[r] \in {"guard", "decided"}}
  IN /\ stage' = [r \in Requests |-> IF r \in cut THEN "returned" ELSE stage[r]]
     /\ reply' = [r \in Requests |-> IF r \in cut THEN "lost" ELSE reply[r]]
     /\ arrived' = {}
     /\ UNCHANGED <<asked, valid, session, advisory, verdict>>

\* Mutation of Restart: the sessions survive, the clock does not.
Restart_KeepsSessions ==
  /\ restarts < MaxRestarts
  /\ restarts' = restarts + 1
  /\ RequestsCutOff
  /\ tick' = 0
  /\ counted' = NothingCounted
  /\ UNCHANGED <<sessions, raised>>

\* The process stops, by a crash or after draining, and starts again: the ledger
\* and the counters are in memory only.
Restart ==
  /\ restarts < MaxRestarts
  /\ restarts' = restarts + 1
  /\ RequestsCutOff
  /\ LedgerEmptied
  /\ counted' = NothingCounted

Next ==
  \/ \E r \in Requests :
       \/ Reject(r) \/ ChallengeRefuses(r) \/ GuardRefuses(r) \/ Finish(r) \/ Disconnect(r)
       \/ \E flags \in Flags : Challenge(r, flags) \/ GuardPasses(r, flags)
  \/ Restart

Spec == Init /\ [][Next]_vars

-----------------------------------------------------------------------------
\* The requests that the running process made a turn of their session.
Turns == {r \in arrived : verdict[r] \in {"pass", "anomaly"}}

\* grpc.rs:87-89: a malformed request "fails closed rather than defaulting to a
\* direction": it is answered with a block and leaves no trace in the ledger.
MalformedFailsClosed ==
  \A r \in Requests :
    ~valid[r] => reply[r] \in {"none", "boundary"} /\ r \notin Turns

\* The counter (metrics.rs:87-90) agrees with the responses sent since the process
\* started, whichever path decided them: the layers' blocks, the ledger's own
\* (pipeline.rs:108) and the passes each once, a request that was dropped or cut
\* off never.  One answer is excepted: the block of a malformed request at the
\* boundary (grpc.rs:93-101), which clients are sent and which is not counted.
CounterAgrees ==
  LET Sent(answers) == Cardinality({r \in arrived : reply[r] \in answers})
  IN /\ counted.pass = Sent({"pass"})
     /\ counted.block = Sent({"block", "anomaly"})

\* A request that came without a usable session id (grpc.rs:81-85) inherits no
\* suspicion: its own flags alone decide, whatever else runs, was blocked or was
\* evicted, and whoever later sends the id it was given.
AnonymousOnItsOwn ==
  \A r \in Requests :
    asked[r] = None /\ verdict[r] \in {"pass", "anomaly"} =>
      (verdict[r] = "anomaly" <=> Ledger!Blocks(FlagWeight * advisory[r]))

\* Suspicion stays with the session id that raised it, whoever sends that id, the
\* client that was given it or another: the ledger blocks a request only if its
\* own flags and those of the other requests under the same id, with the floor
\* that they arm, reach the threshold (the earlier ones, in the state in which it
\* is decided).  What other ids raised, evicted ones included, blocks nobody else
\* (pipeline.rs:86-88).
SuspicionStaysWithItsId ==
  \A r \in Turns :
    LET others == {q \in Turns \ {r} : session[q] = session[r]}
        charged == MapThenSumSet(LAMBDA q : advisory[q], others)
    IN verdict[r] = "anomaly" =>
         Ledger!Blocks(FlagWeight * advisory[r]
                         + (IF charged = 0 THEN 0 ELSE Floor + FlagWeight * charged))

\* Since the process started, the ledger was charged every turn once, the blocked
\* ones included: a session that is over the threshold stays charged.
ChargedOnce ==
  /\ tick = Cardinality(Turns)
  /\ \A s \in Sessions :
       raised[s] = MapThenSumSet(LAMBDA r : advisory[r], {r \in Turns : session[r] = s})

\* The ledger changes by `record`, or starts anew as a whole with the process.
ImplementsRestartableLedger ==
  Ledger!Init /\ [][Ledger!Next \/ LedgerEmptied]_ledgerVars
=============================================================================
