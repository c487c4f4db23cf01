--------------------------- MODULE KernelWrapper ---------------------------
(***************************************************************************)
(* KernelWrapper::execute of ctp-kernel/src/lib.rs, for any number of calls *)
(* in flight at once: policy lookup, outbound vetting, the tool, inbound    *)
(* vetting, and the ledger they all share.                                  *)
(*                                                                          *)
(* An action is what runs between two awaits.  The challenge layer is       *)
(* synchronous, so it belongs to the step that starts a direction; the      *)
(* guard and the tool are awaited, so their answers are steps of their own  *)
(* in which any other call may have run.  What the layers find is the       *)
(* environment's choice: a refusal, or a pass with some advisory flags.     *)
(***************************************************************************)
EXTENDS Integers, FiniteSets, FiniteSetsExt

CONSTANTS
  DecayNum, DecayDen, Floor, FlagWeight, Threshold,  \* of the ledger
  Sessions, MaxSessions, MaxTick,
  Calls,          \* calls of `execute`, each made at most once
  Tools,          \* tool names
  EnabledTools,   \* the ones listed with enabled = true
  VetFlags        \* bound: advisory flags of one layer in one direction

\* Two layers in two directions.
MaxFlags == 4 * VetFlags

ASSUME KernelAssumption ==
  /\ IsFiniteSet(Calls)
  /\ EnabledTools \subseteq Tools
  /\ VetFlags \in Nat

VARIABLES
  sessions, tick, raised,  \* the shared AnomalyLedger
  stage,     \* where the call is: idle, outbound, executing, inbound, returned
  session,   \* its ToolContext.session_id
  tool,      \* its ToolContext.tool_name
  advisory,  \* advisory_total so far
  outcome,   \* what execute returned
  vetted,    \* history: directions that passed both layers
  ran        \* history: the inner tool was called

ledgerVars == <<sessions, tick, raised>>
callVars == <<stage, session, tool, advisory, outcome, vetted, ran>>
vars == <<ledgerVars, callVars>>

Ledger == INSTANCE AnomalyLedger

\* The ledger is built from a KernelConfig that passed validate().
ASSUME LedgerParameters == Ledger!ScoringAssumption /\ Ledger!LedgerAssumption

Flags == 0 .. VetFlags

Init ==
  /\ Ledger!Init
  /\ stage = [c \in Calls |-> "idle"]
  /\ session \in [Calls -> Sessions]
  /\ tool \in [Calls -> Tools]
  /\ advisory = [c \in Calls |-> 0]
  /\ outcome = [c \in Calls |-> "none"]
  /\ vetted = [c \in Calls |-> {}]
  /\ ran = [c \in Calls |-> FALSE]

\* execute returns without touching the ledger.
Return(c, o) ==
  /\ stage' = [stage EXCEPT ![c] = "returned"]
  /\ outcome' = [outcome EXCEPT ![c] = o]
  /\ UNCHANGED <<session, tool, advisory, vetted, ran, ledgerVars>>

Advance(c, s) == stage' = [stage EXCEPT ![c] = s]

-----------------------------------------------------------------------------
(* From the call to the first await. *)

\* Deny-by-default: a tool that is not listed and enabled.
Deny(c) ==
  /\ stage[c] = "idle"
  /\ tool[c] \notin EnabledTools
  /\ Return(c, "denied")

\* Mutation of Challenge: the policy is looked up but not consulted.
Challenge_AnyTool(c, flags) ==
  /\ stage[c] = "idle"
  /\ Advance(c, "outbound")
  /\ advisory' = [advisory EXCEPT ![c] = @ + flags]
  /\ UNCHANGED <<session, tool, outcome, vetted, ran, ledgerVars>>

\* The challenge layer passes the arguments; the guard is awaited.
Challenge(c, flags) ==
  /\ stage[c] = "idle"
  /\ tool[c] \in EnabledTools
  /\ Advance(c, "outbound")
  /\ advisory' = [advisory EXCEPT ![c] = @ + flags]
  /\ UNCHANGED <<session, tool, outcome, vetted, ran, ledgerVars>>

\* The challenge layer refuses the arguments.
ChallengeRefuses(c) ==
  /\ stage[c] = "idle"
  /\ tool[c] \in EnabledTools
  /\ Return(c, "refused")

-----------------------------------------------------------------------------
(* Answers of what is awaited. *)

\* The guard blocks, times out or is gone, in either direction.
GuardRefuses(c) ==
  /\ stage[c] \in {"outbound", "inbound"}
  /\ Return(c, "refused")

\* The arguments are vetted and the inner tool is called with them.
OutboundPasses(c, flags) ==
  /\ stage[c] = "outbound"
  /\ Advance(c, "executing")
  /\ advisory' = [advisory EXCEPT ![c] = @ + flags]
  /\ vetted' = [vetted EXCEPT ![c] = @ \cup {"outbound"}]
  /\ ran' = [ran EXCEPT ![c] = TRUE]
  /\ UNCHANGED <<session, tool, outcome, ledgerVars>>

\* The tool fails; its error is passed on.
ToolFails(c) ==
  /\ stage[c] = "executing"
  /\ Return(c, "failed")

\* The result exceeds max_result_bytes, or the challenge layer refuses it.
ResultRefused(c) ==
  /\ stage[c] = "executing"
  /\ Return(c, "refused")

\* The result is small enough and passes the challenge layer.
ResultChallenged(c, flags) ==
  /\ stage[c] = "executing"
  /\ Advance(c, "inbound")
  /\ advisory' = [advisory EXCEPT ![c] = @ + flags]
  /\ UNCHANGED <<session, tool, outcome, vetted, ran, ledgerVars>>

\* The result is vetted: what the ledger has made of the turn decides whether it
\* is released.
Deliver(c, total, blocked) ==
  /\ stage[c] = "inbound"
  /\ Advance(c, "returned")
  /\ outcome' = [outcome EXCEPT ![c] = IF blocked THEN "anomaly" ELSE "released"]
  /\ advisory' = [advisory EXCEPT ![c] = total]
  /\ vetted' = [vetted EXCEPT ![c] = @ \cup {"inbound"}]
  /\ UNCHANGED <<session, tool, ran>>

\* Mutations of InboundPasses: the ledger is asked about the score before this
\* turn; only turns with flags are recorded; a block clears the session.
InboundPasses_StaleScore(c, flags) ==
  LET total == advisory[c] + flags
  IN /\ Deliver(c, total, Ledger!Blocks(Ledger!ScoreOf(session[c])))
     /\ Ledger!Record(session[c], total)
InboundPasses_OnlyFlagged(c, flags) ==
  LET total == advisory[c] + flags
  IN /\ Deliver(c, total, Ledger!WouldBlock(session[c], total))
     /\ IF total > 0 THEN Ledger!Record(session[c], total) ELSE UNCHANGED ledgerVars
InboundPasses_ClearsBlocked(c, flags) ==
  LET total == advisory[c] + flags
  IN /\ Deliver(c, total, Ledger!WouldBlock(session[c], total))
     /\ IF Ledger!WouldBlock(session[c], total)
        THEN /\ sessions' = [t \in DOMAIN sessions \ {session[c]} |-> sessions[t]]
             /\ UNCHANGED <<tick, raised>>
        ELSE Ledger!Record(session[c], total)

\* The turn is recorded, and the ledger's answer decides; record and decision
\* are one step, no other call runs in between.
InboundPasses(c, flags) ==
  LET total == advisory[c] + flags
  IN /\ Deliver(c, total, Ledger!WouldBlock(session[c], total))
     /\ Ledger!Record(session[c], total)

\* The caller drops the future at an await.
Cancel(c) ==
  /\ stage[c] \in {"outbound", "executing", "inbound"}
  /\ Return(c, "cancelled")

Next ==
  \E c \in Calls :
    \/ Deny(c) \/ ChallengeRefuses(c) \/ GuardRefuses(c)
    \/ ToolFails(c) \/ ResultRefused(c) \/ Cancel(c)
    \/ \E flags \in Flags :
         \/ Challenge(c, flags) \/ OutboundPasses(c, flags)
         \/ ResultChallenged(c, flags) \/ InboundPasses(c, flags)

Spec == Init /\ [][Next]_vars

-----------------------------------------------------------------------------
Recorded == {c \in Calls : outcome[c] \in {"released", "anomaly"}}

\* A tool runs only if it is enabled and its arguments passed both layers, and
\* nothing reaches the model's context but a result that did too (lib.rs:6-12).
NothingUnvetted ==
  \A c \in Calls :
    /\ ran[c] => tool[c] \in EnabledTools /\ "outbound" \in vetted[c]
    /\ outcome[c] = "released" => ran[c] /\ vetted[c] = {"outbound", "inbound"}

\* Every turn that got through both layers is charged to its session exactly
\* once, however calls overlap, fail or are dropped; no other turn is.
ChargedOnce ==
  /\ tick = Cardinality(Recorded)
  /\ \A s \in Sessions :
       raised[s] = MapThenSumSet(LAMBDA c : advisory[c], {c \in Recorded : session[c] = s})

\* The slow burn is bounded: without decay and without eviction, the results a
\* session was ever given carry fewer flags than the threshold weighs, however
\* its calls overlap.  (With decay, the bound is per turn: LedgerEntry.)
SlowBurnBounded ==
  DecayNum = DecayDen /\ Cardinality(Sessions) <= MaxSessions =>
    \A s \in Sessions :
      FlagWeight * MapThenSumSet(LAMBDA c : advisory[c],
                     {c \in Calls : session[c] = s /\ outcome[c] = "released"}) < Threshold

\* The wrapper uses the ledger through `record` alone: all that is shown of the
\* ledger holds of it here.
ImplementsLedger == Ledger!Spec

\* docs/adr/0006: "Crossing a threshold blocks the session."  The ledger is
\* consulted only after the tool has run.
BlockedSessionRunsNoTool ==
  [][\A c \in Calls :
       ran'[c] /\ ~ran[c] => ~Ledger!Blocks(Ledger!ScoreOf(session[c]))]_vars
=============================================================================
