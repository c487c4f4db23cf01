---------------------------- MODULE GuardProcess ----------------------------
(***************************************************************************)
(* The guard process: `serve` of ctp-guard/src/lib.rs under the systemd    *)
(* unit deploy/ctp-guard.service, and what it answers: `classify` of       *)
(* server.rs with `parse_strict` of parse.rs.                              *)
(*                                                                         *)
(* `infer` of the real backend never awaits: it keeps its tokio worker     *)
(* until it returns, and nothing can cancel it.  The task that pings the   *)
(* watchdog is polled whenever a worker is free.                           *)
(***************************************************************************)
EXTENDS Integers, FiniteSets

CONSTANTS
  Calls,      \* bound: calls that the process handles at a time
  Workers,    \* worker threads of the tokio runtime
  StartLimit  \* StartLimitBurst

ASSUME GuardProcessAssumption ==
  /\ IsFiniteSet(Calls)
  /\ Workers \in Nat \ {0}
  /\ StartLimit \in Nat \ {0}

VARIABLES
  unit,    \* active, or failed: the start limit was hit
  starts,  \* starts within StartLimitIntervalSec
  proc,    \* down, loading, loaded, cleared, bound, ready, draining
  socket,  \* the socket file: absent, stale (nobody listens), live
  call,    \* [form, phase, waited, said, answer] per call
  calm     \* nothing goes wrong any more: a hypothesis, no state of the code

service == <<unit, starts, calm>>
vars == <<service, proc, socket, call>>

\* What a call asks for.
Forms == {"good", "bad_direction", "oversize"}

\* Text of the model that breaks the contract.
Deviations == {"too_large", "malformed", "many_flags", "bad_flag"}

\* What `infer` comes to; odd: with a confidence out of range.
Outputs == {"pass", "odd_pass", "block", "failed"} \cup Deviations

\* No call, or none whose outcome anybody looks at.
NoCall ==
  [form |-> "good", phase |-> "idle", waited |-> FALSE, said |-> "nothing",
   answer |-> "none"]

Init ==
  /\ unit = "active"
  /\ starts = 0
  /\ proc = "down"
  /\ socket \in {"absent", "stale"}
  /\ call = [r \in Calls |-> NoCall]
  /\ calm = FALSE

In(phases) == {r \in Calls : call[r].phase \in phases}

FreeWorker == Cardinality(In({"running", "hung"})) < Workers

AllHung == Cardinality(In({"hung"})) = Workers

-----------------------------------------------------------------------------
(* Calls. *)

Settle(r, said, answer) ==
  call' = [call EXCEPT ![r] =
    [NoCall EXCEPT !.form = call[r].form, !.said = said, !.answer = answer]]

\* A client reaches the socket as soon as it is bound.
Send(r) ==
  /\ call[r].phase = "idle"
  /\ proc \in {"bound", "ready"}
  /\ \E form \in Forms :
       call' = [call EXCEPT ![r] =
         [NoCall EXCEPT !.form = form, !.phase = "queued", !.waited = TRUE]]
  /\ UNCHANGED <<service, proc, socket>>

\* The early returns of `classify` and `classify_inner`: no inference.
Reject(r) ==
  /\ call[r].phase = "queued"
  /\ proc \in {"ready", "draining"}
  /\ FreeWorker
  /\ call[r].form # "good"
  /\ Settle(r, "nothing", "block")
  /\ UNCHANGED <<service, proc, socket>>

Infer(r) ==
  /\ call[r].phase = "queued"
  /\ proc \in {"ready", "draining"}
  /\ FreeWorker
  /\ call[r].form = "good"
  /\ call' = [call EXCEPT ![r].phase = "running"]
  /\ UNCHANGED <<service, proc, socket>>

\* The inference takes longer than WatchdogSec.
Hang(r) ==
  /\ ~calm
  /\ call[r].phase = "running"
  /\ call' = [call EXCEPT ![r].phase = "hung"]
  /\ UNCHANGED <<service, proc, socket>>

\* Mutation of Verdict: only refused text blocks, not a failed backend.
Verdict_FailedPasses(raw) == IF raw \in {"block"} \cup Deviations THEN "block" ELSE "pass"

\* `parse_strict`: any deviation blocks; confidence is clamped and no more.
Verdict(raw) == IF raw \in {"pass", "odd_pass"} THEN "pass" ELSE "block"

\* The inference returns, late perhaps; the answer of a call whose client has
\* gone is dropped.
Finish(r) ==
  /\ call[r].phase \in {"running", "hung"}
  /\ \E raw \in Outputs :
       IF call[r].waited
       THEN Settle(r, raw, Verdict(raw))
       ELSE call' = [call EXCEPT ![r] = NoCall]
  /\ UNCHANGED <<service, proc, socket>>

\* The client's budget expires: the stream is reset.  An inference that has
\* begun keeps its worker.
GiveUp(r) ==
  /\ call[r].waited
  /\ call' = [call EXCEPT ![r] =
       IF call[r].phase = "queued" THEN NoCall ELSE [@ EXCEPT !.waited = FALSE]]
  /\ UNCHANGED <<service, proc, socket>>

-----------------------------------------------------------------------------
(* The process and its unit. *)

\* The process ends.  A socket file may stay behind, unless it is in the
\* unit's RuntimeDirectory.
Die ==
  /\ proc' = "down"
  /\ socket' \in IF socket = "absent" THEN {"absent"} ELSE {"absent", "stale"}
  /\ call' = [r \in Calls |->
       IF call[r].phase = "idle" THEN call[r]
       ELSE IF call[r].waited
       THEN [NoCall EXCEPT !.form = call[r].form, !.answer = "unavailable"]
       ELSE NoCall]
  /\ UNCHANGED service

Start ==
  /\ proc = "down" /\ unit = "active"
  /\ starts < StartLimit
  /\ starts' = starts + 1
  /\ proc' = "loading"
  /\ UNCHANGED <<unit, calm, socket, call>>

\* One more start within the interval stops the unit.
LimitHit ==
  /\ proc = "down" /\ unit = "active"
  /\ starts = StartLimit
  /\ unit' = "failed"
  /\ UNCHANGED <<starts, calm, proc, socket, call>>

IntervalPasses ==
  /\ unit = "active"
  /\ starts > 0
  /\ starts' = 0
  /\ UNCHANGED <<unit, calm, proc, socket, call>>

\* An operator resets the failed unit.
Reset ==
  /\ ~calm
  /\ unit = "failed"
  /\ unit' = "active"
  /\ starts' = 0
  /\ UNCHANGED <<calm, proc, socket, call>>

\* Configuration, system prompt and model.
Load ==
  /\ proc = "loading"
  /\ proc' = "loaded"
  /\ UNCHANGED <<service, socket, call>>

\* Mutation of Prepare: the file of the last run stays.
Prepare_KeepsStale ==
  /\ proc = "loaded"
  /\ proc' = "cleared"
  /\ UNCHANGED <<service, socket, call>>

\* `prepare_socket_path`: whatever is at the path goes.
Prepare ==
  /\ proc = "loaded"
  /\ proc' = "cleared"
  /\ socket' = "absent"
  /\ UNCHANGED <<service, call>>

\* A path that is taken cannot be bound: `serve` returns the error.
Bind ==
  /\ proc = "cleared"
  /\ IF socket = "absent"
     THEN /\ proc' = "bound"
          /\ socket' = "live"
          /\ UNCHANGED <<service, call>>
     ELSE Die

\* READY=1; the watchdog is armed and the server polls its listener.
Announce ==
  /\ proc = "bound"
  /\ proc' = "ready"
  /\ UNCHANGED <<service, socket, call>>

\* A panic (panic = "abort"), an abort in native code, or an error at start-up.
Crash == ~calm /\ proc # "down" /\ Die

\* No worker polls the task that pings.
WatchdogKill == proc = "ready" /\ AllHung /\ Die

\* `systemctl restart`: the server accepts nothing more and finishes what it has.
Terminate ==
  /\ ~calm
  /\ proc = "ready"
  /\ proc' = "draining"
  /\ UNCHANGED <<service, socket, call>>

\* The server has returned; the socket file is removed.
Drained ==
  /\ proc = "draining"
  /\ In({"queued", "running", "hung"}) = {}
  /\ proc' = "down"
  /\ socket' = "absent"
  /\ UNCHANGED <<service, call>>

\* TimeoutStopSec: what does not drain is killed.
StopTimeout ==
  /\ proc = "draining"
  /\ In({"hung"}) # {}
  /\ Die

Calm ==
  /\ ~calm
  /\ calm' = TRUE
  /\ UNCHANGED <<unit, starts, proc, socket, call>>

Next ==
  \/ \E r \in Calls :
       Send(r) \/ Reject(r) \/ Infer(r) \/ Hang(r) \/ Finish(r) \/ GiveUp(r)
  \/ Start \/ LimitHit \/ IntervalPasses \/ Reset
  \/ Load \/ Prepare \/ Bind \/ Announce
  \/ Crash \/ WatchdogKill \/ Terminate \/ Drained \/ StopTimeout
  \/ Calm

\* The runtime goes on with what it has; systemd restarts, kills and times out;
\* an inference that is not hung returns.  Nothing is assumed of a hung one.
Fairness ==
  /\ WF_vars(Start \/ LimitHit)
  /\ WF_vars(Load) /\ WF_vars(Prepare) /\ WF_vars(Bind) /\ WF_vars(Announce)
  /\ WF_vars(WatchdogKill) /\ WF_vars(Drained) /\ WF_vars(StopTimeout)
  /\ \A r \in Calls :
       WF_vars(Reject(r)) /\ WF_vars(Infer(r)) /\ WF_vars(call[r].phase = "running" /\ Finish(r))

Spec == Init /\ [][Next]_vars /\ Fairness

-----------------------------------------------------------------------------
TypeOK ==
  /\ unit \in {"active", "failed"} /\ calm \in BOOLEAN
  /\ starts \in 0 .. StartLimit
  /\ proc \in {"down", "loading", "loaded", "cleared", "bound", "ready", "draining"}
  /\ socket \in {"absent", "stale", "live"}
  /\ call \in
       [Calls -> [form : Forms, phase : {"idle", "queued", "running", "hung"},
                  waited : BOOLEAN, said : Outputs \cup {"nothing"},
                  answer : {"none", "pass", "block", "unavailable"}]]

\* A window is passed exactly when its request was in order and the model, asked
\* about this very request, said so within the contract: not by a failed
\* backend, text that breaks the contract, a restart or the answer to an earlier
\* call (server.rs:66-95, parse.rs:7-14); and bad telemetry changes nothing
\* (parse.rs:16-19).
PassIsTheModels ==
  \A r \in Calls : call[r].answer # "none" =>
    (call[r].answer = "pass"
     <=> call[r].form = "good" /\ call[r].said \in {"pass", "odd_pass"})

\* A client that calls now is answered: there is a worker left for it.
Serving == proc = "ready" /\ socket = "live" /\ Cardinality(In({"hung"})) < Workers

\* "A guard that dies must come back" (ctp-guard.service:36), and a guard with
\* no worker left is killed first: once nothing more goes wrong (no crash, no
\* inference that hangs, no operator: `calm`), the guard
\* serves for good, whatever was left behind (a stale socket, hung inferences, a
\* half-done start or shutdown), unless the start limit has stopped the unit.
Recovers ==
  <>calm => <>[](Serving \/ unit = "failed")
=============================================================================
