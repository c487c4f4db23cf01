---------------------------- MODULE GuardFanout ----------------------------
(***************************************************************************)
(* One run of Payload::guard: GuardFanout::guard_findings spawns a task    *)
(* per window (ctp-kernel/src/lib.rs), each task calls a GuardCheck, the   *)
(* drain loop collects the results and LayerReport::new turns them into a  *)
(* verdict (ctp-core/src/verdict.rs, payload.rs).                          *)
(*                                                                         *)
(* The GuardCheck is either the GuardClient of ctp-orchestrator, which     *)
(* puts its own deadline on the call and checks what the guard process     *)
(* answers, or one embedded in the same process, which does neither.  What *)
(* is behind it is the environment: it may answer anything at any time,    *)
(* break the connection (a crash breaks all of them), or stay silent.      *)
(***************************************************************************)
EXTENDS Integers, FiniteSets, FiniteSetsExt

CONSTANTS
  Windows,       \* the windows of the payload, never empty
  ClientBudget,  \* GuardClient.timeout, in ticks
  Backstop,      \* GuardFanout.timeout, in ticks
  MaxFlags,      \* MAX_FLAGS of guard_client.rs
  SentFlags,     \* bound: flags an answer may carry
  MaxAge         \* bound: ticks counted after a task's first poll

ASSUME FanoutAssumption ==
  /\ IsFiniteSet(Windows) /\ Windows # {}
  /\ ClientBudget \in Nat /\ Backstop \in Nat
  /\ ClientBudget <= Backstop    \* build_orchestrator: max(2 * budget, 200 ms)
  /\ MaxFlags \in Nat /\ SentFlags \in Nat
  /\ MaxAge \in Nat /\ Backstop <= MaxAge

VARIABLES
  remote,    \* the GuardCheck is a GuardClient
  task,      \* of every window: spawned, calling, finished, joined or aborted
  age,       \* ticks since the task's first poll started its timers
  answer,    \* what has arrived for the task, and its age then
  result,    \* the Result the task finished with
  blocking,  \* blocking findings pushed so far
  advisory,  \* number of advisory findings pushed so far
  verdict    \* "none" while draining, "pass", "block", or "cancelled"

vars == <<remote, task, age, answer, result, blocking, advisory, verdict>>

Silence == [kind |-> "none", flags |-> 0, at |-> 0]

\* What may come back on a call: a verdict, a verdict outside the contract, or
\* an error of the transport.  Only a pass has flags that matter.
Kinds == {"pass", "block", "unspecified", "failed"}

Pending == [kind |-> "none", flags |-> 0]

Result(kind) == [kind |-> kind, flags |-> 0]

Init ==
  /\ remote \in BOOLEAN
  /\ task = [w \in Windows |-> "spawned"]
  /\ age = [w \in Windows |-> 0]
  /\ answer = [w \in Windows |-> Silence]
  /\ result = [w \in Windows |-> Pending]
  /\ blocking = {}
  /\ advisory = 0
  /\ verdict = "none"

-----------------------------------------------------------------------------
(* The environment: the guard process, the socket, the clock, the runtime. *)

\* The guard's answer, or the transport's error, reaches a waiting task.
Arrives(w, kind, flags) ==
  /\ task[w] = "calling"
  /\ answer[w] = Silence
  /\ kind # "pass" => flags = 0
  /\ kind = "unspecified" => remote
  /\ answer' = [answer EXCEPT ![w] = [kind |-> kind, flags |-> flags, at |-> age[w]]]
  /\ UNCHANGED <<remote, task, age, result, blocking, advisory, verdict>>

\* One tick passes for every task whose timers run.
Elapse ==
  /\ \E w \in Windows : task[w] = "calling" /\ age[w] < MaxAge
  /\ age' = [w \in Windows |->
               IF task[w] = "calling" /\ age[w] < MaxAge THEN age[w] + 1 ELSE age[w]]
  /\ UNCHANGED <<remote, task, answer, result, blocking, advisory, verdict>>

-----------------------------------------------------------------------------
(* The task of a window. *)

\* First poll: the call goes out and both timers start, in one poll.
Call(w) ==
  /\ task[w] = "spawned"
  /\ task' = [task EXCEPT ![w] = "calling"]
  /\ UNCHANGED <<remote, age, answer, result, blocking, advisory, verdict>>

Finish(w, r) ==
  /\ task[w] = "calling"
  /\ task' = [task EXCEPT ![w] = "finished"]
  /\ result' = [result EXCEPT ![w] = r]
  /\ UNCHANGED <<remote, age, answer, blocking, advisory, verdict>>

\* Mutation of Classified: an unspecified verdict read as a pass.
Classified_DefaultPass(a) ==
  CASE a.kind \in {"pass", "unspecified"} -> [kind |-> "pass", flags |-> a.flags]
    [] a.kind = "block" -> Result("block")
    [] a.kind = "failed" -> Result("unavailable")

\* from_proto and the status arm of GuardClient::classify; an embedded check
\* returns its verdict as it is.
Classified(a) ==
  CASE a.kind = "pass" ->
         [kind |-> "pass",
          flags |-> IF remote /\ a.flags > MaxFlags THEN MaxFlags ELSE a.flags]
    [] a.kind = "block" -> Result("block")
    [] a.kind = "unspecified" -> Result("contract")
    [] a.kind = "failed" -> Result("unavailable")

\* A timeout polls the call before it looks at its timer, so an answer that has
\* arrived is taken whatever the time.
ReadAnswer(w) ==
  /\ answer[w] # Silence
  /\ Finish(w, Classified(answer[w]))

ClientExpired(w) == remote /\ age[w] >= ClientBudget

\* GuardClient::classify gives up.
ClientTimeout(w) ==
  /\ answer[w] = Silence
  /\ ClientExpired(w)
  /\ Finish(w, Result("timeout"))

\* Mutations of BackstopTimeout: the outer timer is dropped, the client having
\* one of its own; it is looked at first.
BackstopTimeout_Dropped(w) == FALSE
BackstopTimeout_First(w) ==
  /\ age[w] >= Backstop
  /\ Finish(w, Result("backstop"))

\* The fan-out gives up on a call that has no deadline of its own.
BackstopTimeout(w) ==
  /\ answer[w] = Silence
  /\ ~ClientExpired(w)
  /\ age[w] >= Backstop
  /\ Finish(w, Result("backstop"))

\* The task panics (profiles that unwind; a release build aborts the process).
Panic(w) == Finish(w, Result("panicked"))

-----------------------------------------------------------------------------
(* The drain loop. *)

\* Source of the blocking finding a result becomes.
Source(kind) ==
  CASE kind = "block" -> "guard"
    [] kind \in {"timeout", "backstop"} -> "guard_timeout"
    [] kind = "contract" -> "guard_contract_violation"
    [] kind \in {"unavailable", "panicked"} -> "guard_unavailable"

\* Mutation of Join: the flags of a window replace those of the windows before.
Join_Overwrites(w) ==
  /\ verdict = "none"
  /\ task[w] = "finished"
  /\ task' = [task EXCEPT ![w] = "joined"]
  /\ IF result[w].kind = "pass"
     THEN advisory' = result[w].flags /\ UNCHANGED blocking
     ELSE blocking' = blocking \cup {<<w, Source(result[w].kind)>>} /\ UNCHANGED advisory
  /\ UNCHANGED <<remote, age, answer, result, verdict>>

\* join_next yields a finished task, in whatever order they finish.
Join(w) ==
  /\ verdict = "none"
  /\ task[w] = "finished"
  /\ task' = [task EXCEPT ![w] = "joined"]
  /\ IF result[w].kind = "pass"
     THEN advisory' = advisory + result[w].flags /\ UNCHANGED blocking
     ELSE blocking' = blocking \cup {<<w, Source(result[w].kind)>>} /\ UNCHANGED advisory
  /\ UNCHANGED <<remote, age, answer, result, verdict>>

\* Mutations of Decide: the first joined window settles the payload; the first
\* block ends the loop.
Decide_FirstBlock ==
  /\ verdict = "none"
  /\ blocking # {} \/ \A w \in Windows : task[w] = "joined"
  /\ verdict' = IF blocking = {} THEN "pass" ELSE "block"
  /\ task' = [w \in Windows |-> IF task[w] = "joined" THEN "joined" ELSE "aborted"]
  /\ UNCHANGED <<remote, age, answer, result, blocking, advisory>>
Decide_FirstWins ==
  /\ verdict = "none"
  /\ \E w \in Windows : task[w] = "joined"
  /\ verdict' = IF blocking = {} THEN "pass" ELSE "block"
  /\ task' = [w \in Windows |-> IF task[w] = "joined" THEN "joined" ELSE "aborted"]
  /\ UNCHANGED <<remote, age, answer, result, blocking, advisory>>

\* join_next yields None: the findings become the report, a blocking one makes
\* it a Block.
Decide ==
  /\ verdict = "none"
  /\ \A w \in Windows : task[w] = "joined"
  /\ verdict' = IF blocking = {} THEN "pass" ELSE "block"
  /\ UNCHANGED <<remote, task, age, answer, result, blocking, advisory>>

\* The caller drops the future; dropping the JoinSet aborts its tasks.
Cancel ==
  /\ verdict = "none"
  /\ verdict' = "cancelled"
  /\ task' = [w \in Windows |-> IF task[w] = "joined" THEN "joined" ELSE "aborted"]
  /\ UNCHANGED <<remote, age, answer, result, blocking, advisory>>

TaskStep(w) ==
  \/ Call(w) \/ ReadAnswer(w) \/ ClientTimeout(w) \/ BackstopTimeout(w) \/ Panic(w)

Next ==
  \/ \E w \in Windows, kind \in Kinds, flags \in 0 .. SentFlags : Arrives(w, kind, flags)
  \/ Elapse
  \/ \E w \in Windows : TaskStep(w)
  \/ \E w \in Windows : Join(w)
  \/ Decide
  \/ Cancel

Spec == Init /\ [][Next]_vars

\* The runtime polls what is ready and the clock goes on; nothing is assumed of
\* the guard, of the transport or of the caller.
Fairness ==
  /\ WF_vars(Elapse)
  /\ \A w \in Windows :
       /\ WF_vars(Call(w))
       /\ WF_vars(ReadAnswer(w) \/ ClientTimeout(w) \/ BackstopTimeout(w))
       /\ WF_vars(Join(w))
  /\ WF_vars(Decide)

FairSpec == Spec /\ Fairness

-----------------------------------------------------------------------------
ResultKinds ==
  {"none", "pass", "block", "contract", "unavailable", "timeout", "backstop", "panicked"}

Sources == {"guard", "guard_timeout", "guard_contract_violation", "guard_unavailable"}

TypeOK ==
  /\ remote \in BOOLEAN
  /\ task \in [Windows -> {"spawned", "calling", "finished", "joined", "aborted"}]
  /\ age \in [Windows -> 0 .. MaxAge]
  /\ answer \in [Windows -> [kind : Kinds \cup {"none"}, flags : Nat, at : Nat]]
  /\ result \in [Windows -> [kind : ResultKinds, flags : Nat]]
  /\ blocking \subseteq Windows \X Sources
  /\ advisory \in Nat
  /\ verdict \in {"none", "pass", "block", "cancelled"}

\* Silence is never consent (lib.rs:108-112): a payload passes only if the guard
\* itself sent a Pass for every single window.
PassNeedsEveryPass ==
  verdict = "pass" => \A w \in Windows : answer[w].kind = "pass"

\* The loop drains ALL windows (lib.rs:123-127): a decided report carries one
\* blocking finding for every window that did not pass, early or late.
FindingsComplete ==
  verdict \in {"pass", "block"} =>
    {finding[1] : finding \in blocking} = {w \in Windows : result[w].kind # "pass"}

\* The flags of each window's answer that count.
Kept ==
  [w \in Windows |->
     IF remote /\ answer[w].flags > MaxFlags THEN MaxFlags ELSE answer[w].flags]

\* The ledger is charged the flags of all windows, no more and no fewer, in
\* whatever order they finished; a remote guard charges at most MAX_FLAGS each.
AdvisoriesConserved ==
  verdict = "pass" => advisory = MapThenSumSet(LAMBDA w : Kept[w], Windows)

\* orchestrator lib.rs:41-42: "the fan-out carries a longer backstop timeout so
\* the client's typed timeout surfaces first".
ClientTimeoutFirst ==
  \A w \in Windows : remote => result[w].kind # "backstop"

Ballot ==
  [w \in Windows |->
     IF result[w].kind = "none" THEN "open"
     ELSE IF result[w].kind = "pass" THEN "clear" ELSE "foul"]

Vote == INSTANCE WindowVote
  WITH ballot <- Ballot,
       verdict <- (IF verdict = "cancelled" THEN "none" ELSE verdict)

\* ANY-BLOCK -> BLOCK regardless of completion order (lib.rs:123-127): the
\* fan-out implements a vote of all windows.
ImplementsVote == Vote!Spec

\* "Never a hang" (lib.rs:95-96): even if the guard never answers, the payload
\* is decided or its caller has gone.
Decides == <>(verdict # "none")
=============================================================================
