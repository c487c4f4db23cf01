------------------------- MODULE GuardFanoutProofs -------------------------
(***************************************************************************)
(* Theorems about the guard layer, for every number of windows, every      *)
(* budget no longer than the backstop and every guard; and about the       *)
(* windows it cuts a payload into, for every length, width and overlap.    *)
(***************************************************************************)
EXTENDS GuardFanout, Windowing, Sums, TLAPS

\* A task has a result exactly from the step that finishes it.
ResultOfFinished ==
  \A w \in Windows :
    /\ task[w] \in {"spawned", "calling"} => result[w] = Pending
    /\ task[w] \in {"finished", "joined"} => result[w].kind # "none"

\* What has arrived has a kind.
ArrivedKinds ==
  \A w \in Windows : answer[w] = Silence \/ answer[w].kind \in Kinds

\* Nothing turns into a pass on the way from the guard to the drain loop.
PassWasAnswered ==
  \A w \in Windows : result[w].kind = "pass" => answer[w].kind = "pass"

\* While it drains, the loop has a blocking finding for every task it joined
\* that did not pass, and for no other.
JoinedCounted ==
  \A w \in Windows :
    (\E source \in Sources : <<w, source>> \in blocking)
      <=> (task[w] = "joined" /\ result[w].kind # "pass")

\* The verdict is the one of the complete drain.
VerdictOfDrain ==
  verdict \in {"pass", "block"} =>
    /\ \A w \in Windows : task[w] = "joined"
    /\ verdict = "pass" <=> blocking = {}

\* A caller that has gone leaves no task running.
NoneRunsAfterCancel ==
  verdict = "cancelled" => \A w \in Windows : task[w] \in {"joined", "aborted"}

IInv ==
  /\ TypeOK
  /\ ArrivedKinds
  /\ ResultOfFinished
  /\ PassWasAnswered
  /\ JoinedCounted
  /\ VerdictOfDrain
  /\ NoneRunsAfterCancel
  /\ ClientTimeoutFirst

-----------------------------------------------------------------------------
LEMMA InitInv == Init => IInv
<1> SUFFICES ASSUME Init PROVE IInv
  OBVIOUS
<1>1. TypeOK
  BY FanoutAssumption DEF FanoutAssumption, Init, TypeOK, Silence, Pending, Kinds, ResultKinds
<1>2. ArrivedKinds /\ ResultOfFinished /\ PassWasAnswered /\ JoinedCounted
  BY DEF Init, ArrivedKinds, ResultOfFinished, PassWasAnswered, JoinedCounted, Pending
<1>3. VerdictOfDrain /\ NoneRunsAfterCancel /\ ClientTimeoutFirst
  BY DEF Init, VerdictOfDrain, NoneRunsAfterCancel, ClientTimeoutFirst, Pending
<1>4. QED
  BY <1>1, <1>2, <1>3 DEF IInv

LEMMA ArrivesInv ==
  ASSUME IInv, NEW w \in Windows, NEW kind \in Kinds, NEW flags \in 0 .. SentFlags,
         Arrives(w, kind, flags)
  PROVE  IInv'
<1> USE DEF Arrives
<1>1. TypeOK' /\ ArrivedKinds'
  BY FanoutAssumption DEF FanoutAssumption, IInv, TypeOK, ArrivedKinds, Kinds
<1>2. PassWasAnswered'
  BY DEF IInv, TypeOK, PassWasAnswered, ResultOfFinished, Pending
<1>3. ResultOfFinished' /\ JoinedCounted'
  BY DEF IInv, ResultOfFinished, JoinedCounted
<1>4. VerdictOfDrain' /\ NoneRunsAfterCancel' /\ ClientTimeoutFirst'
  BY DEF IInv, VerdictOfDrain, NoneRunsAfterCancel, ClientTimeoutFirst
<1>5. QED
  BY <1>1, <1>2, <1>3, <1>4 DEF IInv

LEMMA ElapseInv == IInv /\ Elapse => IInv'
<1> SUFFICES ASSUME IInv, Elapse PROVE IInv'
  OBVIOUS
<1> USE DEF Elapse
<1>1. TypeOK'
  BY FanoutAssumption DEF FanoutAssumption, IInv, TypeOK
<1>2. ArrivedKinds' /\ ResultOfFinished' /\ PassWasAnswered' /\ JoinedCounted'
  BY DEF IInv, ArrivedKinds, ResultOfFinished, PassWasAnswered, JoinedCounted
<1>3. VerdictOfDrain' /\ NoneRunsAfterCancel' /\ ClientTimeoutFirst'
  BY DEF IInv, VerdictOfDrain, NoneRunsAfterCancel, ClientTimeoutFirst
<1>4. QED
  BY <1>1, <1>2, <1>3 DEF IInv

LEMMA CallInv == ASSUME IInv, NEW w \in Windows, Call(w) PROVE IInv'
<1> USE DEF Call
<1>1. TypeOK' /\ ArrivedKinds' /\ ResultOfFinished' /\ PassWasAnswered'
  BY DEF IInv, TypeOK, ArrivedKinds, ResultOfFinished, PassWasAnswered
<1>2. JoinedCounted' /\ ClientTimeoutFirst'
  BY DEF IInv, TypeOK, JoinedCounted, ClientTimeoutFirst
<1>3. VerdictOfDrain' /\ NoneRunsAfterCancel'
  BY DEF IInv, TypeOK, VerdictOfDrain, NoneRunsAfterCancel
<1>4. QED
  BY <1>1, <1>2, <1>3 DEF IInv

\* What a task may finish with: a pass only if one has arrived, the backstop's
\* timeout only if the call has no deadline of its own.
LEMMA FinishInv ==
  ASSUME IInv, NEW w \in Windows, NEW r \in [kind : ResultKinds, flags : Nat],
         Finish(w, r), r.kind # "none",
         r.kind = "pass" => answer[w].kind = "pass",
         remote => r.kind # "backstop"
  PROVE  IInv'
<1> USE DEF Finish
<1>1. TypeOK' /\ ArrivedKinds'
  BY DEF IInv, TypeOK, ArrivedKinds
<1>2. ResultOfFinished' /\ PassWasAnswered'
  BY DEF IInv, TypeOK, ResultOfFinished, PassWasAnswered
<1>3. JoinedCounted'
  BY DEF IInv, TypeOK, JoinedCounted
<1>4. VerdictOfDrain' /\ NoneRunsAfterCancel'
  BY DEF IInv, TypeOK, VerdictOfDrain, NoneRunsAfterCancel
<1>5. ClientTimeoutFirst'
  BY DEF IInv, TypeOK, ClientTimeoutFirst
<1>6. QED
  BY <1>1, <1>2, <1>3, <1>4, <1>5 DEF IInv

\* An answer outside the contract or an error of the transport never becomes a
\* pass.
LEMMA ClassifiedResult ==
  ASSUME TypeOK, NEW w \in Windows, answer[w].kind \in Kinds
  PROVE  /\ Classified(answer[w]) \in [kind : ResultKinds, flags : Nat]
         /\ Classified(answer[w]).kind \notin {"none", "backstop"}
         /\ Classified(answer[w]).kind = "pass" => answer[w].kind = "pass"
<1>1. answer[w].flags \in Nat
  BY DEF TypeOK
<1>2. CASE answer[w].kind = "pass"
  <2> DEFINE kept == IF remote /\ answer[w].flags > MaxFlags
                     THEN MaxFlags ELSE answer[w].flags
  <2>1. kept \in Nat
    BY <1>1, FanoutAssumption DEF FanoutAssumption
  <2> HIDE DEF kept
  <2>2. Classified(answer[w]) = [kind |-> "pass", flags |-> kept]
    BY <1>2 DEF Classified, kept
  <2>3. QED
    BY <1>2, <2>1, <2>2 DEF ResultKinds
<1>3. CASE answer[w].kind \in {"block", "unspecified", "failed"}
  <2>1. \E kind \in {"block", "contract", "unavailable"} : Classified(answer[w]) = Result(kind)
    BY <1>3 DEF Classified
  <2>2. QED
    BY <2>1 DEF Result, ResultKinds
<1>4. QED
  BY <1>2, <1>3 DEF Kinds

LEMMA TaskStepInv == ASSUME IInv, NEW w \in Windows, TaskStep(w) PROVE IInv'
<1>1. CASE Call(w)
  BY <1>1, CallInv
<1>2. CASE ReadAnswer(w)
  <2>1. answer[w].kind \in Kinds
    BY <1>2 DEF ReadAnswer, IInv, ArrivedKinds
  <2>2. QED
    BY <1>2, <2>1, ClassifiedResult, FinishInv DEF ReadAnswer, IInv
<1>3. CASE ClientTimeout(w)
  BY <1>3, FinishInv DEF ClientTimeout, Result, ResultKinds
<1>4. CASE BackstopTimeout(w)
  \* The backstop is no shorter than the client's budget, and the client's timer
  \* is looked at first.
  <2>1. ~remote
    BY <1>4, FanoutAssumption
    DEF FanoutAssumption, BackstopTimeout, ClientExpired, IInv, TypeOK
  <2>2. QED
    BY <1>4, <2>1, FinishInv DEF BackstopTimeout, Result, ResultKinds
<1>5. CASE Panic(w)
  BY <1>5, FinishInv DEF Panic, Result, ResultKinds
<1>6. QED
  BY <1>1, <1>2, <1>3, <1>4, <1>5 DEF TaskStep

\* Every result that is not a pass has a source for its finding.
LEMMA SourceOfResult ==
  ASSUME NEW kind \in ResultKinds \ {"none", "pass"}
  PROVE  Source(kind) \in Sources
BY DEF ResultKinds, Source, Sources

LEMMA JoinInv == ASSUME IInv, NEW w \in Windows, Join(w) PROVE IInv'
<1>1. /\ task[w] = "finished" /\ task' = [task EXCEPT ![w] = "joined"]
      /\ verdict = "none" /\ verdict' = verdict
      /\ remote' = remote /\ age' = age /\ answer' = answer /\ result' = result
  BY DEF Join
<1>2. result[w].kind \in ResultKinds \ {"none"} /\ result[w].flags \in Nat
  BY <1>1 DEF IInv, TypeOK, ResultOfFinished
<1>3. /\ ArrivedKinds' /\ PassWasAnswered' /\ ClientTimeoutFirst'
      /\ ResultOfFinished' /\ VerdictOfDrain' /\ NoneRunsAfterCancel'
  <2>1. ArrivedKinds' /\ PassWasAnswered' /\ ClientTimeoutFirst'
    BY <1>1 DEF IInv, ArrivedKinds, PassWasAnswered, ClientTimeoutFirst
  <2>2. ResultOfFinished'
    BY <1>1, <1>2 DEF IInv, TypeOK, ResultOfFinished
  <2>3. VerdictOfDrain' /\ NoneRunsAfterCancel'
    BY <1>1 DEF VerdictOfDrain, NoneRunsAfterCancel
  <2>4. QED
    BY <2>1, <2>2, <2>3
<1>4. CASE result[w].kind = "pass"
  <2>1. advisory' = advisory + result[w].flags /\ blocking' = blocking
    BY <1>4 DEF Join
  <2>2. TypeOK'
    BY <1>1, <1>2, <2>1 DEF IInv, TypeOK
  <2>3. JoinedCounted'
    BY <1>1, <1>4, <2>1 DEF IInv, TypeOK, JoinedCounted
  <2>4. QED
    BY <1>3, <2>2, <2>3 DEF IInv
<1>5. CASE result[w].kind # "pass"
  <2> DEFINE source == Source(result[w].kind)
  <2>1. advisory' = advisory /\ blocking' = blocking \cup {<<w, source>>}
    BY <1>5 DEF Join
  <2>2. source \in Sources
    BY <1>2, <1>5, SourceOfResult
  <2> HIDE DEF source
  <2>3. TypeOK'
    BY <1>1, <2>1, <2>2 DEF IInv, TypeOK
  <2>4. JoinedCounted'
    BY <1>1, <1>5, <2>1, <2>2 DEF IInv, TypeOK, JoinedCounted
  <2>5. QED
    BY <1>3, <2>3, <2>4 DEF IInv
<1>6. QED
  BY <1>4, <1>5

LEMMA DecideInv == IInv /\ Decide => IInv'
<1> SUFFICES ASSUME IInv, Decide PROVE IInv'
  OBVIOUS
<1> USE DEF Decide
<1>1. TypeOK' /\ ArrivedKinds' /\ ResultOfFinished' /\ PassWasAnswered'
  BY DEF IInv, TypeOK, ArrivedKinds, ResultOfFinished, PassWasAnswered
<1>2. JoinedCounted' /\ ClientTimeoutFirst'
  BY DEF IInv, JoinedCounted, ClientTimeoutFirst
<1>3. VerdictOfDrain' /\ NoneRunsAfterCancel'
  BY DEF VerdictOfDrain, NoneRunsAfterCancel
<1>4. QED
  BY <1>1, <1>2, <1>3 DEF IInv

LEMMA CancelInv == IInv /\ Cancel => IInv'
<1> SUFFICES ASSUME IInv, Cancel PROVE IInv'
  OBVIOUS
<1> USE DEF Cancel
<1>1. TypeOK' /\ ArrivedKinds' /\ PassWasAnswered' /\ ClientTimeoutFirst'
  BY DEF IInv, TypeOK, ArrivedKinds, PassWasAnswered, ClientTimeoutFirst
<1>2. ResultOfFinished'
  BY DEF IInv, TypeOK, ResultOfFinished
<1>3. JoinedCounted'
  BY DEF IInv, TypeOK, JoinedCounted
<1>4. VerdictOfDrain' /\ NoneRunsAfterCancel'
  BY DEF VerdictOfDrain, NoneRunsAfterCancel
<1>5. QED
  BY <1>1, <1>2, <1>3, <1>4 DEF IInv

-----------------------------------------------------------------------------
LEMMA StutterInv == IInv /\ UNCHANGED vars => IInv'
BY DEF vars, IInv, TypeOK, ArrivedKinds, ResultOfFinished, PassWasAnswered,
       JoinedCounted, VerdictOfDrain, NoneRunsAfterCancel, ClientTimeoutFirst

LEMMA NextInv == IInv /\ [Next]_vars => IInv'
<1> SUFFICES ASSUME IInv, [Next]_vars PROVE IInv'
  OBVIOUS
<1>1. CASE \E w \in Windows, kind \in Kinds, flags \in 0 .. SentFlags :
             Arrives(w, kind, flags)
  BY <1>1, ArrivesInv
<1>2. CASE Elapse
  BY <1>2, ElapseInv
<1>3. CASE \E w \in Windows : TaskStep(w)
  BY <1>3, TaskStepInv
<1>4. CASE \E w \in Windows : Join(w)
  BY <1>4, JoinInv
<1>5. CASE Decide
  BY <1>5, DecideInv
<1>6. CASE Cancel
  BY <1>6, CancelInv
<1>7. CASE UNCHANGED vars
  BY <1>7, StutterInv
<1>8. QED
  BY <1>1, <1>2, <1>3, <1>4, <1>5, <1>6, <1>7 DEF Next

LEMMA Invariance == Spec => []IInv
<1>1. Init => IInv
  BY InitInv
<1>2. IInv /\ [Next]_vars => IInv'
  BY NextInv
<1>3. QED
  BY <1>1, <1>2, PTL DEF Spec

\* Once the loop has drained, the windows in its findings are those that did not
\* pass.
LEMMA DrainIsComplete == IInv => FindingsComplete
<1> SUFFICES ASSUME IInv, verdict \in {"pass", "block"}
             PROVE  {finding[1] : finding \in blocking} = {w \in Windows : result[w].kind # "pass"}
  BY DEF FindingsComplete
<1>1. \A w \in Windows : task[w] = "joined"
  BY DEF IInv, VerdictOfDrain
<1>2. blocking \subseteq Windows \X Sources
  BY DEF IInv, TypeOK
<1>3. ASSUME NEW finding \in blocking
      PROVE  finding[1] \in Windows /\ result[finding[1]].kind # "pass"
  <2>1. PICK w \in Windows, source \in Sources : finding = <<w, source>>
    BY <1>2, <1>3
  <2>2. result[w].kind # "pass"
    BY <1>3, <2>1 DEF IInv, JoinedCounted
  <2>3. QED
    BY <2>1, <2>2
<1>4. ASSUME NEW w \in Windows, result[w].kind # "pass"
      PROVE  \E finding \in blocking : w = finding[1]
  <2>1. PICK source \in Sources : <<w, source>> \in blocking
    BY <1>1, <1>4 DEF IInv, JoinedCounted
  <2>2. <<w, source>>[1] = w
    OBVIOUS
  <2>3. QED
    BY <2>1, <2>2
<1>5. QED
  BY <1>3, <1>4

\* A drained loop without a finding joined nothing but passes.
LEMMA PassMeansAllPassed ==
  ASSUME IInv, \A w \in Windows : task[w] = "joined"
  PROVE  blocking = {} <=> \A w \in Windows : result[w].kind = "pass"
<1>1. ASSUME blocking = {}, NEW w \in Windows PROVE result[w].kind = "pass"
  BY <1>1 DEF IInv, JoinedCounted
<1>2. ASSUME blocking # {} PROVE \E w \in Windows : result[w].kind # "pass"
  <2>1. PICK w \in Windows, source \in Sources : <<w, source>> \in blocking
    BY <1>2 DEF IInv, TypeOK
  <2>2. QED
    BY <2>1 DEF IInv, JoinedCounted
<1>3. QED
  BY <1>1, <1>2

\* Every variable of a guard run keeps its type.
THEOREM TypeCorrect == Spec => []TypeOK
<1>1. IInv => TypeOK
  BY DEF IInv
<1>2. QED
  BY <1>1, Invariance, PTL

\* However many windows a payload has and whatever the guard does, it passes
\* only if the guard itself sent a pass for each of them: neither silence, nor an
\* error, nor a timeout, nor a panic becomes consent.
THEOREM SilenceIsNoConsent == Spec => []PassNeedsEveryPass
<1>1. IInv => PassNeedsEveryPass
  BY PassMeansAllPassed DEF IInv, VerdictOfDrain, PassWasAnswered, PassNeedsEveryPass
<1>2. QED
  BY <1>1, Invariance, PTL

\* The drain loop leaves no window out of the report it decides.
THEOREM DrainComplete == Spec => []FindingsComplete
<1>1. QED
  BY DrainIsComplete, Invariance, PTL

\* With any client budget no longer than the backstop, the backstop never
\* preempts the client's own timeout.
THEOREM BackstopIsLast == Spec => []ClientTimeoutFirst
<1>1. IInv => ClientTimeoutFirst
  BY DEF IInv
<1>2. QED
  BY <1>1, Invariance, PTL

-----------------------------------------------------------------------------
LEMMA InitVotes == Init => Vote!Init
BY DEF Init, Vote!Init, Ballot, Pending

\* A finished task casts the ballot of its window.
LEMMA FinishVotes ==
  ASSUME IInv, NEW w \in Windows, NEW r \in [kind : ResultKinds, flags : Nat],
         Finish(w, r), r.kind # "none"
  PROVE  \E b \in {"clear", "foul"} : Vote!Settle(w, b)
<1> DEFINE b == IF r.kind = "pass" THEN "clear" ELSE "foul"
<1>1. task[w] = "calling" /\ result[w] = Pending /\ result' = [result EXCEPT ![w] = r]
      /\ verdict' = verdict
  BY DEF Finish, IInv, ResultOfFinished
<1>2. verdict = "none"
  BY <1>1 DEF IInv, TypeOK, VerdictOfDrain, NoneRunsAfterCancel
<1>3. Ballot[w] = "open"
  BY <1>1 DEF Ballot, Pending
<1>4. Ballot' = [Ballot EXCEPT ![w] = b]
  BY <1>1 DEF Ballot, IInv, TypeOK
<1>5. QED
  BY <1>1, <1>2, <1>3, <1>4 DEF Vote!Settle

\* The end of the drain concludes the vote.
LEMMA DecideVotes == IInv /\ Decide => Vote!Conclude
<1> SUFFICES ASSUME IInv, Decide PROVE Vote!Conclude
  OBVIOUS
<1>1. /\ verdict = "none" /\ result' = result /\ \A w \in Windows : task[w] = "joined"
      /\ verdict' = IF blocking = {} THEN "pass" ELSE "block"
  BY DEF Decide
<1>2. \A w \in Windows : Ballot[w] # "open"
  BY <1>1 DEF Ballot, IInv, ResultOfFinished
<1>3. (\A w \in Windows : Ballot[w] = "clear") <=> blocking = {}
  BY <1>1, PassMeansAllPassed DEF Ballot
<1>4. Ballot' = Ballot
  BY <1>1 DEF Ballot
<1>5. QED
  BY <1>1, <1>2, <1>3, <1>4 DEF Vote!Conclude

LEMMA NextVotes == IInv /\ [Next]_vars => [Vote!Next]_(Vote!vars)
<1> SUFFICES ASSUME IInv, [Next]_vars PROVE [Vote!Next]_(Vote!vars)
  OBVIOUS
<1>1. CASE result' = result /\ verdict' = verdict
  BY <1>1 DEF Vote!vars, Ballot
<1>2. ASSUME NEW w \in Windows, NEW r \in [kind : ResultKinds, flags : Nat],
             Finish(w, r), r.kind # "none"
      PROVE  Vote!Next
  BY <1>2, FinishVotes DEF Vote!Next
<1>3. CASE \E w \in Windows : TaskStep(w)
  <2>1. PICK w \in Windows : TaskStep(w)
    BY <1>3
  <2>2. CASE Call(w)
    BY <1>1, <2>2 DEF Call
  <2>3. CASE ReadAnswer(w)
    <3>1. answer[w].kind \in Kinds
      BY <2>3 DEF ReadAnswer, IInv, ArrivedKinds
    <3>2. QED
      BY <1>2, <2>3, <3>1, ClassifiedResult DEF ReadAnswer, IInv
  <2>4. CASE ClientTimeout(w)
    BY <1>2, <2>4 DEF ClientTimeout, Result, ResultKinds
  <2>5. CASE BackstopTimeout(w)
    BY <1>2, <2>5 DEF BackstopTimeout, Result, ResultKinds
  <2>6. CASE Panic(w)
    BY <1>2, <2>6 DEF Panic, Result, ResultKinds
  <2>7. QED
    BY <2>1, <2>2, <2>3, <2>4, <2>5, <2>6 DEF TaskStep
<1>4. CASE Decide
  BY <1>4, DecideVotes DEF Vote!Next
<1>5. CASE Cancel
  BY <1>5 DEF Cancel, Vote!vars, Ballot
<1>6. CASE \/ \E w \in Windows, kind \in Kinds, flags \in 0 .. SentFlags :
                Arrives(w, kind, flags)
           \/ Elapse
           \/ \E w \in Windows : Join(w)
           \/ UNCHANGED vars
  BY <1>1, <1>6 DEF Arrives, Elapse, Join, vars
<1>7. QED
  BY <1>3, <1>4, <1>5, <1>6 DEF Next

\* Whatever order windows are scheduled, answered and joined in, the fan-out is
\* a vote of all windows: ANY-BLOCK makes a Block.
THEOREM FanoutIsVote == Spec => ImplementsVote
<1>1. Init => Vote!Init
  BY InitVotes
<1>2. IInv /\ [Next]_vars => [Vote!Next]_(Vote!vars)
  BY NextVotes
<1>3. QED
  BY <1>1, <1>2, Invariance, PTL DEF Spec, ImplementsVote, Vote!Spec

-----------------------------------------------------------------------------
(* What the ledger is charged.  The drain loop adds the flags of the passes *)
(* it has joined; the sum over a set that grows by one window at a time     *)
(* does not depend on the order.                                            *)

\* The flags of each window's result.
Flagged == [w \in Windows |-> result[w].flags]

JoinedPasses == {w \in Windows : task[w] = "joined" /\ result[w].kind = "pass"}

\* The flags of a pass are those of the answer it was read from, which no later
\* answer replaces.
KeptInResult ==
  \A w \in Windows : result[w].kind = "pass" => result[w].flags = Kept[w]

ChargedSoFar == advisory = Total(Flagged, JoinedPasses)

ChargeInv == KeptInResult /\ ChargedSoFar

LEMMA FlaggedTyped ==
  ASSUME TypeOK
  PROVE  /\ IsFiniteSet(JoinedPasses)
         /\ \A w \in Windows : Flagged[w] \in Nat
<1>1. JoinedPasses \in SUBSET Windows
  BY DEF JoinedPasses
<1>2. IsFiniteSet(JoinedPasses)
  BY <1>1, FanoutAssumption, FS_Subset DEF FanoutAssumption
<1>3. QED
  BY <1>2 DEF TypeOK, Flagged

LEMMA InitCharge == Init => ChargeInv
<1> SUFFICES ASSUME Init PROVE ChargeInv
  OBVIOUS
<1>1. JoinedPasses = {}
  BY DEF Init, JoinedPasses
<1>2. ChargedSoFar
  BY <1>1, TotalEmpty DEF Init, ChargedSoFar
<1>3. KeptInResult
  BY DEF Init, KeptInResult, Pending
<1>4. QED
  BY <1>2, <1>3 DEF ChargeInv

\* A step that joins nothing and takes nothing back charges nothing.
LEMMA NothingJoined ==
  ASSUME TypeOK, ChargedSoFar, advisory' = advisory, JoinedPasses' = JoinedPasses,
         \A w \in JoinedPasses : Flagged'[w] = Flagged[w]
  PROVE  ChargedSoFar'
<1>1. Total(Flagged', JoinedPasses) = Total(Flagged, JoinedPasses)
  BY FlaggedTyped, TotalSame
<1>2. QED
  BY <1>1 DEF ChargedSoFar

\* An answer arrives only for a task that has no result yet.
LEMMA ArrivesCharge ==
  ASSUME IInv, ChargeInv, NEW w \in Windows, NEW kind \in Kinds,
         NEW flags \in 0 .. SentFlags, Arrives(w, kind, flags)
  PROVE  ChargeInv'
<1>1. KeptInResult'
  BY DEF Arrives, IInv, TypeOK, ResultOfFinished, Pending, ChargeInv, KeptInResult, Kept
<1>2. advisory' = advisory /\ JoinedPasses' = JoinedPasses /\ Flagged' = Flagged
  BY DEF Arrives, JoinedPasses, Flagged
<1>3. ChargedSoFar'
  BY <1>2, NothingJoined DEF IInv, ChargeInv
<1>4. QED
  BY <1>1, <1>3 DEF ChargeInv

\* A task finishes with the flags that are kept of its answer.
LEMMA FinishCharge ==
  ASSUME IInv, ChargeInv, NEW w \in Windows, NEW r \in [kind : ResultKinds, flags : Nat],
         Finish(w, r), r.kind = "pass" => r.flags = Kept[w]
  PROVE  ChargeInv'
<1>1. /\ task[w] = "calling" /\ task' = [task EXCEPT ![w] = "finished"]
      /\ result' = [result EXCEPT ![w] = r] /\ Kept' = Kept /\ advisory' = advisory
  BY DEF Finish, Kept
<1>2. KeptInResult'
  BY <1>1 DEF IInv, TypeOK, ChargeInv, KeptInResult
<1>3. JoinedPasses' = JoinedPasses
  BY <1>1 DEF IInv, TypeOK, JoinedPasses
<1>4. \A v \in JoinedPasses : Flagged'[v] = Flagged[v]
  BY <1>1 DEF IInv, TypeOK, JoinedPasses, Flagged
<1>5. ChargedSoFar'
  BY <1>1, <1>3, <1>4, NothingJoined DEF IInv, ChargeInv
<1>6. QED
  BY <1>2, <1>5 DEF ChargeInv

LEMMA TaskStepCharge ==
  ASSUME IInv, ChargeInv, NEW w \in Windows, TaskStep(w)
  PROVE  ChargeInv'
<1>1. CASE Call(w)
  <2>1. /\ advisory' = advisory /\ JoinedPasses' = JoinedPasses
        /\ Flagged' = Flagged /\ Kept' = Kept /\ result' = result
    BY <1>1 DEF Call, IInv, TypeOK, JoinedPasses, Flagged, Kept
  <2>2. QED
    BY <2>1, NothingJoined DEF IInv, ChargeInv, KeptInResult
<1>2. CASE ReadAnswer(w)
  <2>1. answer[w].kind \in Kinds
    BY <1>2 DEF ReadAnswer, IInv, ArrivedKinds
  <2>2. Classified(answer[w]).kind = "pass" => Classified(answer[w]).flags = Kept[w]
    BY <2>1 DEF Classified, Result, Kept, Kinds
  <2>3. QED
    BY <1>2, <2>1, <2>2, ClassifiedResult, FinishCharge DEF ReadAnswer, IInv
<1>3. CASE ClientTimeout(w) \/ BackstopTimeout(w) \/ Panic(w)
  BY <1>3, FinishCharge
  DEF ClientTimeout, BackstopTimeout, Panic, Result, ResultKinds
<1>4. QED
  BY <1>1, <1>2, <1>3 DEF TaskStep

\* The only step that charges: one more pass has been joined.
LEMMA JoinCharge ==
  ASSUME IInv, ChargeInv, NEW w \in Windows, Join(w)
  PROVE  ChargeInv'
<1>1. /\ task[w] = "finished" /\ task' = [task EXCEPT ![w] = "joined"]
      /\ result' = result /\ Kept' = Kept /\ Flagged' = Flagged
  BY DEF Join, Kept, Flagged
<1>2. KeptInResult'
  BY <1>1 DEF ChargeInv, KeptInResult
<1>3. CASE result[w].kind = "pass"
  <2>1. JoinedPasses' = JoinedPasses \cup {w} /\ w \notin JoinedPasses
    BY <1>1, <1>3 DEF IInv, TypeOK, JoinedPasses
  <2>2. advisory' = advisory + Flagged[w]
    BY <1>3 DEF Join, Flagged
  <2>3. \A v \in JoinedPasses \cup {w} : Flagged[v] \in Nat
    BY FlaggedTyped DEF IInv, JoinedPasses
  <2>4. Total(Flagged, JoinedPasses \cup {w}) = Total(Flagged, JoinedPasses) + Flagged[w]
    BY <2>1, <2>3, FlaggedTyped, TotalAdd DEF IInv
  <2>5. ChargedSoFar'
    BY <1>1, <2>1, <2>2, <2>4 DEF ChargeInv, ChargedSoFar
  <2>6. QED
    BY <1>2, <2>5 DEF ChargeInv
<1>4. CASE result[w].kind # "pass"
  <2>1. JoinedPasses' = JoinedPasses /\ advisory' = advisory
    BY <1>1, <1>4 DEF Join, IInv, TypeOK, JoinedPasses
  <2>2. ChargedSoFar'
    BY <1>1, <2>1, NothingJoined DEF IInv, ChargeInv
  <2>3. QED
    BY <1>2, <2>2 DEF ChargeInv
<1>5. QED
  BY <1>3, <1>4

LEMMA NextCharge == IInv /\ ChargeInv /\ [Next]_vars => ChargeInv'
<1> SUFFICES ASSUME IInv, ChargeInv, [Next]_vars PROVE ChargeInv'
  OBVIOUS
<1>1. ASSUME result' = result, answer' = answer, remote' = remote, advisory' = advisory,
             JoinedPasses' = JoinedPasses
      PROVE  ChargeInv'
  <2>1. Flagged' = Flagged /\ Kept' = Kept
    BY <1>1 DEF Flagged, Kept
  <2>2. QED
    BY <1>1, <2>1, NothingJoined DEF IInv, ChargeInv, KeptInResult
<1>2. CASE Elapse \/ Decide \/ UNCHANGED vars
  BY <1>1, <1>2 DEF Elapse, Decide, vars, JoinedPasses
<1>3. CASE Cancel
  <2>1. JoinedPasses' = JoinedPasses
    BY <1>3 DEF Cancel, IInv, TypeOK, JoinedPasses
  <2>2. QED
    BY <1>1, <1>3, <2>1 DEF Cancel
<1>4. QED
  BY <1>2, <1>3, ArrivesCharge, TaskStepCharge, JoinCharge DEF Next

\* Once every window has been joined and none was foul, the passes joined are all
\* windows, and the flags charged are those of all answers.
LEMMA ChargeIsConserved == IInv /\ ChargeInv => AdvisoriesConserved
<1> SUFFICES ASSUME IInv, ChargeInv, verdict = "pass"
             PROVE  advisory = Total(Kept, Windows)
  BY DEF AdvisoriesConserved, Total
<1>1. \A w \in Windows : task[w] = "joined" /\ result[w].kind = "pass"
  BY PassMeansAllPassed DEF IInv, VerdictOfDrain
<1>2. JoinedPasses = Windows
  BY <1>1 DEF JoinedPasses
<1>3. \A w \in Windows : Flagged[w] = Kept[w]
  BY <1>1 DEF Flagged, ChargeInv, KeptInResult
<1>4. Total(Flagged, Windows) = Total(Kept, Windows)
  BY <1>2, <1>3, FlaggedTyped, TotalSame DEF IInv
<1>5. QED
  BY <1>2, <1>4 DEF ChargeInv, ChargedSoFar

\* Whatever order the windows finish and are joined in, a payload that passes is
\* charged the flags of every single window's answer, a remote one's up to the cap.
THEOREM FanoutConservesAdvisories == Spec => []AdvisoriesConserved
<1>1. Init => IInv /\ ChargeInv
  BY InitInv, InitCharge
<1>2. (IInv /\ ChargeInv) /\ [Next]_vars => (IInv /\ ChargeInv)'
  BY NextInv, NextCharge
<1>3. IInv /\ ChargeInv => AdvisoriesConserved
  BY ChargeIsConserved
<1>4. QED
  BY <1>1, <1>2, <1>3, PTL DEF Spec

-----------------------------------------------------------------------------
(* The windows themselves, for every payload length, window size and       *)
(* overlap.                                                                *)

\* Where the last window pushed ends while the loop is still running.
LastEnd == start - Stride + width

\* The loop invariant.  Nothing has been cut yet, or every window so far is full
\* and starts and ends no later than the last one, which ends before the payload
\* does; and every short enough phrase that ends by LastEnd has been seen.
LoopInv ==
  ~done =>
    \/ start = 0 /\ windows = {}
    \/ /\ len > width
       /\ Stride <= start
       /\ LastEnd < len
       /\ \A w \in windows : w.from <= start - Stride /\ w.to = w.from + width
       /\ \A from, to \in 0 .. LastEnd :
            from <= to /\ to - from <= PhraseBound => SeenWhole(from, to)

WindowsInv == CutTypeOK /\ LoopInv /\ PhrasesSeenWhole /\ WindowsFit /\ NoWindowRedundant

\* The stride is at least one byte, leaves no gap between windows, and together
\* with the phrase bound spans exactly one window.
LEMMA StrideBounds ==
  ASSUME CutTypeOK
  PROVE  Stride \in 1 .. width /\ Stride + PhraseBound = width + 1
BY DEF CutTypeOK, Stride, PhraseBound

\* A phrase that ends after the last window starts within the next one: this is
\* where the overlap is needed.
LEMMA NextWindowSees ==
  ASSUME CutTypeOK, NEW from \in Nat, NEW to \in Nat,
         to - from <= PhraseBound, LastEnd < to, to <= EndOf(start)
  PROVE  start <= from /\ to <= EndOf(start)
<1>1. Stride + PhraseBound = width + 1
  BY StrideBounds
<1>2. Stride \in Int /\ PhraseBound \in Int /\ width \in Int /\ start \in Int
  BY StrideBounds DEF CutTypeOK, PhraseBound
<1>3. QED
  BY <1>1, <1>2 DEF LastEnd

LEMMA InitWindows == CutInit => WindowsInv
<1> SUFFICES ASSUME CutInit PROVE WindowsInv
  OBVIOUS
<1>1. \A w \in Widths : AtLeastOne(w) \in Nat \ {0}
  BY WindowingAssumption DEF WindowingAssumption, AtLeastOne
<1>2. width \in Nat \ {0}
  BY <1>1 DEF CutInit
<1>3. CutTypeOK
  BY <1>2, WindowingAssumption DEF WindowingAssumption, CutInit, CutTypeOK
<1>4. LoopInv /\ PhrasesSeenWhole /\ WindowsFit /\ NoWindowRedundant
  BY DEF CutInit, LoopInv, PhrasesSeenWhole, WindowsFit, NoWindowRedundant
<1>5. QED
  BY <1>3, <1>4 DEF WindowsInv

\* The early return: one window, the whole payload.
LEMMA WholeKeeps == WindowsInv /\ Whole => WindowsInv'
<1> SUFFICES ASSUME WindowsInv, Whole PROVE WindowsInv'
  OBVIOUS
<1>1. /\ len' = len /\ width' = width /\ overlap' = overlap /\ start' = start
      /\ windows' = {[from |-> 0, to |-> len]} /\ done' = TRUE /\ len <= width
  BY DEF Whole
<1>2. CutTypeOK'
  BY <1>1 DEF WindowsInv, CutTypeOK
<1>3. PhrasesSeenWhole'
  BY <1>1 DEF PhrasesSeenWhole, SeenWhole
<1>4. WindowsFit' /\ NoWindowRedundant' /\ LoopInv'
  BY <1>1 DEF WindowsInv, CutTypeOK, WindowsFit, NoWindowRedundant, LoopInv
<1>5. QED
  BY <1>2, <1>3, <1>4 DEF WindowsInv

\* One iteration: the new window starts after every earlier one and ends after
\* them, and sees the phrases they could not.
LEMMA CutKeeps == WindowsInv /\ Cut => WindowsInv'
<1> SUFFICES ASSUME WindowsInv, Cut PROVE WindowsInv'
  OBVIOUS
<1> DEFINE new == [from |-> start, to |-> EndOf(start)]
<1>1. /\ len' = len /\ width' = width /\ overlap' = overlap
      /\ windows' = windows \cup {new}
      /\ ~done /\ len > width /\ start < len
      /\ IF EndOf(start) = len THEN done' = TRUE /\ start' = start
                               ELSE start' = start + Stride /\ done' = done
  BY DEF Cut
<1>2. /\ len \in Nat /\ width \in Nat \ {0} /\ start \in Nat /\ overlap \in Nat
      /\ windows \subseteq [from : Nat, to : Nat] /\ done \in BOOLEAN
  BY DEF WindowsInv, CutTypeOK
<1>3. /\ Stride \in 1 .. width /\ Stride + PhraseBound = width + 1
      /\ PhraseBound \in Nat /\ LastEnd \in Int
  BY <1>2, StrideBounds DEF WindowsInv, PhraseBound, LastEnd
<1>4. EndOf(start) \in Nat /\ EndOf(start) <= len /\ start <= EndOf(start)
      /\ EndOf(start) <= start + width
      /\ (EndOf(start) # len => EndOf(start) = start + width)
  BY <1>1, <1>2 DEF EndOf
<1>5. CutTypeOK'
  <2>1. new \in [from : Nat, to : Nat]
    BY <1>2, <1>4
  <2>2. windows' \subseteq [from : Nat, to : Nat]
    BY <1>1, <1>2, <2>1
  <2>3. start' \in Nat
    BY <1>1, <1>2, <1>3
  <2>4. done' \in BOOLEAN
    BY <1>1, <1>2
  <2>5. QED
    BY <1>1, <1>2, <2>2, <2>3, <2>4 DEF CutTypeOK
<1>6. WindowsFit'
  <2>1. \A w \in windows : w.from <= w.to /\ w.to <= len /\ w.to - w.from <= width
    BY DEF WindowsInv, WindowsFit
  <2>2. new.from <= new.to /\ new.to <= len /\ new.to - new.from <= width
    BY <1>2, <1>4
  <2>3. QED
    BY <1>1, <2>1, <2>2 DEF WindowsFit
<1>7. \A w \in windows : w.from < start /\ w.to < EndOf(start)
  <2> SUFFICES ASSUME NEW w \in windows PROVE w.from < start /\ w.to < EndOf(start)
    OBVIOUS
  <2>1. /\ w.from <= start - Stride /\ w.to = w.from + width
        /\ LastEnd < len /\ w.from \in Nat
    BY <1>1, <1>2 DEF WindowsInv, LoopInv
  <2>2. w.to <= LastEnd
    BY <1>2, <1>3, <2>1 DEF LastEnd
  <2>3. LastEnd < EndOf(start)
    BY <1>2, <1>3, <1>4, <2>1 DEF LastEnd
  <2>4. QED
    BY <1>2, <1>3, <1>4, <2>1, <2>2, <2>3
<1>8. NoWindowRedundant'
  <2>1. \A v, w \in windows : v.from <= w.from /\ w.to <= v.to => v = w
    BY DEF WindowsInv, NoWindowRedundant
  <2>2. \A w \in windows : ~(new.from <= w.from) /\ ~(new.to <= w.to)
    BY <1>2, <1>4, <1>7
  <2>3. QED
    BY <1>1, <2>1, <2>2 DEF NoWindowRedundant
<1>9. \A from, to \in 0 .. EndOf(start) :
        from <= to /\ to - from <= PhraseBound => SeenWhole(from, to)'
  <2> SUFFICES ASSUME NEW from \in 0 .. EndOf(start), NEW to \in 0 .. EndOf(start),
                      from <= to, to - from <= PhraseBound
               PROVE  SeenWhole(from, to)'
    OBVIOUS
  <2>0. from \in Nat /\ to \in Nat /\ to <= EndOf(start)
    BY <1>4
  <2>1. CASE start = 0 /\ windows = {}
    <3>1. new.from <= from /\ to <= new.to
      BY <2>0, <2>1
    <3>2. QED
      BY <1>1, <3>1 DEF SeenWhole
  <2>2. CASE ~(start = 0 /\ windows = {}) /\ to <= LastEnd
    <3>1. from \in 0 .. LastEnd /\ to \in 0 .. LastEnd
      BY <1>3, <2>0, <2>2
    <3>2. SeenWhole(from, to)
      BY <1>1, <2>2, <3>1 DEF WindowsInv, LoopInv
    <3>3. QED
      BY <1>1, <3>2 DEF SeenWhole
  <2>3. CASE LastEnd < to
    <3>1. new.from <= from /\ to <= new.to
      BY <2>0, <2>3, NextWindowSees DEF WindowsInv
    <3>2. QED
      BY <1>1, <3>1 DEF SeenWhole
  <2>4. QED
    BY <1>3, <2>0, <2>1, <2>2, <2>3
<1>10. PhrasesSeenWhole'
  <2>1. CASE EndOf(start) = len
    <3>1. PhraseBound' = PhraseBound
      BY <1>1 DEF PhraseBound
    <3>2. QED
      BY <1>1, <1>9, <2>1, <3>1 DEF PhrasesSeenWhole
  <2>2. CASE EndOf(start) # len
    BY <1>1, <2>2 DEF PhrasesSeenWhole
  <2>3. QED
    BY <2>1, <2>2
<1>11. LoopInv'
  <2>1. CASE EndOf(start) = len
    BY <1>1, <2>1 DEF LoopInv
  <2>2. CASE EndOf(start) # len
    <3>1. /\ Stride' = Stride /\ PhraseBound' = PhraseBound
          /\ start' = start + Stride
      BY <1>1, <2>2 DEF Stride, PhraseBound
    <3>2. LastEnd' = EndOf(start) /\ LastEnd' < len'
      BY <1>1, <1>2, <1>3, <1>4, <2>2, <3>1 DEF LastEnd
    <3>3. Stride' <= start'
      BY <1>2, <1>3, <3>1
    <3>4. \A w \in windows' : w.from <= start' - Stride' /\ w.to = w.from + width'
      <4>1. start' - Stride' = start
        BY <1>2, <1>3, <3>1
      <4>2. \A w \in windows : w.from < start /\ w.to = w.from + width /\ w.from \in Nat
        BY <1>1, <1>2, <1>7 DEF WindowsInv, LoopInv
      <4>3. new.from = start /\ new.to = new.from + width
        BY <1>4, <2>2
      <4>4. QED
        BY <1>1, <1>2, <4>1, <4>2, <4>3
    <3>5. QED
      BY <1>1, <1>9, <3>1, <3>2, <3>3, <3>4 DEF LoopInv
  <2>3. QED
    BY <2>1, <2>2
<1>12. QED
  BY <1>5, <1>6, <1>8, <1>10, <1>11 DEF WindowsInv

\* The loop invariant, and with it every invariant of the windowing.
THEOREM WindowingInv == CutSpec => []WindowsInv
<1>1. WindowsInv /\ UNCHANGED cutVars => WindowsInv'
  <2> SUFFICES ASSUME WindowsInv, UNCHANGED cutVars PROVE WindowsInv'
    OBVIOUS
  <2>1. /\ len' = len /\ width' = width /\ overlap' = overlap
        /\ start' = start /\ windows' = windows /\ done' = done
    BY DEF cutVars
  <2>2. Stride' = Stride /\ PhraseBound' = PhraseBound /\ LastEnd' = LastEnd
    BY <2>1 DEF Stride, PhraseBound, LastEnd
  <2>3. \A from, to : SeenWhole(from, to)' <=> SeenWhole(from, to)
    BY <2>1 DEF SeenWhole
  <2>4. LoopInv' /\ PhrasesSeenWhole'
    BY <2>1, <2>2, <2>3 DEF WindowsInv, LoopInv, PhrasesSeenWhole
  <2>5. CutTypeOK' /\ WindowsFit' /\ NoWindowRedundant'
    BY <2>1 DEF WindowsInv, CutTypeOK, WindowsFit, NoWindowRedundant
  <2>6. QED
    BY <2>4, <2>5 DEF WindowsInv
<1>2. WindowsInv /\ [CutNext]_cutVars => WindowsInv'
  BY <1>1, WholeKeeps, CutKeeps DEF CutNext
<1>3. QED
  BY <1>2, InitWindows, PTL DEF CutSpec

\* Whatever the payload, the window size and the overlap, a phrase of up to
\* overlap + 1 bytes is seen whole by at least one window (lib.rs:62-63).
THEOREM WindowingSeesPhrases == CutSpec => []PhrasesSeenWhole
<1>1. WindowsInv => PhrasesSeenWhole
  BY DEF WindowsInv
<1>2. QED
  BY <1>1, WindowingInv, PTL

\* No window is longer than the guard accepts, or reaches past the payload.
THEOREM WindowingFits == CutSpec => []WindowsFit
<1>1. WindowsInv => WindowsFit
  BY DEF WindowsInv
<1>2. QED
  BY <1>1, WindowingInv, PTL

\* No window repeats what another one shows.
THEOREM WindowingNotRedundant == CutSpec => []NoWindowRedundant
<1>1. WindowsInv => NoWindowRedundant
  BY DEF WindowsInv
<1>2. QED
  BY <1>1, WindowingInv, PTL

\* The cursor never runs past the payload: the loop leaves by its break.
THEOREM WindowingLeavesByBreak == CutSpec => []LeavesByBreak
<1>1. WindowsInv => LeavesByBreak
  <2> SUFFICES ASSUME WindowsInv, ~done PROVE len = 0 \/ start < len
    BY DEF LeavesByBreak
  <2>1. /\ len \in Nat /\ width \in Nat /\ start \in Nat
        /\ Stride \in 1 .. width
    BY StrideBounds DEF WindowsInv, CutTypeOK
  <2>2. QED
    BY <2>1 DEF WindowsInv, LoopInv, LastEnd
<1>2. QED
  BY <1>1, WindowingInv, PTL
=============================================================================
