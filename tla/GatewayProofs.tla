--------------------------- MODULE GatewayProofs ---------------------------
(***************************************************************************)
(* Theorems about the gRPC surface, for any requests, session ids, ledger   *)
(* parameters and number of restarts.                                       *)
(***************************************************************************)
EXTENDS Gateway, Sums, TLAPS

RequestsTypeOK ==
  /\ asked \in [Requests -> Sessions \cup {None}]
  /\ valid \in [Requests -> BOOLEAN]
  /\ stage \in [Requests -> {"idle", "guard", "decided", "returned"}]
  /\ session \in [Requests -> Sessions \cup {None}]
  /\ advisory \in [Requests -> Nat]
  /\ verdict \in [Requests -> {"none", "pass", "block", "anomaly"}]
  /\ reply \in [Requests -> {"none", "boundary", "block", "anomaly", "pass", "lost"}]
  /\ arrived \subseteq Requests

\* What is known of a request at each of its steps.
StageOfRequest ==
  \A r \in Requests :
    /\ stage[r] = "idle" => r \notin arrived
    /\ stage[r] # "idle" => session[r] \in Sessions
    /\ stage[r] = "guard" => advisory[r] \in Flags
    /\ stage[r] \in {"guard", "decided"} => r \in arrived /\ valid[r]
    /\ stage[r] \in {"idle", "guard"} => verdict[r] = "none"
    /\ stage[r] = "decided" => verdict[r] # "none"
    /\ stage[r] # "returned" => reply[r] = "none"
    /\ ~valid[r] => verdict[r] = "none" /\ reply[r] \in {"none", "boundary"}

\* The client of r was told the session id it ran under.
Learnt(r) == reply[r] \notin {"none", "lost"}

\* Two requests run under one new session id only if the client that the id was
\* made for has learnt it.
FreshIsGiven ==
  \A r \in Requests :
    asked[r] = None /\ stage[r] # "idle" =>
      /\ session[r] \in Fresh
      /\ \A q \in Requests : session[q] = session[r] /\ q # r => Learnt(r)

\* The ledger has an entry for a new session id only once a request that runs
\* under it is decided.
TrackedWasDecided ==
  \A s \in Fresh \cap DOMAIN sessions :
    \E r \in Requests : session[r] = s /\ stage[r] \in {"decided", "returned"}

IInv ==
  /\ RequestsTypeOK
  /\ StageOfRequest
  /\ FreshIsGiven
  /\ TrackedWasDecided
  /\ AnonymousOnItsOwn

-----------------------------------------------------------------------------
LEMMA InitInv == Init => IInv
<1> SUFFICES ASSUME Init PROVE IInv
  OBVIOUS
<1>1. RequestsTypeOK
  BY DEF Init, RequestsTypeOK
<1>2. StageOfRequest /\ FreshIsGiven
  BY DEF Init, StageOfRequest, FreshIsGiven
<1>3. TrackedWasDecided
  BY DEF Init, Ledger!Init, TrackedWasDecided
<1>4. AnonymousOnItsOwn
  BY DEF Init, AnonymousOnItsOwn
<1>5. QED
  BY <1>1, <1>2, <1>3, <1>4 DEF IInv

\* The session id resolved for a request is one its client sent or a new one; one
\* that was made for another client has been learnt from it.
LEMMA ResolveGiven ==
  ASSUME IInv, NEW r \in Requests, Resolve(r)
  PROVE  /\ stage[r] = "idle"
         /\ asked' \in [Requests -> Sessions \cup {None}]
         /\ session' \in [Requests -> Sessions \cup {None}]
         /\ session'[r] \in Sessions
         /\ \A q \in Requests : q # r => session'[q] = session[q] /\ asked'[q] = asked[q]
         /\ asked'[r] = None => /\ session'[r] \in Fresh
                                /\ \A q \in Requests : session[q] # session'[r]
         /\ \A q \in Requests :
              q # r /\ asked[q] = None /\ stage[q] # "idle" /\ session[q] = session'[r] => Learnt(q)
<1>1. PICK id \in Sendable : \E s \in SessionIds(id) :
        asked' = [asked EXCEPT ![r] = id] /\ session' = [session EXCEPT ![r] = s]
  BY DEF Resolve
<1>2. PICK s \in SessionIds(id) :
        asked' = [asked EXCEPT ![r] = id] /\ session' = [session EXCEPT ![r] = s]
  BY <1>1
<1>3. /\ stage[r] = "idle"
      /\ session \in [Requests -> Sessions \cup {None}]
      /\ asked \in [Requests -> Sessions \cup {None}]
  BY DEF Resolve, IInv, RequestsTypeOK
<1>4. id = None \/ id \in Named \/ \E p \in Requests : Learnt(p) /\ id = session[p]
  BY DEF Sendable, Told, Learnt
<1>5. \A p \in Requests : Learnt(p) => stage[p] # "idle" /\ session[p] \in Sessions
  BY DEF Learnt, IInv, StageOfRequest
<1>6. IF id = None
      THEN s \in Fresh /\ \A q \in Requests : session[q] # s
      ELSE s = id /\ s \in Sessions
  BY <1>4, <1>5 DEF SessionIds, Sessions
<1>7. s \in Sessions /\ id \in Sessions \cup {None}
  BY <1>6 DEF Sessions
<1>8. ASSUME NEW q \in Requests, q # r, asked[q] = None, stage[q] # "idle", session[q] = s
      PROVE  Learnt(q)
  <2>1. session[q] \in Fresh
        /\ \A p \in Requests : session[p] = session[q] /\ p # q => Learnt(q)
    BY <1>8 DEF IInv, FreshIsGiven
  <2>2. id # None /\ id = s /\ id \notin Named
    BY <1>6, <1>8, <2>1, GatewayAssumption DEF GatewayAssumption
  <2>3. PICK p \in Requests : Learnt(p) /\ s = session[p]
    BY <1>4, <2>2
  <2>4. QED
    BY <1>8, <2>1, <2>3
<1>9. asked'[r] = id /\ session'[r] = s
  BY <1>2, <1>3
<1>10. QED
  BY <1>2, <1>3, <1>6, <1>7, <1>8, <1>9

\* A step of one request leaves the others as they are.
OnlyOf(r) ==
  /\ valid' = valid
  /\ \A q \in Requests : q # r =>
       /\ asked'[q] = asked[q] /\ session'[q] = session[q] /\ stage'[q] = stage[q]
       /\ advisory'[q] = advisory[q] /\ verdict'[q] = verdict[q] /\ reply'[q] = reply[q]
       /\ q \in arrived' <=> q \in arrived

\* Steps of a request that leave the ledger alone and decide no turn.
LEMMA RequestStepInv ==
  ASSUME IInv, RequestsTypeOK', StageOfRequest', FreshIsGiven', sessions' = sessions,
         NEW r \in Requests, OnlyOf(r),
         stage[r] \in {"decided", "returned"} =>
           session'[r] = session[r] /\ stage'[r] \in {"decided", "returned"},
         \/ verdict'[r] \notin {"pass", "anomaly"}
         \/ verdict'[r] = verdict[r] /\ advisory'[r] = advisory[r] /\ asked'[r] = asked[r]
  PROVE  IInv'
<1>1. TrackedWasDecided'
  <2> SUFFICES ASSUME NEW s \in Fresh \cap DOMAIN sessions'
               PROVE  \E q \in Requests : session'[q] = s /\ stage'[q] \in {"decided", "returned"}
    BY DEF TrackedWasDecided
  <2>1. PICK q \in Requests : session[q] = s /\ stage[q] \in {"decided", "returned"}
    BY DEF IInv, TrackedWasDecided
  <2>2. session'[q] = s /\ stage'[q] \in {"decided", "returned"}
    BY <2>1 DEF OnlyOf
  <2>3. QED
    BY <2>2
<1>2. AnonymousOnItsOwn'
  <2>1. ASSUME NEW q \in Requests, asked'[q] = None, verdict'[q] \in {"pass", "anomaly"}
        PROVE  asked[q] = None /\ verdict[q] = verdict'[q] /\ advisory[q] = advisory'[q]
    BY <2>1 DEF OnlyOf
  <2>2. QED
    BY <2>1 DEF IInv, AnonymousOnItsOwn, Ledger!Blocks
<1>3. QED
  BY <1>1, <1>2 DEF IInv

\* Reject, ChallengeRefuses and Challenge.
LEMMA ArrivalShape ==
  ASSUME IInv, NEW r \in Requests,
         \/ Reject(r) \/ ChallengeRefuses(r)
         \/ \E flags \in Flags : Challenge(r, flags)
  PROVE  /\ Resolve(r) /\ OnlyOf(r) /\ UNCHANGED ledgerVars /\ counted' = counted
         /\ RequestsTypeOK' /\ StageOfRequest'
         /\ verdict'[r] \in {"none", "block"} /\ reply'[r] \in {"none", "boundary"}
         /\ stage'[r] # "idle"
         /\ arrived' = arrived \cup {r} /\ r \notin arrived
<1>1. Resolve(r) /\ UNCHANGED ledgerVars /\ stage[r] = "idle"
      /\ arrived' = arrived \cup {r} /\ valid' = valid /\ counted' = counted
  BY DEF Reject, ChallengeRefuses, Challenge, Resolve
<1>2. /\ asked' \in [Requests -> Sessions \cup {None}]
      /\ session' \in [Requests -> Sessions \cup {None}]
      /\ session'[r] \in Sessions
      /\ \A q \in Requests : q # r => session'[q] = session[q] /\ asked'[q] = asked[q]
  BY <1>1, ResolveGiven
<1>3. \/ /\ stage' = [stage EXCEPT ![r] = "returned"]
         /\ reply' = [reply EXCEPT ![r] = "boundary"]
         /\ verdict' = verdict /\ advisory' = advisory /\ ~valid[r]
      \/ /\ stage' = [stage EXCEPT ![r] = "decided"]
         /\ verdict' = [verdict EXCEPT ![r] = "block"]
         /\ reply' = reply /\ advisory' = advisory /\ valid[r]
      \/ \E flags \in Flags :
           /\ stage' = [stage EXCEPT ![r] = "guard"]
           /\ advisory' = [advisory EXCEPT ![r] = flags]
           /\ reply' = reply /\ verdict' = verdict /\ valid[r]
  BY DEF Reject, ChallengeRefuses, Challenge, Answer, Decided
<1>4. Flags \subseteq Nat
  BY GatewayAssumption DEF GatewayAssumption, Flags
<1>5. r \notin arrived /\ verdict[r] = "none" /\ reply[r] = "none"
  BY <1>1 DEF IInv, StageOfRequest
<1>6. RequestsTypeOK'
  BY <1>1, <1>2, <1>3, <1>4 DEF IInv, RequestsTypeOK
<1>7. OnlyOf(r)
  BY <1>1, <1>2, <1>3 DEF IInv, RequestsTypeOK, OnlyOf
<1>8. /\ verdict'[r] \in {"none", "block"} /\ reply'[r] \in {"none", "boundary"}
      /\ stage'[r] # "idle"
  BY <1>3, <1>5 DEF IInv, RequestsTypeOK
<1>9. StageOfRequest'
  <2>1. \/ /\ stage'[r] = "returned" /\ reply'[r] = "boundary"
           /\ verdict'[r] = "none" /\ ~valid'[r]
        \/ /\ stage'[r] = "decided" /\ reply'[r] = "none"
           /\ verdict'[r] = "block" /\ valid'[r]
        \/ /\ stage'[r] = "guard" /\ reply'[r] = "none" /\ advisory'[r] \in Flags
           /\ verdict'[r] = "none" /\ valid'[r]
    BY <1>1, <1>3, <1>5 DEF IInv, RequestsTypeOK
  <2>2. QED
    BY <1>1, <1>2, <1>7, <2>1 DEF IInv, StageOfRequest, OnlyOf
<1>10. QED
  BY <1>1, <1>5, <1>6, <1>7, <1>8, <1>9

LEMMA ArrivalInv ==
  ASSUME IInv, NEW r \in Requests,
         \/ Reject(r) \/ ChallengeRefuses(r)
         \/ \E flags \in Flags : Challenge(r, flags)
  PROVE  IInv'
<1>1. /\ Resolve(r) /\ OnlyOf(r) /\ sessions' = sessions
      /\ RequestsTypeOK' /\ StageOfRequest'
      /\ verdict'[r] \notin {"pass", "anomaly"} /\ stage'[r] # "idle"
  BY ArrivalShape DEF ledgerVars
<1>2. /\ stage[r] = "idle"
      /\ asked'[r] = None => /\ session'[r] \in Fresh
                             /\ \A q \in Requests : session[q] # session'[r]
      /\ \A q \in Requests :
           q # r /\ asked[q] = None /\ stage[q] # "idle" /\ session[q] = session'[r] => Learnt(q)
  BY <1>1, ResolveGiven
<1>3. FreshIsGiven'
  <2> SUFFICES ASSUME NEW p \in Requests, asked'[p] = None, stage'[p] # "idle"
               PROVE  /\ session'[p] \in Fresh
                      /\ \A q \in Requests : session'[q] = session'[p] /\ q # p => Learnt(p)'
    BY DEF FreshIsGiven
  <2>1. CASE p = r
    BY <1>1, <1>2, <2>1 DEF OnlyOf
  <2>2. CASE p # r
    <3>1. asked[p] = None /\ stage[p] # "idle" /\ session'[p] = session[p]
          /\ (Learnt(p) => Learnt(p)')
      BY <1>1, <2>2 DEF OnlyOf, Learnt
    <3>2. session[p] \in Fresh
          /\ \A q \in Requests : session[q] = session[p] /\ q # p => Learnt(p)
      BY <3>1 DEF IInv, FreshIsGiven
    <3>3. QED
      BY <1>1, <1>2, <2>2, <3>1, <3>2 DEF OnlyOf
  <2>3. QED
    BY <2>1, <2>2
<1>4. QED
  BY <1>1, <1>2, <1>3, RequestStepInv

\* GuardRefuses, Disconnect and Finish.
LEMMA AfterGuardShape ==
  ASSUME IInv, NEW r \in Requests, GuardRefuses(r) \/ Disconnect(r) \/ Finish(r)
  PROVE  /\ OnlyOf(r) /\ UNCHANGED ledgerVars
         /\ RequestsTypeOK' /\ StageOfRequest'
         /\ stage[r] \in {"guard", "decided"} /\ stage'[r] \in {"decided", "returned"}
         /\ session' = session /\ asked' = asked /\ advisory' = advisory /\ arrived' = arrived
         /\ verdict' = verdict \/ (verdict'[r] = "block" /\ stage[r] = "guard")
         /\ reply[r] = "none"
<1>1. /\ UNCHANGED <<asked, valid, session, advisory, arrived, ledgerVars>>
      /\ \/ /\ stage[r] = "guard"
            /\ stage' = [stage EXCEPT ![r] = "decided"]
            /\ verdict' = [verdict EXCEPT ![r] = "block"] /\ reply' = reply
         \/ /\ stage[r] = "guard"
            /\ stage' = [stage EXCEPT ![r] = "returned"]
            /\ reply' = [reply EXCEPT ![r] = "lost"] /\ verdict' = verdict
         \/ /\ stage[r] = "decided"
            /\ stage' = [stage EXCEPT ![r] = "returned"]
            /\ reply' = [reply EXCEPT ![r] = verdict[r]] /\ verdict' = verdict
  BY DEF GuardRefuses, Disconnect, Finish, Answer, Decided
<1>2. /\ valid[r] /\ r \in arrived /\ session[r] \in Sessions
      /\ stage[r] = "decided" => verdict[r] \in {"pass", "block", "anomaly"}
      /\ reply[r] = "none"
  BY <1>1 DEF IInv, StageOfRequest, RequestsTypeOK
<1>3. RequestsTypeOK'
  BY <1>1, <1>2 DEF IInv, RequestsTypeOK
<1>4. OnlyOf(r)
  BY <1>1 DEF IInv, RequestsTypeOK, OnlyOf
<1>5. StageOfRequest'
  <2>1. \/ stage'[r] = "decided" /\ verdict'[r] = "block" /\ reply'[r] = "none"
        \/ stage'[r] = "returned"
    BY <1>1, <1>2 DEF IInv, RequestsTypeOK
  <2>2. QED
    BY <1>1, <1>2, <1>4, <2>1 DEF IInv, StageOfRequest, OnlyOf
<1>6. QED
  BY <1>1, <1>2, <1>3, <1>4, <1>5 DEF IInv, RequestsTypeOK

\* Whoever has learnt an id keeps knowing it, and nobody is given another one.
LEMMA GivenStays ==
  ASSUME IInv, NEW r \in Requests, OnlyOf(r),
         session' = session, asked' = asked, stage[r] # "idle", reply[r] = "none"
  PROVE  FreshIsGiven'
<1>1. \A p \in Requests : (stage'[p] # "idle" => stage[p] # "idle") /\ (Learnt(p) => Learnt(p)')
  BY DEF OnlyOf, Learnt
<1>2. QED
  BY <1>1 DEF IInv, FreshIsGiven

LEMMA AfterGuardInv ==
  ASSUME IInv, NEW r \in Requests, GuardRefuses(r) \/ Disconnect(r) \/ Finish(r)
  PROVE  IInv'
<1>1. /\ OnlyOf(r) /\ sessions' = sessions
      /\ RequestsTypeOK' /\ StageOfRequest'
      /\ stage[r] \in {"guard", "decided"} /\ stage'[r] \in {"decided", "returned"}
      /\ session' = session /\ asked' = asked /\ advisory' = advisory
      /\ verdict' = verdict \/ verdict'[r] = "block"
      /\ reply[r] = "none"
  BY AfterGuardShape DEF ledgerVars
<1>2. FreshIsGiven'
  BY <1>1, GivenStays
<1>3. QED
  BY <1>1, <1>2, RequestStepInv

\* A session the ledger does not track is judged by this turn's flags alone.
LEMMA FreshJudgement ==
  ASSUME NEW id, id \notin DOMAIN sessions, NEW flags \in Nat
  PROVE  Ledger!WouldBlock(id, flags) <=> Ledger!Blocks(FlagWeight * flags)
<1>1. DecayDen \in Nat \ {0} /\ DecayNum \in Nat /\ FlagWeight \in Nat
  BY LedgerParameters DEF LedgerParameters, Ledger!ScoringAssumption
<1>2. Ledger!Decay(0) = 0
  BY <1>1 DEF Ledger!Decay
<1>3. Ledger!Entry(id).score = 0 /\ Ledger!Entry(id).tainted = FALSE
  BY DEF Ledger!Entry, Ledger!Tracked
<1>4. Ledger!Scored(0, FALSE, flags) = FlagWeight * flags
  BY <1>1, <1>2 DEF Ledger!Scored, Ledger!Faded
<1>5. QED
  BY <1>3, <1>4 DEF Ledger!WouldBlock, Ledger!Recorded

\* A turn is recorded and decided in one step.
LEMMA TurnShape ==
  ASSUME IInv, NEW r \in Requests, NEW flags \in Flags, GuardPasses(r, flags)
  PROVE  LET total == advisory[r] + flags IN
         /\ stage[r] = "guard" /\ stage'[r] = "decided"
         /\ Ledger!Record(session[r], total) /\ total \in Nat
         /\ session[r] \in Sessions /\ valid[r] /\ r \in arrived /\ reply[r] = "none"
         /\ OnlyOf(r) /\ RequestsTypeOK' /\ StageOfRequest'
         /\ session' = session /\ asked' = asked /\ arrived' = arrived /\ reply' = reply
         /\ counted' = counted
         /\ advisory'[r] = total
         /\ verdict[r] = "none"
         /\ verdict'[r] = IF Ledger!WouldBlock(session[r], total) THEN "anomaly" ELSE "pass"
<1> DEFINE total == advisory[r] + flags
           o == IF Ledger!WouldBlock(session[r], total) THEN "anomaly" ELSE "pass"
<1>1. /\ stage[r] = "guard" /\ stage' = [stage EXCEPT ![r] = "decided"]
      /\ verdict' = [verdict EXCEPT ![r] = o]
      /\ advisory' = [advisory EXCEPT ![r] = total]
      /\ UNCHANGED <<asked, valid, session, reply, counted, arrived>>
      /\ Ledger!Record(session[r], total)
  BY DEF GuardPasses, Decided
<1>2. total \in Nat
  BY GatewayAssumption DEF GatewayAssumption, Flags, IInv, RequestsTypeOK
<1>3. o \in {"anomaly", "pass"}
  OBVIOUS
<1>4. valid[r] /\ session[r] \in Sessions /\ r \in arrived /\ reply[r] = "none" /\ verdict[r] = "none"
  BY <1>1 DEF IInv, StageOfRequest
<1> HIDE DEF total, o
<1>5. /\ RequestsTypeOK' /\ OnlyOf(r)
      /\ stage'[r] = "decided" /\ verdict'[r] = o /\ advisory'[r] = total
  BY <1>1, <1>2, <1>3 DEF IInv, RequestsTypeOK, OnlyOf
<1>6. StageOfRequest'
  BY <1>1, <1>3, <1>4, <1>5 DEF IInv, StageOfRequest, OnlyOf
<1>7. QED
  BY <1>1, <1>2, <1>4, <1>5, <1>6 DEF total, o

LEMMA GuardPassesInv ==
  ASSUME IInv, NEW r \in Requests, NEW flags \in Flags, GuardPasses(r, flags)
  PROVE  IInv'
<1> DEFINE total == advisory[r] + flags
<1>1. /\ stage[r] = "guard" /\ stage'[r] = "decided"
      /\ Ledger!Record(session[r], total) /\ total \in Nat
      /\ session[r] \in Sessions /\ reply[r] = "none"
      /\ OnlyOf(r) /\ RequestsTypeOK' /\ StageOfRequest'
      /\ session' = session /\ asked' = asked
      /\ advisory'[r] = total
      /\ verdict'[r] = IF Ledger!WouldBlock(session[r], total) THEN "anomaly" ELSE "pass"
  BY TurnShape
<1> HIDE DEF total
<1>2. FreshIsGiven'
  BY <1>1, GivenStays
<1>3. TrackedWasDecided'
  <2>1. DOMAIN sessions' \subseteq DOMAIN sessions \cup {session[r]}
    BY <1>1 DEF Ledger!Record, Ledger!Tracked
  <2>2. \A q \in Requests :
          stage[q] \in {"decided", "returned"} => stage'[q] \in {"decided", "returned"}
    BY <1>1 DEF OnlyOf
  <2>3. QED
    BY <1>1, <2>1, <2>2 DEF IInv, TrackedWasDecided
<1>4. AnonymousOnItsOwn'
  <2>1. ASSUME asked[r] = None
        PROVE  verdict'[r] = "anomaly" <=> Ledger!Blocks(FlagWeight * total)
    <3>1. /\ session[r] \in Fresh
          /\ \A q \in Requests : session[q] = session[r] /\ q # r => Learnt(r)
      BY <1>1, <2>1 DEF IInv, FreshIsGiven
    <3>2. \A q \in Requests : session[q] = session[r] => q = r
      BY <1>1, <3>1 DEF Learnt
    <3>3. session[r] \notin DOMAIN sessions
      BY <1>1, <3>1, <3>2 DEF IInv, TrackedWasDecided
    <3>4. Ledger!WouldBlock(session[r], total) <=> Ledger!Blocks(FlagWeight * total)
      BY <1>1, <3>3, FreshJudgement
    <3>5. QED
      BY <1>1, <3>4
  <2>2. QED
    BY <1>1, <2>1 DEF IInv, AnonymousOnItsOwn, Ledger!Blocks, OnlyOf
<1>5. QED
  BY <1>1, <1>2, <1>3, <1>4 DEF IInv

LEMMA RestartInv == IInv /\ Restart => IInv'
<1> SUFFICES ASSUME IInv, Restart PROVE IInv'
  OBVIOUS
<1>1. /\ UNCHANGED <<asked, valid, session, advisory, verdict>>
      /\ arrived' = {} /\ DOMAIN sessions' = {}
      /\ \A r \in Requests :
           IF stage[r] \in {"guard", "decided"}
           THEN stage'[r] = "returned" /\ reply'[r] = "lost"
           ELSE stage'[r] = stage[r] /\ reply'[r] = reply[r]
      /\ stage' = [r \in Requests |-> stage'[r]] /\ reply' = [r \in Requests |-> reply'[r]]
  BY DEF Restart, RequestsCutOff, LedgerEmptied
<1>2. RequestsTypeOK'
  BY <1>1 DEF IInv, RequestsTypeOK
<1>3. StageOfRequest'
  BY <1>1 DEF IInv, RequestsTypeOK, StageOfRequest
<1>4. FreshIsGiven'
  <2>1. \A p \in Requests : (stage'[p] # "idle" => stage[p] # "idle") /\ (Learnt(p) => Learnt(p)')
    BY <1>1 DEF IInv, StageOfRequest, Learnt
  <2>2. QED
    BY <1>1, <2>1 DEF IInv, FreshIsGiven
<1>5. TrackedWasDecided'
  BY <1>1 DEF TrackedWasDecided
<1>6. AnonymousOnItsOwn'
  BY <1>1 DEF IInv, AnonymousOnItsOwn, Ledger!Blocks
<1>7. QED
  BY <1>2, <1>3, <1>4, <1>5, <1>6 DEF IInv

LEMMA StutterInv == IInv /\ UNCHANGED vars => IInv'
<1> SUFFICES ASSUME IInv, UNCHANGED vars PROVE IInv'
  OBVIOUS
<1>1. UNCHANGED <<asked, valid, stage, session, advisory, verdict, reply, arrived, sessions>>
  BY DEF vars, ledgerVars, requestVars
<1>2. RequestsTypeOK' /\ StageOfRequest'
  BY <1>1 DEF IInv, RequestsTypeOK, StageOfRequest
<1>3. FreshIsGiven' /\ TrackedWasDecided'
  BY <1>1 DEF IInv, FreshIsGiven, TrackedWasDecided, Learnt
<1>4. AnonymousOnItsOwn'
  BY <1>1 DEF IInv, AnonymousOnItsOwn, Ledger!Blocks
<1>5. QED
  BY <1>2, <1>3, <1>4 DEF IInv

LEMMA NextInv == IInv /\ [Next]_vars => IInv'
<1> SUFFICES ASSUME IInv, [Next]_vars PROVE IInv'
  OBVIOUS
<1>1. CASE \E r \in Requests :
             \/ Reject(r) \/ ChallengeRefuses(r)
             \/ \E flags \in Flags : Challenge(r, flags)
  BY <1>1, ArrivalInv
<1>2. CASE \E r \in Requests : GuardRefuses(r) \/ Disconnect(r) \/ Finish(r)
  BY <1>2, AfterGuardInv
<1>3. CASE \E r \in Requests, flags \in Flags : GuardPasses(r, flags)
  BY <1>3, GuardPassesInv
<1>4. CASE Restart
  BY <1>4, RestartInv
<1>5. CASE UNCHANGED vars
  BY <1>5, StutterInv
<1>6. QED
  BY <1>1, <1>2, <1>3, <1>4, <1>5 DEF Next

LEMMA Invariance == Spec => []IInv
<1>1. Init => IInv
  BY InitInv
<1>2. IInv /\ [Next]_vars => IInv'
  BY NextInv
<1>3. QED
  BY <1>1, <1>2, PTL DEF Spec

\* A request whose direction is not understood is never answered with a pass and
\* never becomes a turn of the ledger.
THEOREM GatewayFailsClosed == Spec => []MalformedFailsClosed
<1>1. IInv => MalformedFailsClosed
  BY DEF IInv, StageOfRequest, MalformedFailsClosed, Turns
<1>2. QED
  BY <1>1, Invariance, PTL

\* However many requests overlap, are blocked or evict one another, and whoever
\* sends the ids that others were given, a request without a usable session id is
\* judged by its own flags.
THEOREM GatewayJudgesAnonymousAlone == Spec => []AnonymousOnItsOwn
<1>1. IInv => AnonymousOnItsOwn
  BY DEF IInv
<1>2. QED
  BY <1>1, Invariance, PTL

-----------------------------------------------------------------------------
(* The decision counter. *)

Sent(answers) == {r \in arrived : reply[r] \in answers}

\* Every answer that was sent has been counted, by its verdict.
Counting ==
  /\ counted \in [pass : Nat, block : Nat]
  /\ counted.pass = Cardinality(Sent({"pass"}))
  /\ counted.block = Cardinality(Sent({"block", "anomaly"}))

\* An answer adds its request to the set of its verdict and to no other one.
LEMMA SentOnce ==
  ASSUME IInv, NEW r \in Requests, stage[r] = "decided", NEW answers, "none" \notin answers,
         reply' = [reply EXCEPT ![r] = verdict[r]], arrived' = arrived
  PROVE  Cardinality(Sent(answers)') =
           IF verdict[r] \in answers
           THEN Cardinality(Sent(answers)) + 1 ELSE Cardinality(Sent(answers))
<1>1. r \in arrived /\ reply[r] = "none"
  BY DEF IInv, StageOfRequest
<1>2. reply'[r] = verdict[r] /\ \A q \in Requests : q # r => reply'[q] = reply[q]
  BY DEF IInv, RequestsTypeOK
<1>3. arrived \subseteq Requests
  BY DEF IInv, RequestsTypeOK
<1>4. Sent(answers)' = IF verdict[r] \in answers THEN Sent(answers) \cup {r} ELSE Sent(answers)
  BY <1>1, <1>2, <1>3 DEF Sent
<1>5. r \notin Sent(answers) /\ IsFiniteSet(Sent(answers))
  <2>1. Sent(answers) \in SUBSET Requests
    BY <1>3 DEF Sent
  <2>2. QED
    BY <1>1, <2>1, FS_Subset, GatewayAssumption DEF GatewayAssumption, Sent
<1>6. QED
  BY <1>4, <1>5, FS_AddElement

LEMMA FinishKeepsCounting ==
  ASSUME IInv, Counting, NEW r \in Requests, Finish(r)
  PROVE  Counting'
<1>1. /\ stage[r] = "decided" /\ arrived' = arrived
      /\ reply' = [reply EXCEPT ![r] = verdict[r]]
      /\ counted' = IF verdict[r] = "pass"
                    THEN [counted EXCEPT !.pass = @ + 1] ELSE [counted EXCEPT !.block = @ + 1]
  BY DEF Finish, Answer, Count
<1>2. verdict[r] \in {"pass", "block", "anomaly"}
  BY <1>1 DEF IInv, StageOfRequest, RequestsTypeOK
<1>3. Cardinality(Sent({"pass"})') = IF verdict[r] = "pass" THEN counted.pass + 1 ELSE counted.pass
  <2>1. Cardinality(Sent({"pass"})') =
          IF verdict[r] \in {"pass"}
          THEN Cardinality(Sent({"pass"})) + 1 ELSE Cardinality(Sent({"pass"}))
    BY <1>1, SentOnce
  <2>2. QED
    BY <2>1 DEF Counting
<1>4. Cardinality(Sent({"block", "anomaly"})') =
        IF verdict[r] = "pass" THEN counted.block ELSE counted.block + 1
  <2>1. Cardinality(Sent({"block", "anomaly"})') =
          IF verdict[r] \in {"block", "anomaly"}
          THEN Cardinality(Sent({"block", "anomaly"})) + 1 ELSE Cardinality(Sent({"block", "anomaly"}))
    BY <1>1, SentOnce
  <2>2. QED
    BY <1>2, <2>1 DEF Counting
<1>5. /\ counted' \in [pass : Nat, block : Nat]
      /\ counted'.pass = IF verdict[r] = "pass" THEN counted.pass + 1 ELSE counted.pass
      /\ counted'.block = IF verdict[r] = "pass" THEN counted.block ELSE counted.block + 1
  BY <1>1 DEF Counting
<1>6. QED
  BY <1>3, <1>4, <1>5 DEF Counting

\* Steps that send no answer of the pipeline move neither side.
LEMMA SilenceKeepsCounting ==
  ASSUME Counting, counted' = counted,
         \A answers \in {{"pass"}, {"block", "anomaly"}} : Sent(answers)' = Sent(answers)
  PROVE  Counting'
<1>1. Sent({"pass"})' = Sent({"pass"}) /\ Sent({"block", "anomaly"})' = Sent({"block", "anomaly"})
  OBVIOUS
<1>2. QED
  BY <1>1 DEF Counting

LEMMA NextCounting == IInv /\ Counting /\ [Next]_vars => Counting'
<1> SUFFICES ASSUME IInv, Counting, [Next]_vars PROVE Counting'
  OBVIOUS
<1>1. CASE \E r \in Requests : Finish(r)
  BY <1>1, FinishKeepsCounting
<1>2. ASSUME NEW r \in Requests,
             \/ Reject(r) \/ ChallengeRefuses(r)
             \/ \E flags \in Flags : Challenge(r, flags)
      PROVE  Counting'
  <2>1. /\ OnlyOf(r) /\ counted' = counted
        /\ reply'[r] \in {"none", "boundary"}
        /\ arrived' = arrived \cup {r} /\ r \notin arrived
    BY <1>2, ArrivalShape
  <2>2. arrived \subseteq Requests
    BY DEF IInv, RequestsTypeOK
  <2>3. \A answers \in {{"pass"}, {"block", "anomaly"}} : Sent(answers)' = Sent(answers)
    BY <2>1, <2>2 DEF OnlyOf, Sent
  <2>4. QED
    BY <2>1, <2>3, SilenceKeepsCounting
<1>3. ASSUME NEW r \in Requests,
             \/ GuardRefuses(r) \/ Disconnect(r)
             \/ \E flags \in Flags : GuardPasses(r, flags)
      PROVE  Counting'
  <2>1. /\ stage[r] = "guard" /\ arrived' = arrived /\ counted' = counted
        /\ reply' = reply \/ reply' = [reply EXCEPT ![r] = "lost"]
    BY <1>3 DEF GuardRefuses, Disconnect, GuardPasses, Answer
  <2>2. arrived \subseteq Requests /\ reply[r] = "none"
    BY <2>1 DEF IInv, RequestsTypeOK, StageOfRequest
  <2>3. \A q \in Requests : reply'[q] = reply[q] \/ (q = r /\ reply'[q] = "lost")
    BY <2>1 DEF IInv, RequestsTypeOK
  <2>4. \A answers \in {{"pass"}, {"block", "anomaly"}} : Sent(answers)' = Sent(answers)
    BY <2>1, <2>2, <2>3 DEF Sent
  <2>5. QED
    BY <2>1, <2>4, SilenceKeepsCounting
<1>4. CASE Restart
  <2>1. counted' = [pass |-> 0, block |-> 0] /\ arrived' = {}
    BY <1>4 DEF Restart, RequestsCutOff, NothingCounted
  <2>2. \A answers : Sent(answers)' = {}
    BY <2>1 DEF Sent
  <2>3. QED
    BY <2>1, <2>2, FS_EmptySet DEF Counting
<1>5. CASE UNCHANGED vars
  BY <1>5, SilenceKeepsCounting DEF vars, requestVars, Sent
<1>6. QED
  BY <1>1, <1>2, <1>3, <1>4, <1>5 DEF Next

\* However many requests overlap, are dropped or are cut off by a restart, every
\* answer of the pipeline that was sent is counted once, by its verdict, and
\* nothing else is; the boundary's own blocks are sent and not counted.
THEOREM GatewayCounterAgrees == Spec => []CounterAgrees
<1>1. Init => Counting
  <2>1. ASSUME Init PROVE Counting
    <3>1. counted = [pass |-> 0, block |-> 0] /\ arrived = {}
      BY <2>1 DEF Init, NothingCounted
    <3>2. \A answers : Sent(answers) = {}
      BY <3>1 DEF Sent
    <3>3. QED
      BY <3>1, <3>2, FS_EmptySet DEF Counting
  <2>2. QED
    BY <2>1
<1>2. Counting => CounterAgrees
  BY DEF Counting, CounterAgrees, Sent
<1>3. QED
  BY <1>1, <1>2, NextCounting, Invariance, PTL DEF Spec

-----------------------------------------------------------------------------
(* What the ledger is charged.                                              *)

TurnsOf(s) == {r \in Turns : session[r] = s}

\* Since the process started, every turn has been charged once.
Charging ==
  /\ raised \in [Sessions -> Nat]
  /\ tick = Cardinality(Turns)
  /\ \A s \in Sessions : raised[s] = Total(advisory, TurnsOf(s))

LEMMA TurnsFinite ==
  ASSUME IInv
  PROVE  /\ Turns \subseteq Requests /\ IsFiniteSet(Turns)
         /\ \A S \in SUBSET Turns : IsFiniteSet(S)
         /\ \A s : TurnsOf(s) \in SUBSET Turns
<1>1. Turns \in SUBSET Requests /\ \A s : TurnsOf(s) \in SUBSET Turns
  BY DEF IInv, RequestsTypeOK, Turns, TurnsOf
<1>2. \A S \in SUBSET Requests : IsFiniteSet(S)
  BY FS_Subset, GatewayAssumption DEF GatewayAssumption
<1>3. QED
  BY <1>1, <1>2

\* The step that decides a turn adds that turn and no other one.
LEMMA TurnAdded ==
  ASSUME IInv, NEW r \in Requests, NEW flags \in Flags, GuardPasses(r, flags)
  PROVE  /\ Turns' = Turns \cup {r} /\ r \notin Turns
         /\ session' = session
         /\ \A q \in Turns : advisory'[q] = advisory[q] /\ verdict'[q] = verdict[q]
         /\ \A q \in Turns \cup {r} : advisory'[q] \in Nat
<1>1. /\ r \in arrived /\ OnlyOf(r) /\ RequestsTypeOK' /\ session' = session /\ arrived' = arrived
      /\ verdict[r] = "none" /\ verdict'[r] \in {"pass", "anomaly"}
  BY TurnShape
<1>2. arrived \subseteq Requests
  BY DEF IInv, RequestsTypeOK
<1>3. Turns' = Turns \cup {r} /\ r \notin Turns
  BY <1>1, <1>2 DEF Turns, OnlyOf
<1>4. \A q \in Turns : q \in Requests /\ q # r
  BY <1>2, <1>3 DEF Turns
<1>5. QED
  BY <1>1, <1>3, <1>4 DEF OnlyOf, RequestsTypeOK

\* A turn is charged to its session, together with the decision it gets.
LEMMA TurnIsCharged ==
  ASSUME IInv, Charging, NEW r \in Requests, NEW flags \in Flags, GuardPasses(r, flags)
  PROVE  Charging'
<1> DEFINE total == advisory[r] + flags
           id == session[r]
<1>1. /\ Ledger!Record(id, total) /\ total \in Nat /\ id \in Sessions /\ advisory'[r] = total
  BY TurnShape
<1>2. tick' = tick + 1 /\ raised' = [raised EXCEPT ![id] = @ + total]
  BY <1>1 DEF Ledger!Record
<1>3. /\ Turns' = Turns \cup {r} /\ r \notin Turns
      /\ session' = session
      /\ \A q \in Turns : advisory'[q] = advisory[q]
      /\ \A q \in Turns \cup {r} : advisory'[q] \in Nat
  BY TurnAdded
<1> HIDE DEF total, id
<1>4. raised' \in [Sessions -> Nat]
  BY <1>1, <1>2 DEF Charging
<1>5. tick' = Cardinality(Turns')
  BY <1>2, <1>3, TurnsFinite, FS_AddElement DEF Charging
<1>6. ASSUME NEW s \in Sessions PROVE raised'[s] = Total(advisory', TurnsOf(s)')
  <2>1. r \notin TurnsOf(s) /\ TurnsOf(s) \in SUBSET Turns /\ IsFiniteSet(TurnsOf(s))
    BY <1>3, TurnsFinite
  <2>2. Total(advisory', TurnsOf(s)) = Total(advisory, TurnsOf(s))
    BY <1>3, <2>1, TotalSame
  <2>3. CASE s = id
    <3>1. TurnsOf(s)' = TurnsOf(s) \cup {r}
      BY <1>3, <2>3 DEF TurnsOf, id
    <3>2. \A q \in TurnsOf(s) \cup {r} : advisory'[q] \in Nat
      BY <1>3, <2>1
    <3>3. Total(advisory', TurnsOf(s) \cup {r}) = Total(advisory', TurnsOf(s)) + total
      BY <1>1, <2>1, <3>2, TotalAdd
    <3>4. raised'[s] = raised[s] + total
      BY <1>2, <2>3 DEF Charging
    <3>5. QED
      BY <2>2, <3>1, <3>3, <3>4 DEF Charging
  <2>4. CASE s # id
    <3>1. TurnsOf(s)' = TurnsOf(s)
      BY <1>3, <2>4 DEF TurnsOf, id
    <3>2. raised'[s] = raised[s]
      BY <1>2, <2>4 DEF Charging
    <3>3. QED
      BY <2>2, <3>1, <3>2 DEF Charging
  <2>5. QED
    BY <2>3, <2>4
<1>7. QED
  BY <1>4, <1>5, <1>6 DEF Charging

\* Steps that add no turn and move none.
NoTurn ==
  /\ UNCHANGED ledgerVars /\ Turns' = Turns
  /\ \A r \in Turns :
       session'[r] = session[r] /\ advisory'[r] = advisory[r] /\ verdict'[r] = verdict[r]

LEMMA NoTurnKeepsCharging ==
  ASSUME IInv, Charging, NoTurn
  PROVE  Charging'
<1>1. raised' = raised /\ tick' = tick
  BY DEF NoTurn, ledgerVars
<1>2. ASSUME NEW s \in Sessions PROVE raised'[s] = Total(advisory', TurnsOf(s)')
  <2>1. TurnsOf(s)' = TurnsOf(s)
    BY DEF NoTurn, TurnsOf
  <2>2. Total(advisory', TurnsOf(s)) = Total(advisory, TurnsOf(s))
    BY TurnsFinite, TotalSame DEF NoTurn, TurnsOf
  <2>3. QED
    BY <1>1, <2>1, <2>2 DEF Charging
<1>3. QED
  BY <1>1, <1>2 DEF Charging, NoTurn

\* A request that is refused, malformed, dropped or answered is no turn.
LEMMA OtherStepIsNoTurn ==
  ASSUME IInv, NEW r \in Requests,
         \/ Reject(r) \/ ChallengeRefuses(r)
         \/ GuardRefuses(r) \/ Disconnect(r) \/ Finish(r)
         \/ \E flags \in Flags : Challenge(r, flags)
  PROVE  NoTurn
<1>1. arrived \subseteq Requests
  BY DEF IInv, RequestsTypeOK
<1>2. CASE Reject(r) \/ ChallengeRefuses(r) \/ \E flags \in Flags : Challenge(r, flags)
  <2>1. /\ OnlyOf(r) /\ UNCHANGED ledgerVars
        /\ verdict'[r] \in {"none", "block"}
        /\ arrived' = arrived \cup {r} /\ r \notin arrived
    BY <1>2, ArrivalShape
  <2>2. QED
    BY <1>1, <2>1 DEF NoTurn, Turns, OnlyOf
<1>3. CASE GuardRefuses(r) \/ Disconnect(r) \/ Finish(r)
  <2>1. /\ OnlyOf(r) /\ UNCHANGED ledgerVars
        /\ session' = session /\ advisory' = advisory /\ arrived' = arrived
        /\ verdict' = verdict \/ (verdict'[r] = "block" /\ stage[r] = "guard")
    BY <1>3, AfterGuardShape
  <2>2. stage[r] = "guard" => verdict[r] = "none"
    BY DEF IInv, StageOfRequest
  <2>3. QED
    BY <1>1, <2>1, <2>2 DEF NoTurn, Turns, OnlyOf
<1>4. QED
  BY <1>2, <1>3

LEMMA RestartCharging == Charging /\ Restart => Charging'
<1> SUFFICES ASSUME Charging, Restart PROVE Charging'
  OBVIOUS
<1>1. arrived' = {} /\ tick' = 0 /\ raised' = [s \in Sessions |-> 0]
  BY DEF Restart, RequestsCutOff, LedgerEmptied
<1>2. Turns' = {} /\ \A s : TurnsOf(s)' = {}
  BY <1>1 DEF Turns, TurnsOf
<1>3. QED
  BY <1>1, <1>2, FS_EmptySet, TotalEmpty DEF Charging

\* Every step is a turn, a restart or neither.
LEMMA StepKinds ==
  ASSUME IInv, [Next]_vars
  PROVE  \/ \E r \in Requests, flags \in Flags : GuardPasses(r, flags)
         \/ Restart
         \/ NoTurn
<1>1. CASE UNCHANGED vars
  BY <1>1 DEF vars, requestVars, NoTurn, Turns
<1>2. CASE \E r \in Requests :
             \/ Reject(r) \/ ChallengeRefuses(r)
             \/ GuardRefuses(r) \/ Disconnect(r) \/ Finish(r)
             \/ \E flags \in Flags : Challenge(r, flags)
  BY <1>2, OtherStepIsNoTurn
<1>3. QED
  BY <1>1, <1>2 DEF Next

LEMMA NextCharging == IInv /\ Charging /\ [Next]_vars => Charging'
BY StepKinds, TurnIsCharged, RestartCharging, NoTurnKeepsCharging

LEMMA InitCharging == Init => Charging
<1> SUFFICES ASSUME Init PROVE Charging
  OBVIOUS
<1>1. arrived = {} /\ tick = 0 /\ raised = [s \in Sessions |-> 0]
  BY DEF Init, Ledger!Init
<1>2. Turns = {} /\ \A s : TurnsOf(s) = {}
  BY <1>1 DEF Turns, TurnsOf
<1>3. QED
  BY <1>1, <1>2, FS_EmptySet, TotalEmpty DEF Charging

\* However many requests overlap, are refused, dropped or cut off by a restart:
\* since the process started, the ledger was charged every turn exactly once, with
\* all the flags it raised, a blocked one included, and charged nothing else.
THEOREM GatewayChargesOnce == Spec => []ChargedOnce
<1>1. Charging => ChargedOnce
  BY DEF Charging, ChargedOnce, Total, TurnsOf
<1>2. QED
  BY <1>1, InitCharging, NextCharging, Invariance, PTL DEF Spec

-----------------------------------------------------------------------------
(* Whose suspicion blocks whom. *)

\* The most that flags, weighed, and the floor they arm can make of a score.
Suspicion(flags) == IF flags = 0 THEN 0 ELSE Floor + FlagWeight * flags

\* An entry holds no more than its session's own flags account for.
Evidence ==
  \A s \in DOMAIN sessions :
    /\ s \in Sessions
    /\ sessions[s].score \in Nat /\ sessions[s].tainted \in BOOLEAN
    /\ sessions[s].score <= Suspicion(raised[s])
    /\ raised[s] = 0 => ~sessions[s].tainted

LEMMA Parameters ==
  /\ DecayDen \in Nat \ {0} /\ DecayNum \in 1 .. DecayDen
  /\ Floor \in Nat /\ FlagWeight \in Nat /\ Threshold \in Nat
BY LedgerParameters DEF Ledger!ScoringAssumption

LEMMA WeightOf ==
  ASSUME NEW flags \in Nat
  PROVE  FlagWeight * flags \in Nat /\ flags * FlagWeight = FlagWeight * flags
BY Parameters

LEMMA DecayShrinks ==
  ASSUME NEW score \in Nat
  PROVE  Ledger!Decay(score) \in Nat /\ Ledger!Decay(score) <= score
BY Parameters DEF Ledger!Decay

\* More flags account for no less.
LEMMA SuspicionGrows ==
  ASSUME NEW m \in Nat, NEW n \in Nat, m <= n
  PROVE  Suspicion(m) \in Nat /\ Suspicion(n) \in Nat /\ Suspicion(m) <= Suspicion(n)
<1>1. FlagWeight * m \in Nat /\ FlagWeight * n \in Nat
  BY WeightOf
<1>2. FlagWeight * m <= FlagWeight * n
  <2>1. n - m \in Nat /\ n = m + (n - m)
    OBVIOUS
  <2>2. FlagWeight * (m + (n - m)) = FlagWeight * m + FlagWeight * (n - m)
    BY Parameters
  <2>3. FlagWeight * (n - m) \in Nat
    BY <2>1, WeightOf
  <2>4. QED
    BY <1>1, <2>1, <2>2, <2>3
<1>3. QED
  BY <1>1, <1>2, Parameters DEF Suspicion

\* What a turn makes of an entry is its own weight on top of what the entry's
\* session accounts for.
LEMMA ScoredOf ==
  ASSUME Evidence, Charging, NEW id \in Sessions, NEW flags \in Nat
  PROVE  LET entry == Ledger!Entry(id)
             scored == Ledger!Scored(entry.score, entry.tainted, flags)
         IN /\ scored \in Nat
            /\ scored <= Suspicion(raised[id]) + FlagWeight * flags
            /\ entry.tainted \in BOOLEAN
            /\ raised[id] = 0 => ~entry.tainted
<1> DEFINE entry == Ledger!Entry(id)
           score == entry.score
           tainted == entry.tainted
           faded == Ledger!Faded(score, tainted)
<1>1. raised[id] \in Nat /\ Suspicion(raised[id]) \in Nat
  <2>1. raised[id] \in Nat
    BY DEF Charging
  <2>2. QED
    BY <2>1, SuspicionGrows
<1>2. /\ score \in Nat /\ tainted \in BOOLEAN
      /\ score <= Suspicion(raised[id])
      /\ raised[id] = 0 => ~tainted
  <2>1. CASE id \in DOMAIN sessions
    BY <2>1 DEF Evidence, Ledger!Entry, Ledger!Tracked
  <2>2. CASE id \notin DOMAIN sessions
    <3>1. score = 0 /\ tainted = FALSE
      BY <2>2 DEF Ledger!Entry, Ledger!Tracked
    <3> HIDE DEF score, tainted
    <3>2. score \in Nat /\ score <= Suspicion(raised[id])
      BY <1>1, <3>1
    <3>3. tainted \in BOOLEAN /\ ~tainted
      BY <3>1
    <3>4. QED
      BY <3>2, <3>3
  <2>3. QED
    BY <2>1, <2>2
<1> HIDE DEF entry, score, tainted
<1>3. Floor <= Suspicion(raised[id]) \/ raised[id] = 0
  <2>1. FlagWeight * raised[id] \in Nat
    BY <1>1, WeightOf
  <2>2. QED
    BY <2>1, Parameters DEF Suspicion
<1>4. faded \in Nat /\ faded <= Suspicion(raised[id])
  <2>1. Ledger!Decay(score) \in Nat /\ Ledger!Decay(score) <= score
    BY <1>2, DecayShrinks
  <2>2. faded = IF tainted /\ Ledger!Decay(score) < Floor THEN Floor ELSE Ledger!Decay(score)
    BY DEF Ledger!Faded
  <2> HIDE DEF faded
  <2>3. QED
    BY <1>1, <1>2, <1>3, <2>1, <2>2, Parameters
<1>5. Ledger!Scored(score, tainted, flags) = faded + FlagWeight * flags
  BY WeightOf DEF Ledger!Scored
<1>6. FlagWeight * flags \in Nat
  BY WeightOf
<1> HIDE DEF faded
<1>7. /\ Ledger!Scored(score, tainted, flags) \in Nat
      /\ Ledger!Scored(score, tainted, flags) <= Suspicion(raised[id]) + FlagWeight * flags
  BY <1>1, <1>4, <1>5, <1>6
<1>8. QED
  BY <1>2, <1>7 DEF score, tainted, entry

\* The flags of a turn account for what it adds.
LEMMA SuspicionAdds ==
  ASSUME NEW m \in Nat, NEW n \in Nat
  PROVE  Suspicion(m) + FlagWeight * n <= Suspicion(m + n)
<1>1. FlagWeight * m \in Nat /\ FlagWeight * n \in Nat
  BY WeightOf
<1>2. FlagWeight * (m + n) = FlagWeight * m + FlagWeight * n
  BY Parameters
<1>3. n = 0 => FlagWeight * n = 0
  BY Parameters
<1>4. QED
  BY <1>1, <1>2, <1>3, Parameters DEF Suspicion

LEMMA TurnKeepsEvidence ==
  ASSUME IInv, Charging, Evidence,
         NEW r \in Requests, NEW flags \in Flags, GuardPasses(r, flags)
  PROVE  Evidence'
<1> DEFINE total == advisory[r] + flags
           id == session[r]
<1>1. Ledger!Record(id, total) /\ total \in Nat /\ id \in Sessions
  BY TurnShape
<1> HIDE DEF total, id
<1>2. raised' = [raised EXCEPT ![id] = @ + total] /\ raised \in [Sessions -> Nat]
  BY <1>1 DEF Ledger!Record, Charging
<1>3. /\ DOMAIN sessions' \subseteq DOMAIN sessions \cup {id}
      /\ \A s \in DOMAIN sessions' \ {id} : sessions'[s] = sessions[s]
      /\ sessions'[id] = Ledger!Recorded(id, total)
  BY <1>1 DEF Ledger!Record, Ledger!Tracked
<1>4. ASSUME NEW s \in DOMAIN sessions', s # id
      PROVE  /\ s \in Sessions
             /\ sessions'[s].score \in Nat /\ sessions'[s].tainted \in BOOLEAN
             /\ sessions'[s].score <= Suspicion(raised'[s])
             /\ raised'[s] = 0 => ~sessions'[s].tainted
  BY <1>2, <1>3, <1>4 DEF Evidence
<1>5. /\ sessions'[id].score \in Nat /\ sessions'[id].tainted \in BOOLEAN
      /\ sessions'[id].score <= Suspicion(raised'[id])
      /\ raised'[id] = 0 => ~sessions'[id].tainted
  <2> DEFINE entry == Ledger!Entry(id)
             scored == Ledger!Scored(entry.score, entry.tainted, total)
  <2>1. /\ scored \in Nat
        /\ scored <= Suspicion(raised[id]) + FlagWeight * total
        /\ entry.tainted \in BOOLEAN
        /\ raised[id] = 0 => ~entry.tainted
    BY <1>1, ScoredOf
  <2>2. sessions'[id].score = scored /\ sessions'[id].tainted = (entry.tainted \/ total > 0)
    BY <1>3 DEF Ledger!Recorded
  <2> HIDE DEF entry, scored
  <2>3. raised[id] \in Nat /\ raised'[id] = raised[id] + total
    BY <1>1, <1>2
  <2>4. /\ Suspicion(raised[id]) \in Nat /\ Suspicion(raised[id] + total) \in Nat
        /\ FlagWeight * total \in Nat
        /\ Suspicion(raised[id]) + FlagWeight * total <= Suspicion(raised[id] + total)
    <3>1. raised[id] + total \in Nat /\ raised[id] <= raised[id] + total
      BY <1>1, <2>3
    <3>2. Suspicion(raised[id]) \in Nat /\ Suspicion(raised[id] + total) \in Nat
      BY <2>3, <3>1, SuspicionGrows
    <3>3. Suspicion(raised[id]) + FlagWeight * total <= Suspicion(raised[id] + total)
      BY <1>1, <2>3, SuspicionAdds
    <3>4. FlagWeight * total \in Nat
      BY <1>1, WeightOf
    <3>5. QED
      BY <3>2, <3>3, <3>4
  <2>5. sessions'[id].score \in Nat /\ sessions'[id].score <= Suspicion(raised'[id])
    BY <2>1, <2>2, <2>3, <2>4
  <2>6. sessions'[id].tainted \in BOOLEAN
    BY <2>1, <2>2
  <2>7. raised'[id] = 0 => ~sessions'[id].tainted
    <3>1. raised'[id] = 0 => raised[id] = 0 /\ ~(total > 0)
      BY <1>1, <2>3
    <3>2. QED
      BY <2>1, <2>2, <3>1
  <2>8. QED
    BY <2>5, <2>6, <2>7
<1>6. QED
  BY <1>1, <1>3, <1>4, <1>5 DEF Evidence

\* The other requests that were turns under the id of r.
OthersOf(r) == {q \in Turns \ {r} : session[q] = session[r]}

\* SuspicionStaysWithItsId, in the terms of this section.
Accounted(r) ==
  verdict[r] = "anomaly" =>
    FlagWeight * advisory[r] + Suspicion(Total(advisory, OthersOf(r))) >= Threshold

LEMMA AccountedIs == SuspicionStaysWithItsId <=> \A r \in Turns : Accounted(r)
BY DEF SuspicionStaysWithItsId, Accounted, OthersOf, Suspicion, Total, Ledger!Blocks

\* A turn that is blocked is accounted for, and so are those before it.
LEMMA TurnIsAccounted ==
  ASSUME IInv, Charging, Evidence, \A q \in Turns : Accounted(q),
         NEW r \in Requests, NEW flags \in Flags, GuardPasses(r, flags),
         NEW p \in Turns'
  PROVE  Accounted(p)'
<1> DEFINE total == advisory[r] + flags
           id == session[r]
<1>1. /\ total \in Nat /\ id \in Sessions /\ advisory'[r] = total
      /\ verdict'[r] = IF Ledger!WouldBlock(id, total) THEN "anomaly" ELSE "pass"
  BY TurnShape
<1>2. /\ Turns' = Turns \cup {r} /\ r \notin Turns
      /\ session' = session
      /\ \A q \in Turns : advisory'[q] = advisory[q] /\ verdict'[q] = verdict[q]
      /\ \A q \in Turns \cup {r} : advisory'[q] \in Nat
  BY TurnAdded
<1> HIDE DEF total, id
<1>3. CASE p = r
  <2>1. OthersOf(r)' = TurnsOf(id)
    BY <1>2 DEF OthersOf, TurnsOf, id
  <2>2. Total(advisory', OthersOf(r)') = raised[id]
    <3>1. TurnsOf(id) \in SUBSET Turns /\ IsFiniteSet(TurnsOf(id))
      BY TurnsFinite
    <3>2. Total(advisory', TurnsOf(id)) = Total(advisory, TurnsOf(id))
      BY <1>2, <3>1, TotalSame
    <3>3. QED
      BY <1>1, <2>1, <3>2 DEF Charging
  <2>3. ASSUME verdict'[r] = "anomaly"
        PROVE  Suspicion(raised[id]) + FlagWeight * total >= Threshold
    <3> DEFINE scored == Ledger!Scored(Ledger!Entry(id).score, Ledger!Entry(id).tainted, total)
    <3>1. scored >= Threshold
      BY <1>1, <2>3 DEF Ledger!WouldBlock, Ledger!Recorded, Ledger!Blocks
    <3>2. scored \in Nat /\ scored <= Suspicion(raised[id]) + FlagWeight * total
      BY <1>1, ScoredOf
    <3>3. Suspicion(raised[id]) \in Nat /\ FlagWeight * total \in Nat
      <4>1. raised[id] \in Nat
        BY <1>1 DEF Charging
      <4>2. QED
        BY <1>1, <4>1, SuspicionGrows, WeightOf
    <3> HIDE DEF scored
    <3>4. QED
      BY <3>1, <3>2, <3>3, Parameters
  <2>4. Suspicion(raised[id]) \in Nat /\ FlagWeight * total \in Nat
    <3>1. raised[id] \in Nat
      BY <1>1 DEF Charging
    <3>2. QED
      BY <1>1, <3>1, SuspicionGrows, WeightOf
  <2>5. Accounted(r)' <=>
          (verdict'[r] = "anomaly" =>
             FlagWeight * total + Suspicion(Total(advisory', OthersOf(r)')) >= Threshold)
    BY <1>1 DEF Accounted, Suspicion
  <2>6. QED
    BY <1>3, <2>2, <2>3, <2>4, <2>5
<1>4. CASE p \in Turns
  <2>1. /\ OthersOf(p) \in SUBSET OthersOf(p)' /\ OthersOf(p)' \subseteq Turns \cup {r}
        /\ OthersOf(p) \in SUBSET Turns
    BY <1>2, <1>4 DEF OthersOf
  <2>2. IsFiniteSet(OthersOf(p)') /\ IsFiniteSet(OthersOf(p))
    <3>1. IsFiniteSet(Turns) /\ IsFiniteSet(Turns \cup {r})
      BY TurnsFinite, FS_AddElement
    <3>2. QED
      BY <2>1, <3>1, FS_Subset
  <2>3. Total(advisory', OthersOf(p)) = Total(advisory, OthersOf(p))
    BY <1>2, <2>1, <2>2, TotalSame
  <2>4. Total(advisory', OthersOf(p)) <= Total(advisory', OthersOf(p)')
    BY <1>2, <2>1, <2>2, TotalMonotone
  <2>5. Total(advisory', OthersOf(p)) \in Nat /\ Total(advisory', OthersOf(p)') \in Nat
    BY <1>2, <2>1, <2>2, TotalType
  <2>6. /\ Suspicion(Total(advisory, OthersOf(p))) \in Nat
        /\ Suspicion(Total(advisory', OthersOf(p)')) \in Nat
        /\ Suspicion(Total(advisory, OthersOf(p))) <= Suspicion(Total(advisory', OthersOf(p)'))
    BY <2>3, <2>4, <2>5, SuspicionGrows
  <2>7. FlagWeight * advisory[p] \in Nat /\ advisory'[p] = advisory[p] /\ verdict'[p] = verdict[p]
    BY <1>2, <1>4, WeightOf
  <2>8. Accounted(p)
    BY <1>4
  <2>9. Accounted(p)' <=>
          (verdict[p] = "anomaly" =>
             FlagWeight * advisory[p] + Suspicion(Total(advisory', OthersOf(p)')) >= Threshold)
    BY <2>7 DEF Accounted, Suspicion
  <2>10. Accounted(p) <=>
          (verdict[p] = "anomaly" =>
             FlagWeight * advisory[p] + Suspicion(Total(advisory, OthersOf(p))) >= Threshold)
    BY DEF Accounted
  <2>11. QED
    BY <2>6, <2>7, <2>8, <2>9, <2>10, Parameters
<1>5. QED
  BY <1>2, <1>3, <1>4

\* What is known of the entries and of the blocked turns together.
Accounts == Evidence /\ \A r \in Turns : Accounted(r)

LEMMA NoTurnKeepsAccounts ==
  ASSUME IInv, Accounts, NoTurn
  PROVE  Accounts'
<1>1. Evidence'
  BY DEF Accounts, Evidence, NoTurn, ledgerVars, Suspicion
<1>2. ASSUME NEW r \in Turns' PROVE Accounted(r)'
  <2>1. /\ r \in Turns /\ OthersOf(r)' = OthersOf(r)
        /\ \A q \in OthersOf(r) : advisory[q] = advisory'[q]
        /\ OthersOf(r) \in SUBSET Turns
    BY <1>2 DEF NoTurn, OthersOf
  <2>2. Total(advisory, OthersOf(r)) = Total(advisory', OthersOf(r))
    BY <2>1, TurnsFinite, TotalSame
  <2>3. verdict'[r] = verdict[r] /\ advisory'[r] = advisory[r] /\ Accounted(r)
    BY <2>1 DEF NoTurn, Accounts
  <2>4. QED
    BY <2>1, <2>2, <2>3 DEF Accounted, Suspicion
<1>3. QED
  BY <1>1, <1>2 DEF Accounts

LEMMA NextAccounts == IInv /\ Charging /\ Accounts /\ [Next]_vars => Accounts'
<1> SUFFICES ASSUME IInv, Charging, Accounts, [Next]_vars PROVE Accounts'
  OBVIOUS
<1>1. CASE \E r \in Requests, flags \in Flags : GuardPasses(r, flags)
  <2>1. PICK r \in Requests, flags \in Flags : GuardPasses(r, flags)
    BY <1>1
  <2>2. Evidence'
    BY <2>1, TurnKeepsEvidence DEF Accounts
  <2>3. \A p \in Turns' : Accounted(p)'
    BY <2>1, TurnIsAccounted DEF Accounts
  <2>4. QED
    BY <2>2, <2>3 DEF Accounts
<1>2. CASE Restart
  <2>1. Turns' = {} /\ DOMAIN sessions' = {}
    BY <1>2 DEF Restart, RequestsCutOff, LedgerEmptied, Turns
  <2>2. QED
    BY <2>1 DEF Accounts, Evidence
<1>3. CASE NoTurn
  BY <1>3, NoTurnKeepsAccounts
<1>4. QED
  BY <1>1, <1>2, <1>3, StepKinds

\* Whoever sends an id that was given to somebody, and whatever is evicted in
\* between: a request is blocked only for flags raised under its own id.
THEOREM GatewaySuspicionStays == Spec => []SuspicionStaysWithItsId
<1>1. Init => Accounts
  BY DEF Init, Ledger!Init, Accounts, Evidence, Turns
<1>2. Accounts => SuspicionStaysWithItsId
  BY AccountedIs DEF Accounts
<1>3. QED
  BY <1>1, <1>2, InitCharging, NextCharging, NextAccounts, Invariance, PTL DEF Spec

-----------------------------------------------------------------------------
LEMMA NextRecords == IInv /\ [Next]_vars => [Ledger!Next \/ LedgerEmptied]_ledgerVars
<1> SUFFICES ASSUME IInv, [Next]_vars PROVE [Ledger!Next \/ LedgerEmptied]_ledgerVars
  OBVIOUS
<1>1. ASSUME NEW r \in Requests, NEW flags \in Flags, GuardPasses(r, flags)
      PROVE  Ledger!Next
  <2>1. stage[r] = "guard" /\ Ledger!Record(session[r], advisory[r] + flags)
    BY <1>1 DEF GuardPasses
  <2>2. session[r] \in Sessions /\ advisory[r] + flags \in 0 .. MaxFlags
    BY <2>1, GatewayAssumption DEF GatewayAssumption, IInv, StageOfRequest, Flags, MaxFlags
  <2>3. QED
    BY <2>1, <2>2 DEF Ledger!Next
<1>2. CASE Restart
  BY <1>2 DEF Restart
<1>3. CASE NoTurn
  BY <1>3 DEF NoTurn
<1>4. QED
  BY <1>1, <1>2, <1>3, StepKinds

\* Between two restarts the gateway implements the ledger.
THEOREM GatewayImplementsLedger == Spec => ImplementsRestartableLedger
<1>1. Init => Ledger!Init
  BY DEF Init
<1>2. IInv /\ [Next]_vars => [Ledger!Next \/ LedgerEmptied]_ledgerVars
  BY NextRecords
<1>3. QED
  BY <1>1, <1>2, Invariance, PTL DEF Spec, ImplementsRestartableLedger
=============================================================================
