# A verification development of the Contextual Trust Protocol

CTP vets every payload that enters or leaves a language model's context. A
payload passes a layer of static rules (*challenge*), then a separate process
that runs a small model (*guard*), and each turn's advisory flags are added up
per session in an *anomaly ledger*. The **kernel** (`ctp-kernel`) wraps a tool
executor and enforces this on both directions of a tool call; the **gateway**
(`ctp-orchestrator`) offers the same pipeline over gRPC and only evaluates.

The modules here are translated from the Rust sources; comments quote paths and
lines of the repository. TLC checks small instances; TLAPS proves the theorems
listed below for every value of the constants.

    tlc -config AnomalyLedger.cfg AnomalyLedger.tla
    tlapm AnomalyLedgerProofs.tla

## 1. Inventory

| Component | State it keeps | Operations | Talks to | What is hard about it | What makes it correct |
|---|---|---|---|---|---|
| Anomaly ledger (`ctp-kernel/src/ledger.rs`) | map session → score, tainted, last_tick; a tick; behind one mutex | `record` | called by kernel and gateway | eviction at the bound, decay against floor, long sequences of turns | bounded; the least recent goes; sessions are isolated; benign sessions carry nothing; the floor stays armed |
| Windowing (`ctp-kernel/src/lib.rs`, `windows`) | loop cursor | cut a payload | fan-out | boundary values: overlap ≥ window, last window | every phrase up to overlap + 1 bytes is whole in a window; windows fit; terminates |
| Guard fan-out (`guard_findings`) | one task per window, findings | spawn, time out, drain | guard client | completion order, two timers, panics, cancellation | a payload passes iff every window did; always decides |
| Guard client (`guard_client.rs`) | channel, budget | `classify` | guard process over a Unix socket | timeout against late answer, off-contract answers, connection loss | every failure is a typed error; flags are capped |
| Payload typestate (`ctp-core/src/payload.rs`) | id, bytes, direction, state in the type | `challenge`, `guard`, `release` | both layers | report bound to the wrong payload | release only after both layers |
| Kernel wrapper (`KernelWrapper::execute`) | per call: stage, advisory total | policy, vet, run, vet, record | tool, layers, ledger | overlapping calls of a session, tool ran but result refused, dropped futures | nothing unvetted is released; every completed turn is charged once |
| Gateway (`grpc.rs`, `pipeline.rs`) | per request: session, advisory total; decision counter | `evaluate`, `health` | layers, ledger, metrics | fresh session ids, clients that go away, ids that come back, restart that empties the ledger | malformed requests fail closed; the counter agrees with the replies (the boundary's own blocks excepted); suspicion stays with its id |
| Metrics (`metrics.rs`) | counters, histograms | record | all | a path that forgets to count | as above |
| Encoding rule (`rules/encoding.rs`) | byte budget, opaque count, block reason | recursive scan | challenge layer | order of discovery, horizon, budget | blocks iff something is hidden within the horizon |
| Homoglyph and regex rules, registry (`rules/`, `registry.rs`) | counters of one pass | `check`, run all rules | challenge layer | precedence, thresholds | all rules run; a block hides no finding |
| Guard server (`ctp-guard/src/server.rs`, `parse.rs`) | none between requests | `classify` | backend | failing backend, off-contract output | everything but a clean verdict blocks |
| Guard lifecycle (`ctp-guard/src/lib.rs`, `deploy/ctp-guard.service`) | socket file, watchdog, restart count | start, serve, stop | systemd | stale socket, hung inference, start limit | a dead guard comes back, a wedged one is restarted |
| Grammar (`ctp-guard/src/grammar.rs`) | rules of a GBNF source; the parser's cursor and open calls | `parse`, `accepts` | backend, tests | recursive descent over any text, repetitions that match nothing | refuses what is not a grammar; accepts exactly the denoted language |
| Inference and verdict (`ctp-guard/src/inference.rs`, `parse.rs`) | context, sampled tokens, text of one call | `load`, `infer`, `parse_strict` | llama.cpp, guard server | two limits that cut the text anywhere; a grammar advanced out of step | only a whole sentence of the grammar passes; every call is answered |
| Configuration (`ctp-core/src/config.rs`, both `serve` and `main`) | the file; what each process read of it | `load`, `validate`, start, stop | everything | NaN and infinity, an edit between two starts, bounds | what is accepted is what the rest takes for granted |
| Errors, prompt text, mock backend, scripts | — | pure functions, I/O, data | | | not modelled (section 7) |

Interaction: `evaluate` and `execute` call challenge synchronously, await the
guard, and at the end take the ledger's mutex once. Between those awaits any
other call runs. `PROJECT.json` lists, under `hazards`, every place of this code
that is hard to test, and the properties that would catch it going wrong.

## 2. Modules

| Module | Models | State and actions |
|---|---|---|
| `Scoring` | the arithmetic of one ledger entry | pure: `Decay`, `Faded`, `Scored`, `Blocks` |
| `LedgerEntry` | one session's entry alone: the abstract specification of the ledger | `Turn`, `Flagged`, `Forgotten` (eviction) |
| `AnomalyLedger` | `AnomalyLedger::record`, whole | `Record`: tick, eviction, entry, decay, flags, last_tick in one step, as under the mutex; and `ByRecency`, the queue its ticks stand for |
| `LruOrder` | what "least recently updated is evicted" means: a queue | `Again`, `Join`, `Displace` |
| `MCConfiguration`, `MCVerdictDecoding` | instances for TLC: the files; the grammar sources | |
| `AnomalyLedgerProofs` | theorems about the ledger | |
| `Windowing` | `GuardFanout::new`, `windows` | `Whole` (early return), `Cut` (one iteration) |
| `GuardFanout` | `guard_findings`, `GuardClient::classify`, `from_proto`, `LayerReport::new` | per window: `Call`, `ReadAnswer`, `ClientTimeout`, `BackstopTimeout`, `Panic`; `Join`, `Decide`, `Cancel`; environment `Arrives`, `Elapse` |
| `WindowVote` | the abstract vote of all windows | `Settle`, `Conclude` |
| `KernelWrapper` | `KernelWrapper::execute` and `vet`, with the ledger (`INSTANCE AnomalyLedger`) | one action per stretch of code between two awaits |
| `Gateway` | `GrpcGateway::evaluate`, `Orchestrator::evaluate`, decision counter, restart, with the ledger | three steps per request (`Challenge`; `GuardPasses` or `GuardRefuses`; `Finish`), with `Reject`, `ChallengeRefuses`, `Disconnect`, `Restart`; a request may send any id that a response has told a client (`Sendable`) |
| `GuardFanoutProofs`, `KernelWrapperProofs`, `GatewayProofs` | theorems about those three; the first also about `Windowing`, which cuts what it fans out | |
| `Sums` | lemmas for the proofs: sums over finite sets, least and greatest elements, induction and recursion over sets and positions | |
| `EncodingScan` | `EncodingBypassRule::check`, `scan_level` | the recursion as a stack of the candidates each level has yet to look at; one action per outcome of a candidate |
| `ChallengeLayer` | `challenge_findings` of the registry, `UnicodeHomoglyphRule::check` with `alphabetic_words`, the outcome of the configured regex rules | `ScanChar`, `ScanWord` (one iteration each), `HomoglyphReturns`, `RunRule` (one rule of the registry) |
| `ChallengeProofs` | theorems about the encoding rule and the challenge layer | |
| `GrammarNodes` | the nodes of a grammar | pure |
| `Grammar` | `Grammar::matches`, `accepts`; and what they ought to compute: the denoted language as a least fixpoint | pure, with recursive operators |
| `GrammarParsing` | `Grammar::parse` and `ExprParser`; and what they ought to read: the notation as a grammar of itself, by a chart of what can end where | the recursion of `parse_alt` and `parse_seq` as a stack; one action per item, parenthesis, branch, rule and error; the loops of literals and classes as functions on positions |
| `VerdictDecoding` | `LlamaBackend::infer` within the grammar, the context and `MAX_NEW_TOKENS`; `parse_strict`; the server's answer | extends `GrammarParsing`: `Prefill`, `Sample`, `EndOfGeneration`, `TokenLimit`, `BackendFails`, `Answer` |
| `Configuration` | one `ctp.toml`, its validation, and the two processes that read it; one session's payloads under what they read | `EditFile`, `Start…`, `Stop…`, and one action per outcome of a payload |
| `ConfigurationProofs` | theorems about every file | |
| `GuardProofs` | theorems about the guard's parser (`GrammarParsing`) and its process (`GuardProcess`) | |
| `GuardProcess` | the guard's `serve`, `classify` and `parse_strict` under its systemd unit | calls: `Reject`, `Infer`, `Finish`; process: `Start`, `Load`, `Prepare`, `Bind`, `Announce`, `Drained`; environment: `Send`, `GiveUp`, `Hang`, `Crash`, `WatchdogKill`, `Terminate`, `StopTimeout`, `LimitHit`, `Reset` |

Definitions whose names end in `_Something` after the name of another one
(`Decay_Linear`, `Join_Overwrites`) are deliberate mutations of it: plausible bugs.
For each property of a passing run, `PROJECT.json` names a mutation that TLC
finds to violate it. No specification uses them.

### Abstractions that matter

* **Scores.** The code uses `f64`. A score here is a whole number of units and the
  decay a fraction, rounded down. For a decay of 1/n (the default is 1/2) and
  whole weight, floor and threshold, the model's score is exactly the floor of the
  exact score: integer division nests, and adding or comparing with a whole
  number commutes with rounding down. So blocking is decided as over the reals.
  Rounding of `f64` is outside the model; NaN and infinity, which TOML can write, are
  values of `Configuration`, with the comparisons and the `max` of `f64`. (Negative
  infinity is refused wherever a negative number is.) Two effects of size are outside it
  as well: a sum of large finite weights overflows `f64` to infinity
  (`ledger.rs:135-143`), from which no session is redeemed, while `Redemption` excepts the
  infinite weight only; and weights in `Configuration` are whole halves, so a positive
  weight so small that no number of flags a turn can carry reaches the threshold is not
  representable, and `Armed` does not speak of it.
* **Time.** Ticks in `GuardFanout` count from a task's first poll, which starts both
  timers. A timer that has expired need not be noticed at once: the runtime may poll
  late, and `tokio::time::timeout` polls the call before its timer.
* **Layers as choices.** In `KernelWrapper` and `Gateway`, what a layer finds is
  nondeterministic (refusal, or a pass with some flags). Every behaviour of the
  modelled layers is among the choices.
* **Blobs.** `EncodingScan` starts from the tree a payload decodes to. Which
  bytes match which regular expression only decides what that tree is.
* **Characters.** `ChallengeLayer` works on character classes: what the homoglyph rule
  tells apart. Letters are Latin, of one other script (with or without a Latin
  lookalike) or CJK; Latin letters that are themselves lookalikes of the other script
  are not modelled, nor are three scripts in a word.
* **Guard process.** A call holds a worker of the runtime while it infers, because the
  real backend's `infer` contains no await (`inference.rs:202-275`); the watchdog's task is
  polled whenever a worker is free. A call is *hung* when it exceeds `WatchdogSec`. A
  socket file may survive a killed process: the unit's RuntimeDirectory is cleared, but
  `guard.socket_path` need not lie in it. `calm` is no state of the code: it marks the
  point after which the environment does no more harm, the hypothesis of `Recovers`.
* **Grammars.** A character is a string of length one, `"::="` counts as one character, and
  letters are ASCII (`char::is_alphabetic` knows more). `"end"` stands for the end of a line
  and is no character (`ParserAssumption`). A *piece* of text is a literal of
  the grammar or one character of a class, a token carries one to `MaxPieces` of them. The
  engine that masks the logits is llama.cpp's: here it derives from the parsed grammar's
  root, and its own reading of the file is taken to be the parser's. It is modelled for
  grammars written with recursion instead of repetition, as `verdict.gbnf` is. Sizes
  in bytes are counted in pieces.
* **Configuration.** A file is a function from the keys it sets to values. Of a payload only
  its length and its flags matter. `max_sessions`, the tools' policies and the paths are not
  keys of the model: any value of theirs is accepted.
* **History variables** (`raised`, `vetted`, `ran`, `reply`, `arrived`, `said`) record what happened for
  the properties; no guard reads them. (`reply` of `Gateway` also says which ids clients
  have been told, which is what they may send.)

## 3. Runs

Every property is in a comment beside its definition. Bounds are in the cfg files.

| Run | Module / cfg | Shows | Bounds and why they are enough |
|---|---|---|---|
| `ledger` | `AnomalyLedger` / `AnomalyLedger.cfg` | `BenignNeverPenalised`, `SuspicionNeedsEvidence`, `FloorHolds`, `ForgettingCostsAFlood` (suspicion is lost only to a flood as large as the map), and that the ledger implements `LedgerEntry` for each session (`ImplementsEntries`) and `LruOrder` (`ImplementsLru`) | 3 sessions for 2 entries, 6 turns (`MaxTick`): every session can be evicted and come back; decay reaches the floor from a blocking score; one turn may or may not block. The theorems remove the bounds |
| `configuration` | `MCConfiguration` / `Configuration.cfg` | `AssumptionsHold` (what a serving process has read meets every `ASSUME` of the other modules), `SameFileSameWindows`, `Armed`, and that a session that stops raising flags is served for good (`Redemption`) | every file with up to two keys of the smallest one changed, each key to the values on either side of its bounds, NaN and infinity included; one edit; scores up to two thresholds |
| `decoding` | `MCVerdictDecoding` / `VerdictDecoding.cfg` | `ParserExact`, `AcceptorExact`, `AcceptorFollowsDecoder`, `OnlySentencesPass`, `SentencesAreRead`, `Decodes` | every rule body of up to 5 characters of the notation, a list of small grammars with each construct, and `verdict.gbnf` itself; twelve tokens of up to two pieces where the shortest verdict has nine; a prompt that fits, one that leaves too little room and one that does not fit |
| `slow_burn` (violation) | `LedgerEntry` / `LedgerEntry_slowburn.cfg` | a constant drip is never caught | the default configuration in units of 1/2 |
| `windowing` | `Windowing` / `Windowing.cfg` | `PhrasesSeenWhole`, `NoWindowRedundant`, `Termination` | lengths 0–9, windows 0–4, overlaps 0–5: all relations of overlap to window, up to nine windows |
| `fanout` | `GuardFanout` / `GuardFanout.cfg` | `PassNeedsEveryPass`, `FindingsComplete`, `AdvisoriesConserved`, `ClientTimeoutFirst`, `Decides`, and that the fan-out implements `WindowVote` | 2 windows: one can be early, late, silent or panicking while the other is in any state; budget 1, backstop 2 ticks; one flag more than the cap |
| `kernel` | `KernelWrapper` / `KernelWrapper.cfg` | `NothingUnvetted`, `ChargedOnce`, `SlowBurnBounded`, and that the wrapper's ledger behaves as `AnomalyLedger` | 3 calls of 2 sessions over 2 tools: two calls of one session overlap while the other session interferes |
| `blocked_session` (violation) | `KernelWrapper` / `KernelWrapper_blocked.cfg` | a session over the threshold still runs tools | 2 calls, 1 session; one flag reaches the threshold (the floor lies below it, as `validate` demands) |
| `gateway` | `Gateway` / `Gateway.cfg` | `CounterAgrees` (against the replies sent, boundary blocks excepted), `AnonymousOnItsOwn` (a request without an id inherits nothing), `SuspicionStaysWithItsId` (a block is due to the flags of its own id, whoever sends it), `ChargedOnce`, `ImplementsRestartableLedger` | 3 requests, 1 named session and 3 fresh ids, which come back once told; 2 entries (so a third id evicts one), one flag short of the threshold and two beyond it, 1 restart at any point |
| `encoding` | `EncodingScan` / `EncodingScan.cfg` | `BlocksIffHidden` (equal to a definition that does not scan), `FlagsIffOpaque` | all trees of 4 blobs, horizon 2, budget 5: chains past the horizon, budgets exceeded only by the last blob |
| `challenge` | `ChallengeLayer` / `ChallengeLayer.cfg` | `ReportExact`: the findings are what every rule found, and the homoglyph rule's result equals a definition that does not scan | all texts of up to 3 characters of 12 classes: every class beside and between two letters, two invisible characters for a threshold of one; one blocking and one flagging pattern |
| `guard_process` | `GuardProcess` / `GuardProcess.cfg` | `PassIsTheModels` and, from every state the process can be left in, `Recovers` | 3 calls on 2 workers: one waits, one or both workers hang; the third start in an interval stops the unit |

`CHECK_DEADLOCK FALSE` is set where the system really stops: a bounded number of
calls, windows or turns is used up, a scan is over, a grammar that is only read has been
read, a file is refused, or the start limit has stopped the unit. `LedgerEntry` never stops,
and its run checks it.

The modules whose type invariants no run names (`Windowing`, `GuardFanout`, `GuardProcess`)
have them proved; `RecencyTotal`, `CapacityHolds` and `WindowsFit` are proved too, and left
to the provers.

### Fairness

* `LedgerEntry`, `Configuration`: none in the code, since sessions come from outside.
  `DripSpec` and `WF_vars(BenignTurn)` state the hypothesis of the property: a session goes on
  taking turns.
* `VerdictDecoding`: weak fairness of the prefill, of the sampling loop as a whole and of the
  answer: a call that has begun is straight-line code. The library need not fail, and which
  token is sampled is open, so `Decodes` holds for a model that never ends by itself.
* `Windowing`: weak fairness of `CutNext`: straight-line code.
* `GuardFanout`: the clock goes on, and the runtime polls a task that is ready, joins a
  finished one and runs the loop's end. Nothing is assumed of the guard or the
  transport: `Arrives` has no fairness, so `Decides` holds for a guard that is silent.
* `GuardProcess`: systemd starts, kills and times out; start-up goes on; the runtime
  serves what it has accepted, and an inference that is not hung returns. A hung
  inference need never return, and no fairness makes an operator act.

## 4. Where the code and its documentation differ

Each of these runs ends in the counterexample that shows it.

1. `slow_burn`: the module's doc (`ledger.rs:3-6`) and ADR 0006 say that a slow burn of
   one borderline payload per turn is caught. Decay applies to the whole sum, so
   f flags per turn converge to `f * flag_weight / (1 - decay)`; with the defaults, one
   flag per turn stays at a third of the threshold for ever.
2. `blocked_session`: ADR 0006 says that crossing the threshold blocks the session. The
   ledger is consulted after the tool has run; only the result is withheld.

Further differences that were seen and have no run: `config.rs:159-160` and `error.rs:62` say
that an answer after the budget is discarded unread, but `tokio::time::timeout` polls the
call before its timer, so it is read if it arrives before the task is polled again
(`guard_client.rs:115`; it is the guard's own answer, and `PassNeedsEveryPass` holds);
the unit file (`ctp-guard.service:29-31`)
and the README (`README.md:202`) say that a hung inference loop stops the watchdog's pings
and is restarted, but a task of the runtime pings (`lib.rs:138-145`), so one hung inference
keeps its worker until all workers hang (`lib.rs:113-118` and ADR 0003 do call the watchdog
coarse; `Recovers` states what is achieved); the rule blocks with one invisible character
more than `homoglyph.rs:49` says; eviction forgets `tainted`
(`ledger.rs:54`, stated as `TaintedIffEverRaised`); `max_sessions = 0` tracks one session
(`TrackedWithinBound`); a NaN `flag_weight` and an infinite
`anomaly_threshold` pass validation and disarm the ledger (`config.rs:75,85`; `Armed` excepts
them), a decay of 1 and an infinite weight make one flag final (`Redemption` excepts them); phrases longer
than `overlap + 1` can be split (`lib.rs:62`, the exact bound is what `PhrasesSeenWhole`
says); `max_concurrent` is read by nothing; the fan-out forwards neither tool name nor
anomaly flags (`lib.rs:105`); a malformed request is answered with a block at the boundary
(`grpc.rs:93-101`) that is not counted, so the block rate of `metrics.rs:8-9` leaves it out
(`CounterAgrees` excepts it by name); `verdict.gbnf:20-21` calls the grammar possibly "the
tighter of the two", but it allows more than eight flags and flags of more than 48
characters, which `parse_strict` refuses (`SentencesAreRead` excepts them); `Grammar::parse`
reads left-recursive grammars, on which `accepts` overflows the stack, although
`grammar.rs:11-16` names no such limit (`verdict.gbnf` has none, and neither has `Sources`);
the kernel drops the flags of a turn that fails.

## 5. Proofs

`AnomalyLedgerProofs` (any finite `Sessions`, any parameters that `ScoringAssumption` and
`LedgerAssumption` allow):

* `LedgerTypeCorrect`; then, relative to it, `LedgerRecencyTotal`,
  `LedgerBenignNeverPenalised`, `LedgerSuspicionNeedsEvidence`, `LedgerCapacityHolds`, and
  the action properties `LedgerFloorHolds` and `LedgerImplementsEntries` (the refinement:
  initial states map to initial states, every step to a turn, an eviction or a stutter).
* These invariants are inductive together with the type invariant. What they rest on are
  lemmas about the operators: `DecayShrinks` (0 ≤ Decay(s) ≤ s), `FadedBounds`,
  `ScoredBounds`, `EvictionsAreTracked`, and `RecordShape`, which says once what a
  `Record` does to each entry, so that no later proof opens the set comprehension again.
  `LedgerCapacityHolds` also needs that the set of tracked sessions is finite.
* `LedgerForgetsAfterFlood`: the victim has the least tick, ticks of tracked sessions differ
  (`RecencyTotal`), and the map is full, so since the victim's last turn at least
  `MaxSessions` other turns have passed.
* `LedgerImplementsLru`: `ByRecency` puts at each place the session with that many others
  before it. `InOrderLists` shows that this lists all tracked sessions by their last turns,
  `ListsUnique` that two lists of one set by the same differing values are equal (again
  `RecencyTotal`), and `ListsWithout` and `ListsWith` what taking out a session and
  appending the latest one make of such a list. So a turn of a tracked session is `Again`,
  of a new one `Join`, or `Displace` when the map is full.

Windowing, in `GuardFanoutProofs` (any lengths, widths and overlaps, not only those TLC
enumerates):

* `PhrasesSeenWhole` speaks of the end state only and is not inductive. The
  strengthening is `LoopInv`: while the loop runs, either nothing has been cut, or every
  window is full, none starts or ends after the last one, that one ends (`LastEnd`) before
  the payload does, and *every short enough phrase that ends by `LastEnd` has been seen*.
  `NextWindowSees` carries the last part over an iteration: a phrase that ends after
  `LastEnd` starts within the next window, because
  `Stride + PhraseBound = width + 1` (`StrideBounds`).
* From `WindowsInv`, which holds it: `WindowingSeesPhrases`, `WindowingFits`, `WindowingNotRedundant`,
  `WindowingLeavesByBreak`.

The fan-out, in `GuardFanoutProofs` (any finite set of windows, any budget no longer than the
backstop):

* `PassNeedsEveryPass` and `FindingsComplete` speak of a decided report and say nothing
  while the loop drains. `IInv` adds what carries them there: a task has a result exactly
  once it has finished (`ResultOfFinished`), a result that is a pass was answered as one
  (`PassWasAnswered`), the findings are those of the tasks *joined so far* that did not
  pass (`JoinedCounted`), a verdict means that all were joined (`VerdictOfDrain`), and
  after a cancellation no task runs (`NoneRunsAfterCancel`).
* `FinishInv` treats the four ways a task finishes at once; `ClassifiedResult` shows that
  no conversion makes a pass of something else. `BackstopIsLast` needs
  `ClientBudget <= Backstop`, which `build_orchestrator` guarantees, and the order in
  which the nested timers are looked at.
* `FanoutConservesAdvisories` needs that the flags of a pass stay those of the answer it was
  read from (`KeptInResult`) and that the running total is the sum over the passes joined
  so far (`ChargedSoFar`). A join adds one window to that set, and `TotalAdd` says that the
  sum does not depend on the order in which windows finish.
* `FanoutIsVote`: finishing a task settles its ballot, `Decide` concludes the vote,
  everything else stutters.

`KernelWrapperProofs` (any calls, tools, sessions and ledger parameters):

* `NothingUnvetted` is inductive with `VettedByStage` (what a call has behind it at each
  await). `KernelImplementsLedger` needs `FlagsByStage` as well: a turn carries at most
  four layers' flags, which is what the ledger's `MaxFlags` stands for. With it, every
  theorem of `AnomalyLedgerProofs` holds of the ledger that overlapping calls share.
* `KernelChargesOnce`: `Charging` says that a session has been charged the sum over its
  recorded calls, and that a call has an outcome only once it has returned, so that no
  call is recorded twice.
* `KernelBoundsSlowBurn` speaks of a kernel without decay and with room for every session
  (`NoRelief`; the implication is part of the property). `Burning` relates three things: a
  score carries every flag the session was charged, a session the ledger does not know was
  charged none, and what a session was given stayed below the threshold. The last is
  restored when a turn is released because the turn is judged by the score *after* it.
  It uses `LedgerParameters`, what `validate` guarantees of the ledger's configuration.

`GatewayProofs` (any requests, ids and number of restarts):

* `AnonymousOnItsOwn` needs that when a request without an id is judged, the ledger holds
  nothing under the id it was given. Two requests share a new id only if the one it was made
  for has told it to a client (`FreshIsGiven`, `Learnt`), which it does when it is over; and
  the ledger knows an id only after a request under it was decided (`TrackedWasDecided`). So
  the entry is new, and a new entry is judged by this turn's flags alone (`FreshJudgement`,
  from `Decay(0) = 0`). That `Uuid::new_v4` never repeats and nobody guesses its values is
  an assumption of the model (`SessionIds`, `Sendable`), not a result.
* `GatewayCounterAgrees`: `Counting` says that the two counters are the numbers of replies of
  the running process. A reply is sent once (`SentOnce`), so each `Finish` adds a request to one
  of the two sets; a reply of the boundary, and one that is lost, adds to neither.
* `GatewayChargesOnce`: `Charging`, as for the kernel, over the turns since the process
  started. A step either adds one turn (`TurnAdded`) or leaves them alone (`NoTurn`,
  `StepKinds`); a restart empties both sides.
* `GatewaySuspicionStays`: `Evidence` says that no score exceeds the floor, once the id was
  charged a flag, plus the weight of all its flags; `Accounted` that a turn the ledger blocked
  is accounted for by the turns of its id. `SuspicionGrows` and `TotalMonotone` keep that true when
  further requests under the same id become turns.
* `GatewayFailsClosed` and `GatewayImplementsLedger` follow from the same invariant
  (`StageOfRequest`).

`GuardProofs`, parser (any grammar made of characters, of any length):

* `ParserReadsExactly` relates two readings of a body that have nothing in common. `ExprParser`
  goes from left to right, function by function, and never goes back; the reference fills a
  chart from right to left, with every way to read the notation. `ParserExact` speaks of the
  end of a body only. The invariant, `ParserInv`, says where it stands in the middle: each
  parenthesis that is open, and the body itself, has a *goal*, the positions where that call
  may end. The body's goal is its end; that of an inner call is the set of closing parentheses
  after which the outer one can still reach its own (`Inner`, `IsGoals`). The body is
  well-formed exactly if the chart leads from the cursor to the innermost goal (`Hope`):
  from the beginning of a branch (`Starts`) as long as it has no item, from behind an item
  (`Continues`) after that.
* So the parser must lose nothing by not going back. That is one lemma per decision it takes:
  white space makes no difference (`SkipWsIs`); a sign of repetition belongs to the
  factor before it (`SignedIs`); a name that stops early would be followed by another
  name (or a digit or a hyphen, which begin nothing), and it is as good to read on
  (`NameIs`); a parenthesis is what its inside makes of it (`GroupIs`); a literal or a
  class ends at the first close that is not escaped, counting backslashes, and nowhere else
  (`LiteralReadsQuoted`, `RangesReadQuoted`, where a range with `-` must not swallow the close).
  `NoFactorIs` and `ParseFactorIs` say that where the parser refuses, the chart leads nowhere.
* `Chart`, `Literal` and `Ranges` are recursive functions; that they satisfy their equations
  (`ChartIs`, `LiteralIs`, `RangesAre`) is `DescendingRecursion`: each refers to later positions
  only. `OneChart` shows that the equations leave no choice.
* The theorem is about `ParserSpec`, the parser followed by steps that leave the grammar
  alone (`Used`). `VerdictDecoding`, which the run `decoding` checks, takes no others. That
  what was read means what it should is `AcceptorExact`, and model-checked.

`GuardProofs`, process (any finite set of calls, any number of workers, any start limit):

* `GuardPassIsTheModels` needs that a call gets as far as the model only if its request
  was in order (`Vetted`). `OneCall` reduces every handler to the one record it replaces;
  `DieGood` is the one step that settles many calls at once.

`ConfigurationProofs` (any files, lengths and windows):

* What a process keeps was valid when it started and is never changed (`Sound`), from
  which `ConfigurationMeetsAssumptions`, `ConfigurationSameWindows` and, with a score that is
  a number, positive infinity or NaN (`ScoreOK`), `ConfigurationArmed` follow.
* `ConfigurationScoring` closes the gap to the other modules: with a policy of numbers a
  turn computes and blocks as `Scoring` does under the file's parameters.

`ChallengeProofs`, encoding rule (any forest of blobs, any horizon and budget):

* `BlocksIffHidden` compares the end of a scan, in whatever order it went, with a definition
  that does not scan. The invariant, `ScanInv`, says of a scan that has blocked that there
  was something to find; of any other that it stands between a set `V` it is through with
  and the candidates on its stack (`Explored(V)`): `V` and the stack are disjoint, contain
  with each blob the one it was decoded from, and every blob that can be reached from `V`;
  nothing in `V` is a reason to block; the budget and the counter of opaque blobs have
  settled exactly `V`.
* `VisitKeeps` carries `V` over one candidate. When the stack is empty, `AllExplored` shows
  that `V` is everything visible, by induction from a blob to what it decodes to
  (`ParentInduction`). A budget that is exhausted on the way would be exhausted in the end,
  because sums of sizes only grow (`TotalMonotone`).
* `Level` and `Reachable` are recursive functions; that they satisfy their equations
  (`LevelIs`, `ReachableIs`) is `ParentRecursion`: a blob comes after its parent, so the
  recursion is well founded.

`ChallengeProofs`, layer (any text, any pattern rules, any thresholds):

* `LayerReportsExactly` relates counters that two loops move to a definition by positions
  and words. `CharsCounted` settles the characters up to the cursor. `WordsCounted` settles the
  words up to it: the cursor is between words, the next word is a maximal run of letters
  (`NextWord`), and two letters of one word are either both in it or both before it, so that no
  mixture spans two words (`WordMixes`). Of `mixed` the invariant says less than of
  `confusable`: a word that mixes both ways counts as confusable only, which hides nothing,
  since the precedence of the verdicts agrees (`VerdictOfCounters`).

`Sums` has what these proofs need of `MapThenSumSet`: that the fold over a finite set is well
defined (`IsFold`, `FoldExists`, `FoldUnique`, hence `TotalIsFold`) and that a sum may be taken apart at
any element (`TotalRemove`), from which `TotalAdd`, `TotalSame` and `TotalMonotone` follow. The
provers cannot instantiate an induction principle that takes a predicate;
`NatSetInduction`, `SubsetInduction` and `DescendingInduction` are stated with the *set* of what
satisfies it, and `DescendingRecursion` takes what a function should compute as a function.

Only model-checked:

* liveness: `Redemption`, `Termination`, `Decides`, `Recovers`, `Decodes`. The
  provers have no rule for fairness and ENABLED;
* the acceptor and the decoder: `AcceptorExact`, `AcceptorFollowsDecoder`,
  `OnlySentencesPass`, `SentencesAreRead`. They rest on recursive operators (the matching of a
  node, a least fixpoint, the derivations of a node), with which the provers lose arithmetic.

## 6. Plan

Done, in this order: ledger, windowing, fan-out, kernel, gateway, encoding rule, challenge
layer, guard process; then grammar, decoding and verdict; configuration. What is left:

1. Guard process and fan-out composed: what the guard's clients see of a restart is one
   of the environments of `GuardFanout`.
2. Typestate payload with an embedder that mixes up reports (`TrustViolation`).
3. Two surfaces: the gateway counts one turn per direction, the kernel one per tool call.
   Invariant to state and prove: for the same traffic and `Floor <= FlagWeight`, the
   gateway's score is at most the kernel's.

## 7. Not modelled

Regular expressions, Unicode tables, base64/hex/percent decoding (data the rules are
given); the model itself, the prompt's wording and the mock backend (data and a stateless
stand-in); the syntax of TOML, tracing and latency histograms (I/O without a reader in the
code); `to_block_decision` and `is_security_block` (total tables the compiler checks for
exhaustiveness); shell scripts, corpus and benchmarks.
