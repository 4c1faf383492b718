# Formal models of the campus-sharing gateway

This directory is a TLA+ development of the core of the gateway: admission to an
upstream channel, the fair rotation of channels and routes, the verdicts of route
tests, the choice of rescues in the retry pipeline, the attempts of a streamed
request and what is stored of them, pass-through streaming, the settlement of usage
in token wallets, and the quotas that read it back. Every definition is translated
from the Go source; `PROJECT.json` names for each one the lines it stands for
("map"), for each run what it asks, and for each property a plausible bug in the code
that makes the property fail ("mutants"; the mutated forms stand in the modules next
to the definitions they change). `tlc -config X.cfg M` repeats a run, `tlapm M.tla` a
proof.

Paths below are relative to `src/internal/server/` unless they start with `llm/`
(`src/llm/`). `B:` stands for `biz/`, `O:` for `orchestrator/`.

## 1. Inventory

A request enters an HTTP handler, is authenticated and checked against quotas. The
inbound transformer turns it into a provider-neutral request. The orchestrator
selects channels (upstream accounts, donated by members) and runs the pipeline,
which sends it through one route of a channel (a channel with an exact credential)
and, when the attempt fails, goes on to another route. At the end the usage is
logged and settled: the caller's token wallet is debited, the donor's credited.

| Component | State | Operations | Shared with |
|---|---|---|---|
| Channel limiter, `O:channel_limiter.go` | slots in use, FIFO of waiters | Acquire, Release | all requests of the channel |
| Channel admission, `O:channel_limiter_manager.go`, `O:connection_tracking.go` | limiter per channel and configuration; slot of the current attempt | GetOrCreate, Forget, middleware hooks, stream Close | limiter, pipeline |
| Fair rings, `B:unified_route_state.go` | per-model cursors of channels, primary and rescue; per-channel route counter | NextPrimary, NextRescue, NextRescueRoute | all requests of the model |
| Route availability, `B:unified_route_state.go`, `O:tester.go` | verdict and generation per route, tests in flight, singleflight keys | TriggerTest, NextTestGeneration, RecordTestVerdictGeneration, manual tests | selection of rescues, UI |
| Candidate selection, `O:select_candidates.go`, `O:outbound.go` | per request: candidates, current route, attempted routes | selectCandidates, NextChannel, routeOptions, TransformRequest | rings, availability, affinity |
| Retry pipeline, `llm/pipeline/pipeline.go` | per request: channel switches, retries | Process, processRequest | everything an attempt touches |
| Streaming, `llm/pipeline/stream.go` | first-event guard, pre-read events, flags of the request (StreamCompleted, OutboundStreamCompleted, AttemptAccepted, AttemptSemanticOutput) | stream, preReadLlmStream, autoAggregateStream | pipeline, persistence, affinity |
| Pass-through streaming, `O:pass_through.go` | copying goroutine, pipelineCh, rawStreamCh, first-event timer | captureRawProviderStream, applyPassThroughStream, drain | pipeline, SSE writer |
| Session affinity, `O:session_affinity.go` | bounded map session -> channel with expiry | Lookup, Bind | selection |
| Rate tracker, `O:channel_request_tracker.go` | minute windows, cooldowns per channel | TryAcquireRequest, SetCooldown, GetCooldownUntil | selection, error hooks |
| Usage settlement, `B:usage_log.go`, `B:token_wallet.go` | rows: usage logs, wallets, ledger, cutover | CreateUsageLog, EnsureStartedAt, prepareSettlement, applySettlement | database |
| Effective tokens, `B:effective_tokens.go` | none (a function of a usage) | EffectiveTokens, StoredEffectiveTokens | settlement, quotas, rankings |
| Quotas, `B:quota.go` | none (sums over usage logs) | CheckAPIKeyQuota, CheckUserDailyTokenQuota | settlement |
| Request persistence, `O:inbound.go`, `O:outbound.go`, `B:request.go` | request and execution rows, live stream cache | Close, error hooks | settlement, UI |

How they interact: the pipeline calls middlewares serially, so one request is
sequential; requests run in parallel goroutines and meet in the limiter (mutex and
per-waiter channels), the rings and the availability (one mutex, several critical
sections per choice), and in the database. Tests of routes run beside requests and
change the availability between any two reads of it. Settlement runs in a detached
context with ten seconds, after the answer has gone out.

What makes each component correct:

* limiter: no slot is lost or invented when a grant meets a timeout or a
  cancellation; the cap is strict; service is first come, first served; nobody
  waits while a slot is free, and nobody stays inside Acquire for ever;
* admission: every slot is released once and into the limiter it came from, also when
  the limits change under a request; an open connection has a slot; the rate of a
  minute is exact;
* rings: a channel that stays a candidate gets its turn before another is served
  twice, whatever the concurrent requests' candidates are;
* availability: it is the verdict of the test that *started* last; a failed or
  panicking test neither stays in flight nor blocks later tests;
* rescue: verified routes come first, fresh ones before repeated ones, although the
  verdicts change during the choice; every request ends;
* settlement: a request moves money once, in the right amount, never below zero,
  and leaves one usage log, although calls are duplicated, retried, deadlocked,
  cancelled and lose their commit replies; no usage is lost to contention;
* streaming: an attempt is kept or replaced, never both; silence ends; what is kept is
  not cancelled by the timer of its first event;
* persistence: an execution is "completed" only if its own provider finished, a
  request "canceled" only if its client left; one attempt is charged; nothing stays
  "processing" and no connection open when the request is over;
* affinity: a session is bound to the attempt that answered, not to one that failed;
* pass-through: the client's clean end is the provider's whole stream; a slow, failed
  or absent reader does not block the other one for ever;
* cutover: no usage of the new release counts as historical;
* quotas: a check that passes was right about the day, the week and the wallet at the
  moment it read the clock; no token is paid twice or not at all;
* effective tokens: the documented number, without overflow.

The hard behaviours, each with its line, are the "hazards" of `PROJECT.json`, those
no property covers yet with the reason. The parts that stay out, with the reasons,
are its "components" with status `not_modelled` and section 7.

## 2. Modules

| Module | Models | State <-> code |
|---|---|---|
| `FifoSemaphore` | abstract: what admission promises | owners, queue |
| `ChannelLimiter` | Acquire/Release; one step per critical section, the select and the hand-back outside the mutex are steps of their own | `inFlight`, `waiters`, `closed` (closed slotReq channels), `waitErr` (waitCtx.Err) |
| `RouteRings` | the ring operations, as constraints on the item chosen | `last` (cursor per ring and model), `routeNext` (modulo RouteCycle) |
| `FairRotation` | any requests calling the rings with any candidates | history variables count turns |
| `RouteTests` | programmatic tests (singleflight) and manual tests of routes | `availability`, `generations`, `nextTestGen`, `inflight`, `stage` |
| `RescueRouting` | selection, attempts and the retry loop of concurrent requests, over `RouteRings`, with verdicts changing at any moment | `candidates`, `route`, `tried` (AttemptedRoutes), `switches`; one step per read of the availability |
| `AtomicSettlement` | abstract: what a settlement promises | balance, moves |
| `UsageSettlement` | CreateUsageLog's retry loop and its transaction, statement by statement, over three kinds of isolation | committed rows `wallet`, `logs`, `ledger`; per call `pc`, `attempt`, `plan`, `view`, `held` |
| `ChannelAdmission` | the registry of limiters, the middleware's hooks and the request rate, for requests with stale snapshots of a channel that administrators change | `stored`/`cached`/`snapshot` (row, enabledChannelsCache, request), `entry` and `limiters`, `slot`/`held` (m.current and its sync.Once), `window` |
| `StreamAttempts` | all attempts of one streamed or aggregated request: dial, probe, acceptance, delivery, the order of the wrappers' Close, retries | `guard` (firstEventTimeoutGuard.state), the four flags, `exec` and `request` (rows), `usage` (the attempt charged), `affinity` (the attempt bound) |
| `PassThroughStream` | one attempt with pass-through: the copying goroutine, the pipeline's reader, the client's reader | `g`, `d`, `c` (where each party is), the two channels, `rawStreamErr` |
| `EffectiveTokens` | the word arithmetic, the rows of both releases and the SQL expression of the quotas | operators without state |
| `AccountQuota` | one account's checks and settlements over a calendar: the cutover, the timestamps, the windows of Beijing, the split between wallet and allowance | `balance`, `log`, `startedAt` rows; per call the locals of CheckUserDailyTokenQuota and CreateUsageLog |
| `DataFacts` | lemmas on queues, sums over finite sets and quotients, used by the proofs | |
| `*_proofs` | theorems of the module they extend | |
| `MC*` | small instances for TLC | |

`RescueRouting` and `FairRotation` extend the same `RouteRings`, so the fairness of
the rings and the rescue choice speak of the same cursors. `ChannelLimiter` implements
`FifoSemaphore` under the mapping owners <- the requests a slot is accounted to
(holding, granted but not yet running, or about to hand back), queue <- the list.
`ChannelAdmission` uses that semaphore for each limiter of its registry, so Acquire
and Release are single steps there. `UsageSettlement` implements `AtomicSettlement`, in
which a request is settled in one step, under the mapping balance <- the committed
balances, moves <- the ledger rows with calls replaced by their requests. `AccountQuota`
extends `EffectiveTokens` and takes the transaction that `UsageSettlement` opens up as one
step. `PassThroughStream` opens up what lies between provider and pipeline in an attempt of `StreamAttempts`.

Four modelling decisions a reader should know:

* *Transactions.* Reads of a settlement act on a snapshot (MySQL), on the latest
  commit (PostgreSQL), or on a snapshot that must still be the latest when the
  transaction first writes (SQLite). Writes are published at the commit; row locks
  (the file lock in SQLite) taken by earlier statements make that equivalent. The
  upsert that ensures a wallet row locks it. Wallet rows exist from the start.
  Under SQLite any statement may be answered with BUSY or LOCKED while another call's
  transaction is open or its EnsureStartedAt writes. Retried is what fails so inside the
  transaction; not retried are EnsureStartedAt before it, the lookup after it, deadlocks
  and lost commit replies. Every other failure of the database, and contention with
  writers other than settlements, is outside the model.
* *Routes.* A rescue reads the availability of one route per step, in any order,
  and up to four scans follow one another, as routeOptions does; channel and route
  are then chosen in two critical sections.
* *Events.* A provider's event is one of five kinds (metadata, content, finish,
  incomplete, the end sentinel) in StreamAttempts, and terminal or not in
  PassThroughStream. An event with content and a finish reason is two events.
  The end sentinel stands for the raw `[DONE]` of chat and for the terminals of the
  Responses API alike: either counts as terminal, whichever API the attempt speaks, so
  the model allows more streams than the code.
* *Time.* Timers fire at any moment while they are armed. Clocks of AccountQuota do
  not go back; its unit is a fraction of a day.

## 3. Runs and what they show

| Run | Instance | Shows |
|---|---|---|
| `limiter` | 4 requests, 1 slot, queue of 2, timeout; only the scheduler is fair | SlotAccounting, ImplementsSemaphore, EveryWaiterAnswered (if owners release), NoWaiterTrapped (even if they do not) |
| `admission` | 3 requests with 2 attempts, 3 configurations, one change or deletion of the channel, two minutes; symmetric | SlotsExact, ConnectionsHaveSlots, OneLimiterUntilChanged, MinuteBudget, WaitersHaveHolders |
| `fair_rotation` | 3 channels, all sets of candidates | FairTurns, RoutesUsedUp |
| `route_tests` | 2 routes, 2 manual tests, 3 starts | NewestTestWins, InflightIsExact, RouteTestableAgain |
| `rescue_choice` | 2 channels, 3 routes, budget of 4 switches | RescueHonoursPass, NoRepeatBesideFreshPass, RepeatHasReason, EveryRequestEnds |
| `stream_attempts` | 2 attempts, probe of 2 events, 4 events per provider, both modes | KeptStreamLives, CompletedIsReal, ChargedOnce, BoundToTheAnswer, CanceledMeansClientLeft, EverythingSettled, SilenceEnds |
| `pass_through` | channels of 2, up to 3 events probed, 5 events | CleanEndIsWhole, RecordTellsDelivery, NobodyBlocksForever |
| `settle_sqlite` | two calls for one request and a third call, one test request, one owner | OneLogPerRequest, ContentionIsRetried, EveryCallReturns |
| `settle_mysql` | four calls: one request twice, another of the same caller, one the other way round | NeverOverdrawn, WalletsMatchLedger, SettledOnce, SettlesAtomically |
| `account_quota` | 2 calls from Saturday to Monday, restarts, a donation, rows of the old release | TypeOK, NothingNewIsHistorical, AccountsTheDefinition, QuotaHolds, PaidOnce |

Two runs show that the code does not do what the repository says of it:

* `settle_deadlock`: a settlement locks the caller's wallet and then the donor's.
  Two members who use each other's channels at the same time deadlock under
  PostgreSQL (and MySQL); the database fails one of the two with an error that
  isRetryableTokenWalletSettlementError does not know, so it is not retried: its
  usage log, debit and donor reward are lost.
* `stream_affinity`: `O:session_affinity_test.go:178` says that committed partial output
  with an incomplete terminal must not bind the session. The Responses transformer
  appends its `[DONE]` after response.incomplete as well
  (`llm/transformer/openai/responses/outbound_stream.go:139`), which counts as a
  successful terminal, and Current (`O:session_affinity.go:399`) binds at it.

Read while modelling and not checked by a run of their own:

* settlement under SQLite: EnsureStartedAt (`B:usage_log.go:130`) writes and reads the
  system table before, and outside, the transaction that is retried. With BUSY or LOCKED
  there (a shared cache, as in `config.example.yml:89`, answers LOCKED without waiting for
  busy_timeout) CreateUsageLog returns at once: no attempt, no retry, no lookup, and
  the usage is lost. So UsageSurvivesContention does not hold under SQLite either: with
  it in place of ContentionIsRetried, `settle_sqlite` ends with two calls in
  EnsureStartedAt, one of which fails. ContentionIsRetried is the weaker claim that
  holds, about calls that came to their transaction; it excuses used-up attempts, which
  lose the usage too;
* settlement: usage_logs has no unique index on the request, so outside SQLite two
  concurrent calls for one request that moves no money both write a log; under MySQL a
  wallet that was credited after the settlement's snapshot may count as empty, and as an
  empty one is not debited its version is never compared, so that usage enters the
  allowance although the maintenance guide says the wallet is debited first
  (`docs/en/development/ucas-campus-sharing-maintenance.md:219`). `MissesCredits` of
  AtomicSettlement names this exception, and without it TLC refutes SettlesAtomically;
* limiter: `internal/objects/channel.go:241` documents queue size nil / 0 as a soft mode
  that counts without blocking; the limiter always blocks (`O:channel_limiter.go:80`);
* registry: Forget is commented as called after an update or a deletion
  (`O:channel_limiter_manager.go:147`); updates do not call it, the next request replaces
  the limiter;
* rescue: the second scan (a tried route that passes) comes before the untried routes
  that do not pass, although `O:outbound.go:955` says a distinct route always comes
  first; a forced key that cannot be built fails before its route is recorded as
  attempted; the maintenance guide's same-channel retry and "currently healthy"
  primaries do not exist, the primary is chosen without looking at the availability;
* streaming: a stream that reaches the probe limit without content is accepted as the
  answer and may leave a completed request beside an execution that failed as empty; a
  Responses answer that ends incomplete completes the request of a chat-completions
  client; an aggregated stream without a terminal is answered with status 200; between
  two aggregated attempts a request may be stored as failed for a moment; an execution
  whose request could not be updated with its channel (`O:request_execution.go:107`)
  stays "processing" until the stale-record job of the next start, which is the one
  exception in EverythingSettled;
* pass-through: a provider that sends more than 64 raw events without content fills
  rawStreamCh before the client reads it; the first-event timer cancels the provider's
  request only, so the attempt stalls until the client leaves or the request times out
  (`Stalled` in NobodyBlocksForever); a client that leaves right after its last event
  can lose the recorded terminal and usage; a transformation that fails while the
  accepted stream is drained truncates the client's raw stream, possibly without an
  error (the exception in CleanEndIsWhole);
* cooldowns: SetCooldown has no caller outside tests.

### Bounds, and why they are enough

* Limiter: four requests are an owner, two waiters and one that is turned away, with
  every grant racing every timeout and cancellation. Goroutines are reused, so runs
  are unbounded in length; the theorems hold for any capacity and queue.
* Admission: one configuration with a slot, a queue and a rate, one with two slots, one
  without a limit of concurrency. One change makes an old and a new limiter serve at
  once; with the deletion, a limiter is forgotten while requests hold its slots. Two
  minutes let a window end between two attempts.
* Rings: three channels let one be passed over while two others alternate;
  candidates are every non-empty subset. `RouteCycle` stands for the wrap-around
  of the route counter.
* Tests: `MaxStarts` bounds the tests ever started; with three, an old, a newer and
  the newest test of one route overlap.
* Rescue: one channel with two credentials and one with one; four switches let every
  route be tried and repeated. One request explores every flicker of the verdicts;
  other requests can only move the shared cursors, and the theorems of section 5
  hold for any number of them.
* Settlement: `MaxAttempts` is 2 in the runs, 8 in the code: one retry shows what a
  second attempt sees; the proofs are for any number. Balances are smaller than the
  usage, so wallets run empty. SettlesAtomically is checked under MySQL, whose snapshots
  are the hardest case; for the other two engines the theorem of section 5 stands alone.
* Quotas: FirstWeekday is a Saturday, days have two units and Beijing is one unit
  ahead: the day turns within a UTC day, and the week turns once. Limits of 2 and 3
  tokens beside usages of 1 to 3 make the wallet, the day and the week bind in turn.
  Words have five bits (`MaxInt` 15, 63 bits in the code), `Ceiling` stands for
  MaxEffectiveTokensPerRequest; the reports reach the ceiling and overflow the sum.
* Streams: two attempts are one that is replaced and one after it, which is where
  leftovers of a failed attempt show. `ProbeLimit` 2 (16 with retries, 3 without in the
  code) is reached and passed by four events, three in `stream_affinity`.
* Pass-through: `Buffer` 2 (64 in the code); three events probed fill it, five events
  let both channels be full, drained and full again.

Deadlock checking is off (`CHECK_DEADLOCK FALSE`) where the instance really ends: all
requests or calls have finished, or the bounded starts, changes and clock are used up.
The limiter, the rings and `stream_attempts` are checked for deadlock.

## 4. Fairness

Only what the code or its runtime guarantees is assumed.

* `ChannelLimiter!SchedulerSpec`: a goroutine with a ready branch in its select
  runs. That the timer fires, the caller leaves or an owner releases is *not* assumed;
  EveryWaiterAnswered states the last as its hypothesis (`OwnersRelease`).
* `RouteTests!FairSpec`: the steps of a programmatic run. Its context ends after two
  minutes, so a run comes back. Nothing is assumed of manual tests.
* `RescueRouting!FairSpec`: a request's own steps. An attempt ends because the
  response timeouts are set on its context; the loop itself has nothing to wait for
  (the retry delay is zero in production). Verdicts may flicker for ever.
* `UsageSettlement!FairSpec`: a call's own steps, of which a lock wait is not one:
  a call that waits for a lock is only fair once the lock is free, and the database
  breaks deadlocks. The ten-second context may end a call but need not.
* `StreamAttempts!FairSpec`: the request's own goroutine, the handing out of probed
  events, an armed first-event timer (and the cancel that follows it), and that a read
  or dial whose context is cancelled returns. Nothing is assumed of the provider or of
  the client: neither must send, read or leave.
  A first-event timeout is always configured in the model. The code runs without one
  when retries are disabled in the settings, except in route tests
  (`O:orchestrator.go:203-208`; the zero then
  arms no timer), and SilenceEnds is not claimed there: a silent provider ends only with
  the client's leaving or the request's timeout.
* `PassThroughStream!FairSpec`: the copying goroutine, the pipeline and the handler run,
  an armed first-event timer fires, and a read of the provider returns at last: a
  silent one ends, fails or is cut off by the request's timeout (600 s,
  `src/conf/conf.go:166`). The client never has to leave.

## 5. What is proved

Each theorem is for every value of the constants under the named assumption of its
module. The proofs have one lemma per group of actions that says what a step of one
actor leaves alone, one for the actor itself, and the theorems follow from the
inductive invariant.

* `ChannelLimiter_proofs` (LimiterAssumption): TypeOK, SlotAccounting, StrictCap,
  NoIdleSlot, NoOvertaking, and the refinement of `FifoSemaphore`. SlotAccounting is
  not inductive alone: the hand-over keeps the count only if the head of the list is
  really waiting and not already granted (QueueAccounting), and a waiter that gives
  up hands back only if an error was recorded for it. `DataFacts` supplies what
  removing an element leaves of an injective sequence.
* `ChannelAdmission_proofs` (AdmissionAssumption): TypeOK, SlotsExact,
  ConnectionsHaveSlots, OneLimiterUntilChanged, MinuteBudget, WaitersHaveHolders. The
  slots are counted by Cardinality over the requests that hold one, so the proof goes
  limiter by limiter, current and replaced: a queue has no duplicates and only requests
  waiting there (`Queues`), the counter is the number of holders and at most the
  capacity, and a queue means that it is full (`Counters`), an attempt past Acquire
  holds what it was given (`HeldSlots`). A grant of Release passes the slot from one
  holder to the next and leaves the counter alone; `Budget` counts the minute.
* `Routing_proofs` (RingAssumption, RescueAssumption, TestsAssumption), on three models
  whose next-state relations stay apart:
  - the rings (`FairRotation`): RotationTypeOK, FairTurns, RoutesUsedUp. A channel d that
    had a turn since c's last one lies behind the cursor on its way round to c, so the
    cursor reaches c before it can reach d again (`TurnsBehind`). The routes used in a
    round are one stretch of the rank order, which ends at the counter and may run
    around the end of the list (`RunsOfRoutes`). RoutesUsedUp needs the wrap-around of
    the counter to fall at the end of a round for every list a channel can offer, hence
    the divisibility in RingAssumption; the code's counter is an int that never gets
    near its limit.
  - the rescue (`RescueRouting`): TypeOK, RescueHonoursPass, NoRepeatBesideFreshPass,
    RepeatHasReason, StaysWithCandidates. The invariant says for each tier of the scan
    what its options may contain, and that a route that passed all along is still unread
    or was collected.
  - the tests (`RouteTests`): TestsTypeOK, NewestTestWins, InflightIsExact. Generations of
    different running tests differ, a generation completes with one verdict, and the
    recorded generation is the largest completed one (`TestsInv`).
* `UsageSettlement_proofs` (SettlementAssumption): TypeOK, NeverOverdrawn,
  SettledOnce, for all three engines. The invariant: locks exclude; a transaction
  past its debit holds the lock of the wallet it debits and the committed balance
  still covers the debit; a transaction past its credit check holds the donor's lock
  and no ledger row of the pair exists; ledger rows name the caller or the donor. From
  it follows WalletsMatchLedger, for all three engines too: a commit adds its rows to
  exactly the wallets it changes, and the rows are new (`Balanced`). OneLogPerRequest
  and ContentionIsRetried are proved for SQLite, the default engine, alone
  (`Engine = "sqlite"` is a hypothesis of the two theorems): the second does not hold
  elsewhere, as `settle_deadlock` shows, nor the first (section 3). `SqliteInv`
  says why they hold there: a transaction that writes holds the database, and
  the snapshot it decided on is then still the latest. Last, the refinement of
  `AtomicSettlement` for all three engines (SettlementIsAtomic): Commit is the abstract
  step, every other step changes neither balances nor ledger. `AtomicInv` says why the
  debit that was planned is the one a settlement of the present wallets would make: the
  plan was made from the present row and the row has been locked since (PostgreSQL, and
  SQLite, which refuses the lock to a stale snapshot), or the debit found the row with
  the version of the snapshot, and a version belongs to one row (`VersionsTell`).
* `AccountQuota_proofs` (TokensAssumption, QuotaAssumption): CodeComputesDefinition (the
  saturating word arithmetic computes the documented number for every input, word size
  and ceiling), ReadersAgree (Go and SQL read a row of either release alike), TypeOK,
  NothingNewIsHistorical, AccountsTheDefinition, PaidOnce, QuotaHolds. The invariant
  orders a call's readings of the clock: the cutover was stored before the usage was
  stamped. `PaidInv` carries the sum of what the wallet paid from row to row. `RoomInv`
  says that the day's allowance found by the first query bounds that of the rows present
  when the check began; it rests on the calendar lemmas (DayIsCovered, WeekIsCovered: the
  bounds the queries use contain the Beijing day and the Monday-to-Sunday week) and on
  QueryCovers: rows only arrive, and each counts for at least zero.
* `StreamAttempts_proofs` (AttemptsAssumption): TypeOK and every invariant of the run
  `stream_attempts`. IInv adds to the types: `Guarded` (a stream is kept only with a
  decided guard, and only a timer that fired has cancelled its context), `Justified`
  (cancellation comes from the client), `Settled` (the attempt about to start has nothing
  open), `Flags` (the request's flags speak of the attempt in progress) and `Rows` (rows
  are completed, charged and bound only at the end, for the attempt accepted). The many
  ways an attempt is given up are treated once, by `FailStep`.

* `PassThroughStream_proofs` (PassThroughAssumption): TypeOK, CleanEndIsWhole,
  RecordTellsDelivery. `Whole` says where every event is (written, in the client's channel,
  or in the hands of the copying goroutine) unless the attempt ended early, and
  `ClosedEarly` who can have ended it; `TerminalTravels` follows the terminal event,
  which reaches the pipeline's channel before the client's and is the last of both.

`DataFacts` proves what these modules need of data. Sums are SumFunction of the community
modules, a fold the provers cannot unroll by induction. They are determined without it:
of all sets for which a statement about sums fails a smallest one exists
(`MinimalSet`, from the well-foundedness of strict inclusion), and one step from it to a
set without one of its elements gives the contradiction.

Every invariant that a passing run checks is proved. Model-checked only are the liveness
properties (EveryWaiterAnswered, NoWaiterTrapped, RouteTestableAgain, EveryRequestEnds,
SilenceEnds, NobodyBlocksForever, EveryCallReturns), which need ENABLED.

## 6. Plan

Written, in this order: limiter and semaphore; rings; tests; rescue; settlement; tokens;
streaming; admission; quotas with the cutover; pass-through; the abstract settlement.
Next, in this order:

1. In `StreamAttempts`: plain upstream answers, and same-channel retries should they be
   configured; `PassThroughStream` as the implementation of its reads.
2. The affinity map with expiry and eviction, in place of the free target of
   `RescueRouting`; the quotas of API keys and profiles.
3. Panics of an attempt between Acquire and the releasing hook.

## 7. Not modelled

* *Generated and declarative code*: ent, gqlgen, OpenAPI. It is most of the
  implementation by lines and has no control of its own, so the share of lines the map
  covers is small by nature.
* *Conversions*: the wire-format transformers; StreamAttempts takes the kinds of events
  they produce.
* *External services*: provider OAuth, quota probes, OIDC; what a test sends upstream,
  and how its answer is judged, is one nondeterministic verdict.
* *Plumbing and presentation*: HTTP handlers, resolvers, the frontend; administration of
  channels, users and projects except what a change of a channel does to admission;
  backup, restore and garbage collection.
* *Selection*: the selector chain and its load-balancing strategies. RescueRouting takes
  *any* non-empty set of candidates, which covers whatever the chain returns. The
  circuit breaker only feeds a weight that the unified order does not use.
* *Parts of modelled components*: the cost of a request and the wallet summaries
  (reports without effect on the state modelled), the affinity map, bodies and chunks of
  stored requests, failures of the database while statuses are stored (but the one that
  orphans an execution), panics of an attempt.
