# Homunculus core: a verification project

TLA+ models of the server of Homunculus (`server/`, `shared/`), the TLC
configurations that check them on small instances, and theorems about them with
proofs that TLAPS checks. Paths below are relative to the repository; line
numbers are those of the commit in `src/`.

Contents: [the system](#1-the-system), [the plan](#2-the-plan),
[the modules](#3-the-modules-and-the-code), [the runs](#4-the-runs),
[fairness](#5-fairness), [the findings](#6-what-the-code-does-otherwise-than-it-says),
[the proofs](#7-the-proofs), [the limits](#8-what-is-not-modelled-and-why).

## 1. The system

One Node process (`server/index.ts`, an HTTP and WebSocket hub) runs a set of
long-lived objects ("hubs"): a trading engine for one Gemini account, a fleet of
Claude agents, alerts, an audit log, a state store, and integrations. JavaScript
runs one callback at a time, so all interleaving happens at `await`s: a request,
a timer or the answer of a fetch may run between any two of them. The process is
restarted freely (deployments, crashes, `/api/restart`), so every hub keeps its
state in JSON files, mirrored into Postgres, and rebuilds itself from them.

| component | state | operations | interacts with |
|---|---|---|---|
| AutoPlanner, sequential plans (`crypto.ts` 3413-4160, 5321-5353) | `plans`: symbol -> PlanEntry (status, steps, aborted, runId, haltAfterStep); `active-plans.json` | propose, patchStep, confirmProposal, start, stop, reset, run, resumePlansIfAny | the exchange (orders), StateStore, AuditLog, the bracket engine and the ladder |
| AutoPlanner, brackets (4163-5318) | BracketState of a step: phase, order ids, legs; `active-bracket.json` | runBracket, awaitEntryFill, adoptPartialEntry, placeProtection, placeStop/cancelStop, monitorBracket, adjustBracket, finalizeBracket, resume, revive | the exchange, CryptoHub (ledger, safe mode) |
| AutoPlanner, BTC ladder (3118-3205, 5400-5610) | `btc-cycles.json`: cycles open/staged/placed/closed | openBtcLadderCycle, linkBtcRebuyOrder, closeBtcLadderCycle, reconcileBtcLadder, onStepFilled | plans of BTCUSD, open orders, trade history |
| AutoPlanner, auto-execute (5616-5731) | switches and caps, held plans | setAutoExecute, evaluateAutoExecute | confirmProposal |
| CryptoHub (6124-7349) | snapshot (balances, openOrders, pending, safeMode), closed trades, timers | fullRefresh, tickerRefresh, hotRefresh, refreshOpenOrders, addPending, executeTrade, dismissTrade, cancel/modify order, closePosition, loop mode, schedule | Gemini client, AutoPlanner, StrategyRunner |
| Safe mode (6960-7199) | arms, opt-outs, `safeModeFiring` | arm, disarm, adjust, autoArm, prune, check, fire | open orders, bracket engine |
| Gemini client (191-260, 560-760) | nonce, chain of private requests | placeOrder, cancelOrderVerified, fetch... | the exchange |
| AuditLog (`auditLog.ts`) | monthly JSONL files, hash chain head, queue, table `audit_log` | record, note, load, flush, start (migrate, backfill), verify, stop | everything that changes state calls it |
| StateStore (`stateStore.ts`) | files under `data/`, queue, tombstones, table `app_state`, ledger tables | writeJson, deleteJson, flush, flushTombstones, start (reconcile), stop | every hub |
| StrategyRunner (`strategyRunner.ts`) | state, external heartbeat | start, run (SDK session, 20 min limit), externalHeartbeat | schedule of CryptoHub, Claude SDK |
| AgentFleet (`agents.ts`) | records, `running` slots, spend ledger, inline chains | start, execute, tick, propose, chat, standdown, wakeFromAlert | CryptoHub, alerts, blockers, Claude SDK |
| CryptoAlerts (`cryptoAlerts.ts`) | alerts with armed bits, bar stamps | add, evaluate, re-arm | AgentFleet.wakeFromAlert |
| Peer sync, chat, office, screener service, Home Assistant, OSINT, telemetry, terminal, library, layout, secrets | one file, child process or upstream each | see `PROJECT.json` | the hub, browsers |
| Renderer (`src/`), Electron (`electron/`), Python screener (`engine/`) | views; a batch program | | HTTP and WebSocket |

### Where it is hard

* **Superseded coroutines.** `run()` and `monitorBracket()` are loops of awaits
  that may last hours. `stop()`, `reset()` and a second `start()` do not end
  them: they set a flag or bump `runId`, and the old coroutine finds out when it
  wakes. Everything it does after its last check is done on behalf of a plan that
  is no longer there.
* **Requests whose fate is unknown.** An order may be on the book although
  `placeOrder()` threw, a cancel may come too late, an INSERT may be applied
  although its answer was lost.
* **Restarts at any await.** What is on disk is the state of the last `notify()`;
  the exchange kept moving. The order of the boot (`resumeBracketIfAny`, then
  `resumePlansIfAny`, after an awaited `fullRefresh`; `StateStore.start` after the
  hubs have read their files) leaves windows in which hubs run on partial state.
* **Two copies.** Both stores promise that file and table agree, over a database
  that comes and goes, with statements in flight on several connections.
* **State read before an await and used after it**: the ladder's ledger, safe
  mode's captured arms, open orders, the agents' slots.

`PROJECT.json` lists every hazard at its line, with the property that covers it
or the reason why none does.

### What makes each component correct

* *Plans*: a step is reported filled only if its own order executed; steps go out
  in order; one process places a step once; a superseded run goes on to no step;
  a slot is busy exactly while its run works; a restart restores what was staged or running;
  every run ends and frees its slot.
* *Brackets*: whenever coins are held, a stop rests or is about to; never more
  sell orders than coins; a bracket reported flat holds nothing; one entry and one
  stop at most rest; a restart forgets no protection.
* *Ladder*: every sold slice is bought back once; no cycle linked to an order is lost.
* *Safe mode*: an arm fires at most once, only while armed, never for an order
  another controller owns; what it cancels it re-lists or reports.
* *AuditLog*: the files are one chain holding exactly what was recorded; the table
  trails them and ends equal to them; verify() is silent exactly when nothing is wrong.
* *StateStore*: the file is what the hub last wrote, across restarts; the row
  catches up and never goes back; a deleted value stays deleted.
* *StrategyRunner, AgentFleet*: at most one run per slot, a slot is held exactly
  while its run lives, the spend cap holds over concurrent runs.

## 2. The plan

Most important first; all of it is in the project.

| module | models | abstract specification or composition | proved |
|---|---|---|---|
| `PlanRunner` | the slot of one symbol | the exchange and the restart inside | types, fills are real, order of steps, ends closed, one placement in each life, stale coroutines, restarts restore |
| `Bracket` | one bracket, its coroutines and its orders | an exchange with fills, cancellations and lost answers | types, never forgotten, the lock holds, one entry on the book, one stop, levels hold, a closed bracket is sold or offered |
| `BtcLadder` | the ladder's ledger and its reconciler | the BTCUSD slot in outline, the order book, the serialised request chain | |
| `SafeMode` | trade queue, calls on orders, refreshes, armed stops | operator, refreshes, hot loop and bracket engine over one order book | types, disarms hold, trades are sent once |
| `StrategySchedule` | StrategyRunner and the timers of CryptoHub | both in one module: timers, queue, heartbeats, sessions | types, one session, timers are the settings |
| `AgentFleet` | runs, chats, hand-offs, questions, budgets | questions (blockers) and the exchange's answers inside | types, slots and chains, budgets |
| `AuditLog` | the chained files and their table | `MirroredLog`, which it implements | the chain never forks, rows are the files, `verify()` notices, the queue is emptied, the refinement |
| `StateStore` | the files of the hubs and their rows | | types, the disk is the last value, the copies agree |
| `PeerSync` | the sync of data files among nodes | several nodes, several runs | types, times travel, reports are true, the newest survives |

What is left is listed with reasons in section 8. Modules that theorems are about
use no recursive operator, take their sizes as constants with named assumptions, and
have one action per stretch of code between two awaits.

## 3. The modules and the code

`PROJECT.json` maps every definition to its lines. What follows is the shape of
each module and the choices in it. `MCx.tla` gives the model values and the scenarios
of `x` to TLC, `xProofs.tla` holds its theorems (the inductive invariants of `Bracket` and
the definitions its proofs use are in `BracketInvariants.tla`).

Several modules have **scenarios**: a set of words that name the uses and the upsets
that one behaviour may meet (`"restart"`, `"lost"` for an answer that is lost although
the request was carried out, `"fault"` for a request that fails, ...), each upset at
most once. `Init` picks one set. A run's scenarios are those under which its
properties hold; the combinations left out are the exposures of section 6.

### `PlanRunner`: the slot of one symbol

`AutoPlanner.plans` is keyed by symbol and everything a plan does touches its own
entry, so one symbol is modelled. It is not BTCUSD, whose plans also move the
ladder's ledger.

| state | in the code |
|---|---|
| `ent`, `entry` | the PlanEntry under the symbol, and the older ones that coroutines still hold (`reset()` deletes the entry from the map, `entry()` makes another): `active`, `isProposed`, `aborted`, `haltAfterStep`, `runId` as the coroutine it names, the array of steps |
| `steps`, `shape` | AutoStep objects: status, geminiOrderId, approved, the reason in `error`; side and type |
| `run` | a `run()` coroutine: the await it is suspended in, the step it is at, the polls since `startedAt` |
| `order` | the exchange's view of every order sent |
| `disk`, `phase` | `active-plans.json`; whether `resumePlansIfAny()` has run |
| `origin`, `born`, `owed` | ghosts: the plan a restored copy stands for; the life of the process that built the array of steps; what was in memory when the process died. An order carries the array and the life that sent it |

Actions: `Propose`, `PatchStep` (approvals), `ConfirmProposal`, `Start`, `Stop`, `Reset`
are the calls; `ResolveEmpty`, `Send`, `Placed`, `PlaceFails`, `Settle`, `PollEnded`,
`PollAgain`, `TimeStop`, `TimeStopped` are a coroutine from one await to the next;
`Exchange` lets an order be accepted, refused, partly or wholly filled, or cancelled;
`Crash`, `NotifyBeforeResume`, `ResumePlans` are the restart. `Loop` is what `run()` does
between steps, without an await: return when superseded, pass what is done or denied
(`Passes`), re-attach to a resting order, skip the rest after a time-stop. `PatchStep`
asks what `patchStep()` asks, that the slot is not active: a stale coroutine that released
the slot lets it at a plan whose run still works. Every action that ends in `notify()`
writes the file (`Notify`). `MaxPolls` stands for the time-stop: it is due after that many
polls. The price drift of a resting sell (`repriceRestingSell`) and sizes are left out.

### `Bracket`: one bracket and its orders

The state is the BracketState of the step (`st`), the persisted copy (`disk`), the orders
at the exchange (`book`) and three coroutines that share them (`job`): `runBracket()` with
its monitor (`"run"`), `adjustBracket()`, and the kill of `stop()`. A job's `pc` is the
await it sleeps in and `why` is where it goes on. Every request may fail (`"fault"`), and
an accepted order may lose its answer. Coins are counted, so that an order is refused when
less is free than it offers. Prices are ordered levels: the stop's trigger, the entry, TP1
(`Tp1Level`), the final target (`TopLevel`), and the steps between them, in which the
trail may arm and ratchet before the target is reached. Any poll of the entry may be past
its deadline. `FindEntry`, `FindStop` and `FindTp` are the look-ups by client id that the
code makes before it places again. Client ids are not assumed unique at the exchange. Left
out: the staged legs of an entry or an exit, the arithmetic of levels.

### `BtcLadder`: a ledger with two writers

The plans of BTCUSD open, link and close cycles; `reconcileBtcLadder()` compares the
ledger with the order book and the trade history beside them. A pass is a coroutine
in two steps (`Compare`, `Settle`) around the await of the trades; what it decides
goes through the cycles in order (`Settle1`, folded) and the copy it began with is
saved over the ledger. `geminiPrivateFetch()` sends one private request at a time in
order, which the guards `Request` and `Requesting` keep. Kinds of sale: with a
buy-back planned, naked, or scaled out.

### `SafeMode`: one order book, four controllers

Operator calls (`job`), the refreshes, the hot refresh with its armed stops (`hot`:
the arms it captured and the one it fires) and the bracket engine (the owner of some
orders) work on the same resting sells of one symbol. `book` is the snapshot, `order`
the exchange. `Scan` is the loop of `checkSafeMode()` up to its next await, in which
any subset of the captured arms may be triggered, in any order. `stale` is the late
write of the cost-basis enrichment. `choice` is a history variable: the operator's
last explicit word on each order. `autoArmSafeMode()` leaves out the orders of
brackets (`Owned`), those of a plan without stops (`Stopless`: `fastCashGuard()` by symbol and
order id) and a symbol without a price (`priced`, which `TickerRefresh` sets and clears).

### `StrategySchedule`: timers, queue and one runner

`session` are the `run()` coroutines of StrategyRunner with their deadline, `external`
the heartbeat of a routine that runs elsewhere, `queue` the fires that met a busy
runner, `setting` the four files of settings and `timer` the timers they should have
armed. `Fire` is a timer, `DrainScheduledQueue` the poll of the queue. Left out:
minutes, the text of the activity, the timeline row.

### `AgentFleet`: sessions, slots, questions and money

`job` are the sessions: runs, chats and hand-offs, from their wake (with the gate's
probe) to their end. `running` and `chains` are the two sets the code keeps of them.
`ask` is `blockers.json`. A `trade` reserves its amount in `spent` before it is
awaited. Time is abstracted: an agent is `due` once its interval has elapsed, its
cooldown is over and its breaker does not hold it; the budget's window does not roll.
The second agent has a wake gate. Questions are not used up: the slot of one that was
delivered, expired or withdrawn takes the next, so `MaxAsks` bounds the questions that are
open or undelivered at once. `Refused` is every way out of `executeTrade()` by its catch: from
`flying`, and, where the answer is lost (`"lost"`), from `placed`, with the
reservation released although the order stands (`"orphaned"`). One `Tick` does the sweep of
standdowns and starts a run. Left out: creation and update of agents,
benching, assignments, the arithmetic of the breaker.

### `MirroredLog` and `AuditLog`

`MirroredLog` is the promise: a log that is only appended to, whose entries name their
predecessor, and a copy that trails behind; it may `Break`, after which the copy promises
nothing until it is complete again (`Mend`). `AuditLog` is the code: lines in monthly
files (a line may be an entry, a torn one, or one glued to a torn one), the table, the
head of the chain with its lazy `load()`, the queue and its one flusher, and `start()`:
set `sql`, await the migration, await `MAX(seq)`, `unshift()` what is missing. `dbError`
is what `status()` shows. `Record`, `RecordThrows`, `RecordTorn` are the three ends of an
append; `DieTorn` and `Crash` the two ends of the process. An INSERT is sent, executed
(`Insert`) and answered (`FlushNext`, `FlushFails`) in separate steps, so its answer may
be lost. A hash is the identity of an entry. `LoadThrows` is a `load()` that sets `loaded`
and then fails to read (`unread`). The ghost `upset` holds what suspends the promise of a
complete table: an entry recorded while `start()` reads (`"early"`), one dropped from a
full queue (`"dropped"`), one written after a `load()` that threw (`"forked"`). The code
may do all three at any time in every run; a process that ends with the table complete
clears it.

### `StateStore`

Per key, the file, the row and the queued value; the value is a version number with
a mark of whether it is the hub's object or one parsed by `reconcile()`, because
`flush()` compares by identity. Several `flushTombstones()` may run at once (nothing
guards them): `sweep` holds each one's list and statement. `start()` is `StartDb`,
`Migrated`, `ReadRows`, `Reconcile`, `Imported`, with calls of hubs between any two.
A process ends at any moment, through `stop()` or killed. Nothing is assumed of
callers; the ghost `delete` says of each key what became of its last deletion: `"sure"`,
`"raced"` (it met an upsert of the key, a later write, or `start()` before the end of
`reconcile()`) or `"lost"` (the process ended before the row was known to be gone).

### `PeerSync`

`file` is what each node holds (a version and its mtime), `run` the `runSync()` calls:
the manifests they fetched, the transfers planned from them, the one under way.
Hubs write and remove files meanwhile. A push whose request timed out may still be
written later (`late`). A manifest may leave any file out, as `buildManifest()` does
with one over the cap or unreadable (`Manifests`), and the comparison takes it for absent.
`report` is what a run returned. Two ghosts say where a run was disturbed: `unseen`, the files
that a manifest of the run left out, and `moved`, the pairs of a run and a file
that somebody else changed at one of the run's ends since the manifests. `MaxLate` and
`MaxSkips` bound late pushes and the runs that miss a file. The settings (peers, areas,
tokens) are constants.

## 4. The runs

A passing run explores its whole (bounded) state space.

| run | states | properties |
|---|---|---|
| `plan_restart` | 1,826,000 | `FilledIsReal`, `OnePlacementPerLife`; `SequentialOrder`, `StaleStartsNothing`, `RestartRestores` (actions); `RunsEnd` (liveness): two entries, two coroutines, every call, a crash anywhere, calls and notifications during the boot |
| `bracket_faults` | 3,971,000 | `OneStop`, `OneEntryRests`, `ClosedIsOffered`, `NeverWidens` (action): four kinds of bracket, a failure or lost answer, a restart, both, the kill, or an order cancelled elsewhere |
| `bracket_operator` | 601,000 | `NotForgotten`, `LockHolds` (action), `Adopted` and `Recovers` (liveness): adjustments, locks and the kill between any two awaits of the monitor |
| `ladder_cycles` | 45,000 | `BackedBySales`, `OneFillOneCycle`, `Credited` and `Hedges` (liveness): up to three slices, nine scenarios |
| `safe_orders` | 1,227,000 | `TradesOnce`, `DisarmHolds`, `Guarded` (liveness): six scenarios of trades, calls, firings, arming, brackets, stopless plans, a missing price, the stale write and a restart |
| `schedule_timers` | 78,000 | `OneSession`, `TimersMatch`, `QueueMoves` (liveness): two strategies, a routine, two sessions, seven calls |
| `fleet_desk` | 774,000 | `SlotsHonest`, `BudgetHolds`, `AnswersArrive` and `NobodyStarves` (liveness): two agents, two sessions at once, any number of questions, two trades with a lost answer, ten scenarios |
| `audit_files` | 909,000 | `RowsAreTheFiles`, `ChainNeverForks`, `VerifyHonest`: two torn appends, two deaths, a `load()` that throws, a month boundary, a failing database, a busy `start()`, a full queue |
| `audit_mirror` | 174,000 | `CaughtUp`, `ImplementsLog` (the refinement of `MirroredLog`), `Mirrored` (liveness): five entries, a queue of two that overflows, entries during `start()`, a `load()` that throws, two restarts; no torn lines |
| `state_keys` | 681,000 | `NeitherDrifts`, `DiskIsLast`, `RowsCatchUp` (liveness): a key that is written and one that is also deleted, at any moment; a failing database, two ends of the process |
| `sync_files` | 2,336,000 | `MtimeTravels`, `ReportIsTrue`, `NewestSurvives` (actions): three nodes, one of them with two peers, two runs at a time, one late push, a manifest that leaves files out, any number of edits |
| `fleet_deaf` | | a violation, section 6 |

Every passing property has a mutant in `PROJECT.json`: a plausible bug of one
definition (an operator marked "Mutant" beside it) under which TLC finds the
property violated.

Why the bounds are enough.

* *Plans.* A plan's control has a first step, a later step, and the relation between
  two: two steps show each. Two coroutines give one superseded and one current. The
  shape is a resting entry with a market exit, so that both kinds of order meet the
  crash; two orders are enough for one life to send the same step twice. The proofs of section 7
  cover any number for all but `RunsEnd`.
* *Brackets.* A bracket sends an entry, a stop, a take-profit and the replacements of
  the last two; six orders with ids reused once nobody refers to them leave no
  behaviour cut off. Two coins show a partial fill and a tranche.
* *Ladder.* Three slices give one that is linked, one staged and one that is adopted;
  five orders let every slice be bought back and two orders vanish.
* *Safe mode.* Three orders give the one fired, its replacement and a bystander; two
  trades give one that supersedes the other. The proofs cover any number.
* *Schedule, fleet.* Two strategies or agents compete for one slot; a second session
  gives one that outlives its deadline beside its successor, or a chat beside a run.
  Two questions at once, asked again and again, are what one agent needs to overtake
  another for ever.
* *Stores.* Two crashes give a crash during the recovery from a crash. Four or five
  audit entries give one in the table, one in flight, one queued and one dropped. Two
  versions, an older and a newer, can be told apart in file, row, queue and statement; the
  proofs cover any number of keys and versions.
* *Sync.* Three versions stamped 1, 2 and 3 with a tolerance of 1 have two pairs in
  conflict and one with a winner. The third node makes the desk a hub: what it pulls
  from one peer it pushes to the other. Hubs write on the laptop: its versions may be older
  than the desk's, and what a push or a pull brings to the desk moves under the desk's own runs.

`CHECK_DEADLOCK FALSE` is in every configuration because the bounds stop the models,
and because an idle server is a legitimate end of a behaviour.

## 5. Fairness

Weak fairness with one exception (`StateStore`), and only of what the event loop itself carries on.

* `PlanRunner`: of each coroutine. Its awaits are `sleep()`s and requests that carry
  `AbortSignal.timeout` (`crypto.ts` 227), and the request chain goes on whatever became
  of the previous request (229-230). Nothing is assumed of the exchange: `RunsEnd`
  holds for an order that rests for ever, because the time-stop is due after finitely
  many polls.
* `Bracket`: of the monitor and the stop-placing coroutines (the same awaits), of the
  watchdog `Revive` (a refresh of the hub), and of the position's time-stop becoming due.
  Not of fills, and not of the operator.
* `BtcLadder`: of sending, answers and polls, of the boot's resume and of the
  reconciler's passes, which every refresh repeats. Not of fills.
* `SafeMode`: of the refresh, which a timer repeats, and of `TickerRefresh`: a symbol has a price
  again and again.
* `StrategySchedule`: of the drain of the queue (an interval), of a heartbeat that
  lapses, of the deadline of a session and of the end of an *aborted* one. A session
  that is not aborted may run for ever.
* `AgentFleet`: of the tick, of each session's end (a run has its deadline; of chats and
  hand-offs it is assumed that the SDK ends them), of elapsing intervals and ages.
* `AuditLog`, `StateStore`: of `start()` and of the statements of each connection with the
  code that awaits them; in `StateStore` strong fairness of `start()`, because the model's
  bound on overlapping sweeps may hold `reconcile()` back again and again. A statement may
  fail instead; then the liveness properties ask that `status()` shows it. Nothing is
  assumed of callers.
* `PeerSync` has safety properties only.

## 6. What the code does otherwise than it says

One run shows a disagreement, with one property that TLC violates:

* `fleet_deaf` (`OneRun`): at its deadline a run frees its agent's slot and aborts its
  session; when the SDK unwinds late, the `finally` of that run frees the slot again
  (`agents.ts` 1548), which by then is the slot of the agent's next run. A third run
  starts beside it, although `agents.ts` 59 says "One agent session at a time
  process-wide".

Further places where the code is exposed, each with its line. Some the models contain and
a property excepts by name (most of them came up as counterexamples of the property
without the exception); others a run's scenarios or constants leave out.

**Plans** (`crypto.ts`)
* A plan that `start()` or `confirmProposal()` puts in the slot while the server still awaits
  its first `fullRefresh()` is in the file that `resumePlansIfAny()` then reads (3774,
  5338-5348). It is confirmed a second time in the same process, and a step whose first order is
  in flight is placed twice. `OnePlacementPerLife` excepts exactly such a plan (`ReadBack`).
* A coroutine that is superseded while it resolves the amount of a step still sends that
  order (3940-3949); `StaleStartsNothing` says that it goes on to no other step.
* A superseded `run()` that ends sets `active` to FALSE under its successor (3916; 3561).
  One that times out under a successor sets its `haltAfterStep`, and exits are skipped
  although the entry filled (4041).
* A market order that is settling during a restart is placed again although its id is
  on disk (3925-3927).
* An entry that fills as the time-stop cancels it is "skipped" without a read of what
  executed (4037-4039).
* A log line during the boot rewrites `active-plans.json` before `resumePlansIfAny()`
  reads it (5276, 5317); `RestartRestores` therefore speaks of boots without one.

**Brackets** (`crypto.ts`)
* A restarted bracket looks for its entry among the open orders only (4222). One that was taken
  while its answer and the process were lost, and that has filled since, is bought a second
  time, although 4210 promises no "second identical order". Where the look itself
  fails after a lost answer (4229), a second entry is placed beside the first. `OneEntryRests`
  is about what rests, and a request fails once in its run.
* 3640 says that a locked bracket fires no position time-stop. The tick looks at the lock
  once (5157); one set while it ratchets (5223) does not keep it from the
  time-stop (5231). A bracket whose take-profit rests from the start never looks (5043).
  `LockHolds` excepts both.
* A tick that sleeps while `stop()` kills the bracket places a new stop afterwards
  (4894, 5145, 3841).
* A ratchet that is refused (its stop filled in part under it) leaves no stop, and the
  protection that a restart or the next tick places is the original one, or break-even
  for a runner without a stop of its own (5257 on; 5215 says "Trailing stop (ratchet up
  only)"). `NeverWidens` excepts both.
* After a failed stop and a restart the break-even level is lost. An `exiting` bracket
  whose sell failed has nothing resting (5244). In `tp1_filled` with a live stop
  `adjustBracket()` only records the level (3751-3753). A lost entry answer leaves the
  bracket failed in `entering`, where nothing revives it. The position is not reduced
  when the first take-profit fills (4516).
* Two stops may rest when `applyAdjust()` replaces the stop while the monitor heals a
  missing one (3754-3757, 5142-5145): each asks the book before the other has placed
  (4642; 4659: "so at most one survives"), and the exchange accepts both if the account
  holds other coins of the currency. The next `placeStop()` cancels one. `OneStop`
  therefore speaks of brackets that are not adjusted.
* The stop of an adjustment may also come to rest after `finalizeBracket()` has cancelled
  what the bracket knew (4851 on, 3754-3757). The close then finds no free coins and
  reports the bracket flat, with that stop as its only order; a kill cancels it (3842)
  and nothing offers the coins. `ClosedIsOffered` leaves adjustments out as well.

**Ladder** (`crypto.ts`)
* A pass saves its copy over cycles that were opened or linked during its await
  (5486, 5611). The boot's pass stages a buy-back, auto-execute confirms it, and
  `resumePlansIfAny()` runs the saved one too. A crash while an order is unanswered, a
  lost answer with two unhedged slices, and a stop between confirmation and placing
  each lead to a second buy-back. A failed fetch of trades drops the link of a filled
  order. 5562 reopens a staged cycle while a foreign plan holds the slot, although
  5559-5561 says otherwise. The stop of a selling plan leaves its sale unrecorded.
  A scale-out may take the slot of a ladder cycle (3167, `shared/crypto.ts` 429).

**Safe mode and orders** (`crypto.ts`)
* At boot the first refresh arms a bracket's own resting sells, because the brackets
  are resumed after it and `bracketOwnedOrderIds()` is still empty (6150, 6275; 7126
  says they are excluded).
* An arm that is disarmed during a sweep still fires from the captured list (7151).
  Firing, closing and modifying use the remaining amount read before their awaits,
  and two of them on one order both replace it. A failed status read after a cancel
  that succeeded is reported as "cancel failed" (664, 7184). The enrichment writes back
  stale orders (6243-6263). A modification loses the opt-out. A crash loses a trade
  that was taken off the queue (6592). `autoArmSafeMode()` leaves a symbol without a price to a
  later refresh (7141); one that never gets a price is never armed.

**Schedule** (`strategyRunner.ts`, `crypto.ts`)
* An external 'begin' is accepted while an in-app session runs. 'end' clears the
  heartbeat of whichever routine beats, so `start()` can meet a live one (176-179,
  191-192). After a restart a live routine is unknown until its next beat, and the
  queue is lost. An SDK deaf to the abort keeps the runner `running` for ever.
  `stop()` does not clear `loopTimer`. An interval stored for a strategy that no
  longer exists keeps the universal timer inert (7236, 7275).

**Fleet** (`agents.ts`)
* Chats and `standdown()` have no deadline; chats ignore `MAX_CONCURRENT_RUNS`. An answer
  is delivered in whatever run comes next, so it may not wake the agent although
  `shared/blockers.ts` says it does so exactly once (1345-1355); a crash between
  `markDelivered` and the session loses it. A lost answer of `executeTrade`, or a failure
  after the exchange took the order, releases the reservation although the order stands
  (`agents.ts` 917, `crypto.ts` 6641), and the agent may execute as much again:
  `BudgetHolds` sets the orders that were reported as failed aside. Decisions of a session
  that was given up are filed under the next run (1019). Answers and events are ahead of
  intervals and answers skip the cooldown (1744): an agent that asks and is answered in
  each of its runs, or events on every tick, keep the others from their intervals for
  ever. `NobodyStarves` excepts what is `Ahead`.

**Stores** (`auditLog.ts`, `stateStore.ts`)
* The entry after a torn append continues the torn line and is lost from the file
  (397 beside 392); its row then reads as tampering, so `RowsAreTheFiles` needs
  `torn = 0`. Backfill by `MAX(seq)` leaves the holes of an overflow, and those that an
  entry recorded during `start()` hides, for ever (217, 431): the server already listens then.
  `load()` sets `loaded` before it reads (316): if a read throws inside `record()`, whose
  catch swallows it (403), the next entry restarts the chain at number 1. `CaughtUp` and
  `ChainNeverForks` except these by `upset`. A failed `flush()` is tried again by the next
  `record()` or restart only (401); `Mirrored` accepts the error that `status()` then shows.
* A DELETE and an upsert run on different connections: the deleted file may return
  (`stateStore.ts` 253: "the exact resurrection this method exists to prevent"; 256). A file
  deleted before `reconcile()` has written is written back (132). The pending DELETE of a key
  removes the row of what was written since. Tombstones die with the process, also through
  `stop()`, which swallows a failed sweep (95). `DiskIsLast` and `NeitherDrifts` except keys
  whose last deletion raced or was lost. An array changed in place while its upsert is in
  flight counts as sent (`InPlace`).

**Sync** (`sync.ts`)
* `buildManifest()` leaves out a file over `MAX_FILE_BYTES` (190) or one it cannot read (200),
  and `diffManifests()` takes it for absent (`shared/sync.ts` 246, 256): the other node's older
  copy is transferred over the newer one, and a file that both manifests left out stays
  different under a clean report. `shared/sync.ts` 12 says "the newer mtime wins".
* `writeSyncFile()` never looks again (253): what a hub or another run writes between the
  manifest and the transfer is overwritten by older bytes, and a late push overwrites newer
  ones. `ReportIsTrue` and `NewestSurvives` except these files, by run and path, with
  `unseen` and `moved`, and no others. A late push may take the newest version away.
* A `utimesSync()` that fails after the rename (257) leaves the new bytes with the time of the
  write. Hubs keep copies in memory and rewrite a pulled file with a newer time. `runSync()`
  writes back the settings it captured before its awaits (361).

## 7. The proofs

Eight modules of proofs. The bounds appear in guards only, so the theorems hold for
any number of steps, plans, orders, keys, sessions, nodes and crashes, under the named
assumption on the constants of each module. Each has the same shape: an inductive
`IInv`, a lemma per action or group of actions and conjunct, lemmas for the operators
the actions are built from, and theorems that assemble them with PTL.

**`PlanRunnerProofs`**: `TypeCorrect`, `FillsAreReal`, `OrdersAreSequential` (an action
property), `EndsClosed`, and over them `OncePerLife`, `StaleStops` and `RestartsRestore`
(action properties, the last two). None is inductive alone. `IInv` adds `Pointers` (what entries,
coroutines and the file point to exists, so that a new plan disturbs nothing older);
`OwnPlan` (a plan is worked on by at most one coroutine, which is why a coroutine cannot
reopen a step that another one closed: the hard cases are `confirmProposal()` on a plan
whose old coroutine sleeps, and `ResumePlans`, which works on a copy); `OrdersOK` (an
order belongs to the plan and step that sent it); `Fills` (a filled step, in memory or
on disk, names an order that executed); `Holding` (a coroutine's step is the one it
stands at, all earlier ones are closed, and one that ended left nothing open).
The second invariant, `Life`, is about the orders of one life of the process. `Sent`: an order
left from an array of steps by a coroutine that has gone past the sending of that step, and
an array sends each step once, since one coroutine works on it. `Births`: two arrays that
were built in one life and stand for the same plan are that plan and the copy that
`resumePlansIfAny()` read back, which only a plan of the boot can be. `Slot` says that an
active slot has a coroutine with a step to do, and so had the plan that a crash
interrupted (`Busy`, `Owes`), which `RestartRestores` needs.

**`BracketProofs`**: `TypeCorrect`, `NeverForgotten`, `OneEntryOnBook`, `OneStopRests`,
`ClosedOffered`, and the action properties `LockIsHeld` and `LevelsHold`, without an
assumption but those on the constants. The invariants below are the definitions of
`BracketInvariants`. `IInv` adds to `NotForgotten` that the adjustment and the kill keep
to their own errands (`Whose`; only `"run"` monitors) and that an entry which is waited
for has an id (`Awaited`). The module's stretches of code shared by several callers
(cancel a stop, place one, sell, manage a tick) end in a handful of ways, and `Leads` says
of each where it leads: what it keeps of the bracket, that the file holds the bracket
before or after, and the coroutine it leaves. An action is then proved from its `Leads`,
never from the text of what it calls. `Manages` is the same for the tick with its reasons,
from which `LockIsHeld` follows. The entry has two invariants. `EInv` holds until a
request failed and a restart followed: a coroutine that may still send the entry finds
nothing bought and nothing on order, and so does a bracket whose entry has no id, in
memory or in the file, while no request has failed (`Unsent`); the one entry on order buys
no more than what is missing (`OneEntry`); a bracket that is not there has left nothing
(`Absent`). `Lone` holds beside it whatever failed, and is `OneEntryOnBook`: one entry at
most rests, and none where another is sent without a look at the book (the restart goes
through `FindEntry`, because the client id was in the file first). Only the confirmation,
the entry, its search, a restart and a trade touch it; every other action is shown to be
`Plain`, a step that sends no entry and keeps its id. `OneStopRests` has a third, `SInv`,
in two halves. `Alone` holds whatever failed: at most one stop rests, and none where the
monitor is about to place one. It is not inductive, since an unread book
(`reconcileRestingStops()` returns null when the read throws) is taken for an empty one.
`Agreed` holds while no request has failed: the bracket in memory and the one in the file
know the stop that rests, and the await of the monitor fits them (`FitAt`: from "protect"
to "findStop" none is known, an exit that was forced has given up its take-profit, and so
on). The read that fails is then the first failure, so nothing rests that it could have
missed. A monitor's step `Lands`: it sends no stop, or the only one, and leaves a
coroutine that `Settles`; steps beside it leave a `Twin` of the bracket, and a restart
starts from what the file knew. `LevelsHold` (`NeverWidens`) rests on all of these and on
`LInv`: a coroutine that looks for a stop, places one or cancels one to raise it wants a
level no lower than the bracket's (`Wants`); until a restart so has every stop that rests,
and a bracket that is still to be protected, or failed while it was, is no higher than the
first level (`Leveled`). The file may lag, so a restart may lower the level; but the file
then knows what rests, so the protection placed anew adopts no other stop. The attempt to
prove it showed the break-even of a runner with an armed trail, which no kind of the run
has, and `NeverWidens` now excepts it. That `Locked` is an integer, so that coins stay
typed, needs the recursion theorem below. `ClosedOffered` (`ClosedIsOffered`) rests on
`IInv`, `EInv`, `SInv` and on `OInv`, which accounts for the coins the bracket bought and
still holds, `Owned`, at every await while no request failed, nobody else cancelled and
nothing was adjusted (`Sober`). The property itself says nothing before the close; what
makes it inductive is `Booked` (the book: nothing is on sale while an entry is on order,
and a sell of a bracket with a single exit offers all that is held), `Backed` and
`Carried` (in memory and in the file, what the bracket takes itself to hold is no less
than `Owned`; its exit, or its stop and its first target together, cover it), `Serves` and
`Offers` (the same of the order that the coroutine is about to place, for each reason it
may have), `Aims` (a kill cancels no sell but the one the bracket knows, so not the one a
close has just placed) and `Closes` and `Done` (a close offers all there is, or all that
is free). Five observations carry the proof. A tick that begins with a full book ends with
one: between a cancel and its replacement `Offers` stands in for the order. What trades
lowers `Owned` and what rests by the same coin, so `Free` stays. An order that fills
inside a cancel only makes the replacement larger than what is held. The sweep of a close
cancels every sell that rests (`Resting` implies membership in the coroutine's `ids`), so
the balance read after it is all there is. And a restart finds in the file a bracket that
is `Carried`, or one that had not yet placed anything. TLC checked `OInv` on each kind of
bracket before the proof; it was strengthened several times, and the last of its
counterexamples was no missing conjunct but the adjustment that is killed (section 6).

**`SafeModeProofs`**: `TypeCorrect`, `DisarmIsRespected`, `TradesAreSentOnce`. `Fresh`:
nothing refers to an order that has never rested, which is why a new order cannot
inherit an arm or an opt-out. `Respected`: a disarmed order that rests is on the list
of opt-outs and off the arms; only the opt-out list survives a prune against the
exchange's answer, which is what keeps `autoArmSafeMode()` away. `Claimed`: a trade is in
the queue, or in one call, or behind one order, and in one of them only. `Withheld`: one
that was dismissed or superseded is in none.

**`StrategyScheduleProofs`**: `TypeCorrect`, `NeverTwoSessions`, `TimersAreTheSettings`.

**`AgentFleetProofs`**: `TypeCorrect`, `SlotsStayHonest`, `BudgetIsKept`. `KindsOK`: only
a run waits in the wake gate, woken by its interval, and no chat or hand-off answers a
question. `Ledger`: what an agent has spent is the sum of its trades that reserve
(`Reserving`: under way, placed, executed, or placed with the answer lost), and within its
budget; a refusal gives back exactly what that trade reserved, also of an order that the
exchange took, which then reserves no more (`"orphaned"`). The lemmas about `Total`
say that a sum changes by what one summand changes by.

**`AuditLogProofs`**: `NeverForks`, `RowsMatch`, `VerifyNotices`, `QueueEmptied` and the
refinement `MirrorImplements`, with nothing assumed of callers. `Ordered`: the numbers of
the lines that parse do not fall and those of complete lines grow. `Heads`: the head from
which the chain goes on is beyond every complete line, and at most one behind a line cut
after its text. The lemma `LoadedHeads` shows that `load()`, which reads only the newest
line that parses, finds such a head after any tearing. `FInv` adds `Noticed` (a recorded
entry has a complete line, or a line that does not parse gives it away) and, while nothing
was torn, `Clean` (the files are numbered without a gap and every link is intact),
`LastOf` and `Copies` (the table, the queue and the statement under way hold entries of
the files). `MInv` adds `Trail(n)`: the rows are the entries `1..n`, and the queue is the
end of the files, from `n + 1` on or, between an INSERT and its answer, from `n`. It is
claimed while `Settled`: nothing torn and `upset` empty. What upsets it is an event of the
model (an overflow, an entry during `start()`, one after a `load()` that threw), each of
which makes `CaughtUp` false in the code; it holds again once a process ends with the
table complete. The refinement goes step by step: `Record` appends, an INSERT that
executes copies entry `n + 1` or repeats one, what upsets the table breaks the abstract
copy, the end of a process with a complete table mends it, and every other step stutters.

**`StateStoreProofs`**: `TypeCorrect`, `RestartsKeepTheDisk`, `CopiesAgree`, with nothing assumed
of callers. `QueueIsFile`: what is queued is what the file holds. `InFlight`, `Deleted`
and `Answer` say of the three kinds of statement under way what they will leave, each but for
keys whose deletion raced; `Orphans`, that a row without a file has a tombstone or an
unconfirmed deletion, which is what a restart may bring back; `Behind`, that after
`reconcile()` a row is its file's, or is queued, or is to be deleted.

**`PeerSyncProofs`**: `TypeCorrect`, `TimesTravel`, and the action properties
`ReportsAreTrue` and `NewestAlwaysSurvives`. `Calm` are the files of a run that its
manifests had and that nobody else has changed since. On these the run's record is
`Sound`: every transfer still planned is due on the current files of the two ends, what it
carries is what the sending end holds, and while nothing failed the ends differ exactly
where a transfer is due or a conflict was found (`Ready`). A step that changes a file
takes it from the `Calm` files of every other run.

An induction over the length of a sequence or the size of a set is done without the
library's induction theorems, whose operator parameter no installed prover can
instantiate. `NatSetInduction` states it of a *set* of numbers (the least number outside
would have a predecessor inside); with it `Recursion` shows that a function with given
equations exists, so that recursive functions, which TLA+ defines by CHOOSE, satisfy
theirs. This carries the facts about filtered sequences (`Kept`) and sums (`Total`).

Model-checked only: all liveness (outside the prover's reach, as `ENABLED` is), and
everything about `BtcLadder` (`BackedBySales`, `OneFillOneCycle`: a decision folded over
the ledger, slice by slice, whose value for every ledger is an induction over data).
`EndedRunLeavesNoOpenStep` is proved (`EndsClosed`), and no run lists it. The type
invariants of `AuditLog`, `Bracket` and `BtcLadder` are stated beside the other
properties; no run lists them, as the properties that are listed fail to evaluate on a
state that breaks them.

## 8. What is not modelled, and why

The map covers about a tenth of the implementation's lines. Most of the rest has no
protocol a model checker could explore:

* The renderer (`src/`, some forty panels) and Electron: views of snapshots that the
  server pushes.
* Market arithmetic (cost basis, indicators, signals, sizes, prices, trade analytics,
  the Python screener): floating-point functions of market data with unit tests and
  parity fixtures. The models choose the outcome of such a decision freely.
* Feeds and integrations (OSINT, Home Assistant, telemetry, archive, weather), secrets,
  terminal, library, layout, office: thin wrappers around one upstream, file or process.
* The HTTP routes of `index.ts`: they validate, call one hub and answer; the calls are
  the actions of the hubs' modules.
* CryptoAlerts evaluates every alert in one callback, without an await, and stages at most
  one trade per alert and bar (the wake it may end in is in `AgentFleet`); chat is one
  stream per connection; the screener service is one child process per request.
* Auto-execute compares prices over time; `PlanRunner` has the confirmation it makes.
* In `AuditLog`: the text of an entry and its hashing (an entry is its identity). In
  `StateStore`: the ledger tables, a `writeFile()` that fails, and the quarantine of a
  file that does not parse. In `Bracket`: staged legs, and what an adjustment changes but
  the stop (TP1, the target, the trail's distance, 3748-3750, keep their levels). In
  `SafeMode`: buys, the levels of an arm, `stageCrossingExit`, `purgeTrades`. In
  `AgentFleet`: see section 3. In `PeerSync`: the settings and tokens, and a failure
  between the rename and the `utimes` of `writeSyncFile()`, which are one step.
