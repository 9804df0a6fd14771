# homing-trade in TLA+

homing-trade is a paper-trading bot: one engine thread polls candles, asks a roster of
strategies for decisions and books simulated fills in SQLite; an operator steers it from
a local web UI and from a chat channel; an AI learning loop files proposals that take
effect only after a human approved them.  This directory models its components, checks
the models with TLC and proves the most important results with TLAPS.

Sources are named relative to `src/homing_trade/`.  `PROJECT.json` gives, for every
definition that models code, the lines it stands for, and for every property a mutant (a
plausible bug) that breaks it.

## 1. The system

| Part | State | Operations | Talks to |
|---|---|---|---|
| Trading loop `engine.py` | breaker, rosters, freshest candle, all in memory; `state['last_candle_time']` in the ledger | `run`, `run_tick`, `process_tick`, `_drain_commands` | everything below |
| Daily risk guard `risk.py` | day, notional opened, pnl realized, halted: in memory | `can_open`, `record_open`, `record_close` | called by the position manager; the loop reads `halted_reason` |
| Error boundary `error_boundary.py` | failures in a row, tripped strategies: in memory | `record_failure`, `record_success`, `is_tripped` | `process_tick` |
| Position manager `position_manager.py` | none | `open`, `close`, `manage_risk` | guard, broker, ledger |
| Broker `broker.py` | none | fills, stop, liquidation, pnl | |
| Ledger `db.py`, `repository.py` | wallets, positions, trades, outcomes, state, proposals, playbooks | one commit per method, except `apply_playbook_proposal` and the migrations | engine thread and web threads, each with its own connection |
| Operator controls `web.py` (Controller) | engine thread, stop and pause events, command queue, disabled set | start, stop, pause, resume, reset, close_trade, set_strategy_enabled, decide_proposal | engine thread through events, queue and callbacks |
| Approval gate `proposals.py` + `db.py` | proposals, playbooks | create, decide, apply | web threads, chat poller |
| Chat approvals `comms_approvals.py` | `state['comms_after_id']` | poll, act, move the cursor | approval gate |
| Daemon, supervisor `daemon.py`, `supervisor.py` | restart counter, status file | run, back off, restart | the loop; launchd or systemd restart the process |
| Learning loop: `reflection.py`, `reflect_runner.py`, `research.py`, `calibration.py`, `playbook_rollback.py`, `promotion.py`, `experiments.py` | cadence stamps in memory; reflections, experiments | run on a cadence, file proposals | approval gate |
| Self-modification: `self_modify.py`, `self_mod_policy.py`, `self_mod_proposer.py`, `provenance.py` | self_mod_prs | gate a change, propose a pull request | git, outside the process |
| Strategies, AI traders, signals: `skills/`, `agents/`, `ai_traders.py`, `llm_backends.py`, `signals/` | consult cadence, Q-table, signal cache | `on_candle` | network |
| Backtests: `backtest.py`, `backtest_job.py`, `walkforward.py`, `ledger.py` | in-memory ledger | replay candles through `process_tick` | |
| Feed: `feed.py`, `history.py` | stored candles | fetch, extend | network |
| Arming: `arming.py`, `live_broker.py` | none | `select_broker` refuses live modes | |
| Output: `notify.py`, `trade_feed.py`, `escalation.py`, `report.py`, `replay.py`, `selfquery.py` | alert watermark | | |

### How a tick goes

`run` looks at the stop flag, fetches candles, and then in one thread: executes the queued
manual exits; runs `process_tick` over the mechanical skills if the ledger does not yet
know the candle's time, and writes that time afterwards; runs `process_tick` over the AI
traders on every tick; polls the chat; and leaves the loop if the guard has halted.
`process_tick` goes through its skills one by one: stop and liquidation check, the
disabled and tripped skip, the consult, the action.  The operator's flags, the command
queue, the web's own decisions on proposals and midnight happen between any two of these
steps; a consult of an AI trader lasts up to minutes.

### What is hard here

* **Interleaving**: pause, disable, stop and exits arrive anywhere in a tick; the web
  server's threads share a Controller without a lock; two threads and the chat may decide
  and apply proposals at once; two processes may migrate one ledger.
* **Stale state**: the newest candle is still forming; the pause flag is read once per
  pass; commands name a strategy, not a position; the schema's version is read once; a
  playbook may change while a model thinks; the working tree is tested first and staged
  later.
* **Atomicity and crashes**: an open and a close are three commits each; deciding and
  applying a proposal are two transactions; a promotion is filed before its experiment is
  concluded; `last_candle_time`, the chat cursor and the reflection watermark are written
  after, or with, the work they stand for.
* **Memory against ledger**: the guard, the breaker, the cadences and the alert watermark
  live in memory, their evidence in the ledger.
* **Partial failure**: a locked database raises out of whatever was being done; git and gh
  commands fail half way; a candle chunk or a source fails, or is fetched too late.
* **Timeouts and retries**: `stop()` gives up on its thread after 30 seconds; the daemon
  backs off and tries again; a consult that failed is due again.
* **Numeric edges**: limits at equality, midnight, flips that close and open at once, the
  last fold of a walk-forward, the bounds of an AI trader's pace.

`PROJECT.json` lists each of these as a hazard at the line where it bites, with the
properties that would catch it.

### What makes each part correct

* Loop: one position per strategy; stops enforced whatever is switched off; one
  mechanical decision per candle; nothing opened while paused or tripped; exits carried
  out.
* Guard: says what the trades table says; no entry beyond loss limit and cap; a halted
  run ends.
* Ledger: an operation cut short by a crash is never recorded twice, and the wallets
  reconcile with the trades otherwise; the backtester's ledger keeps the same books.
* Controller: one engine, which a stop reaches; no position in a wiped ledger; an exit
  hits what it was asked for.
* Approval gate: the first decision is final; applied at most once and all or nothing;
  one active playbook per strategy with a true lineage; approved means applied.
* Learning loop: each outcome reflected on once; no rules lost but to a crash or a busy
  ledger; nobody asked twice; rollbacks do not oscillate.
* Service: comes back from crashes, stops when told to; complete schema; complete candle
  history; alerts at most once.
* AI traders: only approved ones trade, each at its pace, on readings as fresh as they
  claim, each decision under the playbook it was shown.
* Backtests: evidence complete, disjoint, and out of the models' training data where it
  is called trusted.
* Self-modification: only content that a declared and gated path stands for is up for
  review, and what was reviewed is what is merged.

## 2. The modules

| Module | Models |
|---|---|
| `DailyRisk` | `DailyRiskGuard` as operators on a guard record |
| `PaperBroker` | the broker's prices, on an integer grid |
| `PaperEngine` | loop, tick, breaker, guard and operator; EXTENDS the two above |
| `LedgerPromise` | abstract: opening and closing as single steps, or torn ones |
| `LedgerCommits` | `PositionManager.open` and `close` commit by commit, with crashes; shown to implement `LedgerPromise` |
| `MemoryLedger` | the backtester's in-memory ledger in lockstep; EXTENDS `LedgerCommits` |
| `ProposalGate` | proposals, playbooks, web threads, chat poller, busy ledger, crashes |
| `EngineLifecycle` | the web Controller's requests, step by step, and the engine threads it starts |
| `ReflectionLoop` | reflection, calibration and rollback of one AI trader, deciding operator, crashes |
| `StrategyIntake` | research scan and experiments, both filing toggles for an operator |
| `SchemaMigrations` | `Database.__init__` of several openers |
| `CandleHistory` | the stored candles, the live upsert and the chunked extension |
| `AlwaysOn` | supervisor, daemon, engine and a backtest tool on one ledger; EXTENDS the two above |
| `SelfModification` | `propose_pr` in a checkout someone works in |
| `Arming` | `resolve_mode`, its problems, `select_broker` |
| `AiConsult` | discovery, cadence, cache and playbook of the AI traders; EXTENDS `Arming` |
| `Backtests` | the continuous walk-forward job |
| `TickJobs` | AI traders and job in the ticks of one thread, with restarts; EXTENDS the two above |
| `PaperEngineProofs`, `LedgerCommitsProofs`, `ProposalGateProofs`, `EngineLifecycleProofs`, `ReflectionLoopProofs`, `StrategyIntakeProofs`, `AlwaysOnProofs`, `TickJobsProofs` | theorems about the module each is named after; `LedgerCommitsProofs` has those about the in-memory ledger too, `ProposalGateProofs` those about `SelfModification` (the two share no state), `AlwaysOnProofs` those about the migrations and the candles, `TickJobsProofs` those about arming, AI traders and backtests |
| `MC...` | instances for TLC |

Composition is by EXTENDS where components share a state or a thread: the guard and the
broker in the engine, both ledgers in lockstep, migrations and candles under the service,
arming, AI traders and backtests in the tick.  Where a component is small in another's
module it is one step there and whole in its own: opening and closing a position is a step
of `PaperEngine` and three commits in `LedgerCommits`; a tick is whole in `PaperEngine` and
a look and an act in `EngineLifecycle`; deciding a proposal is a step of `ReflectionLoop`
and `StrategyIntake` and two transactions in `ProposalGate`.

An operator marked "mutant" in a comment is not part of a specification: it is the
plausible bug `PROJECT.json` puts in place of the definition below it.

### PaperEngine

`pc` is where the engine's thread is: `top` (head of `run`'s loop), `drain`/`outage`
(executing commands with or without a fresh candle), `mech`/`ai` (before the two calls of
`process_tick`), `manage` and `consult` (the two halves of one skill's turn, between which
time passes), `orphans` (after the roster), `tail` (after `run_tick`), `off`.  One action
per step: `FetchOk`, `DrainCommand`, `MechPass`, `ManageRisk`, one action per kind of
answer (`DecideHold`, `DecideClose`, `DecideEnter`, `DecideReverse`, `ConsultRaises`),
`ListOrphans`, `SweepOrphan`, `EndPass`, `AfterTick`.  `Die` breaks a run off anywhere: an
exception out of the tick (the Controller survives with queue and switches) or a kill.
`Pause`, `Resume`, `Stop`, `CloseTrade`, `SetEnabled` and `NextDay` are enabled at any
moment.

Data: a strategy's answer is a free choice, so is the planned size and whether the regime
admits the side; prices are small integers with constant stop, liquidation and slippage
distances and a constant fee; the `trades` table is kept as totals per day of what it
records (guarded closes, manual closes, opened notional), which is what the daily limits
are about.  When no limit is configured the code has no guard; that is the guard whose
limits are 0.  `base`, `passFirst` and `consultedAt` are history variables for the
properties.

`Enumerates` is the outcome of `hasattr(db, "get_open_positions")` in `process_tick`.  It
is TRUE of `db.Database`, which the tests pass, and FALSE of the `Repository` that
`engine.run` opens: that class forwards the ledger's methods one by one and this one is
missing.  Run `engine_controls` has the live value, run `engine_limits` the other one, and
the theorems hold for both.

### LedgerCommits, LedgerPromise and MemoryLedger

Each of `set_balance`, `open_position`, `close_position`, `record_trade` commits by
itself.  `pc` names the next commit; `op`, the arguments in memory, is lost in a crash.
The refinement maps the wallet to what it is without the operation under way, and the
positions to the strategies whose open or close has been recorded in full: then the last
commit is the promise's `Open` or `Close`, a crash inside an operation its `TornOpen` or
`TornClose`, and all other commits stutter.  One account is enough for a strategy, since
no commit touches two.  The history variable `unbooked` sums, by strategy, what the
operations cut short after their wallet commit were to book.  `MemoryLedger` makes every call of `Ledger` (`ledger.py`) together
with the commit of the same name and compares the two after each.

### ProposalGate

A decider is a thread of the web server or the chat poller; its `task` is what it goes on
to do after its last commit.  Deciding is one UPDATE guarded by `status = 'pending'`;
`ReadForApply` is the applier's own look at the row, `Apply` the transaction with its
second look.  Any write may instead run into a locked database (`DecideBusy`,
`ApplyBusy`), which is remembered in `refused`.  The channel holds the operator's commands and
the bot's own posts (`Send`, `Narrate`).  The chat reads a batch (`Poll`): up to `ReadLimit`
messages behind the cursor, or the newest ones while there is no cursor yet, and `missed`
counts those older than that first read.  It then acts on one command after the other
(`CommsDecide`, the applier's steps in between) and moves the cursor.  A payload is its strategy, its version and whether the applier accepts it (the
wired kind, clean rules, no protected field).

### EngineLifecycle

Handlers are threads of a `ThreadingHTTPServer`; every statement of `start`, `stop`,
`reset`, `close_trade`, `pause` and `resume` another thread can come between is a step of
its `task`.  Engine threads are made by `start` and numbered; the Controller's `_thread`
is `ref`.  A join either sees its thread dead or, after 30 seconds, gives up and forgets
it.  `raced` and `timedOut` record that two requests overlapped or a join gave up: the
code has no lock and no second try, so one engine, wallets and wake-ups are claimed of
orderly behaviours only.  What an exit hits, and that a stop arrives, is claimed of all.

### ReflectionLoop and StrategyIntake

`ReflectionLoop`: `Run` (the cadence), `Consult` or `ConsultFails`, `FileRules`,
`Calibrate`, `ProposeRollback`, `Critique`, each a commit; the cadence stamp `last` is
memory, the watermark is read from the reflections table.  Any of the writes may find the
ledger busy (`Refused`): the runner swallows the exception and goes on with the next step.  What the model answers is a
choice; a version is named by the time it was made; `Wins` and the bands are compared as
the code compares them, with integers in place of shares.  `StrategyIntake`: `Scan` and
`ScanStep` file what a model suggested, with the lower-cased set of known names;
`Evaluate`, `FilePromotion`, `Conclude` are the promotion; a crash or a busy ledger may
come before the conclusion, which `cutOff` remembers.  A strategy may be written in two
ways: research compares lower-cased names and a promotion the exact ones, so both spellings
are in the model (`Key`).  A row's `id` counts proposals of every kind (`FileOther` files
the others), because the promotion looks for rejections among the newest `RecentLimit` rows
whatever they are.  `promotion.py` has no caller in the program yet; the module has one caller at
a time, as the tests do.

### SchemaMigrations, CandleHistory and AlwaysOn

`SchemaMigrations` has one record per released version: what it creates (if missing) and
what it adds (an error if there).  `BEGIN`, the upsert of the version and `COMMIT` are
steps; `fresh` is whether the snapshot of the transaction is still current, which decides
if SQLite lets a reader become the writer.  `CandleHistory` marks each stored candle
`forming` or `final`; `SaveLive` and `SaveChunk` overwrite what they bring; a span is
planned from the bounds of what is stored and worked off in chunks, which may fail, or be
skipped by a probe that finds nothing.  `disturbed` records what no program could repair
later: the live window no longer reaches the newest candle that is stored or planned, the
exchange has forgotten what a tool was about to fetch above stored candles, a fetch failed,
or a range was extended past a candle that had been saved while it formed.  `AlwaysOn` puts both under an operating system that
boots the service, kills it or asks it to end, the daemon's loop with its status file, an
engine that trades and alerts, and a tool that extends the history.

### SelfModification

The steps of `propose_pr` in order: `Propose` (with provenance and branch), `Gate`
(protected paths, tests), `Plan`, `Checkout`, `Add`, `Commit`, `Push`, `CreatePr`,
`Link`.  Git is what these commands do to `tree`, `index`, `tip` and `origin`; each may
raise, and then `propose_pr` leaves everything as it is.  A declared path is a name to the guardrail and a
pathspec to git: `Protected` is about its spelling, `Matches` about the files a directory,
`.` or a glob stands for, `Covered` about those of all declared paths.  `git add` stages
each of these files that was edited, and fails when a path matches none.  Whether the call
was a dry run, and which row its provenance names, is chosen where the code first looks at
it.  `Edit` and `Stage` are the person at the keyboard, at any moment; `Merge` is the
reviewer's.

### AiConsult, Backtests and TickJobs

`turn` is what the engine's one thread does in a tick: each name in sorted order (`Hold`,
or `Ask` and `Reply`; a name without a brain is passed over), then the backtest job, strategy by strategy.  `Restart` starts the
process with any environment (flags, whitelist, backends, arming).  A consult takes the
clock, the playbook and the cached readings before the model answers; the answer may be
usable, malformed or an exception, and may ask for another pace.  A source that has no
fresh row is asked (`asked`); it may fail, or answer while the ledger is too busy to take
the row, and then prompt and cache go without (`kept` is the time of an answer that was
taken).  `Backtests` reads the
stored candles once, computes the folds as the code does and records one row per strategy.

## 3. The runs

| Run | Properties | Shows |
|---|---|---|
| `engine_limits` | `OnePositionPerStrategy`, `AiStopsEveryTick`, `OrphansEnforced`, `GuardMatchesLedger`, `DailyLimitsHold`, `NoEntryAfterDailyLoss` | guard and trades table agree through flips, midnight and runs that die; kill switch and daily cap (`DailyLimitsHold`: the cap, and that a lost day ends the run); the AI traders' stops on every tick; the orphan sweep on a ledger that can list positions |
| `engine_controls` | `PassEnforcesStops`, `PausedPassOpensNothing`, `OncePerCandle`, `TrippedOpensNothing`, `ExitHonoured` | stops of switched-off and tripped skills, pause, breaker, once per candle, manual exits, under an operator at any moment |
| `ledger_commits` | `NeverRecordedTwice`, `CrashCost`, `SameBooks`, `KeepsPromise` | crashes between commits: `CrashCost` is reconciliation without crashes, at most one row per crash, and wallets that are off by exactly what the operations cut short were to book; both ledgers keep the same books; the refinement |
| `gate` | `OneLineage`, `AppliedIffPublished`, `NoCommandLost`, `DecisionFinal`, `ApprovalTakesEffect` | web and chat racing on a busy ledger, with a crash: `OneLineage` is one active playbook and a true chain of parents; all or nothing; finality; no command lost but to the lock, or to a first read that is not given it; approvals take effect |
| `engine_lifecycle` | `OnlyRefRuns`, `NoPositionWithoutWallet`, `ExitHitsIntended`, `NoLostWake`, `StopEndsEveryEngine` | one engine and one position as long as requests come in turn and joins succeed; an exit asked before a start never closes a position of the run, in any behaviour; a stop that stays requested reaches every engine, forgotten ones too |
| `reflection_loop` | `ReflectionAccounted`, `NothingStacked`, `NoWalkBack` | `ReflectionAccounted`: each outcome in one reflection, one consult per period and process, rules filed but for one reflection per crash or refusal of a busy ledger; pending proposals do not stack; rollbacks do not oscillate |
| `strategy_intake` | `AskedOnce`, `CooldownHeld` | `AskedOnce`: no toggle pending twice in one spelling, none added by research in any, and a promotion filed twice only when a crash or a busy ledger cut off its conclusion; the cooldown, while the rejection is among the recent proposals of any kind |
| `always_on` | `SchemaSound`, `AlertedOnce`, `CandlesComplete`, `ServiceHolds` | `SchemaSound`: complete schema for whoever is connected, a version that does not lie, each migration once in turn; `ServiceHolds`: comes back to its ticks, ends when told to, says "stopped" only when it is |
| `self_modification` | `ReviewHolds` | what is pushed was matched by a declared path that passed the gate, or put there by hand; commits hold what their paths match; unchanged after push, main only from merged pull requests, true links |
| `tick_jobs` | `StartsAreGated`, `ClaimsWhatItSaw`, `Paced`, `EvidenceSound`, `CacheServesAll` | only approved traders, no trace of a start with live flags; the playbook a decision claims; pace between floor and interval; evidence complete, disjoint, later than the cutoff where trusted; readings never go back and a source is not asked within max_age of an answer that was kept |

### Disagreements the runs show

Two runs check what a comment says and find it violated by what the code does:

| Run, property | Said | Done |
|---|---|---|
| `orphan_unmanaged`, `OrphansEnforced` | `engine.py:223`: the stop of a strategy that left the roster is enforced, "so it can never ride unmanaged" | `Repository` has no `get_open_positions`, so `engine.run` never sweeps; the test of the sweep passes a `Database` |
| `migration_race`, `OnceOnly` | `db.py:98`: the version guard makes each migration run "exactly once per DB" | the version is read once, before the transactions: a second opener runs versions already committed, the first ones stamp the version back, and version 2's columns then fail for every later opener |

Known from reading the code beside the model, with no run of their own:

* Engine: losses of manual exits (`engine.py:251`) and of earlier runs of a day
  (`engine.py:480`) do not count towards the day's limit (`README.md:69`).  A mechanical
  skill's stop is compared with a candle once, while it forms (`engine.py:388`).  An exit
  of a strategy the run's roster lacks is dropped, and any exit waits for the run's first
  candle (`engine.py:258`, `README.md:53`).  A run that dies inside the mechanical pass
  repeats its decisions (`engine.py:391`).  A sweep that did run live would also close the
  other roster's positions, since it looks at the pass's skills only (`engine.py:229`).
* Ledger: wallet and trade are separate commits, so wallets do not move only by recorded
  fills (`position_manager.py:78`, `docs/hierarchy-of-truth.md:33`).
* Gate: after a committed approval nothing retries the apply, whatever `web.py:133` calls
  retryable; a chat command that meets a locked ledger is skipped for good
  (`comms_approvals.py:134`).  Of more than 20 messages in the channel the first poll reads
  the newest 20 (`comms.py:65,73`) and moves the cursor to the last (`comms_approvals.py:137`):
  the older commands never fire, against the "exactly once" of `comms_approvals.py:117`.
  The cursor moves past the human messages of a poll only:
  a page of nothing but bots' messages leaves it where it was and is asked for again
  (`comms.py:83`, against the "EVERY message seen" of `comms_approvals.py:11`).
* Service: the status file says "restarting" also after the restart succeeded; exits
  executed during an outage that ends in a stop are never alerted (`engine.py:508`).
* Candles: one saved while it formed and frozen by a stop stays as it is, although the
  store is said to converge to final values
  (`docs/specs/2026-06-21-phase2-backtester-design.md:200`).
* Learning: `run_once` is said never to raise (`reflect_runner.py:54`), but its writes may:
  when `create_proposal` raises after the watermark was committed (`reflection.py:87,95`),
  the rules are lost.  Research compares names lower-cased (`research.py:57`), a promotion
  exactly (`promotion.py:95`): the promotion of a strategy that research asked for in another
  spelling leaves two toggles pending.  A conclusion that raises (`promotion.py:176`) makes
  the next evaluation file again once the first was answered.  The cooldown looks at the
  newest 100 proposals of every kind (`db.py:1183`), so other proposals shorten it.  A pending
  rollback stays approvable after another playbook has retired a
  different version: approving one publishes over whatever is in force
  (`db.py:1227`).  With two of them pending, the older one approved after a newer version
  and then the other, the operator restores rules he has rolled back from, which may then
  be offered to him again: `NoWalkBack` therefore says "unless he has restored them
  himself".  A rejected floor or rollback is filed again next period.
* AI traders: a poll interval below the floor of 60 s is exceeded after the first answer;
  a failing source is asked at every consult and a failing model at every tick, without
  the breaker ever tripping.  So is a source whose answer a busy ledger could not keep:
  `cached_signal` makes more than the "one refetch per max_age_sec window" it promises, and
  raises where it says never to (`signals/cache.py:7,22`).
* Self-modification: `.`, a parent directory or a glob passes `is_protected`
  (`self_modify.py:74`), and `git add` stages every edited file it matches, protected ones
  included: the comment at `self_mod_proposer.py:111` and the test of staging only declared
  paths speak of single files.  The commit takes the whole index, so leftovers of a failed attempt go
  with it; a new branch starts at the current HEAD, so pull requests stack; a failed
  proposal cannot be retried under its branch; `ci_gate_satisfied` has no caller.

### Bounds, and why they are enough

* `engine_*`: two strategies, one mechanical and one AI trader: every property is about
  one strategy, or one strategy against the other roster.  A roster that is empty in one
  run and not in the next makes the mechanical one an orphan.  Two candles and three shapes
  (quiet; a drop that passes the stop and the liquidation price; a rise that stops a
  short), so a position can be crossed by the growth of the candle it was opened in, by
  the next one, and by both prices at once; `engine_controls` has one candle, seen by
  several ticks and two runs.  Two days, three positions and two runs in `engine_limits`: a
  loss, a flip and a re-entry around midnight and after a broken-off run.  The limits (loss
  2, notional 9, prices near 4) are reached exactly, and passed, within these.
* `ledger_commits`: three positions, two wallets, two crashes: an operation can be torn,
  retried and torn again beside an untouched wallet.
* `gate`: two proposals over two strategies and two versions, one web thread and the chat
  with three messages of which a read gives two, so that the first poll may miss one, a
  crash: both deciders can hold an apply at once, for one or for two
  strategies and for one version.
* `engine_lifecycle`: two handlers, three requests, four threads, two positions: a stop
  between two starts, a reset beside a start, a forgotten thread beside a new one.
* `reflection_loop`: two versions with a record, four outcomes, three units of time under
  a period of two, one critique, one crash: a reflection, new rules approved, a rollback
  of them and a second period.
* `strategy_intake`: one strategy in two spellings, two experiments of it, three
  proposals of which any may be of another kind, a crash, a cooldown of one unit and a window
  of one recent proposal: the rejection may leave the window before the cooldown ends.
* `always_on`: two openers and two versions, the second with columns; five candles with a
  live window of two, chunks of two and an exchange that serves the last three; two
  trades, one kill.  That the exchange forgets what a running tool was about to fetch takes
  more candles than these; the theorem covers it.
  `migration_race` has all 14 versions.
* `self_modification`: a free and a protected file; four pathspecs, namely one for each
  file, one that stands for both and passes the guardrail, and one that reads as a flag and
  matches nothing; two branches, two edits, a filed and a missing row: a failed attempt, then another under each name.
* `tick_jobs`: a built-in trader, a whitelisted one and one with only a flag; a source; two
  strategies to backtest on up to seven candles; four moments and one restart into any of
  four environments.

`Max...` constants bound counters that the code does not bound; they are guards of the
actions that would pass them.  Symmetry is used where the
properties are about safety only and do not tell the values apart: the two experiments of
`strategy_intake` and the two branch names of `self_modification`.  Deadlock is not checked where
the system may really stop: a halted run after `MaxRuns`, everything decided, a service
that was told to stop, all counters at their bounds.

### Fairness

* `PaperEngine`: the engine's thread keeps running, so its steps, leaving the loop and a
  failing fetch are weakly fair.  Fetching successfully is not (the feed may stay down),
  nor is any operator action, midnight, or starting a run.
* `ProposalGate`: threads that have work go on, and the engine keeps polling; people and
  crashes are not fair.
* `EngineLifecycle`: every handler that serves a request and every engine thread goes on;
  a join ends in one of its two ways.  No request is ever obliged to come.
* `AlwaysOn`: the operating system boots what it promised to, the daemon's loop, its
  engine and a tool that runs go on, an `open` that cannot succeed raises.  Kills, signals,
  raising engines, the clock and starting a tool are not fair.
* The other modules' properties are safety only.

## 4. What is proved

TLAPS checks, for every value of the constants that satisfies the modules' assumptions
(any strategies, rosters, shapes, sizes, limits, threads, openers, bounds):

| Theorem | Says |
|---|---|
| `EngineTypes`, `OnePosition` | types; a strategy holds at most one position |
| `GuardNeverDrifts` | the in-memory guard agrees with the trades table |
| `CapHolds`, `LossEndsRun`, `LimitsKept`, `KillSwitch` | daily cap; a lost day ends the run; both together; no entry at or beyond the daily loss |
| `StopsEnforced`, `AiStopsEnforced`, `OrphansManaged` | no pass leaves a stop its candle has crossed; no tick an AI trader's; where the ledger enumerates (hypothesis), no orphan's either |
| `PausedOpensNothing`, `BreakerHolds` | a pass that began paused opens nothing; a tripped strategy opens nothing |
| `DecidesOnce` | a mechanical strategy decides on a candle once, if no run dies (hypothesis `Orderly`) |
| `LedgerTypes`, `NothingTwice` | types; no crash leads to a double record |
| `PromiseKept` | `LedgerCommits` implements `LedgerPromise` |
| `CrashesCost` | reconciled without crashes; at most one row per crash; wallets off by exactly what the operations cut short were to book |
| `BooksStaySame` | the backtester's ledger and the SQLite one agree after every call, until a crash |
| `GateTypes`, `LineageKept` | types; one active playbook per strategy, a true chain of parents |
| `AppliedInFull` | applied exactly when approved and published, and once |
| `FirstDecisionStands` | a decision is never changed |
| `CommandsSettled` | no chat command is lost but to a locked ledger, or to a first read of the newest `ReadLimit` messages that it is older than |
| `ReviewCanBeTrusted` | only content that an unprotected declared path stood for when tests were green, or that was put there by hand, is pushed; pull requests hold what their paths match, beside what was staged; main holds merged ones only; links are real; a pushed branch is final |
| `OneEngine`, `WalletsOutlivePositions`, `WakesInTime` | in orderly histories: one engine and one position, no position without a wallet, no request slept on |
| `ExitsIntended` | in any history: an exit never closes a position of a run it was asked before |
| `TradesReflectedOnce`, `RulesReachTheOperator`, `CallsArePaced`, `ReflectionAccountsForAll` | each outcome in one reflection; rules filed but for one reflection per crash and per refusal of a busy ledger; calls a period apart but for one per start; the three together |
| `ProposesOnce`, `NeverWalksBack` | pending floors and rollbacks do not stack; no rollback offers what was rolled back from |
| `NobodyAskedTwice`, `RejectionHolds` | no toggle pending twice in one spelling, none added by research in any, a promotion filed twice only when its conclusion was cut off; the cooldown, unless more than `RecentLimit` proposals of any kind were filed since |
| `SchemaStaysSound`, `ServiceSchemaSound` | complete schema, true version, each migration once in turn; also with the service's engine and tool as openers |
| `AlertsOnce`, `StatusIsRight` | no trade alerted twice or dropped but with its engine; "stopped" is true |
| `CandlesStayComplete` | the stored candles are final and without a hole, unless the history says why not |
| `StartsStayGated`, `ClaimsStayHonest` | only approved traders, no trace of a start with live flags; a decision claims the playbook it was shown |
| `EachAtItsPace` | each brain asked no later, and no sooner, than floor and interval say |
| `CacheKeepsServing` | readings never go back; no source is asked within max_age of its last answer, unless a busy ledger could not keep that |
| `EvidenceStaysSound` | folds disjoint, complete, and later than the cutoff where trusted; a row or a failure for each strategy |

**Engine.**  `OnePositionPerStrategy` alone is not inductive: an entry adds the id
`nextId`, so the invariant `Inv` also says that open ids lie below it (`IdsFresh`), next
to the types.  The limits rest on `Inv` and on `LimitsInv`: the guard agrees with the
table (`GuardMatchesLedger`: after the guard's day nothing was booked, on it what the
guard says, and it has halted if it must), the cap holds of the table, and at the head of
the loop the guard has not halted for today.  The agreement is needed because `can_open`
decides on the guard while the claim is about the table.  Its core are lemmas on the
operators: rolling keeps the agreement over midnight because nothing has been booked on
the new day (`RollAgrees`); each fill is booked and told on the same day (`CloseAgrees`,
`OpenAgrees`); a guard of today that has not halted stands for losses below the limit
(`LossOfHalted`).  A flip applies the close lemma and then the open lemma to the totals
in between.

The stops are claimed of a pass that is over, so `StopsInv` is an account of one under
way: of the skills before `idx`, and of the one at `idx` once its stops were looked at, no
position found by the pass is crossed (`LookedAt`, `Enforced`), and the sweep has yet to
look at exactly the orphans that are left.  Positions opened by the pass itself are newer
than `passFirst` and are left out, as the code leaves them to the next candle.  `OnceInv`
says that the skills a mechanical pass has still to come to have not seen its candle, and
that outside of a pass none has, unless the ledger knows the candle's time.  It fails if a
run dies inside a pass, or a roster names a skill twice: both are in the hypothesis
`Orderly`, which is the configuration of run `engine_controls` (its operator has no "die").

**Ledger.**  `NeverRecordedTwice` needs `RowsMatchIds` (ids from `nextId` on are unused)
and `Expected`: for each point between two commits, which rows the next commit will find.
With it each action is shown to be a step of the promise or a stutter (`StepOpenRow`,
`StepCrash`, ...).  `CostInv` counts: the missing rows are at most as many as the
crashes, and one more exactly while the operation that will write it is under way; and a wallet is
off its trades by `unbooked` and by what the operation under way has yet to book, so that
between operations the former alone is left.
That the two ledgers agree (`BooksInv`) is a comparison of two shapes of data: positions
open by strategy against rows of a table that are never deleted, a list of trades against
a set of rows.  The first works because a strategy's open row is its newest one
(`SameOpen`).  For the second `SumsAgree` shows, by the smallest length at which they
would differ, that two sums with the same terms are equal, so a list with one trade more
adds just that trade's pnl (`BookedAppend`), and one row for one trade is all that the
counts need.

**Gate.**  One active playbook is not inductive: the applier retires "the" active row of
its strategy and makes it the parent, so the invariant also says that a version names one
row (`OneVersion`) and that a strategy with playbooks has one in force (`InForce`); then
the new parent is no other row's parent, and the chain stays one.  `ReadFirst` carries
what the applier saw at its first look to its transaction: the payload is appliable, since
payloads never change.  The chat's part is `Acted`: of the batch under way, the commands
before the current one are settled (decided, or refused by the lock), so that moving the
cursor over them loses nothing; a crash drops the batch and leaves the cursor.  Below the
batch lie only messages that are settled or counted in `missed`, and only the read without
a cursor can add to that (`Passed`).

**Review.**  None of the four promises to the reviewer is inductive, as they speak of what
was pushed and the commands pass content on from tree to index to branch to origin.
`ReviewInv` follows it: what is staged or committed was tested or put there by hand, and
between the tests and `git add` so is every file of the working tree that a declared path stands for
(`Gated`: an edit meanwhile is one by hand); the branch differs from where it forked by what
the declared paths match, by what was staged before and by what is staged by hand (`Declared`); the commands
stand on a branch of their own, that nothing on origin has (`OwnBranch`), because
`checkout -b` fails on a name once used and whatever is pushed stays a local branch.  That
last part is also why a pushed branch is final.

**Controller.**  In an orderly history one request at a time starts, stops or resets
(`OneAtATime`); a start that found no engine, and a stop whose join has ended, can rely on
there being none (`Quiet`), because the join waits for the very thread the Controller
refers to (`JoinsRef`).  `Books` ties a running engine to its wallet and what it saw to
what is there.  `Exits` needs none of this: a command of an idle hour is drained before
the run's first look, whoever else is in the Controller.  `Wakes` says for each point of
the tick who will still wake the engine.

**Learning.**  The playbooks form a chain (`Chain`: each supersedes the one before, the
last is in force), and each offer is sound with respect to it (`Offers`): a
rollback names a playbook that was in force, and the rules of the one before it.  Versions
are distinct because they carry their time.  `NoWalkBack` rests on `Kept`: rules that were
rolled back from were in force, are not in force now, and are not what the next rollback
would restore.  The account of trades rests on `LedgerInv` (periodic reflections end at
ever later times, so the newest row's end is the watermark) and `BatchInv` (the batch in
memory is exactly what is still ahead of the watermark).  `FiledInv` counts the rules that
reached the ledger and not the operator, against the crashes and the refusals, and `CadenceInv` the calls.  Outcomes and
playbooks of earlier runs are any that the program itself could have left
(`OutcomesAssumption`, `PlaybooksAssumption`): numbered, and a chain.

**Intake.**  A scan's set of known names covers every pending proposal (`JobSound`),
although it was read before the scan began to file: only the job files toggles, so nothing
else can add one.  As long as no conclusion was cut off (`cutOff`), what was filed has been
concluded or is about to be; `CuttingOff` is the step of a crash or a refused write, which
may add the experiment at hand.  Ids only grow, so a rejection leaves the window exactly when `RecentLimit`
rows of any kind are newer.

**Schema and service.**  The invariant says, for each point of a constructor, what it can
rely on whatever the others commit (`Sane`): objects are only ever added, so what held
before its version still does.  That one migrates at a time is what keeps the recorded
version directly behind the one under way (`InTurn`), and `OwnColumns`, read off the table
of migrations, that no other version brings its columns.  The theorem is then carried over
to the service, whose kills and restarts are crashes and starts of an opener.

**Candles.**  `CandlesComplete` is about a store at rest; while a tool is under way the
invariant is about what is stored or planned (`NoHole`): the engine may store a newer
candle than the tool has reached, and the gap between them is what the tool's spans still
bring.  `StoredUpward` says that within a span the engine has stored an upper part, and
`OneForming` that a candle saved while it formed is the newest, or about to be passed by a
span (which freezes it).  `CandleAssumption` says that a live fetch asks for no more than
the exchange remembers.

**Tick.**  `GateInv` adds to the gate that a process refused for its arms is `Down`, so
that nothing but the clock, the operator and the next start can move.  `CacheInv` bounds
what was shown by what the cache holds, and that by the clock, and says that an answer that
was kept is the row there is: a source with a fresh row is not asked.  `NeverSilent` speaks of a
tick that has come to the job, so `TurnInv` is an account of one under way: it has been
through the first k names of `Order`, the rest of `turn` is the rest of the roster, and
the brains among those k were asked in time (`Been`); `PaceInv` keeps every running
brain's gap between floor and ceiling, whatever an answer names (`ClampInside`), so that a
brain that is passed over as not due was asked recently enough.  For the job, `JobsInv`
says that every row is the walk over the candles at hand, which have no gap
(`StoredConsecutive`), and that rows, failures and what is still to do make up all
strategies; the rest is `WalkSound`, on the folds of any consecutive candles:
the folds that fit are numbered 0 to some m - 1 (`FoldsFit`), their test windows are
disjoint (`Multiples`) and leave no position out (`WindowsCover`), so their union is an
interval whose size is known.  The assumptions are that names are a sequence of strings
and environments are typed (a poll interval is not negative).

**Only model-checked.**  Every liveness property (`ApprovalTakesEffect`, `ExitHonoured`,
`StopEndsEveryEngine`, and the two in `ServiceHolds` besides `StoppedMeansStopped`):
fairness is out of the prover's reach.  Every invariant and every action property that a
run checks is a theorem too.  The types are proved and not checked by a run.

## 5. Not modelled

* A read of the ledger that fails: it is in write-ahead mode (`db.py:419`), in which a reader
  does not wait for a writer.  (Where a read did raise, the research scan would take nothing
  to be pending, `research.py:77`.)
* The numerics of strategies and indicators: a decision is any decision, or an exception.
* `advisor.py`: real arithmetic without a state; the engine takes a size from a small set.
* `config.py`, `dotenv.py`: the models' constants.
* Prompts, parsing of model answers, charts, prices of calls; HTTP formats of the feeds;
  HTML, reports, notification texts, escalation levels (which gate nothing on the paper
  feed), replay and self-queries: read-only, or formatting.
* Equity, decision, LLM, cost and regime tables: append-only logs nothing decides on.
* `live_broker.py`: no caller; the engine refuses every mode but paper (`Arming`).
* Developer tools and tests; the tests were read for what they promise.

Left for later, in this order: the allocator's weights and the regime filter as operators
against a reference; the Q-table of the learning strategy over restarts.
