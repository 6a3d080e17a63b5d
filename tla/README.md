# A verification project for NexusTradingForexBot

TLA+ models of the parts of the engine where order of events decides whether
money or data is lost, TLC configurations that check them on small instances,
and TLAPS proofs of the properties that matter most for every value of the
constants. Paths below are relative to `src/src/nexus_scalp/` unless they say
otherwise.

To check everything by hand: `tlc -config <cfg> <module>` for each run listed
under [Runs](#runs) and `tlapm <module>_proofs.tla` for the eight proof modules.

## 1. Inventory

The program is an automated trading engine for MetaTrader 5: a tick loop that
reads the market, decides, sends orders and manages positions, with a database
plane behind it, operator surfaces beside it and a self-updater under it.

| Component | State it keeps | Operations | What is hard | What makes it correct |
|---|---|---|---|---|
| **Audit write plane** (`adapters/database/audit_write_plane.py`, `audit_repository.py`, `dead_letter_store.py`) | bounded queue and its unfinished count; the worker's batch and transaction; overflow files; `audit_ledger`; `audit_dead_letter` | enqueue (financial, telemetry), batch commit, row salvage, spill, overflow replay, flush, close | many producer threads, one worker; faults of database, disk and process at every step; shutdown against late producers | a row accepted is not silently dropped, but for one of two that drew one file name; the ledger only moves forward; a flush that says TRUE means it; shutdown ends |
| **Order lifecycle** (`execution/order_manager.py`, `tickets_cache.py`, `execution/lifecycle/*`) | live-ticket view, tracked tickets, processed ids, refusal counter and SAFE_MODE; the ledger rows of a ticket | the management pass, verified cancel, close recording, exposure gate, dispatch, start-up reconciliation | the broker moves between any two calls; queries fail or answer empty; replies are lost; restarts forget everything | exposure stays within its limit; a row says CLOSED only of a closed trade; every close is recorded; a freed slot is freed |
| **Self-update engine** (`release/update_engine/*`, `storage/policy.py`) | application tree, `.previous-*` and `.preserve-*` directories, rollback pointer, state file, lock marker | check, run, rollback, sweep at boot and after a run | crashes between two file moves; an unlocked check; retention that may delete what a rollback needs | no half-installed tree reported as healthy; a usable rollback; user data kept |
| **Experience outcomes** (`experience/ledger.py`, `outcome_recovery*.py`, `execution/terminal_outcome.py`) | one outcome row per decision; staged contexts, the decision each ticket is attributed to | propose, bind, record, book a missed close, recovery sweep | gate, dispatch, cancel, autopsy, missed-close loop and sweep all write, over one queue a crash empties | what is written of a decision is true, is written once, and is written in the end |
| **Position protection and exits** (`execution/lifecycle/protection.py`, `exit_policy.py`, `order_manager.py`) | peak, break-even flag and floor, initial risk of a ticket; the broker's stop | giveback close, break-even lock, lock of the best profit, router and rule stops, scale-out | one snapshot for a whole chain of writers; market and operator move meanwhile; requests fail or lose their answer | a pass never leaves a riskier stop; a winner is not left in loss unless it is held for closed |
| **Risk circuits** (`risk/circuit_breakers.py`, `runtime_safety.py`, `drift_breaker.py`) | period anchors, losing streak, cooldown; error window | evaluate, feed a close, restart | closes booked late; day, week and cooldown ends fall anywhere; restarts | no entry on a spent budget or in a cooldown, no refusal without cause |
| Model governance (`governance/engine.py`, `store.py`, `transaction.py`, `lock.py`) | champion, promotions, audit rows, file lock | promote, activate, roll back, reclaim a stale lock | crash between activation and commit; two reclaimers | one champion, explained by its audit rows |
| **Live runtime** (`application/live_engine.py`, `application/live/runtime_loop.py`, `web/diagnostics_state_routes.py`, `database/maintenance_gate.py`) | run-loop tasks and their four flags, the safety state in memory and its row, adapter, write plane | boot, halt, release, START, STOP, Ctrl+C, teardown, migration guard | nothing ties a flag to the loop that set it; requests arrive while a loop boots or drains | a persisted halt holds; a teardown is one and leaves no loop; a migration is alone |
| Model lifecycle and shadow trading (`model_lifecycle/*`) | candidates, registry, champion record | register, evaluate, retire | shared files with governance | a candidate's state follows its table |
| Market data (`market_data/bar_aggregator.py`) | open bar | tick, close bar | gaps, duplicates, reordering | bars partition the ticks |
| Paper broker (`adapters/paper/paper_adapter.py`) | simulated orders | place, fill, close | none of its own | agrees with the live adapter's contract |
| AI providers (`ai_providers/*`) | provider health, policy | ask, fail over, gate | timeouts, late answers | a proposal passes the gate once |
| Platform link (`platform_link/*`) | pairing state | pair, heartbeat, revoke | late messages | table of states respected |
| Settings and runtime configuration (`settings/service.py`, `configuration/runtime_config.py`) | revisions | read, write, reload | lost update | a reader sees one revision |
| Database fabric and migrations (`database/*`) | schema versions, active provider | migrate, switch | failure half-way | version matches schema |
| Log shipping, incidents, storage hygiene | spools, incident groups, quarantines | ship, correlate, purge | best effort | nothing in trading waits for them |
| News; features, models and signals; marketplace, accounting, adviser, strategies | text, numbers | score, predict, report | numeric | outside a state model |
| Web, gateway and command line | sessions | request handlers | act on the state above from other threads | covered where they act: manual close and stop, START and STOP, update check |
| Go API and frontends | none | read | none | read-only |

How they interact. The tick loop calls the order manager's pass, then the
policy, then the dispatcher; the pass and the dispatcher call the broker
adapter and hand lifecycle rows to the audit plane, whose worker thread commits
them. Web threads close and modify positions by hand on the same order manager,
and start and stop its run loop. What became of each decision goes through the
same queue, and at start-up a sweep in a thread of its own completes it. The
autopsy of a close feeds the loss breakers, which the next proposal is asked
against. Start-up
reconciles the order manager with the broker and the ledger, and sweeps the
application directory the updater works in. The updater is a process of its
own; its check also runs inside the web process, without the lock.

`PROJECT.json` lists the same components with their sources, and every hazard
at its line with the properties that would catch it, or the reason none does yet.

## 2. Plan

In order of what a failure costs:

1. **Audit write plane**: `AuditDurability` (the contract), `AuditWritePlane`
   (the code and the refinement mapping), `AuditWritePlane_proofs`,
   `AuditContract_proofs`. *Done*, the implementation of the contract included.
2. **Order lifecycle**: `OrderLifecycle`, `OrderLifecycle_proofs`. *Done.*
3. **Decision outcomes**: `DecisionOutcomes`, `DecisionOutcomes_proofs`. *Done.*
   Next: periodic recovery and the clock checks of the sweep.
4. **Position protection**: `PositionProtection`, `PositionProtection_proofs`.
   *Done* for one position. Next: sibling legs, the hysteresis of
   `position_state_machine.py`.
5. **Engine control**: `EngineControl`, `EngineControl_proofs`. *Done.* Next: the
   background workers and the hot swap of models against inference.
6. **Loss breakers**: `LossBreakers`, `LossBreakers_proofs`. *Done.* Next: the
   error circuit of `runtime_safety.py` and the drift breaker.
7. **Self-update**: `UpdateEngine`, `UpdateEngine_proofs`. *Done.* Next: a lock
   taken over from an owner that is alive, and the version an automatic restore
   brings back.
8. **Governance**: the file lock as a component of its own (the update lock has
   the same stale-lock rule), composed with the promotion transaction; abstract
   specification: one champion, changed atomically.
9. Feed epochs, provider failover, platform link, settings revisions, bar
   aggregation.

Every safety property a passing run checks is a theorem (section 6). Worth
proving next: the safety halves of the liveness properties that have none yet
(`RecoveredAtStartup`, `ClosedIsLearned`, `OpenedIsClosed`), as is done for
`RefusedIsClassified`; mutual exclusion of the lock, or the exact condition under
which it holds; at most one champion.

## 3. Modules

| Module | What it is |
|---|---|
| `AuditDurability` | abstract: the fate of each financial row |
| `AuditWritePlane` | the write plane in full, and the refinement mapping (`fate <- Fate`) |
| `MCAuditWritePlane` | its instances |
| `AuditWritePlane_proofs` | loss, order of the ledger, flush |
| `AuditContract_proofs` | where each row is, which of two comes first, and the implementation of `AuditDurability` |
| `OrderLifecycle`, `MCOrderLifecycle`, `OrderLifecycle_proofs` | the engine's view of its orders against the broker's |
| `UpdateEngine`, `MCUpdateEngine`, `UpdateEngine_proofs` | run, rollback, check, sweep, crash |
| `DecisionOutcomes`, `MCDecisionOutcomes`, `DecisionOutcomes_proofs` | what the experience ledger says became of each decision |
| `PositionProtection`, `MCPositionProtection`, `PositionProtection_proofs` | the protection chain of one position |
| `EngineControl`, `MCEngineControl`, `EngineControl_proofs` | who runs, halts, stops and migrates the engine |
| `LossBreakers`, `MCLossBreakers`, `LossBreakers_proofs` | loss budgets and the cooldown of a losing streak |

The modules meet at named places. The management pass is in three of them, each
with the part of it that its properties need: `OrderLifecycle` has its broker
queries in full, `DecisionOutcomes` its rows, `PositionProtection` its stops.
`DecisionOutcomes` writes to the queue `AuditWritePlane` drains, and to the
`Booked` row that `OrderLifecycle` calls CLOSED; `EngineControl` decides whether a
pass may dispatch at all.

Operators whose names begin like a mapped action and whose comment starts with
"Mutant of" (`PutUnbounded`, `SweepAfterReturn`, ...) are deliberately wrong
variants, used by no specification; substituting one for its original must
break the property named beside it in `PROJECT.json`. They show that the
property depends on that line of the code.

### 3.1 Audit write plane

*State.* `queue` and `unfinished` are the `queue.Queue` and its
`unfinished_tasks`; `wpc`, `batch`, `done` and `work` are the worker thread, its
batch, the statements executed and the ledger as its open transaction sees it;
`file` is the overflow directory, `stamp` the name a row's producer drew, as its
place in name order, and `named` where clock and sequence counter stand in that order;
`pass`, `retiring` and `due` a recovery pass; `ledger`, `dead`, `husk` and `lost`
are where a row can end; `cpc` is the thread in `close()`. `pc[i]` is the
producer of item `i`. `covered`, `crashLost` and `restarts` are history.

*Actions.* A producer reads the plane reference (`Resolve`), then has its row
refused (`RefuseArity`), queued (`Put`), dropped (`DropTelemetry`) or spilled. A
spill draws its name (`Name`), counts on and creates the file (`Open`), and ends by
writing it (`SpillDone`), beaten to the temporary by another producer (`SpillBeaten`)
or refused (`SpillRefused`); between these steps anything may happen, a second
producer that draws the same name and a shutdown included. The worker constructs its backend (`Construct`, `Touch`),
takes, executes, commits, or rolls back and salvages row by row, acknowledges,
and on idle passes replays the oldest overflow files. `Restart` is the end of a
process, by shutdown or crash, and the start of the next.

*Abstraction.* A row is a ticket and a kind. OPEN is `INSERT .. ON CONFLICT DO
NOTHING`; CLOSE is the upsert that reconciliation writes without entry fields,
the case that depends on the order of the two: a CLOSE with its entry fields
could lose nothing by coming first. A file name is a place in an order: the clock
does not go back and a restart falls in a later second, and the `+= 1` of the counter
is one step of its own, apart from the read that builds the name. Two producers
that draw one name share a file: the last to write it, or a torn mixture of both,
is what is left. Retention, pruning and queries are left out.

### 3.2 Order lifecycle

*State.* `order`, `reduced` and `aged` are the broker: its orders, the tickets with
a deal for part of their volume, and those whose deals are all older than the 24
hours the engine asks for; `view` is `_live_tickets_cache`,
`tracked` is `_entry_timestamps`, `processed`, `failures` and `safe` the
dispatcher's; `ledger` is what rows a ticket has. `step`, `listed`, `snap` and
`reread` are the locals of the tick: what it has read and still works with,
while the broker moves on.

*Actions.* One per call of a pass, in its order: `ListPendings`, `CancelStale`,
`ReadPositions`, `FallingKnife`, `Rebuild`, `Reconcile`, `Repair`,
`MissedCloses`, `Sweep`, `Track`, and then `NoEntry`, `SendMarket` or
`SendPending`. The broker's are `Fill`, `Close`, `PartialClose`, `Expire`, and
`ManualClose` from a web thread. `Restart` empties the memory and runs the
start-up repair.

*Abstraction.* A decision and its broker ticket are one value. When an order is
stale, where the market stands and what a policy wants are free choices, so the
model contains every policy. `NoEntry` stands for every gate that turns a
decision away. A ledger row is durable once written: how it gets to disk is the
audit plane's module. The refresh of the view after a confirmed cancel reads
positions and orders at one moment; that the rebuild of the pass does not is
where the race of `exec_fill_race` lives. A lost reply is an order that was placed while
the adapter answered ticket 0. Deals grow old only while the engine is down
(`Restart`): in a process the loop asks every minute, and a history that stayed
late for a whole day is not modelled. Left out: stop moves (`PositionProtection`), outcomes (`DecisionOutcomes`), the hedge path and AI flips
(off by default), the magic-number filter of the snapshot
query, and the cancel whose answer is unknown.

### 3.3 Self-update engine

*State.* A file is ⟨part, build⟩; `tree` is the application directory, `remains`
the files in it that a restore removed in part (`rmtree(ignore_errors=True)` on a
directory in use), `prev[i]` what install `i` moved aside, `dirs` and `newest` the `.previous` directories,
`pointer` the rollback pointer, `state` the state file, `lock` the marker
directory, `data` where the user data is: in the tree, aside in `.preserve-*`,
stranded there by a failure, or lost from the tree after a sweep (the backup
under the backup root is not restored by itself). `cut`, `torn`, `checked` and
`crashes` are history.

*Actions.* A run stage by stage, the swap file by file (`MoveOut`, `MoveIn`),
the verification with its automatic restore, `EndRun` with the sweep; a rollback
(`BeginRollback` to `RolledBack`, `RestoreFile` by file, `RestoreInside` where the
old directory could not be removed and the snapshot's is moved inside what is left
of it); `CheckBegins` and
`CheckEnds` at any moment, as check takes no lock; `BootSweep` between commands;
`Crash` anywhere; `LockExpires`, the takeover of a dead owner's marker.

*Abstraction.* `DOWNLOADING` stands for DOWNLOADING, VERIFYING and READY, and
`VERIFYING_INSTALL` for itself and HEALTH_CHECK: nothing reads the difference.
Every build has the same parts; a release that adds a file would leave it behind
on a rollback, which the model cannot show. The move of one part is one rename,
though a restore may stop with the old part removed, all or some (`Interrupted`). A
part and what is left of another build of it go aside together at the next install.
Left out: the same nesting among the user data (`backup_migrate.py`), the Inno Setup install,
download and manifest verification, two live owners of one lock, an engine that
boots during an install, and the moment `status()` takes the lock.

### 3.4 Decision outcomes

*State.* `order` and `cut` are the broker. `bound`, `stamp` and `family` are
`_entry_order_ids`, `_pending_context_ts` and `_context_bound_tickets`: which
decision a ticket is attributed to, when a decision was staged, and which tickets
it has. `queue` is the audit queue, `experiences` to `outcomes` its tables;
`calls` the outcome calls the tick thread is in, which wait until the decision's
own row can be read; `copy` the synced broker history, `orphans` and `evident` what
the recovery sweep has read. `turn` is the order of the decisions' timestamps and
`backlog` the number of older orphans no sweep can ever classify: they stand first
in each scan, which is limited (`SweepLimit`, 2000 in the code), and `beyond` are
those the last scan had no room for.

*Actions.* The tick thread: `CancelStale`, `ReadPositions`, `Rebuild`, `Compare`,
`BookMissed`, `Autopsy`, `Track`, then `Propose` and the gates (`GateRejects`,
`RefusedInSilence`, `RefuseDispatch`, `BlockDuplicate`) or `SendMarket` and
`SendPending`; `Record` ends an outcome call. `Drain` commits the head of the queue.
`Sync`, `SweepStart` and `SweepOne` run beside them. `BrokerMoves` fills, cuts,
reduces and closes at any time. `Restart` is a crash or a clean end: what is queued
and in memory is gone.

*Abstraction.* A decision, its request id and its broker ticket are one value, so
attribution is the only thing that can bring two of them together. Queries answer
and rows commit: their failures, and the age of the deals asked for, are in the
first two modules. The time and size
limits of the staged contexts and the clock checks of the sweep are left out.

### 3.5 Position protection

*State.* `price`, `stop`, `vol` are the broker's; `tick` and `pos` the snapshot a
pass works on; `mem` is `PositionProtectionState` (peak, was_sl_modified,
breakeven_sl_price, close_requested), `risk`, `scaled` and `done` are
`_initial_risks`, `_partial_closed_tickets` and `_closed_tickets`. `seen` is history.

*Actions.* `Tick`, `Read`, then link by link: `GivebackCloses` or
`GivebackSpares`, `LockSent`, `MfeSent`, `ActCloses`, `ActModifies` or
`ActScalesOut`; a link may always wait (a cooldown, the dwell time, the step gate),
except that a critical giveback closes. `Close` may answer yes of a position that is
open, as the adapter takes a query that answers nothing for the proof; then
close_requested or `done` is set and every later pass ends at `Skips`. `ReadNone`
forgets a position that such a query hides, except for its `mem`, and after a restart
`Read` may take the deal of a partial close for the close. Between links `Move`, `ModifyByHand` and
`CloseByHand`. A request may be refused, or be done while its answer is lost; a
lost partial close is sent again, up to three times.

*Abstraction.* One BUY position, whole points, a contract size of 1. Which rule
or score asks for a stop is a free choice; what each of them computes and the
guards in front of the request are the code's.

### 3.6 Engine control

*State.* `pc[t]` is a run-loop task; `running`, `alive`, `busy`, `closed` are
`_running`, `_run_loop_alive`, `_shutdown_in_progress`, `_shutdown_completed`; `mem`
and `row` the safety state in memory and in the database; `broker`, `plane`,
`retrain` what a teardown closes; `stop`, `migration`, `waiting` the requests in
flight. `hasty` and `short` are history: a START, STOP or migration that came before
the last one was through, and a teardown that left something open.

*Actions.* Boot (`Enter`, `ConnectFails`, `Armed`, `Blocked`, `Unread`, `Warm`,
`BootFails`), the tick loop (`Poll`, `Pass`, `Halt`, `Reconnect`, `Leave`),
teardown (`Closes`, `Awaited`), the dashboard (`Start`, `StartResumes`,
`StopPressed`, `StopGoesOn`, `StopCloses`, `StopAnswered`), `Interrupt`,
`MigrationBegins`, `MigrationEnds`, `Release`, `Relaunch`. Everything but the
migration thread and the release process shares one event loop, so a step is the
code between two awaits, and a START that waits for the thread lock stops them all.

*Abstraction.* A teardown pauses only where it awaits the cancelled fine-tuning
task, and there it ends: the `CancelledError` is no `Exception`, so neither
`suppress` (`live_engine.py:2484-2490`) nor `_shutdown_phase` (2406) stops it, adapter
and write plane stay open, and `finally` says completed (`Abandon`). A `disconnect()`
that raises is passed over in the same way; the adapters of the repository swallow
their own errors, so that fault stands for the port. Any number of run-loop tasks may exist: the code has no guard but `_running`.

### 3.7 Loss breakers

*State.* `breaker` holds the fields of `CircuitBreakerEngine`; `log`, the history
of evaluations and closes, is what the properties are stated over.

*Actions.* `Evaluate` is `update_equity` and `evaluate` as `evaluate_proposal` calls
them; `Feed` is `record_trade_result` for a close of any earlier time; `Tick` the
clock; `Restart` a new process, which finds no anchors.

## 4. Runs

Bounds are the constants of each configuration; the models have no other. A
fault kind absent from `Faults` cannot happen in that run.

| Run | Instance | Shows |
|---|---|---|
| `audit_safety` | pooled plane; two tickets, the CLOSE of one malformed; queue of 1, batch of 2, spills up to one overflow file, one replayed per pass; one restart; faults: backend construction, statement, dead letter, overflow file, file retirement, crash | `NoSilentLoss`, `EntryContextKept`, `LedgerNeverRegresses`, and `ImplementsContract`: every step is a step of `AuditDurability` or a stutter |
| `audit_live` | SQLite plane, fair; one ticket and one telemetry row; the same sizes, no restart; faults: connect, statement, dead letter, overflow file, shutdown | `Settles`, `CloseTerminates`, `FlushHonest` |
| `exec_safety` | three decisions, exposure limit 1, SAFE_MODE after 2 refusals; refused cancels, lost replies, late deal history, partial closes; one process | `ClosedMeansClosed`, `OvershootByOne` |
| `exec_live` | two decisions, one restart after which deals may be too old, fair; failing pending queries, refused cancels, lost replies | `NeverBesideManaged`, `SlotFreed`, `OpenedIsClosed` |
| `update_safety` | two parts, three installs, one crash, every fault, directories that cannot be removed among them | `NeverHalfInstalled`, `RollbackAvailable`, `CrashBlocksRun` |
| `outcomes` | one decision, a sweep that scans one orphan and none or one older in front, every fault, two restarts, fair | `LiveTradesClosing`, `BookedBeforeLearned`, `SweepTellsTheTruth`, `FirstOutcomeStands`, `RefusedIsClassified`, `RecoveredAtStartup`, `ClosedIsLearned` |
| `breakers_safety` | a week of two days and the start of the next, four equities, a streak of two, four events, two processes | `BudgetsHold`, `StreakCools`, `RefusedForCause` |
| `control_safety` | two run-loop tasks, two attempts to connect, two processes, every fault (a raising adapter among them), fair | `HaltHolds`, `ClosedIsQuiet`, `OneTeardown`, `MigrationAlone`, `OnlyOperatorReleases`, `StopEnds` |
| `protection` | four prices, two volume steps, one stop set by hand, every fault (queries that answer nothing among them), one restart, fair | `RiskNeverGrows`, `RedWinnerEnds` |
| `exec_fill_race`, `breakers_restart`, `protection_ladder` | the smallest instance that shows it, without faults | a statement of the repository that the code does not keep, see [Findings](#5-findings) |

Why the bounds are enough. *Audit:* a queue of one is full with one row in it,
so every row can be queued, spilled or refused while another waits; a batch of
two holds the OPEN and the CLOSE of one ticket and is the smallest in which
order matters. Below the cap of one file two producers can draw one name, and
two or more files come about all the same, because the cap is checked before the
name is drawn and the file is counted only once it is there.
*Orders:* three decisions are one that is managed, one that is pending and one
that asks to enter; an overshoot by two would need the third. The code opens
SAFE_MODE after three refusals, the model after two: one refusal is
survived and the next opens the circuit, as a third would. *Updates:* two parts are the fewest of which half
can be moved; with two installs the sweep has a directory to choose, and it
takes a third for the choice to go wrong after a half-failed swap, or for an
install over what a restore left.
*Outcomes:* what is said of one decision involves that decision's ticket unless
attribution mixes two, and the safety properties are proved for every set of
decisions; an instance with two decisions, no faults and one restart (8.4 million
states) satisfies the safety properties as well, and takes too long for a regular
run. A scan of one is full with the one older orphan in front. Two restarts let a sweep follow a crash during the sweep before it.
*Breakers:* four events are two losses that arm the cooldown, one that follows,
and the evaluation that is asked; the equities separate the day's budget from the
week's in both directions. *Control:* two tasks are the fewest that interfere.
*Protection:* the prices are a loss, the entry, a profit that makes a winner but
arms nothing and one past the first step of the ladder, from which a fall to the third
asks for the lock of the best profit and not yet for a close; the higher steps are
reached when the initial risk is learned again from a stop that has moved. Two volume steps
can be halved once.

What is deliberately not claimed, because it is not true of the code:

- `NoSilentLoss`, `Settles` and the contract exempt rows whose overflow name was drawn
  twice. The name is built and the counter increased in two steps without a lock
  (`audit_repository.py:3905-3906`, `dead_letter_store.py:139-142`), so two producers
  can write one file and a row vanishes with nothing recorded, although
  `audit_write_plane.py:606` says "Never silently drops" and `audit_repository.py:3874-3875`
  "never silently lost". What is shown is that this is the only way, and that a row
  of that name is still kept.
- `OpenedIsClosed` excepts a trade whose deals are older than 24 hours when the engine
  comes back (`order_manager.py:2896`, 4203, `reconciliation.py:92-94`): its row stays
  OPENED for ever, although `reconciliation.py:62-75` promises the close "for every
  closed position ticket".
- `exec_safety` has no restart: with partial closes a restart breaks
  `ClosedMeansClosed` (see [Findings](#5-findings)). The theorem `LedgerIsHonest`
  covers partial closes in one process and, without them, any number of
  restarts; `exec_live` has one, for the liveness properties.
- `OvershootByOne` is checked with pending queries that answer. Each blind pass
  can let one more order in, so with queries that keep failing there is no bound.
  It is also a statement about the limit of one that the code ships
  (`order_manager.py:95`): with a limit of two and a cancel that is refused, two
  pending orders can fill between the two reads of one rebuild, and TLC finds four
  live trades. The theorem `OneBeyondTheLimit` says so in its assumption
  (`OneInDoubt`).
- `NeverHalfInstalled` lets a ROLLED_BACK tree hold, beside one whole build, what the
  restore could not remove: `rmtree(ignore_errors=True)` keeps a directory in use and
  `shutil.move` nests the snapshot's inside it, without an error
  (`rollback_state.py:172-177`). The files are all there, the nested ones not where the
  program looks for them.
- `RollbackAvailable` holds until a swap or a restore fails half-way or leaves such
  remains. After a failed swap the partial directory has the newest file, the sweep
  keeps it and deletes the whole one; after remains the next install sets a mixed
  tree aside, and `verify_snapshot` refuses it while the run reports COMPLETED.
- `CrashBlocksRun` excepts a check between the crash and the run, which
  overwrites the trace.
- Whether an automatic restore brings back the version that was replaced: the
  pointer it uses was recorded before the install, so with an older snapshot
  on disk it takes that one.
- `RefusedIsClassified` and `RecoveredAtStartup` except orphans the scan has no room
  for: it takes the 2000 oldest (`outcome_recovery_sweep.py:206-208`,
  `live_engine.py:3047-3050`), and those it can never classify keep their place for
  every later sweep.
- `SweepTellsTheTruth`, `LiveTradesClosing` and `BookedBeforeLearned` leave out
  what the live engine says of orders it takes for unfilled, which can be wrong; and
  none of the properties says that a trade is booked under the right decision.
- `ClosedIsQuiet`, `OneTeardown`, `MigrationAlone` and `StopEnds` are for an operator who
  waits for one request before the next (`~hasty`). `ClosedIsQuiet` lets a teardown
  that was cut short leave adapter and write plane open behind the closed flag,
  although `live_engine.py:2319` has it "True only after _shutdown_async actually
  finished".
- `RiskNeverGrows` excepts stops above the entry, where the capped lock may retreat,
  and what the operator moved; `RedWinnerEnds` excepts a restart, which forgets the
  peak, and a position the engine holds for closed (`protection.py:932`,
  `mt5_adapter.py:2359-2367`, `order_manager.py:4071-4076`; `reconciliation.py:270` after a
  restart): nothing protects it any more but the stop at the broker.
- `BudgetsHold`, `StreakCools` and `RefusedForCause` speak of one process.

*Deadlock* is checked for orders, updates, outcomes and protection, which never
stop. It is off for the audit plane (a closed plane whose worker has left, or
nothing left to log), for engine control (a stopped engine that nobody starts) and
for the breakers, whose clock and history are bounded.

*Fairness.* `audit_live` assumes that the worker thread is scheduled, that the
recovery cadence elapses, that a flush and a join end by their timeouts, and
that a file write that was begun ends or fails. It does not assume that
producers log, that a statement succeeds or that anybody closes the plane.
`exec_live` assumes that ticks keep coming (`WF(Pass)`: the loop calls the pass
on every tick) and that the 60-second clock advances; neither the broker nor
the policy is asked for anything. `outcomes` assumes that ticks keep coming, that
the writer drains its queue and that the sweep's thread runs: not that a gate
passes, a position closes or history is synced. `control_safety` assumes that the
event loop runs every task that is ready and that a migration ends: not that
anybody presses a button. `protection` assumes that passes go on link by link
(`EngineControl` and the loop run one per tick, whatever blocks new entries) and has
the two strong fairness conditions, both about the broker: its queries do not hide an
open position for ever (`SF(Read)`), and asked on every pass to close a losing
position it does so in the end. A terminal that is blind or refuses for ever is
beyond the engine.

Every property of a passing run has a mutant, a plausible slip in one
definition (a bound dropped, a sort not reversed, the sweep behind an early
return, `task_done` before the commit) under which TLC finds it violated.

## 5. Findings

Each is a run in which TLC reaches a state that contradicts what the repository
says; `PROJECT.json` quotes the lines.

| Run | What happens |
|---|---|
| `exec_fill_race` | No fault needed. A rebuild reads positions, the order fills, the rebuild reads pending orders: it is in neither list, and the gate lets a second order through. |
| `breakers_restart` | Nothing calls `save_breaker_anchors`, so the restore at boot finds nothing and the day's budget starts again from the equity that is left. |
| `protection_ladder` | The partial de-risk to -0.45R sets `was_sl_modified`, which means break-even everywhere else, and the cost-aware lock is never sent. |

Modelling showed more places where code and text part, or where the code does
what its reader may not expect. They have no run of their own; the models contain
each of them, and the properties above are stated around them.

*Audit plane.* Two producers can draw one overflow name, and a row is overwritten
without a trace (section 4, not claimed). The SQLite connection is opened after and outside the supervised
retry loop (`audit_write_plane.py:754` against the comment at 724-730): one failing
connect ends the worker. A replay that is rejected is dead-lettered with
`args=()`, because the file holds its args as a JSON string where a list is
expected (`:1045`).

*Orders.* A failed `positions_get` becomes an empty list (`mt5_adapter.py:1332`) and
the sweep books every tracked trade as closed, though `order_manager.py:3301` calls
that "positively closed". After a restart nothing is tracked, so the deal of a
partial close passes for the close (`reconciliation.py:107` against 66-69). These
are the assumptions of `LedgerIsHonest`. A close older than the 24 hours asked for
is never found.

*Updates.* A check leaves CHECKING or AVAILABLE in the state file, which the next
run takes for a crash (`orchestrator.py:179`, `rollback_state.py:229-244`). A failing
move strands the user data in `.preserve-*`, which the sweep of the same run
deletes (`backup_migrate.py:302`, `storage/policy.py:402`, against
`backup_migrate.py:234-235`). A restore over a directory in use nests the snapshot
inside it and says ROLLED_BACK.

*Outcomes.* A refusal by the freshness gate or the risk engine leaves no outcome
(`decision_executor.py:805-820`), where `experience/lifecycle.py` promises exactly
one. The end of a pending order that was never bound is not reported. A vanished
ticket is reported EXPIRED even when it was partly filled. A lost reply is
REJECTED_UNFILLED though the order may fill; a second dispatch of the AI reversal can
say NOT_DISPATCHED of a decision that was sent. After a restart a live position
has no decision until its ledger row names one. After a fill race and a crash one
ticket can be the execution of two outcomes, as the sweep does not ask for an owner.
Orphans that can never be classified fill the sweep's scan before newer ones that can.

*Engine.* A teardown that cancels a running fine-tuning task ends with it: the engine
says it is closed with adapter and write plane open, the caller gets the
`CancelledError`, and a loop task that idled behind a halt never clears
`_run_loop_alive`, so that a STOP answers 503. A completed STOP drops the write plane (`audit_repository.py:5989`), so a
reused engine raises at its first signal row, although `runtime_loop.py:296-298`
says it "can be started again after a completed stop". A START while a loop still
connects makes a second loop; a STOP or Ctrl+C in that time is overwritten when
the loop arms. A loop blocked by a halt is not released by the release command,
and a STOP of it always answers 503. An exception in the warm-up leaves the flags
set. The migration guard looks only at `_running`, so it lets a migration run
beside a loop that boots or drains; a START during a migration blocks the event
loop on a thread lock.

*Breakers.* A streak that reaches its limit inside a running cooldown arms none of
its own, and an expired cooldown leaves the streak, so one more loss arms it again.

*Protection.* The capped lock is not compared with the stop the broker holds. A stop
the operator moved between the snapshot and the request is overwritten. The lock
of the best profit and MODIFY_SL in one pass both compare with the snapshot, so
the later one can undo part of the earlier. A scale-out halves the profit that is
compared with the peak of the whole position, so the rest is closed at once. A
partial close repeated after a lost answer may close all of it. After a refused close
an empty answer to the position query counts as the proof of the close
(`mt5_adapter.py:2359-2367`), and the position is protected no more, a ghost as the comment at
`order_manager.py:3683-3689` describes it; `_cleanup_ticket_state` leaves
close_requested as it is. A loss is critical
even below the tier that arms the giveback (`order_manager.py:2507`). Peak, flag and
initial risk are rebuilt after a restart from a stop that has moved.

## 6. Proofs

All theorems hold for every set of tickets, decisions or parts, every size and
bound, and any number of restarts, installs and crashes, under the
`ConstantsAssumption` of the module, which TLC evaluates in the runs.

| Theorem | Statement | Assumes |
|---|---|---|
| `TypeCorrect` | `Spec => []TypeOK` (audit) | |
| `NeverSilentlyLost` | `Spec => []NoSilentLoss` | |
| `ForwardOnly` | `Spec => LedgerNeverRegresses` | |
| `FlushVouches` | `Spec => []FlushHonest` | |
| `ContextKept` | `Spec => []EntryContextKept` | |
| `PlaneImplementsContract` | `Spec => ImplementsContract` | |
| `OrderTypeCorrect` | `Spec => []TypeOK` (orders) | |
| `LedgerIsHonest` | `Spec => []ClosedMeansClosed` | position queries answer; no partial closes, or no restart |
| `NoEntryBesideManaged` | `Spec => NeverBesideManaged` | position queries answer |
| `OneBeyondTheLimit` | `Spec => []OvershootByOne` | both queries answer; a limit of one, or no refused cancel |
| `UpdateTypeCorrect` | `Spec => []TypeOK` (updates) | |
| `NothingHalfReported` | `Spec => []NeverHalfInstalled` | |
| `NoBlindRestart` | `Spec => CrashBlocksRun` | |
| `RollbackStaysAvailable` | `Spec => []RollbackAvailable` | |
| `LearnsFromClosedTrades` | `Spec => []LiveTradesClosing` | |
| `LessonsAreBooked` | `Spec => []BookedBeforeLearned` | |
| `SweepIsTruthful` | `Spec => []SweepTellsTheTruth` | |
| `OutcomesStand` | `Spec => FirstOutcomeStands` | |
| `RefusalsAreRemembered` | `Spec => []RefusalsRemembered` | |
| `BudgetsAreKept` | `Spec => []BudgetsHold` | |
| `StreaksCool` | `Spec => []StreakCools` | |
| `RefusalsHaveCause` | `Spec => []RefusedForCause` | |
| `HaltsHold` | `Spec => []HaltHolds` | |
| `ReleaseIsTheOperators` | `Spec => OnlyOperatorReleases` | |
| `ClosedMeansQuiet` | `Spec => []ClosedIsQuiet` | |
| `TeardownIsSingle` | `Spec => []OneTeardown` | |
| `MigrationIsAlone` | `Spec => []MigrationAlone` | |
| `RiskIsBounded` | `Spec => RiskNeverGrows` | |
| `FlagIsEarned` | `Spec => []FlagMeansMoved` | the operator sets no stop at or behind the first one |
| `TypeCorrect` | `Spec => []TypeOK` (outcomes, breakers, engine, protection) | |

Each assumption is needed. Position queries that fail and partial closes before a
restart are the two disagreements listed under *Orders* in section 5; the rest of
the assumptions about orders are explained in section 4 under what is not claimed.
An operator who moves the stop back behind the first one undoes what
`FlagMeansMoved` says by hand. `RefusalsRemembered` and `FlagMeansMoved` are stated
in the proof modules: the first is what the liveness property `RefusedIsClassified`
needs to be true at every moment, the second is what remains of the break-even
flag's meaning after the finding of `protection_ladder`.

*Audit.* `NoSilentLoss` is not inductive: it says nothing of the row whose file
was replayed and not yet retired, or of a batch half executed. `LossInv` adds
that each returned row is settled (durable, dead-lettered, logged), in a whole file,
pending, or shares its file name (`Accounted`), that the open transaction is nowhere
behind the ledger and holds every row executed so far (`TxnInv`), and five facts about
files (`FileInv`): a name once counted past is drawn no more (`NameInv`), a file being
retired has been settled, by one of the rows that have its name (`RetireInv`), a file
removed under its writer has been settled or was shared (`SpillInv`), and of the rows
of one name one is always in the file or settled (`HolderInv`, `TmpInv`). The last is
what is left of the promise where two producers share a name. Facts about `Apply` (a statement never moves a ticket back, and
leaves its row durable) give `ForwardOnly`, and by transitivity the step of a
whole batch at `Commit`. `FlushVouches` rests on `PendingOnlyShrinks`: a row
already returned enters the queue or the batch no more, and on `CountInv`, that
`unfinished = 0` means both are empty.

*The contract.* `Fate` reads a row's fate off the state of the plane, testing its
places in a fixed order; the theorem needs that a row is in one of them at a time.
`MemoryInv` says that queue and batch hold each item once, `StartInv` and `OrderInv`
that the CLOSE of a ticket is handed over after its OPEN and stays behind it in
both, `DrainInv` that a replay pass exists only while the worker drains, and `PlaceInv`
which places exclude each other: a row that never spilled has no file, the whole file
of a row that has its name alone is not of one that is dead-lettered, what waits in
memory is not settled. Rows that share a name are mapped to the fate `exempt`, by one
step of the contract (`Collide`) before any of them is accepted: a row that has been
accepted under a name of its own can never become exempt. With them every action has a
lemma that says which fates it changes: an enqueue accepts one row, `Commit` makes
the batch durable together, a salvaged row is one rejection or one commit, the
retirement of a file one recovery, `Restart` is `Die`, and everything else a
stutter. `EntryInv` is the second use of the order: once the ledger knows a ticket its OPEN
has been answered, and a ticket closed without its entry context, in the ledger or
in the open transaction, is one whose OPEN left the queue some other way.

*Orders.* `HonestInv` carries what a pass knows between its reads: what is
tracked or was read has filled (`FilledInv`), and what is tracked and missing
from the positions read has closed, from the read to the sweep (`VanishedInv`).
Orders only move forward (`OrderForward`), so old answers stay true in that
direction. `ManagedInv` adds `SeenInv`: from the rebuild on, a position that is
found and still open is in the view, whatever the pending queries said, and
what is tracked when the gate is asked is what was found; hence the gate counts
it. `OpenedInv` is the way `LedgerIsHonest` stays true with partial closes: in one
process an OPENED row is of a ticket that is tracked or has closed. `DoubtInv` is for
`OneBeyondTheLimit`: at most one order is pending, so at most one live trade is not
among the positions this pass read, and what is still pending is in the view. So an
entry sees all live trades but one. A second pending order would have to be left
beside an entry, which a limit of one and a cancel that works each exclude.

*Updates.* `IInv` follows the tree through a swap: what is in it while files
move in belongs to the new build (`MovingIn`), at verification it is that
build (`Installed`), during a restore tree and snapshot together make up the
old one and whatever else is in the tree is still to be replaced or could not be
removed (`Restoring`). `Dated` and `Fresh` keep remains out of a new build: none of
them is newer than the last one. `NoClaim` says the state file vouches for nothing while
a command runs, `Marked` and `TornMarked` that a crash leaves a state the next
run refuses, `Room` that the build counter stays within its bound. `KeptInv`
follows the snapshots: outside a swap the tree is one whole build (`WholeTree`),
during one the tree and what is set aside make up the old one (`Halves`,
`SetAside`), every other directory is whole or spent (`Snapshots`), and a completed
run has a whole one to leave (`Leaves`). What makes the sweep safe is a lemma about
its order: a spent directory compares as 0 and a whole one as more, so the one it
keeps is whole. A swap that fails half-way and a restore that leaves remains end
that, which is why `~cut` is in the property; up to then there are none (`Clean`).

*Outcomes.* A lesson is written long after it is taken, so each invariant follows it
through the three places it passes. `TradeInv` says of every outcome called for,
queued or written that its ticket has closing deals; it needs `VanishedInv` (what
a pass tracks and did not find has closed) and that orders only move forward.
`BookedInv` counts positions in the queue: the row that closes a ticket stands
before every lesson from it, so the prefix a crash leaves never has the second
without the first. `SweepInv` says that a verdict of the sweep is true for good
(`TrueVerdict`): what it read of the history was over when it was synced, and a
decision with a gate rejection has left the gates unsent (`Refused`), which no later
step takes back. The mutant that reads a cancelled order as unfilled breaks
exactly that. `RefusedInv` needs three facts that no single handler shows: a
decision's own row is ahead of its rejection and of its outcome call in the queue
(`DecidedInv`), so a call is never refused for want of it, and a sweep after a crash
finds every decision whose rejection survived; a dispatch row exists only of a
decision that was sent (`SentInv`), so the sweep reads the rejection as what it is;
and an outcome call that ends has queued its row or found one (`ComingLasts`). That a
sweep will take it (`Pursued`) includes that the sweep of this process had no room.

*Breakers.* The properties speak of the whole history, the code remembers a few
fields; the invariants tie the two together. `Anchored` says which evaluation the
anchor comes from: the first of the last period seen in this process. `Kept` then
follows from `Over` alone. `CoolInv` says that the streak is the number of losses
since the last win and that a running cooldown comes from a loss that armed it,
with nothing let through since (`Pauses`); `CauseInv` reads a refusal back from both.
Counting the losses of an appended history is one lemma on cardinalities.

*Engine control.* `Gated` strengthens `HaltHolds` to the tasks that are still
warming up: a task gets past the boot gate with the row it read, and a halt of
another task closes the gate in memory in the step that writes the row. The order of
the code matters here: reading, adopting and arming are one step between two
awaits. `Orderly` is what holds for an operator who waits: there is one task, a task past
`Enter` shows in `_run_loop_alive`, a STOP that waits came after the boot, and
whoever closes has `_shutdown_in_progress` set against the other. A closed flag
comes from a whole teardown or one that is marked `short`, and neither leaves a loop
or another teardown behind.

*Protection.* `InPass` says that the snapshot's stop is the one the last read saw,
unless the operator moved it since, and `NotBelow` that the broker's stop is not
below it or is above the entry. Each writer of a stop has its lemma that it writes
past the snapshot or above the entry; a lost answer changes what the engine
remembers, not what the broker holds. `MovedInv` is the weaker fact that survives
the operator, too: a stop past the first one stays past it, and the flag, the
snapshot of a running chain and the memory rebuilt after a restart only come from
such a stop.

Only model-checked: the liveness properties (`Settles`, `CloseTerminates`,
`SlotFreed`, `OpenedIsClosed`, `RefusedIsClassified`, `RecoveredAtStartup`,
`ClosedIsLearned`, `StopEnds`, `RedWinnerEnds`), since the prover does not handle
fairness and ENABLED. All other properties of passing runs are theorems, and each
inductive invariant above was first checked by TLC on the instances of section 4.
No module declares a recursive operator, and no theorem needs induction over data,
which is beyond the installed provers.

## 7. Not modelled

The components without a module in the table of section 1, for these reasons:
numeric code (features, models, signals, sizing, accounting), whose decisions
appear as free choices; text and network collectors (news, log shipping,
incidents), on which nothing in trading waits; pure presentation (web pages, Go
API, frontends); and control code that was not reached: governance, model
lifecycle, hot swap and feed epochs, the error circuit and the drift breaker,
providers, platform link, settings, database switching, market data. They can be
modelled in the same way; section 2 says in which order. The repository is large
next to its control: most of its lines are numeric, textual or presentation, and
the models cover the few files where order of events decides about money.
Within the modelled components, what is left out is
named in each part of section 3.
