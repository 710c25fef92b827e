# A verification development of luyun

luyun takes orders from a restaurant's POS, shows them to the kitchen, and runs the shop's
administration: hygiene checks, scheduling, overtime, backup, software updates, messages
to WeCom groups. It is one FastAPI process with a single uvicorn worker over PostgreSQL,
a Vue administration site and a uni-app kitchen display. Concurrency comes from

- asyncio tasks of that process: request handlers, the scraper, the push scheduler and
  the other background loops, which switch only where the code awaits;
- threads: synchronous handlers run in a pool (apply and cancel of a software update);
- processes of their own: the Update Job and the cold backup;
- crashes, restarts and power failures, after which files and tables are what is left.

This directory models its components in TLA+, checks them with TLC on small instances,
and proves the main results with TLAPS for every instance.

1. [Inventory](#1-inventory)
2. [How to run](#2-how-to-run)
3. The components: [the release tree](#3-the-release-tree), [the Update Job](#4-the-update-job),
   [the WeCom outbox](#5-the-wecom-outbox), [the database connection](#6-the-database-connection),
   [table changes](#7-table-changes), [delivery bills](#8-delivery-bills),
   [the steamers](#9-the-steamers), [daily hygiene checks](#10-daily-hygiene-checks),
   [the roster](#11-the-roster), [overtime and leave](#12-overtime-and-leave)
4. [Disagreements found](#13-disagreements-found)
5. [What is proved, what is only checked](#14-what-is-proved-and-what-is-only-checked)
6. [What is not modelled](#15-what-is-not-modelled)
7. [Plan](#16-plan)

Paths are relative to the repository's `src/`. `PROJECT.json` has the same inventory in a
form for tools, the lines each definition stands for, and the hazards.

## 1. Inventory

### Modelled

| Component | State | Operations | Interacts with | What is hard | Correct when |
|---|---|---|---|---|---|
| Release tree switch, `services/release_update/job_adapters.py` | three directories: live, `.next`, `.prev`; shop state inside the live one | `activate_bundle`, `restore_previous_tree` | called by the Update Job; the service saves files meanwhile | kill between two renames, saves during the copy, one rename of two failing | a whole release and all shop state are always on disk; a finished job leaves one of them live |
| Software update, `services/release_update/__init__.py`, `job_state.py`, `job_control.py`, `oneshot.py` | job file, cancel flag, pidfile, one-shot unit | `apply`, `cancel`, `confirm_health` (by the status poll) | thread pool, poll and job process share three files without a lock | whole records written back after an await or a call; a service that restarts under its own threads | what the job file says is true of the tree and of the running service; no update is in progress for ever |
| Update Job process, `services/release_update/job_runner.py`, `scripts/run_update_job.py` | its memory of the job record | fetch, install, dependencies, migrations, restart, rollback | job file; the tree; `systemctl` | killed or cancelled at any step; `systemctl` reports late | only the wanted release is installed; a failure leaves the old release |
| WeCom outbox, `services/wecom_outbox.py`, `db_core/wecom_subscriptions_repo.py` | table `wecom_push_outbox`; a batch in memory; a throttle in memory | enqueue, dispatch, reclaim, purge | business callers; channels; the scheduler loop | snapshots of rows that others change; lost answers; crashes between two writes; writes that fail silently | at-least-once with every duplicate accounted for; bounded retries; everything settles |
| Shared connection, `db_core/backend/pg.py`, `database_connection.py`, `connection.py` | the task guard, `_tx`, `_tx_lost`, `_raw` | execute, commit, rollback, close, reconnect | every repository of the process | many tasks, one transaction; tasks that die with it; a connection rebuilt under a unit | units are atomic and reported as they ended |
| Table changes, `scraper/table_change_detector.py`, `order_flow_ids.py`, `state_store.py`, `restaurant_scraper.py` | amounts and portions of each table at the last round, in memory and in a file; counters of missing dishes in memory; rows of the order table | one round: look at the tables, read the changed ones, compare dish by dish, restore or cancel, save the snapshot, store the rows | POS; order table | answers that lack dishes; snapshot saved before the rows; a table that is settled and reused; restarts | a dish is cancelled only if it is gone, and then it is; no row without a portion |
| Delivery bills and reconciliation, `scraper/delivery_bill_tracker.py`, `settled_reconcile.py`, `services/reconcile_job.py` | tracked bills with their misses, in memory and in a file; rows | a round over the list; a reconciliation; the sweep of the next morning | POS; order table; each other | "missing means cancelled" against short answers; three writers that await between reads and writes | no bill that still exists is given up; in the end the rows are those of the list |
| Orders, kitchen and floor calls, `db_core/orders_repo.py`, `services/kds_orders.py`, `floor_console.py`, `kitchen_work.py` | table `orders`: portions with status, hole and stack position, hold and rush marks | complete, load, move, unload, pluck, hold with substitution, fire, rush; cancel, restore, revert | tablets; scraper | checks before the lock, writes by id after it; partial completions | holes hold their capacity, stacks have no gaps, no portion is lost, a cancelled one stays cancelled |
| Daily hygiene checks, `services/hygiene/work.py` | zones' items, standards, submissions, lessons, events; photos on disk | standards, submission, review, undo, lesson, archive, orphan sweep | one write lock; files outside of it | files written before rows and removed after them; reviewers against submitters | every row has its photo and every photo its row; "passed at once" is counted once |
| Roster, `services/scheduling/store.py` | rules, overrides, rows of a day, requests, shifts, resignations | set and clear rules, four ways to edit a day, leave and swap requests and their approval, resignation | managers and employees, each with a check before the write lock | what was checked may be gone; rules laid out over days that others edit | the row of a day is what its override or rule says; an approval is one step |
| Attendance and overtime, `services/overtime/ledger.py`, `attendance/store.py` | entries, deductions, salary snapshots, ledger rows, schedules | submit, withdraw, approve, reject, void, seal a month, fill in balances by hand | managers and employees; the calendar | sums over rows that others decide meanwhile; one writer without the lock | leave is spent once, written-off hours are covered, a sealed month stands |

### Not modelled yet

The last column is what a model would have to show, not a claim about the code.

| Component | State and operations | What is hard | Correct when |
|---|---|---|---|
| POS session, `scraper/pos_session.py`, `yintai_*.py`, `sly20_auth.py`, `pos_http_client.py`, `services/scraper_failure_tracker.py` | a browser session, cookies, a failure counter | re-login while requests are in flight | browser automation; mostly I/O |
| Realtime, `services/realtime/hub.py`, `redis_bus.py`, `logs_bridge.py` | subscriptions per socket; a Redis subscriber; debounce flags, one set by threads | a notice during the debounce; own messages that come back from the bus; reconnects lose messages; a flag shared by threads and loop | every change is followed by a nudge to each subscriber; no employee gets another's |
| Backup, `services/backup_service.py`, `backup_points.py`, `backup_retention.py`, `backup_import_staging.py` | snapshots, exports, cold archives on disk; retention settings; a health cache | the cleanup preview and the cleanup see different lists; a restore that fails half-way; maintenance while it runs | a restore is preceded by a snapshot; the plan shown is the plan applied; the last good point is kept |
| Accounts and sessions, `services/identity/accounts.py`, `services/auth_service.py` | employees, sessions | a session that is validated while its employee resigns or changes the password | no request is served for a revoked session read after the revocation |
| Rest of hygiene, `services/hygiene/work.py`, `archive.py` | deep cleaning, fix tickets with reshoots, overdue notices, archive rules | submission, review and resubmission by two reviewers; the same photos and lock as the daily checks | one open ticket per item; every row's file exists |
| Wastage, recipes, preparation plan, `services/wastage/store.py`, `recipes/store.py`, `prep_plan_service.py` | rows | computation over rows read in one query | arithmetic |
| Push scheduler, renderers, ops events, `services/wecom_push_service.py`, `wecom_ops_events.py` | which jobs ran; watermark levels observed and notified; results handled | a level counted as observed before its notice is accepted; restarts between the two | a level that lasts is notified once, and its end too |
| Runtime, `main.py`, `services/app_runtime.py`, `memory_manager.py`, `disk_guard.py`, `log_storage.py`, `data_quality_scheduler.py`, `db_migrations.py` | background tasks, a log queue, thresholds | shutdown order; a bounded queue under pressure | little shared state |
| HTTP API, `api/*.py` | none of its own beyond export jobs | authorisation and validation in front of the components above | – |
| Front ends, `admin-web/`, `kds/` | Vue and uni-app stores, a print queue | reconnect and refetch | the update page appears in `UpdateJob` as the poll |

## 2. How to run

    tlc -workers 2 -config pg_units.cfg PgConnection.tla       # any run: module and cfg below
    tlapm PgConnectionProofs.tla                               # any *Proofs module

| Run | Module | Expected | Distinct states |
|---|---|---|---|
| `tree` | `ReleaseTree` | holds | 107,004 |
| `job_safety` | `MCUpdateJob` | holds | 1,951,036 |
| `job_ends` | `MCUpdateJob` | holds | 671,838 |
| `outbox` | `MCWecomOutbox` | holds | 601,895 |
| `pg_units` | `PgConnection` | holds | 567,748 |
| `tables` | `MCTableChanges` | holds | 1,070,271 |
| `tables_lost_portion` | `MCTableChanges` | `IdsAreFresh` violated | – |
| `bills` | `DeliveryBills` | holds | 461,363 |
| `steamers` | `MCSteamerHoles` | holds | 2,189,795 |
| `hyg_daily` | `HygieneDaily` | holds | 212,068 |
| `roster` | `MCDutyRoster` | holds | 1,218,346 |
| `overtime` | `MCOvertimeLedger` | holds | 916,270 |

Each takes at most four minutes with two workers. Deadlock is checked in `outbox`, whose
scheduler loop never stops; every other system may stop, when the bounded number of
updates, calls, changes or photos is used up and nobody has to go on.

Definitions marked "Fault" in the modules are plausible bugs (a dropped reset, a missing
guard). No action of the system uses them; each property is known to fail when its fault
replaces the definition below it, so that none of them holds by the shape of the model.

## 3. The release tree

`ReleaseTree` models `activate_bundle` and `restore_previous_tree` one file operation at a
time. `TreeSwitch` is what the pair promises: the installed release changes in one step,
which can be undone in one step, and neither touches the shop state.

| In the model | In `job_adapters.py` |
|---|---|
| `live`, `next`, `prev` | `<deploy>`, `<deploy>.next`, `<deploy>.prev`; each a release's code and the shop files below it |
| `Extract`, `CopyPreserved`, `DropPrev`, `RenameAway`, `RenameIn`, `Undo`, `Discard`, `StripPrev` | the steps of `activate_bundle` in their order, each of which may raise with a part of its work done (`Fail`), as the code lets it: also the undo of the first rename (308) and, after the switch, the removal of the shop state from `.prev` (316) |
| `RestoreBegin`, `CarryBack`, `RenameOut`, `RenameBack`, `Sweep` | `restore_previous_tree`; the moves, the `rmtree` and both renames may raise (333-340), the moves half-way |
| `Save` | the service writes below `data/`, `secrets/` or `.env` while the job works |
| `Kill` | SIGTERM, a power cut or the restart of the container; nothing in the job handles it |

A directory's release is complete or absent: extraction happens in `.next`, and an
incomplete one is never renamed (`_assert_bundle_tree`). `base` is what the live tree held
when the job started, `written` everything ever saved.

A behaviour is calm or not, for good (`calm`). In one that is not, jobs are killed anywhere
and the service saves at any moment: wherever a job dies a whole release is live or in
`.prev` (`ReleaseOnDisk`), so that the manual recovery of `docs/RELEASE_AND_DEPLOY.md` has
something to move back, and no shop file the job found is gone from all three trees
(`BaselineOnDisk`); the two are `NothingLost`. In a calm one there is every failure but no
kill, and no save in the steps between the copy and the renames. There every job ends with
the right release live and every shop file in it, the new release if `activate_bundle`
returned or raised after the switch, else the one before; only if the undo of a rename, or a
step of a rollback, itself raised, is the tree left to the operator, with the release before
in `.prev` and no shop file missing between that and what is live (`SettledTree`). The whole
implements `TreeSwitch` (`AtomicSwitch`), in which such a failure is a step of its own:
`whole` becomes false and nothing leaves the disk. Saves in that window are left behind in `.prev` and are lost
by the next job; the code says nothing about them, so calm excludes them.
`ShopStateSurvives` and `FailureLeavesLive` are what comments of the code say of every job;
they do not hold (see 13), and no run checks them.

Bounds: two releases (old and new), two shop files (one that is there, one that is saved
meanwhile) and three jobs: a job over the remains of a job over the remains of a job. The
theorems need none of them.

## 4. The Update Job

`UpdateJob` models one update from "apply" to its end. `data/update_job.json`, the cancel
flag and the pidfile have no lock; each party reads a record, does something that takes
time, and writes the whole record back. Every read and every write is a step, and so is
every call between them.

| In the model | In the code |
|---|---|
| `job`, `flag`, `pid` | `job_state.py`, `job_control.py`: the three files; of the record the fields that decide something |
| `ApplyRead` ... `ApplyStart` | `ReleaseUpdate.apply`: check, clear the flag, write the queued job, start the job |
| `CancelRead` ... `CancelClear` | `ReleaseUpdate.cancel`: set the flag, write the record back, stop the process, wait five seconds, force the end |
| `PollRead`, `PollMismatch`, `PollProbe` | `confirm_health`, with the readiness probe between its read and its write |
| `Stillbirth` | the unit does not start, the process ends before it has read anything, or `build_runner` raises and only `main`'s `finally` runs |
| `Boot` ... `Exit` (`Run`) | `UpdateJobRunner.run`, `_fail_before_leave`, `_fail_with_rollback` and `run_update_job.py`, a step per read, write, check and adapter call |
| `Die` | a stopped process: SIGTERM from a cancel |
| `RestartService` | the service restarts: its threads and its poll die; in Docker, so does the job |
| `Outage` | power failure |
| `installed`, `fallback` | the tree as `TreeSwitch` sees it, for as long as it is whole; what a stranded one looks like is in `ReleaseTree` |
| `asked`, `told`, `outlived`, `slipped` | history, since the update was queued: a cancel was requested; one has forced the end; the processes at work on the update when it did; `activate_bundle` raised after its switch |
| `epoch`, `running` | how often the service started, and from which release |

`job_safety` asks whether what the job file says is so (`RecordIsTrue`): a success names the
live tree and a service started from it after the requested restart (`SuccessIsReal`); a
failure before the switch left the tree alone (`FailedBeforeIsUntouched`), one with a
rollback restored it (`RollbackIsReal`). The second excepts one case, which `slipped`
records: `activate_bundle` raised after its own switch, the job did not note the switch, and
reports a failure before it without a rollback (see 13). `CancelsAreHonoured`: the job stops
as cancelled only for its own update (`CancelIsMeant`), and the tree is replaced only by the
release the file names (`InstallsTarget`): while no cancel was forced, only as long as the
file reports that update in progress. The end of a cancel's five seconds looks at no process,
and a stop may reach none, or one that is not killable; so after a forced end a process that
was at work on the update then may still switch the tree (`outlived`). One that had yet to
take the update up may not, since it finds no queued update.

`job_ends` asks whether an update ends: by itself as long as nobody cancels, the power stays
and its process got as far as reading the file (`EndsByItself`), also when the service never
becomes ready or `systemctl` times out; and in any case, also after a `Stillbirth`, which
leaves the file at `queued` for good, for an operator who keeps cancelling (`CancelEnds`).
With cancels but no persistent operator `NotStuck` alone does not hold (see 13).

Bounds: two releases (`SYMMETRY` where no liveness is checked); one thread that applies and
one that cancels; two jobs in `job_safety`, so that each meets the remains of another (flag,
pidfile, record), one in `job_ends`; one power failure; systemd and Docker.

Environment:

- `Overlap = FALSE`: apply is called when no other call, poll or process of the last update
  is at work. Without it, and with a second thread that applies, TLC finds
  `ConcurrentApplyRejected` violated (see 13).
- One operator cancels at a time. With two, a cancel can be undone by another (see 13).
- `LateRestart`: `systemctl restart` may report a timeout after it restarted the service.
  On in `job_ends`, off in `job_safety`: when it happens, a success may be confirmed and then
  rolled back (see 13); what else `job_safety` checks is proved with it on (see 14).
- The 180 seconds before an unhealthy service is given up exceed the adapters' own limits of
  120, so `GraceElapses` comes after the job's process has ended.
- Writes of the job file succeed, and the tree is whole when the service or a job starts.
- One progress report per download; each further one repeats the same read and write.

Fairness: threads finish what they began, processes run or die, the page polls while it
shows an update, and time passes. Nobody has to apply or to cancel; `CancelEnds` has the
operator's persistence as its premise.

## 5. The WeCom outbox

`WecomOutbox` models the table, the coroutines that enqueue, and the one scheduler loop, an
await at a time. `DeliveryLedger` is the promise: a delivery is owed until it is settled,
copies go out only while it is owed, each copy after the first is paid for by a mishap, and
what is settled stays so until it is purged.

| In the model | In the code |
|---|---|
| `row[k]` | the row of an idempotency key; `due` and `stale` stand for its back-off and sending time-out having passed |
| `Resolve`, `Insert`, `Look`, `Skip` (`Enqueue`) | `enqueue_topic`: targets, `INSERT ... ON CONFLICT DO NOTHING`, and the skip of a target that is off |
| `StaleSending`, `Reclaim`, `Pending`, `Take`, `MarkFailed`, `MarkSkipped`, `MarkSending`, `Post`, `MarkSent`, `Settle`, `Purge` | one round of `scheduler_loop`: requeue stale rows, read a batch, and for each row the channel, the throttle, mark, post, outcome |
| `loop.batch` | the rows as the query found them, with the attempts they had then |
| `used` | `_recent_sends`: the throttle, lost on a restart |
| `Write` | a write that fails is logged and the dispatcher goes on |
| `ChangeChannel`, `Crash`, `Due`, `Stale`, `WindowMoves` | the administrator, a restart, time |

`outbox` has two scheduled reports that compete for a throttle of one message on one channel,
and one mishap: a crash, a failed write or a lost answer. `HonestRecord` says that a message
arrives at most once more than there were mishaps (`DuplicatesNeedMishap`), is posted no more
often than its retry limit plus the writes that failed (`PostsBounded`), and is recorded as
sent only if it arrived (`SentArrived`). `KeepsLedger` is the refinement; `Settles` says that
every accepted delivery is sent, failed or skipped in the end.

Bounds and environment: retry limits are the code's (2 for reports, 4 for events). One
mishap is what the run can afford next to two rows in one batch, the interesting case of the
refinement; that `HonestRecord` holds however many mishaps there are, and for events as well
as reports, is proved. `Races = FALSE`: a channel does not change while a row is in hand.
With races a caller's skip may overwrite a row that is being sent (see 13), so the record of
a settled row may change, which `DeliveryLedger` excludes; of the theorems only `LedgerIsKept`
needs it. One message per delivery; fewer rows than a batch of 20; a business reference does
not come back after its row was purged (retention is days).

Fairness: the loop runs (it is one endless task), coroutines finish, clocks move. Nobody has
to enqueue, and no mishap has to happen.

## 6. The database connection

Every repository of the process writes through one `PgConnection`. `PgConnection.tla` models
its task guard (a lock that is re-entrant per task and stays with an open transaction), the
transaction, and close and reconnect, at each point where the code awaits: in the queue for
the lock, while a request is on the wire, and between two statements of a unit. A task in
`Running` has not awaited, so nothing else moves. `AtomicUnits` is the promise: the statements
of a unit are stored together or not at all and the caller is told which. It is void for a
unit that was mixed up with another.

| In the model | In `db_core/backend/pg.py` |
|---|---|
| `conn.owner`, `depth`, `held`, `tx`, `begun`, `lost`, `raw` | `_TaskGuard._owner`, `_depth`, `_tx_guard_held`, the task that opened `_tx`, whether its `start()` has returned, `_tx_lost`, `_raw` |
| `link` | asyncpg and the server: the request in flight, whether the session is in a transaction, whose is the outermost, what is written |
| `Execute`, `Granted`, `Timeout` | `_TaskGuard.acquire`: re-entry, free, taken over from an ended task, queued, timed out; `"patient"` and `"thief"` wait without the time limit (`pg.py:541`) |
| `TakeOver`, `Cleared` | `_discard_stale_transaction` |
| `Statement`, `Begin`, `Opened`, `Written`, `WriteFails` | `PgCursor.execute`, `ensure_transaction`, `discard_aborted_transaction` |
| `Commit`, `Committed`, `Rollback`, `RolledBack` | `commit`, `rollback`, before and after the request |
| `Raise`, `Leave` | an exception of the unit; a unit that ends without a rollback (an exception that is swallowed) |
| `Cancel` | a task cancelled in the queue or with a request in flight: the handlers catch `Exception` only, asyncpg calls the request off |
| `mixed`, `troubles` | history: units that shared a transaction, lost theirs to another task or were nested in one that nobody ends; the circumstances that have arisen |
| `Close`, `Drop`, `Seal`, `Rebuilt`, `Cut` | `close`, the server or network ending the session, `_reconnect_raw` before and after the old connection is closed, a request that ends with it |

Four circumstances can do harm, and the code excludes none of them. The model has them all,
and `troubles` records which have arisen:

- `"blind"`: a unit that failed rolls back while another task's transaction is on the
  connection (`rollback` asks nothing, `pg.py:972`, `serialized_write` calls it
  unconditionally, `services/hygiene/work.py:149`);
- `"crowded"`: the lock of an ended task is met while others queue for it (`pg.py:535`);
- `"opening"`: the connection is closed or rebuilt while a `BEGIN` is in flight (`pg.py:848`);
- `"cancelled"`: a task is cancelled while its `BEGIN`, `COMMIT` or `ROLLBACK` is in flight.

`SharedSafely` says that nothing else does: until one of them has arisen, no unit is mixed up
with another, what is written and uncommitted is the work of the lock's owner
(`OwnRowsOnly`), the lock is given back (`GuardReturned`), and an interrupted unit leaves no
transaction in the session (`SessionLeftIdle`). With any one of the four TLC finds it violated.
Breaks elsewhere, failing statements, timeouts, units that end without a rollback and tasks
cancelled in the queue or while they write are no such circumstance.

`UnitsAreAtomic` holds whatever arises: the units implement `AtomicUnits`. A unit that shares
its transaction with another, whose transaction another task ends, or that becomes a savepoint
of an abandoned one is in `mixed`, and nothing is promised to it; but a unit that was reported
as stored is never mixed up afterwards, and the others stay atomic and honestly reported next
to it. `EveryUnitEnds`: every unit ends, also behind a task that died with the lock, by the
take-over or the time limit of the queue. The time limit has a hole (see 13): a task that
finds the lock free but promised, and one that takes it over, wait without it, and are
`Stranded` if the one in front ends with the lock.

Bounds: `pg_units` runs three units of two statements. Three tasks are one with the lock, one
in the queue and one to come or gone; two of them may be cancelled or leave without a rollback.
Two statements are the least that can be torn apart; two breaks let the second hit a unit that
runs on the connection rebuilt after the first.

One unit per task: a task that starts a second unit inside the transaction it left open is
listed as a hazard and planned. Statements that only read hold the lock for one statement and
change nothing here. A reconnect that fails is not modelled; `Rebuilt` has no fairness: while
the connection is not rebuilt, statements are refused, and the units end all the same.

Fairness is per task, on everything but exceptions: the event loop runs what is ready, and a
request is answered or cut.

## 7. Table changes

`TableChanges` follows one table through rounds of the scraper. The POS seats parties, takes
orders, refunds and settles at any moment; an answer may lack a dish or not come at all; a
write may fail unseen; the process may die between any two steps.

| In the model | In the code |
|---|---|
| `bill`, `want` | the POS: the bill of the party at the table, portions of each dish |
| `known`, `snap`, `misses` | `previous_tables_state`, `previous_table_orders`, `_dine_in_cancel_misses` of `table_change_detector.py`; the counters are in memory only |
| `file` | the saved table state, `state_store.py` |
| `Listed`, `NotListed` | `monitor_table_orders`: the tables, and the choice of those whose amount changed |
| `Detail`, `ShortDetail`, `NoDetail` | `_get_orders_for_changed_tables`: the dishes of a table, with or without gaps, or none |
| `NewDish`, `MoreOf`, `SameOf`, `DeferCancel`, `CancelPortions` | `_detect_dish_changes`, one dish after the other, with the rows it restores and cancels at once |
| `SaveState`, `StoreOrders` | `save_table_state`, `save_orders`: the snapshot first, the rows after it |
| `stored`, `open`, `gone` | the order table: flow ids in it, rows that count, rows cancelled |
| `Crash` | the process dies; a restart loads `file` |

`tables` shows what the threshold of three rounds is for. As long as no crash tears a round,
there are never more rows of a dish than portions of it were ever ordered (`NoPhantom`). A
dish is cancelled only if portions left the bill since a read that had them all
(`CancelIsReal`). A portion that leaves the bill, and makes it cheaper, does not stay in the
snapshot for good (`CancelsInTheEnd`). `tables_lost_portion` checks a comment about flow ids
(see 13) and finds it violated without any failure.

Bounds: one table (tables share nothing but the file); two parties; two dishes, of which one
is dear and one cheap, since the detector decides by the table's amount and a dear dish may
come while cheap ones go; two portions; three changes at the POS; two incomplete answers, one
less than the threshold, which is what the properties assume; one crash. `AmountOf` is any
function in the proofs, provided that no portion is free: a free one is invisible to the
detector. Fairness: the loop goes on (`WF_vars(Round)`), the POS owes nothing.

Times, prices, dish attributes and the printing of new rows are left out. Rows cancelled and
restored are counted per dish, not told apart beyond their flow ids.

## 8. Delivery bills

`DeliveryBills` is one business day's list of settled delivery bills and the three writers
that follow it: the scraper's round, a reconciliation, and the scraper's sweep of the
morning after. Each awaits between what it reads and what it writes.

| In the model | In the code |
|---|---|
| `listed` | the POS's list; a bill that is taken back leaves it and may return |
| `track`, `swept`, `file` | `delivery_bill_state`, `collected_delivery_bills`, the day of the last sweep, and `delivery_bills.json` |
| `Poll`, `Collect`, `NoDetail`, `Compare`, `GiveUp`, `Return`, `EndCompare`, `Store` | a round of `delivery_bill_tracker.py`: new bills, bills given up after `Threshold` misses, bills that came back |
| `BeginReconcile`, `ReadRows`, `AddRows`, `ReadAgain` | `reconcile_job.py`: compare the table with the list, add what it lacks |
| `SweepList`, `SweepOpen`, `SweepGone`, `CancelVanished`, `RestoreReturned`, `EndSweep` | `settled_reconcile.py`: cancel and restore by the list, for a reconciliation and for the morning |
| `unit`, `fix` | rows of a bill as the scraper and as a reconciliation write them |
| `Crash`, `DayPasses` | a restart from `file`; the business day becomes yesterday |

`bills` shows that less incomplete lists than the threshold never make the scraper give up a
bill that was there (`GivenUpIsReal`), through restarts that bring older counters back; and
that in the end no bill that was taken back counts and none that was not is left cancelled
(`MorningSettles`), but for the bills in `astray`: those that the list of the morning's last
sweep lacked or one of its failed queries left out, whose write failed, or whose dishes could
not be read. The sweep is marked as done whatever of it has failed (`delivery_bill_tracker.py:539`),
so these stay wrong; that one failure spoils no other bill is what the property says. A sweep
that the process does not survive, or whose list is empty, is begun anew.

Bounds: two bills, so that one may be missing from a list that is not empty; a threshold of
two instead of three and one failure (the proof is for any threshold); four changes of the
list; one crash and one reconciliation, by day or in the morning. Fairness: scraper and
reconciliation go on while the process lives, and the day ends; the morning lasts until a
sweep has been done. In the morning the dishes of a bill are asked for in the range of the new
day (`delivery_bill_tracker.py:410`), so the POS may have none to tell without any failure
(`NoDishes`). A bill has one dish, and a reconciliation is one of the same day that adds what
is missing. `MorningSettles` does not speak of rows that were never stored (see 13).

`CountedOnce` is what a docstring says of reconciled bills. It does not hold (see 13) and no
run checks it.

## 9. The steamers

`SteamerHoles` models what the tablets of kitchen and floor and the scraper do with the
portions of one dish. A call reads and checks its rows one by one, reads the hole it wants,
and then writes in one transaction that checks nothing again; anything may commit between.

| In the model | In the code |
|---|---|
| `rows` | table `orders`: portions, dish status, hole and stack position, held, rushed, refunded |
| `Open`, `Check`, `Measure`, `Reread`, `Substitute` | the reads and checks of `services/kds_orders.py` and `floor_console.py` before the lock |
| `Load`, `Move`, `TakeOff`, `Complete`, `HoldPortions`, `FirePortions`, `RushPortions` | the transactions `apply_steamer_*`, `apply_cooking_completion`, `apply_floor_mutations` of `orders_repo.py` |
| `PickPortions`, `CancelPortions`, `RestorePortion` | `cancel_dine_in_portions` (select, then update) and its inverse |
| `CancelBill`, `RevertBill` | `mark_delivery_cancelled` and its inverse |
| `serial` | the kitchen sends one call at a time; fixed for a behaviour |
| `twice` (history) | a load that named a row twice has written |

`steamers` shows, for any sequence of calls one at a time and whatever the scraper does
between a call's checks and its writes, `KitchenIsSound`: holes hold their capacity
(`HolesFit`), the cages of a hole are numbered without gaps (`StacksAreTight`), and what is
held or served is off the steamer. With two calls at once each of the four can fail (see 13),
so they are asked only of the serial behaviours. Nothing refuses a load, a move, an unload or
a pluck that names a row twice, and calls that do are among those of the run: the move and the
unloads do no harm, but after such a load a number is missing from the stack, and
`KitchenIsSound` speaks of the time before the first one. In all behaviours no portion of a line that
the POS leaves alone is lost, and in the serial ones none is added (`PortionsAddUp`); and a
row on which money is given back counts nothing and no call brings it back, unless a
completion of it was under way when it was cancelled (`CancelledCountsNothing`).

Bounds: two tablets; two holes for two cages; three lines, one of two portions, and room for
one row split off (`MaxRows`); when the calls are serial up to three of them and up to two changes
at the POS, four steps in all (`MaxSteps`), two overlapping calls and one change when not
(`MCMaxCalls`, `MCMaxChanges`). A call
names up to two rows when calls are serial, one when they overlap (`MCMaxNamed`). Tablets are
symmetric, and so are holes, which are only ever compared. The proofs have none of these bounds.

One dish with one note, so that every row may substitute for every other; a call names rows by
primary key, and a floor call drops the second of two equal ones. A completion says of each of
its rows how many portions are ready, and that it does not say a negative number is assumed:
the code does not look (see 13). The rows are also those with several portions that
`tests/test_kds_orders.py` has, though the scraper writes one per portion. Which of several
cancelled rows is restored is left open. No fairness: nobody has to send a call.

## 10. Daily hygiene checks

`HygieneDaily` is a day of photographed checks. Rows are written under one write lock, photos
are files: stored before the row that names them, removed after it is gone, so that every
moment in between is a state a crash can leave behind.

| In the model | In `services/hygiene/work.py` |
|---|---|
| `taken`, `files`, `aged` | the photos handed out, those on disk, those old enough for the orphan sweep |
| `standards`, `shots`, `status`, `pending`, `lessons`, `firstPass`, `rejected` | the tables of the daily checks |
| `StoreCapture`, `TakeShot` (with `StoreCapture`), `CommitShot`, `RefuseShot` | a submission: file, then row, or the refusal after the file |
| `BeginUpload`, `AddItem`, `ReplaceStandard`, `InsertStandard`, `FailUpload`, `EditMarkup` | standard photos |
| `AcceptDaily`, `UndoAcceptDaily`, `RejectDaily`, `MarkTeaching` | the reviewer |
| `DropShots`, `DropLessons`, `DropStandards`, `DeleteItem`, `RemoveFiles` | deletion and archive: rows and commit, then the files under the lock |
| `SweepOrphans` | the hourly sweep of files that no row names |

`hyg_daily` shows: only a photo that a second row had taken over can be missing
(`LossNeedsSharing`); "passed at once" is on the board exactly when the item is passed and was
never rejected (`FirstPassHonest`); nobody replaces a reviewed shot or a colleague's
(`EvidenceKept`); and the disk comes to hold what rows name and nothing else (`DiskSettles`).

Bounds: one item, two employees, three photos, two versions of the standard, two submission
rows; the process may die at every step. Fairness: the sweep returns every hour; who holds
the lock ends, since the code there does not wait for people; a process may die for ever, but
not each time before it removes a file, hence the strong fairness of `RemoveFiles` and of the
submissions. Reasons, scores, notices and the pictures' variants are left out.

## 11. The roster

`DutyRoster` is one business day of `services/scheduling/store.py`. Rules that rotate and
single-day overrides both lead to the row of the day. A call checks first, without the lock,
and writes later in one locked transaction.

| In the model | In `store.py` |
|---|---|
| `rule`, `over`, `row`, `active`, `gone`, `req` | `scheduling_rules`, `scheduling_overrides`, `staff_assignments`, `staff_shifts`, `resigned_at` as seen from the day (`Departures`), `scheduling_requests` |
| `kept` | history: whose rule a resignation deleted while the row of the day stayed |
| `call` | what a call has checked and is about to write (`Begin`, then `Transact`) |
| `SetRule`, `ApplyRule`, `ClearRule`, `Expand` | rules, and their layout over the days ahead |
| `EditOnCalendar`, `EditInBatch`, `EditOnSheet`, `ApplyOverride`, `VoidBatchRow`, `RestoreDay`, `ClearBatchRow`, `ClearOverride` | the four ways to edit a day, and back |
| `AskLeave`, `AskSwap`, `InsertLeave`, `InsertSwap`, `AnswerSwap`, `CancelRequest`, `RejectRequest`, `ApproveRequest`, `ApproveLeave`, `ApproveSwap` | requests and their decision |
| `Resign`, `WriteDate`, `CancelResignation`, `DayPasses` | staff and the calendar |

`roster` shows that rule, override and row never tell different stories of a day
(`RowsExplained`), but for who resigned with a last day on or after it: `Resign` deletes the
whole rule and keeps the rows up to the last day (see 13), and the property leaves out exactly
those people (`kept`), for as long as they have no rule. It shows that what `set_rule` and `submit_swap` checked before the lock still holds
of what they write (`ChecksHold`, because both ask again inside); and that a request goes
forward only and becomes a leave or a swap in exactly the step that approves it, for everyone
concerned (`ApprovalIsOneStep`).

Bounds: two employees, two shifts, two requests, two calls at a time and four in all, which
is a check overtaken by three others or two pairs. `MCInit` leaves out behaviours that begin
with a rule that gives the day off; clearing and setting a rule reaches them. All bounds are
gone in the proofs. `ApprovedLeaveStands` is what the code says of leave; it does not hold
(see 13) and no run checks it.

## 12. Overtime and leave

`OvertimeLedger` combines `services/overtime/ledger.py` and `services/attendance/store.py`:
make-up hours of a month are written off with whole days of leave, and a month is sealed with
the balance that is left. Both sides are sums over rows that others decide meanwhile.

| In the model | In the code |
|---|---|
| `entry`, `deduction`, `snapshot` | `overtime_entries`, `overtime_leave_deductions`, `overtime_salary_snapshots` |
| `credit`, `ledger` | the leave a month's schedule yields; `attendance_ledger` |
| `task` | what the holder of the write lock has read and is about to write; `moved` is history |
| `SubmitEntry`, `Approve`, `Reject`, `VoidEntry`, `CancelRead`, `CancelDecide` | entries; the employee's withdrawal reads before it takes the lock |
| `SubmitCheck`, `SubmitDeduction`, `ApproveCheck`, `ApproveDeduction`, `GiveUp` | the reads of `_capacity_for_decision`, under the lock, and the write that follows them or does not |
| `RejectDeduction`, `CancelDeduction`, `VoidDeduction` | the other decisions on deductions |
| `SealRead`, `Seal`, `NextMonth` | `seal` of a month that is over: its reads and its writes |
| `ManualCheck`, `ManualWrite` | `set_manual_columns`, which takes no lock |
| `Reschedule` | shifts, holidays and resignations, which no lock keeps out either |

`overtime` shows `PaidAsDecided`: hours written off with leave are approved make-up hours to
the last half hour, whatever is withdrawn, voided or approved between a request and its
approval (`MakeupCovers`), and a month has a salary to be paid by exactly if one of its
entries was ever approved (`SnapshotFits`). And `LeaveStands`: a sealed month does not change,
and approved days are taken, by an approval that read the balance, from a balance that had
them.

`LeaveStands` leaves out, and only leaves out: a sealed balance that a call by hand overwrites
which was checked before the month was over; a balance that was filled in by hand, which
deductions do not reduce; and whether the balance is still enough when `ManualWrite` or
`Reschedule` moved it between the reads of an approval and its write (`task.moved`). The first
and the last do go wrong: `SealedIsFinal` and `NeverOverdrawn` say so, and TLC finds both
violated in the instance of the run (see 13).

A method that holds the write lock is two steps, the reads and the write, where something it
reads is also written without the lock: the decisions that ask for the balance, and the
sealing. The reads are at one instant. The others are one step, since every row they read is
written under the lock only; a claim that finds its row decided changes nothing. From the
first write to the commit nobody else has the connection. The salary is chosen at the
approval, no salary refuses it; guards on self-approval and on resigned people are left out,
which allows more.

Bounds: one employee (every sum is over the rows of one, which the proof has for any number);
two months, one of them over; two entries and two deductions; hours of -17 (one day's
make-up) and 2; a credit of three half days or an overdrawn one, in the first month; at most
one withdrawal under way and one row that came to nothing, neither beside a call by hand or a
decision under way (`Small`). The capacity limits themselves (24 half
hours, 17 to a day, 31 days) are the code's.

## 13. Disagreements found

Shown by a run:

1. `tables_lost_portion`: `allocate_incremental_flow_ids` promises ids that do not repeat
   (`order_flow_ids.py:88`), but counts on from the portions of this round's answer, not from
   the stored rows (`:100`). Two portions ordered at a table that was known as empty are
   additions to the two of the answer, stored as `_003`, `_004`; a third is one to the three
   of the next answer, gets `_004` again, and `save_orders` skips it (`orders_repo.py:264`):
   it never reaches the kitchen.

Found by TLC with a property stated in a module, or by dropping an assumption of a run, and
kept without a run:

2. `ReleaseTree!ShopStateSurvives`: a job killed in its rollback, after the shop state was
   moved to `.prev` (`job_adapters.py:336`), leaves a live tree without it, and the next job
   deletes `.prev` (`:301`). "Shop state that must survive atomic application-tree swap"
   (`:192`). `FailureLeavesLive`: removing the shop state from `.prev` may raise after both
   renames (`:316`, `:630`), and the job reports a failure before the switch, with the new
   release live. "activate_bundle must leave the live tree untouched on failure"
   (`job_runner.py:167`).
3. `UpdateJob!ConcurrentApplyRejected`: two calls of apply pass the same check
   (`release_update/__init__.py:806`). "Concurrent apply while a job is in progress is
   rejected" (`:793`).
4. `UpdateJob!NotStuck`: a cancel writes back a record older than the end of the job, and the
   restart kills the cancel before it can force the end (`:742`).
5. `UpdateJob!InstallsTarget` with two operators: the second writes back, after the first has
   forced the failure, the queued record it read before
   (`release_update/__init__.py:742`), and the end of the first removed the flag (`:781`):
   a job that had yet to take the update up then does, and installs its release.
6. `PgConnection!OkIsStored`: `serialized_write` rolls back unconditionally; the transaction
   may be another task's, whose commit then returns with nothing stored (`pg.py:972`,
   `services/hygiene/work.py:149`). The same after a `BEGIN` that was cancelled or met a
   reconnect: the units that follow are savepoints of a transaction that nobody ends
   (`pg.py:848`).
7. `PgConnection!FailedIsGone`: the lock of an ended task goes to the task that queued first,
   which commits the abandoned transaction with its own (`pg.py:535`).
   `\A t \in Tasks : <>(pc[t] \in Ended)`: "without it, one stuck unit of work would queue up
   all requests without limit" (`pg.py:524`, PERF-08), but a task that comes while the lock is
   free and promised, or takes it over, waits without limit (`:541`).
8. `HygieneDaily`: the archive deletes a photo that a second row has taken over
   (`work.py:5003`, against the comment at `:4859`); `LossNeedsSharing` says that nothing
   else is lost.
9. `DutyRoster!ApprovedLeaveStands`: `set_day_override` asks only for requests that are
   still pending before it writes (`store.py:1565`), not for leave that was approved, against
   "nothing is written on a day of approved leave" (`:1434`) and "no second way to write"
   (`:1541`).
10. `DeliveryBills!CountedOnce`: a reconciliation that adds rows between the scraper's collect
   and its store counts the bill twice; so does one that adds rows to a bill that returns and
   is restored.
11. `SteamerHoles!KitchenIsSound` without `serial`: two tablets at once exceed a hole's
    capacity (`GLOSSARY.md:300`), give two cages one position, put a held or a served row on
    a hole (`GLOSSARY.md:92`, `:112`); two partial completions of a row count too much.
12. `SteamerHoles!CancelledCountsNothing` without `raced`: a row cancelled between the check
    and the write of a completion is a refunded one shown as made (`GLOSSARY.md:316`), and the
    part that is split off is not cancelled with its bill, since the split's `INSERT` leaves
    out `source` (`orders_repo.py:819`, docstring `:378`).
13. `OvertimeLedger!SealedIsFinal`: `set_manual_columns` checks and then writes without the
    lock (`attendance/store.py:515`, `:524`); the month may have ended and been sealed in
    between, whose balance was to be final (`ledger.py:745`). `NeverOverdrawn`: its write, or a
    change of the schedule, may fall between the reads of `approve_deduction` (`ledger.py:994`)
    and its update (`:995`), and the balance ends below zero, against "leave is not written
    off below zero" (`:782`).

Met while modelling:

- Update: a save between the two renames of `activate_bundle` recreates the live directory,
  the second rename and its undo fail, and no release is live (`ReleaseOnDisk` still holds).
  `systemctl restart` that times out after the restart makes the job roll back an update that
  the poll has confirmed. The pidfile may name a process of an earlier boot
  (`job_control.py:47`).
- Outbox: a caller that skips a row on an outdated read overwrites the outcome of a row that
  is being sent (`wecom_outbox.py:657`). A text split into several messages that fails in the
  middle starts over (`:506`).
- Connection: a timeout of the queue (`DatabaseBusy`) is an exception of the unit, too:
  `serialized_write` answers it with a `rollback()` of the transaction it waited for.
  `batch_insert_orders` counts rows that the failure of a later row has rolled back
  (`orders_repo.py:335`).
- Tables: the counters of missing dishes are in memory only, against the comment at
  `table_change_detector.py:43`; a state file that cannot be read makes every occupied table
  new (`state_store.py:117`); a party that sits down before the missing dishes of the last
  one are confirmed swallows them (`:377`); a cancel that fails drops its counter; a crash
  between the snapshot and the rows loses the rows (`restaurant_scraper.py:331`).
- Bills: the morning's sweep is not repeated after a failed query or write, against "retries
  while the previous biz date is still pending" (`delivery_bill_tracker.py:511`); a bill that
  the file knows but whose rows a crash or a failed write kept out of the table is missing
  unless a reconciliation adds it; a cancelled bill that has only rows of a reconciliation is
  neither restored nor added again; a reconciliation cancels after one absence, and the tracker does not restore
  before the next morning; rows added the day after carry the time of that day.
- Hygiene: `backfill_capture_variants_once` commits without the write lock (`work.py:1216`),
  and with it whatever another task has written so far.
- Roster: `clear_after_resignation` deletes the whole rule whatever the last day is
  (`store.py:1366`), so that the rows up to it stay without one: a day edited by hand and taken
  back then keeps no row, and days not yet laid out stay empty. Checks of `set_override` and of the batch edit outside of the lock; swaps that
  cross; two leaves for one day; an approval for a person who has resigned, and edits under
  way when someone does.
- Overtime: a balance filled in by hand may be spent several times (`store.py:1378` against
  `ledger.py:771`); entries can be approved and voided after their month was sealed; months
  can be sealed out of order; someone without a record at the seal is never sealed.
- Steamers: a split copies the whole `total_amount` to the new row, which counts the revenue
  twice (`config.py:314`); cancel and revert of a split bill count portions twice;
  `batch_delete_orders`, and a load that names a row twice (`orders_repo.py:939`), leave gaps
  in a stack; a completion of fewer than no portions is accepted (`kds_orders.py:84`) and
  leaves a row with more than it had.

## 14. What is proved and what is only checked

TLAPS proves, for every value of the constants that satisfies the modules' assumptions:

| Theorem | Says | Under |
|---|---|---|
| `SoftwareUpdateProofs!TreeTypeCorrect`, `NothingIsLost` | `[]TreeTypeOK`, `[]NothingLost` | any kills, any saves |
| `SoftwareUpdateProofs!SettlesTheTree`, `SwitchIsAtomic` | `[]SettledTree`, `AtomicSwitch` | each speaks of calm behaviours; any step may raise |
| `SoftwareUpdateProofs!UpdateTypeCorrect` | `[]TypeOK` of `UpdateJob` | overlapping calls, late restarts, outages |
| `SoftwareUpdateProofs!UpdateRecordIsTrue` | `[]RecordIsTrue` | `~Overlap`, `~LateRestart` |
| `SoftwareUpdateProofs!FailuresAreTrue` | its two parts about failures | `~Overlap`, late restarts or not |
| `SoftwareUpdateProofs!CancelsHonoured` | `CancelsAreHonoured` | `~Overlap` and `OneCanceller`, late restarts or not |
| `WecomOutboxProofs!TypeCorrect`, `RecordIsHonest` | `[]TypeOK`, `[]HonestRecord` | any races, any mishaps |
| `WecomOutboxProofs!LedgerIsKept` | `KeepsLedger`, the refinement | `~Races`, any mishaps |
| `PgConnectionProofs!TypeCorrect`, `SafelyShared`, `Atomicity` | `[]TypeOK`, `[]SharedSafely`, `UnitsAreAtomic` | any circumstances; `SharedSafely` speaks of the time before the first |
| `TableChangesProofs!TypeCorrect`, `NoPhantomRows` | `[]TypeOK`, `[]NoPhantom` | any glitches, any crashes |
| `TableChangesProofs!CancelledIsLost` | `CancelIsReal` | fewer glitches than the threshold |
| `DeliveryBillsProofs!TypeCorrect`, `ListedIsKept` | `[]TypeOK`, `GivenUpIsReal` | the latter: fewer glitches than the threshold |
| `HygieneDailyProofs!TypeCorrect`, `NothingLostAlone`, `FirstPassCounts`, `EvidenceIsKept` | `[]TypeOK`, `[]LossNeedsSharing`, `[]FirstPassHonest`, `EvidenceKept` | any order, any crashes |
| `SchedulingProofs!RosterTypeCorrect`, `RowsAreExplained`, `ChecksStillHold`, `ApprovedInOneStep` | `[]TypeOK`, `[]RowsExplained`, `[]ChecksHold`, `ApprovalIsOneStep` | any number of calls at once |
| `SchedulingProofs!LedgerTypeCorrect`, `DecisionsStand`, `LeaveIsSettledOnce` | `[]LedgerTypeOK`, `[]PaidAsDecided`, `LeaveStands` | any staff, months, rows; any calls by hand |
| `SteamerHolesProofs!KitchenTypeCorrect`, `PortionsCorrect`, `CancelledCounts` | `[]TypeOK`, `[]PortionsAddUp`, `[]CancelledCountsNothing` | any number of calls at once, any changes at the POS |
| `SteamerHolesProofs!KitchenCorrect` | `[]KitchenIsSound` | speaks of calls one at a time, up to a load that names a row twice |

The hypotheses are those of the runs that check the property, and TLC finds it violated
without: `RecordIsTrue` without `~Overlap` or without `~LateRestart`, `CancelsAreHonoured`
without `~Overlap` or without `OneCanceller`, `KeepsLedger` without `~Races` (see 4, 5 and 13).
What a constant bounds for TLC (jobs, calls, changes,
mishaps) is any number here. Modules of two components each,
`SoftwareUpdateProofs` (`ReleaseTree`, `UpdateJob`) and `SchedulingProofs` (`DutyRoster`,
`OvertimeLedger`), keep the proofs of an area together.

Each rests on an inductive invariant, because the property alone says nothing of the steps
on the way to it.

- `ReleaseTree`: for every step, which tree holds a whole release and which the shop state
  (`ReleaseInv`, `BaselineInv`). `rmtree(.prev)` is safe because at that step the live tree is
  whole, which only the position in the sequence says. In calm behaviours the trees also
  agree with what was saved, also where a failed undo or a rollback that raised half-way has
  left them, which is what `SettledTree` and the refinement need.
- `UpdateJob`: three files without a lock, and each party holds a copy of the record that it
  will write back. `TrueInv` says who can be at work at the same time (`CrewInv`), that every
  copy in hand, of a thread (`ThreadInv`), the poll (`PollInv`) or the process (`WorkerInv`),
  is of the update the file is about, where the process stands relative to the switch of the
  tree, and that once the file says how the update ended, nobody is at work who could still
  make that untrue (`FileInv`). With late restarts it keeps all but what it says of a
  restart that was requested and has happened, and of a success. `HonestInv` adds why a
  cancel is honoured: a flag on disk was set for this update
  (`FlagInv`), the process works for the release the file names (`WorkInv`), and once an end
  was forced no queued record of that update is in anybody's hands, so that the processes
  that go on with it are those that were at work then (`ToldInv`). With two operators
  `ToldInv` is not inductive: the other one's record may be the queued one.
- `WecomOutbox`: a caller may change a row that the loop has in hand, so nothing can be said
  of that row's status. What bounds the copies is where the loop is and what it read:
  `InHandInv` (one row at most, not again in the batch), `CopiesInv` (a row that may still be
  posted has no more copies than mishaps, unless its message has just arrived), `PostsInv` and
  `AttemptsInv` (attempts on record, failed writes and the post in hand account for every
  post). The refinement needs besides, without races, that the row in hand is still open and
  its channel on while a copy may go out, and that a row of the batch is as it was read or
  skipped since (`ReachInv`, in `CalmInv`): only then is a copy one of an owed delivery.
- `PgConnection`: two arguments over one state. Always: one request in flight, and whose
  (`WireInv`), and for a unit that is not mixed up that its transaction stays on the connection
  from its first row to its end (`TxInv`), is the outermost of the session and holds its rows
  and nobody else's (`OwnInv`, `WritingInv`), that none of its rows waits for another's commit
  (`PendInv`) and what is stored of it (`StoredInv`). None of this speaks of the lock: the
  refinement holds even where the lock fails, because every way to lose a transaction to
  another task puts the unit into `mixed`. Until a circumstance arises: who is in a statement
  or has a transaction owns the lock (`LockInv`), what it is held for (`HeldInv`) and counted
  for (`DepthInv`), and the session knows no other transaction than the connection
  (`SessionInv`).
- `TableChanges`: `RoundShape` (what a round knows at each step), `RowsFit` (rows, snapshot
  and the portions ever ordered), `LossesSeen` and `MissesPaid`: every miss that is counted
  was either a real loss or one glitch of its own, so a counter at the threshold with fewer
  glitches has seen a loss. `DeliveryBills` has the same argument with `KnownListed`,
  `BelowThreshold`, `MissesPaid` and `WorkIsDue`, for counters that a restart sets back.
- `HygieneDaily`: `PendingFits` (the day's instance points at a row of its item that waits),
  `UploadFits`, `CurrentKept`, and of the photos (`PhotosInv`) that those which a row
  names are on disk, or shared (`NamedSafe`), that those still on their way to a row are on
  disk, young and nobody else's (`FreshSafe`), and that two rows name one photo only if the
  second took it over (`OwnPhoto`).
- `DutyRoster`: the properties themselves and `CallsMeant` (what a call in hand is about to
  write is what its check allowed it to), nothing of which the other calls can disturb.
- `OvertimeLedger`: `Weighed`, that what the holder of the lock has read still holds, except
  a balance that has moved, and is about the row it will write; the rest of the work is in the
  sums, which are cardinalities of sets of units, so that a row that is decided adds or removes
  exactly its own units, and rows of other employees and months none.
- `SteamerHoles`: one lemma for each transaction says row by row what it writes, in terms of
  what its call read; that the numbers 1..n of a hole come out of `Compact` is a lemma about
  ranks in any total order (`Ranks`), and that a maximum exists and a pairing of a hold has no
  row twice are inductions over numbers, by the least number at which they would fail
  (`LeastNumber`). On these rest three invariants. `CancelledInv`: a completion that has seen
  a row that is now refunded was under way when it was (`Witnessed`). `SoundInv`: with calls
  one at a time what a call has read is still so (`SoundReads`), and so is what it has
  planned (`SoundPlan`: the top of the hole, the room in it, the portions that take over a
  cage), because the scraper moves no cage and the other tablets wait. `CountInv`: a line the
  POS leaves alone has its own row, whose key is the line; the rows split off it are served;
  and what a completion has read of the line's row, with what lies beside it now, is still
  enough (`CountedCall`), since the units beside a row only become more.

Only model-checked, on the instances above: every liveness property (`EndsByItself`,
`CancelEnds`, `Settles`, `EveryUnitEnds`, `CancelsInTheEnd`, `MorningSettles`, `DiskSettles`):
the prover has no reach there. Every other property that a passing run checks is a theorem,
under the hypotheses of the table.

## 15. What is not modelled

Components of the second table in section 1. Inside the modelled ones: the preflight, the
version check and the update history, which only read or only log; downloads, pip, the
browser and the migrations, which are outcomes of steps of `UpdateJob`; `record_direct_delivery`
and the split of a long text into several messages; batches that are full; reads,
`executemany` and the SQL dialect of `PgConnection`, a reconnect that fails, and several
units in one task; the parsing of POS answers; statistics over the order table; deep cleaning
and fix tickets; the calendar arithmetic of rotation cycles, shift times and attendance
columns; authorisation, which the HTTP layer does in front of all of it. Hazards of these
parts are listed in `PROJECT.json` with a note instead of a property.

Most of the repository's lines are of this kind: routes, renderers, queries that only read,
validation of input. They have no state of their own, and a model of them would repeat them.

## 16. Plan

Done: the modules of sections 3 to 12, and the proofs of their safety.

Next, most important first:

1. Proofs without some of the hypotheses: what a success promises with late restarts (that a
   job rolling it back is still at work, or failed to); what `DeliveryLedger` promises when
   callers change a row in hand.
2. `HygieneTickets`: deep cleaning and fix tickets with reshoots, over the files of
   `HygieneDaily`.
3. `PgConnection` with several units per task.
4. `OpsWatcher` on top of `WecomOutbox`'s enqueue: levels, silence, restarts. Liveness: a level
   that lasts is notified.
5. `RealtimeHub` with the bus and the log bridge: debounce flags across threads; liveness: a
   change is followed by a nudge.
6. `BackupPoints`: preview, cleanup, restore with its snapshot.

Compositions: `UpdateJob` over `ReleaseTree` instead of `TreeSwitch`; `TableChanges` over the
units of `AtomicUnits`; `SteamerHoles` with the cancels of `TableChanges` as its scraper.
