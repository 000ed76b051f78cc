# A TLA+ model of the GuestScreen Control Center

The control center publishes advertising to the guest screens of some two hundred cashiers.
An operator uploads media, arranges it in templates and publishes a template to a region, a
branch or single cashiers; a batch is stored in PostgreSQL, its jobs are queued in Redis,
and workers carry each of them over SSH to a Windows cashier, whose `gs.db` they update,
verify and, if need be, roll back.

Around it the repository keeps further programs: an older backend that serves one cashbox at
a time and a script that does the same, scripts by which operators look after the cashiers,
a failover watchdog, a monitor of fiscal services and a bot that opens doors.

This directory holds TLA+ modules of these programs, the TLC runs that check them on small
instances, and TLAPS proofs for instances of any size. Paths are relative to the root of the
repository; the control center is `src/src/backend`, the single-cashbox backend `src/backend/src`.
The abbreviations used below:

| short    | file                                   | short    | file                             |
|----------|----------------------------------------|----------|----------------------------------|
| `orch:`  | `app/services/orchestrator.py`         | `media:` | `app/api/v1/media.py`            |
| `w:`     | `workers/main.py`                      | `gc:`    | `app/services/media_gc.py`       |
| `ds:`    | `backend/src/services/deployment_service.py` | `split:` | `backend/src/services/split_deploy_service.py` |
| `lim:`   | `workers/concurrency_limiter.py`       | `blk:`   | `app/api/v1/advertising_blocks.py` |
| `ssh:`   | `app/adapters/ssh_adapter.py`          | `spec:`, `plan:` | `specs/001-gs-control-center/spec.md`, `plan.md` |

## 1. Inventory

### Components, their state and their operations

| component | state | operations | correct when |
|---|---|---|---|
| publication (`orch`, `w`, `publications.py`) | `publication_batches` (status, counters, snapshot), `publication_jobs`, the Redis queue, tasks of the API process | dispatch, enqueue, fallback to tasks, retry, the three phases of an execution | the verdict and the counters tell what happened on the cashiers; no job is stranded; a batch ends |
| connection limits (`lim`, `w:31-43, 190-205, 320-327`) | asyncio semaphores; Redis sets `sem:global_workers`, `sem:branch:<id>` | acquire, wait, time out, release | never more than the limits; nothing leaks; nobody starves |
| work on a cashier (`ssh`, `w:205-320`) | on the cashier: `scenes.Raw` in `gs.db`, media files; in PostgreSQL: `current_content_version` | upload, resolve the scene, read, update with dual-sync, verify, roll back, refresh | the screen never shows what is not there; what was published last is shown |
| media library and templates (`media`, `gc`, `blk`) | `media_assets`, `playlist_items`, `advertising_blocks`, the files on disk and in MinIO | upload, replace, rename, delete, force-delete; create, update, duplicate, delete | a file is removed exactly when the last reference goes; templates show live assets |
| template versions and defaults (`blk`) | `version`, `is_default` | optimistic locking, one default per display area | no lost update, one default |
| cashier status (`heartbeat.py`, `maintenance_scheduler.py`, `schedule_watchdog.py`) | `last_sync_status`, `last_seen_at`, `current_*_block_id` of a cashier | probe, restart at night, revert an expired schedule | the status tells what was last observed; an expired template is replaced |
| topology (`topology.py`) | regions, branches, cashiers | create, read, update, delete | references stay intact |
| resolution and rendering (`app/domain`) | none | inheritance, scene XML, validation, hashes | a function of its inputs |
| storage, thumbnails, events, audit, accounts, settings | files, logs, users, key-value rows | single-row or I/O operations | not a protocol |
| single-cashbox backend (`src/backend`), deployments | `deployments`, `actual_version`; on the cashbox staging, media, two scenes | the 17 steps, a banner's deployment, rollback | all or nothing: what is reported is shown, and what a scene names is there |
| single-cashbox backend, registry | playlists, configurations, assignments, groups, cashboxes | create, assign, reorder, move, delete, report | a cashbox desires what was assigned to it last |
| deployment script (`deployment_orchestrator.py`) | the cashbox's files and row | the 17 steps in one process | what it prints is so |
| failover watchdog | counters, a flag, two containers | checks, webhook calls, start, stop | the standby runs exactly while the master is away |
| door bot (`open_door_bot`) | the table of members, each chat's card and prompt, the doors' modes | commands, menus, cards, door commands | a button does what it says; the doors are as told |
| fiscal monitor | a service per cash desk, the page's report | scan, start, stop, restart, auto | a restart that is reported happened |
| Farcards scripts | `FARCARDS.INI`, its backups, `Farcards.exe` | update and audit sweeps | no URLs are lost, what runs has read the file |
| GuestScreen upkeep scripts | `gs.db` and its copy, GuestScreen and Watcher, installers | five scripts, a thread per cashier | the published scene survives, the Watcher is at the desk |
| frontend, legacy Node server, other scripts | | | clients, predecessors, reports |

### How they interact

* The API process creates a batch and its jobs in one transaction, then enqueues the jobs one
  by one (`orch:122-140`). If Redis fails it runs **all** of them as asyncio tasks of its own.
* An execution (`_execute_cashier_job_impl`) has three phases: a transaction that takes the
  job to RUNNING; the work on the cashier, without a transaction; a transaction that stores
  the outcome, reloads all the jobs of the batch and writes its counters and verdict.
* Between the phases everything may change: templates and cashiers are deleted, the batch is
  retried, other workers finish. No row is locked in advance; PostgreSQL runs READ COMMITTED.
* ARQ delivers a job at least once and cancels it after 180 s; SSH gives up on a command
  that goes on running on the cashier; the two limiters do not see each other's connections.
* The heartbeat, the schedule watchdog and Phase 3 write the same columns of `cashiers`.
* A batch carries a snapshot of its template; the files it names are shared with the library.
* The upkeep scripts write a cashier's `gs.db` beside the publications; the other programs
  share nothing with the control center at run time.

### What is hard

Races between transactions that merge column by column; stale reads across long network
phases; at-least-once delivery and a retry that race; a fallback that repeats work; crashes
of the API and of workers; timeouts that do not stop what they wait for; check-then-act on
Redis; reference counts taken in one transaction and acted on in another; rollbacks that
restore what was read too early. `PROJECT.json` lists each hazard at its line with the
properties that cover it.

## 2. The modules

| module | models | abstract specification |
|---|---|---|
| `Publication` | one batch: API requests, queue, tasks, worker slots, transactions, crashes | |
| `PublicationHistory` | the same, with what its strongest properties except: jobs delivered twice, Phase 3s that overlap | `PublicationLifecycle`: the job lifecycle of `plan:4.2` |
| `ConnectionLimits` | both limiters, in one process and across workers | `BranchQuota`: at most so many connections in all and per branch |
| `SceneUpdate` | the executions that work on one cashier | none: its promises are stated as invariants |
| `MediaLibrary` | assets, files, templates and the calls that work on them | none |
| `TemplateEditing` | editors of templates: versions, defaults, playlists, a forced deletion | none |
| `CashierFleet` | everybody who writes a cashier's row | none |
| `Deployment` | the single-cashbox backend's deployments of one cashbox | none |
| `AdPlans` | its registry | none |
| `DeploymentScript` | the script that does the same | none |
| `FailoverWatchdog`, `DoorBot`, `FiscalMonitor` | the programs of these names | none |
| `FarcardsConfig`, `CashierUpkeep` | operators' scripts at one desk, at one cashier | none |
| `MC*` | the instances TLC checks: symmetry and tables of constants | |
| `*Proofs` | the proofs: of a module of that name; `ProgramsProofs` of the watchdog, the script, the bot and the monitor; `RegistryProofs` of `AdPlans`, `CashierFleet` and `TemplateEditing`; `CashierProgramsProofs` of the two script modules | |

The first four modules meet at narrow points, which is why they are checked apart: `SceneUpdate`
opens the one step `Publish` of `Publication`; `ConnectionLimits` sits before that step and
changes only when it happens; `MediaLibrary` ends in the snapshot that `Publication` takes as
given. `Publication` allows any outcome and any delay, hence everything the others do. In the
same way a publication is one job with any outcome in `CashierFleet`, and one write of a scene
in `CashierUpkeep`.

Definitions marked `mutant:` are plausible bugs of the definition that follows them; they are
part of no specification and show that a property can fail.

### `Publication`

A transaction is two steps, the load and the commit, and a commit writes only the columns
that differ from what was loaded, as SQLAlchemy does. This is what makes lost updates and
half-merged counters visible. Phase 1 is `Start` (load), then `Refuse`, `Claim` or
`RowGone`; Phase 2 is `Publish`; Phase 3 is `Report` (the autoflush of the job, which locks
its row until the commit - `Locked` -, and the reload of the batch's jobs) and `Commit`, or
`ReportFails` when the foreign key of a deleted template refuses it. An execution of ARQ is
acknowledged in a step of its own (`Finish`), so that a crash may redeliver a finished job.
`Dispatch`, `Enqueue`, `Fallback`, `RetryLoad`, `RetryCommit` and `RetryFails` are the API;
`DeleteBlock`, `DeleteCashier`, `Abandon` (the ARQ timeout or a lost database connection),
`WorkerCrash` and `ApiCrash` the environment. The status `"ABSENT"` is a row that does not
exist. The history `evidence` collects the outcomes executions have produced, which is what
verdicts and counters are measured against.

Nothing in the code locks a job or looks at its status before executing it, and the retry
endpoint takes as many requests as it gets, so that a job can have two executions.
`PublicationHistory` names the steps that lead there: `doubled` holds the jobs that two
overlapping retries had both loaded, that a Redis failing in the middle of the loop left in
the queue and gave to the fallback, or whose worker died after its last commit and before ARQ
had taken note; `overlapped` tells that two executions were in Phase 3 at once. No step reads
either. A property that speaks of `Jobs \ doubled` hence says that these are the **only** ways
to deliver a job twice, with any number of requests, slots and faults. `PublicationLifecycle`
lets a job leave the plan (`Release`) for the same reason; all the others follow it. Abstractions: every job has a cashier of its own;
the contents of the snapshot, the audit trail and the events are left out; there is one batch,
since batches share no row but the cashier's, which `SceneUpdate` covers.

### `ConnectionLimits`

`Enter`, `Claim`, `AcquireBranch`, `ReleaseBranch`, `ReturnEarly` and `Return` follow the two
nested semaphores: the process slot is taken before Phase 1 and kept while waiting for the
branch. `CheckGlobal`, `CheckBranch`, `Register` and `Release` are the round trips of
`DistributedBranchLimiter`; `Timeout` is an `acquire()` that gives up after 45 s, whereupon
the worker goes to the cashier all the same (`w:196`). Keys may expire under the executions
that rely on them (120 s against 180 s), and a worker may die without a release. The API
process is not crashed here: its semaphores die with its executions.

### `SceneUpdate`

A scene is abstracted to the playlist it shows, and a cashier to two rows, the default scene
and the one the scenario binds. `Twins` tells a full-screen template, whose two rows the
script of `update_scene` writes one after the other, each in an autocommit of its own. A call
may fail, time out and leave its script running (`late`, run by `LateScript`), or fail in a
way the script's answer does not show (`quiet_error`: `ssh:422` looks for `Error:` only); a
lost connection runs the script again, and what the first run said is not heard. The commit of
Phase 3 may fail (`record_error`, `w:358`), so that a delivery is recorded nowhere.
Connecting, inspecting, provisioning sqlite and backing up are one step. The history `mark`
knows whether an execution has left the scene in a state it did not verify; `course` whether
the behaviour was undisturbed, and each property says how much disturbance it bears.

### `MediaLibrary`

A handler's steps end at the awaits where others matter: store the file, commit the row, count
the users, remove the file; read and check the assets, write the template. Nothing is locked
between them. Files are identified by content, so that assets share them; uploads reuse the
row or the file that exists; a failed write is swallowed (`media:257`). `Fail` is an exception,
a lost database or the end of the process: the call is gone, what it committed stays.
The histories name what the code cannot keep: `spoilt` holds the files and assets that were
stored or linked by one call while another was removing them, or whose write failed; `leaky`
the files of lost updates, of dead calls and of removals that failed (`gc:60` swallows the
error). A property about the rest is not weak: it says that
these are the **only** ways to lose or leak a file. Abstractions: a playlist is a set (order,
duration and duplicates are not needed), versions only refuse calls and are left out, the
optional MinIO mirror follows the disk copy, a batch upload is several uploads, renaming
changes nothing modelled. `run_media_garbage_collection` has no caller.

### `TemplateEditing`

An editor fetches a template and sends a request that may carry the version it saw. The request
reads and checks; if it replaces or copies items it reads those in a step of its own
(`SelectItems`), after the awaits in which it checked the assets; and it commits last.
`SameVersion` is evaluated at the first read, the
rows and the items are written at the commit, where the constraint on `(block, order_index)`
(`UniqueOrder`) may refuse it. An item carries the commit it is from, so that a mixture of two
updates is seen. Histories name the templates that had two requests at once, lost items to a
forced deletion, or came to an area that had a default; what is checked is that nothing else
breaks a playlist, a version or the one default.

### `CashierFleet`

Each writer of a cashier's row - the heartbeat (`BeatReads`, `BeatWrites`), the maintenance
window, the watchdog of schedules, an operator's probe, the editors and a worker's report -
reads, waits for a cashier, and writes what it decided. Each process of the API has a heartbeat
and a watchdog of its own (`Apis`; compose starts two). A cashier can be deleted at any time,
and its jobs go with it (`deploy/sql/schema.sql:844`, ON DELETE CASCADE): a loop that has read
its row commits nothing, a job that was not begun is dropped (`Drops`), one that is under way
has nowhere to report to, and what the cashier shows stays, unknown to a row created anew. What a front shows lags behind the
database until it is started anew (`waiting`, `FrontStarts`), which is what the status
`PUBLISHED_AWAITING_RESTART` stands for. `voided` and `unserved` name the cashiers whose row
was written by one that had read it too early, or whose publication failed, met another one or
was never sent, whose template is gone or whose row was created over a scene; a job notes in `alone` whether another one to its cashier was under way at the
same time.

### `Deployment`

An action is one command to the cashbox with the local work that follows, in the order of the
17 steps of `ds` (`PlaylistStep`) or of `split` (`BannerStep`); `Handler` is what the `except`
does, and `Restore`, `Resume` and `GiveUp` the rollback. A scene is what the cashbox stores:
advertising of some names, an alien document, garbage that cannot be parsed, or no row. Media
are versions of a file name: staged, verified by hash, moved into place. Commands fail, updates
are carried out late (`late`), moves fail unnoticed (`lost`, since PowerShell's exit status
does not tell), processes die. Nothing takes the advisory lock, so that deployments interleave;
`alone` and `calm` say when a property's promise is about one deployment at a time.

### `AdPlans`, `DeploymentScript`

`AdPlans` has the registry's operations as sessions that read and commit, the order of
assignments (`at`), and the columns of a cashbox that SQLAlchemy writes only when they differ
from the value read (`Unwritten`). `DeploymentScript` follows the script's steps and its helpers
for queries and scripts that are retried; a query that fails is one without an answer, files
are compared by size (`DiffBySize`), and the rollback goes on whatever its commands return.

### `FailoverWatchdog`, `DoorBot`, `FiscalMonitor`

The watchdog's loop and the webhook's threads decide under the lock (`Decides`, `DoPost`) and
run docker outside it, in two steps: the command, and the flag that is set after it. The bot
handles one update after another. The buttons of every message it ever sent stay usable, so any
of them may be pressed; what lasts is the table, what each chat waits for (`expects`), the
members' cards that still say what is so (`cards`), and the commands that were not answered,
because of a timeout or of a connection lost after the request (`hikvision.py:30-34`): the door
may have carried them out, or still do so (`late`). The monitor's
calls only ask the service control manager; a service stops or starts in its own time, and each
start has a number, so that a restart can be told from a service that never stopped.

### `FarcardsConfig`, `CashierUpkeep`

Sweeps of `FARCARDS.INI` read the file, copy it under a name that holds the second, truncate,
write and restart; threads are cut off anywhere (`IsCut`). In `CashierUpkeep` a command over the
network is carried out or not (`Lapses`): no script looks at an exit code, and several of the
commands are spoilt by quoting (see below). `gs.db` is copied to one path of the operator's
machine, edited there and copied back whole; GuestScreen and Watcher run in the session of the
user (`Desk`) or in none (`Hidden`), and a Watcher brings GuestScreen back.

## 3. The runs

| run | instance | what it shows |
|---|---|---|
| `publication_faults` | 2 jobs, 2 slots, every event, one fault of each kind | `TruthfulPhase3`, `CountersNeverOverstate`, `NoLostWork`, whatever happens |
| `publication_retries` | 2 jobs, 2 slots, 2 operators, 2 retries that may overlap each other and the executions, Redis up or down, fair | `BatchVerdictJustified`, `NoLostWork`; but for doubled jobs one delivery, never after a success, and the lifecycle; but for overlapping Phase 3s exact counters at rest and a batch that ends |
| `publication_overlap` | 2 jobs, 2 slots, no fault at all | **violated** `QuiescentBatchFinal`: a batch stays RUNNING for ever |
| `publication_double_retry` | 2 jobs, 2 slots, 2 operators, no fault at all | **violated** `DeliveredStaysDelivered`: a retry pressed twice takes a SUCCESS job back to RUNNING |
| `connection_limits` | 3 executions in process, 2 in workers, 2 branches, limits 2 and 1, timeout, expiry, a crash, fair | the semaphores implement `BranchQuota`, permits balance, the Redis sets tell the truth, everybody returns |
| `connection_limits_race` | 3 executions in workers, no fault | **violated** `BranchWithinLimit`: check-then-act |
| `scene_chaos` | 2 executions that may overlap, every event, 1 late script; or 2 sweeps of `FARCARDS.INI`, 2 URLs, 2 seconds, 1 cut; or 2 threads of upkeep scripts, a publication, 1 lapse | `ScenesHaveMedia`, `DeliveredIsShown`, `PlainlyShown`; `FarcardsHold`; `UpkeepHolds` |
| `scene_overlap` | 2 executions that overlap, no other event | **violated** `LastPublishedIsShown` |
| `media_library` | 2 assets, contents, templates, concurrent calls; a dispatch; one mishap at most | `ActiveFilesKept`, `LinkedAreActive`, `NothingLeaks` |
| `media_library_snapshots` | the same | **violated** `ReferencedFilesKept`: a snapshot's file is removed |
| `deployment` | 2 deployments of 2 configurations, 3 media of 2 names, first scenes of every kind, 1 fault | `ShownFilesExist`, `DoneIsShown`, `FailureLeavesScenes`, `VersionIsShown` |
| `programs` | one of seven programs at a time, see below | `FlagTells`, `TakesOver`, `StandsDown`; `ScriptTells`; `DesiredIsAssigned`; `RowsHold`; `EditsHold`; `BotIsTrue`; `RestartsRenew` |

`programs` and `scene_chaos` each check several modules that share no state: the variable
`focus` of `MCPrograms` and `MCCashier` picks one, and the others stay as they begin, so that the
states are those of the modules added, not multiplied. In `programs`: the watchdog with its own
thresholds, 2 webhook threads, 3 calls and 2 mishaps; 2 processes of the deployment script, 1
file of 2 contents of different size, 2 errors, 2 uploads; 2 cashboxes, 2 groups, 1 playlist, 2
sessions, 3 writes; 1 cashier, 2 branches, 2 regions, 2 templates per area, 2 jobs, 2 processes of
the API, 2 changes from outside; 2 templates, 2 editors, 2 edits; 2 members who both have a chat,
1 door, 2 updates; 1 desk, 2 operators, 2 commands.

**Bounds.** Two of everything is the least at which the phenomena occur: two jobs for a
partial batch, two slots for concurrent Phase 3s and for two executions of one job, two
executions of one cashier, two assets that share one file while the other content is free.
Three executions in the API process let two wait for one branch while the other branch is
free, the case in which slots held by waiting executions could block everybody. One fault
of each kind can strike at any step; a second one repeats the first. `MaxRetries = 2`
lets a retry follow a retry. The constraint `FewMishaps` stops exploring at
states with two entries on the histories, which are checked and not continued; every state
with one is. Two mishaps among four files and assets leave little for the invariants to say.
In the same way `Looked` does not go on from states in which a property's exception holds for
good (two processes of the script at once, two sessions at one cashbox, a scene that the upkeep
scripts spoilt), nor in `CashierFleet` from states in which more than two of its writers and
publications are at work (`AtWork`), or any of them once a branch was moved (`Moved`):
a row that was read too early takes one writer that has read it and one other. In `MCCashier`
`Looked` also follows `gs.db` while nobody is logged on, and the desk while nothing is
published: no step of the module reads both. Its exceptions for the desk, which most scripts can
claim, are looked at with one thread. `InOrder` of `MCDeployment` takes the media in one order of
upload, the one in which a file is replaced. Larger instances were explored by hand: three
sweeps, three edits, two choices of items for an editor, without a violation. The proofs remove all of these bounds for the safety invariants.
Symmetry is declared in runs of invariants only. `CHECK_DEADLOCK FALSE` appears where the
system comes to rest: a batch that has ended, executions that have returned. `MediaLibrary`
never stops, and there deadlock is checked.

**Fairness.** `publication_retries` assumes that a request that has begun goes on, and that a
slot with something to do does it: event loops run ready tasks and every network call has a
timeout. Nobody has to dispatch, and no fault has to occur. `connection_limits` assumes the
same of tasks and of calls to Redis, that a semaphore with a permit wakes a waiter, and strong
fairness of `Timeout`: the 45 s are counted by a clock, not by the rounds of the loop, so an
execution that is again and again in a position to give up does give up in the end.
`programs` assumes of the watchdog that its loop goes on (it catches every exception) and that a
docker command ends, which its timeout sees to; the webhook may never call, and the master may
come and go. The other six programs have no liveness property, and no fairness.

### Disagreements between the code and its documents

The five violations are findings in `PROJECT.json`. Modelling met others, which no run claims;
where a definition states the document's sentence, adding it to the named run as an invariant
shows the behaviour, and where a property excepts the case, taking the exception out does. The
second table has what disagrees with no document, but will surprise an operator.

| what the code does | what it disagrees with | definition |
|---|---|---|
| a job whose template was deleted is refused (`w:79`), or its outcome is rolled back by a foreign key (`w:358`) | `spec:255`, workers read only the snapshot | `SnapshotShieldsDelivery` in `Publication` |
| Redis failing mid-loop, and a worker that dies between its last commit and ARQ's record, run delivered cashiers again (`orch:136`), as two overlapping retries do | `spec:257`, not re-processed | `DeliveredStaysDelivered`, with `mid_loop_failure` or `worker_crash` |
| OFFLINE is final (`w:319`); `retry_manager` is imported and its functions are never called | `plan:141`, queued with backoff | `OfflineIsQueued` |
| a failed rollback, or one without a prior scene, ends as FAILED (`w:292-303`) | `plan:142`, two-tier rollback executed | `FailedMeansRolledBack` in `SceneUpdate` |
| a script that timed out overwrites a later publication (`ssh:128`) | `plan:132` | `LastPublishedIsShown`, with `timeout` |
| the unresolved scene becomes the default row, written and verified where nobody sees it (`w:279`) | `plan:132` | `LastPublishedIsShown`, `Twins = FALSE`, `resolve_error` |
| a repeated job does all of the work (`w:21`) | `plan:150`, a read-only fast path | |
| no row lock on upload, replacement and deletion; a race removes the file of an active asset | `spec:209` and the docstring `gc:23` | `ActiveFilesKept` with `spoilt` empty |
| deletion of a used asset can be forced (`media:585`), and leaves gaps in `order_index` | `spec:203`, MUST REJECT; docstring `blk:424` | |
| the version is compared at the read and written as a value | `spec:210`, atomically | `NoLostUpdate` with `overlapped` empty |
| a maintenance cycle reports a reload as SUCCESS whatever the adapter met (`ssh:480-515`) | `plan:198` | `RestartIsKept`, without `voided` |
| after a start that crossed a stop, or containers that died, `failover_active` stays TRUE and checks never start the standby | the comment `failover_watchdog.py:26`, five failed checks trigger a failover | `TakesOver` without `[]~crossed` |
| the snapshot is the read of step 5, ROLLED_BACK is reported for a scene that was not restored, and a rollback is not read back | `specs/004-gs-ad-content-management/plan.md:658`, step 9, and §17.1 | `FailureLeavesScenes` without its exception |
| FAILED turns to ROLLING_BACK; nothing reconciles after a crash; the advisory lock is never taken | the same plan, §14.1, §14.2, line 994 | `VersionIsShown` without `calm` |

| where | what happens |
|---|---|
| `schedule_watchdog.py:77` | when the templates of both areas expire, the row names both defaults and only the FULL_SCREEN one is published |
| `topology.py:510` | the jobs of a deleted cashier go with it, those of a batch under way and the history of finished ones too; what its screen shows is known to nobody, also when the cashier is entered again |
| `hikvision.py:33` | a connection lost after the request is reported as a failure although the door may have obeyed |
| `heartbeat.py:35` | after a publication that failed while a restart was due, OFFLINE turns to SUCCESS and the restart is forgotten |
| `advertising_blocks.py:306` | a default template that moves to another area meets the default that is there |
| `idempotency_service.py:95` | a scene that could not be read counts as equal, and the deployment is a NO_OP |
| `deployment_service.py:196`, `sftp_storage.py` | media of one name overwrite each other, and the hash of the older never matches again |
| `split_deploy_service.py:390` | the staging directory of a failed banner is not purged; a banner sets the version of the whole configuration |
| `deployment_orchestrator.py:454, 689` | files are compared by size; the rollback takes no notice of its commands, is not run for a scene that was not read, and runs before any change |
| `config_service.py:122`, `cashbox_service.py:148` | two assignments after a race; a deleted group leaves `desired_version` behind |
| `update_farcards.py:166, 205` | backups of one second overwrite each other; SUCCESS although the restart failed; an empty file is written back as it is |
| `check_and_fix_all_guestscreen.py` and two others | the backticks before `$` are literal to PowerShell, so that many remote commands do nothing; SUCCESS all the same |
| `remediate_guestscreen.py` | `foreach ($pid ...)` assigns a read-only variable: its kills never happen |
| `update_all_guestscreen.py:194` | GuestScreen is started in session 0, where no user sees it |

## 4. The proofs

All theorems hold for every value of the constants that the modules' `ASSUME`s allow: any
number of jobs, slots, requests, executions, branches, contents, assets and templates. Where a
promise has exceptions, the property itself names them; no theorem restricts the number of
requests or slots, or the faults.

* **`PublicationProofs`** - `TypeCorrect`; `VerdictsAreJustified`; `CountersAreSound`;
  `NothingIsStranded`. `BatchVerdictJustified` is not inductive: a commit writes a verdict
  computed earlier. `TruthfulPhase3` adds what a Phase 3 relies on: statuses and reports are
  backed by evidence (`JobsTruthful`, `ReportsTruthful`), evidence only grows, the row that a
  Phase 3 holds does not change and nobody else holds it (`RowHeld`, `RowExclusive`, which need
  the lock that the autoflush takes), and its pending verdict is already justified. A verdict
  that was justified stays so while evidence grows and cashiers are only removed.
  `CountersAreSound` carries the same idea to the pending counters. `NothingIsStranded` rests
  on who carries each open job: a delivery, a task, a request or a slot.
  `OneDeliveryAtATime`, `DeliveredIsFinal` and `PublicationImplementsLifecycle` (the refinement of
  `PublicationLifecycle`) are about `HistorySpec`, with any number of jobs, slots, requests,
  retries and faults. Nothing locks a job, so that it is done once rests on who owns it
  (`OwnersSole`): of a job that is not `doubled`, one queue entry, task, request or slot is the
  owner, its row agrees with how far that one has come, and a retry that has loaded it finds it
  without an owner, alone of all retries. Each way to a second owner is a step that puts the job
  into `doubled`; that no other step does is the theorem. A job leaves the lifecycle when it is
  doubled or its cashier deleted, and only then.
  `QuietBatchIsExact` likewise has any number of slots, requests, duplicates and dying workers.
  While no two Phase 3s have overlapped, whoever changes what Phase 3 has loaded, between its
  query and its commit, leaves a job open (`CommitExact`), so that the commit that settles the
  last job was computed from what it finds (`SettledExact`); `Disturbed` names what else keeps a
  batch from it: a lost template, cashier, execution or API process.
* **`ConnectionLimitsProofs`** - `TypesAreKept`, `PermitsAreKept`, `QuotaIsKept` (the refinement
  of `BranchQuota`), `SetsTellTruth`. `SemaphoreInv` is types and balance together: a
  semaphore stays within its limit only because it counts exactly those who hold it; the
  refinement follows, since a connection needs a permit that the balance says is there.
  `TokenInv` relates tokens to executions, expired keys and dead processes.
* **`SceneUpdateProofs`** - `ScenesAreShowable`, from `MediaInv`: whatever may still be written -
  a payload past its upload, a prior scene remembered for a rollback, a late script - is on the
  cashier already, and files are never removed there. `DeliveredStays` and `LastStays`, from
  `CourseInv`: on a course where executions follow each other, an execution that has not begun
  to write sees the last publication (`Untouched`), one in a script remembers it (`Remembers`),
  and a script that has reported no error has written every row kept equal. What the code
  remembers before it writes is exactly what makes a reported failure harmless.
* **`MediaLibraryProofs`** - `TypesHold`, `FilesAreKept`, `TemplatesShowActive`,
  `FilesDoNotLeak`. `TypeInv` adds that calls and links refer to rows that exist. `FileInv`: every
  clash is on record, a stored file is on the disk, and a file in removal has no user.
  `LinkInv`: the links a call is about to write are active, and an asset about to be marked
  deleted is on no template. `FilesDoNotLeak` needs no strengthening beyond the types:
  every step that takes the last user of a file hands it to the call that will count it.

* **`DeploymentProofs`** - `DeployTypesHold`, `ShownFilesAreThere`; `DoneStaysShown`,
  `FailureKeepsScenes`, `VersionStaysShown`. `FilesInv` carries, step by
  step, what a deployment may rely on (`Fine`): media that it need not send are there, what is
  staged is what was wanted, a write happens only when nothing is left to send, and what a
  rollback restores was shown. Late updates name files that are there, and no file goes away.
  `ShownInv` says what the row of the last deployment tells while nothing else touches the
  scenes (`Known`): before the snapshot they are as they were; afterwards the modes it is not
  about still are; what was read in step 5 was there, so that what a rollback has restored is as
  it was; and success is announced only when every mode has been read back (`DoneKnown`). The
  version on record is carried from one deployment to the next (`CalmKnown`).
* **`ProgramsProofs`** - `FlagAlwaysTells`, from `FlagInv`: as long as no start has met a stop,
  none does; a start that was carried out has its containers; and the flag is up without
  containers only until the stop that took them takes it down. `ScriptAlwaysTells`, from
  `AloneInv`: while the process that began last is alone it is the only one to act, and
  `Progress` says what it has brought about by where it is - the row is as it was before the
  update, a file that is not sent is there in its size, one that is staged is the server's, a
  rollback restores what was read. The outcomes follow, with the exceptions the module names:
  moves that failed unseen (`missed`), rollbacks that were not carried out (`unrolled`).
  `BotStaysTrue`, from `CardsInv`: the cards kept as up to date show their members' activity,
  whichever of them is pressed, and a door leaves the mode that was told by a command that went
  unanswered only. `RestartsAlwaysRenew`, from
  `RestartsInv`: the number of a start only grows, so that a restart which has seen the service
  stopped, and then a start, has left a later one, whoever else starts and stops it.
* **`RegistryProofs`** - `DesiredStaysAssigned`. That the last assignment is what is desired
  is not inductive: a session commits what it read earlier. `ReadsInv` says that this
  still holds unless another session was at the same rows (`raced`), `SinglesInv` that a cashbox
  has one assignment, `NumbersInv` that writes are numbered in their order. `FleetRowsHold`:
  `TellsInv` extends the row's promise to publications under way, whose report will name what
  they have put into the scene (`AloneJobsInv`); `ScheduleInv` is what the watchdogs of schedules
  have read, which they act on after they have waited; `OrphansInv` says of a publication whose job
  was deleted under it that its cashier has no row, or one that no promise is made for. `EditingAlwaysHolds`: `EditorHolds` says for each editor what the rows
  still owe to what it has read - its version is no newer than the row's (`FetchHolds`), the items
  it will take out are all of those there, or none (`ItemsKnown`), it knows every other
  default of the area it settles (`DefaultsKnown`) - and `NewInv` that whoever makes a row is the
  only one at it. The constraint `UniqueOrder` is what keeps playlists whole: an update that
  finds the items of another one has a place 0 in common with them, and is refused.
* **`CashierProgramsProofs`** - `SweepsHold`. `CopiesInv`: threads that share no second have a
  copy of their own, made of a whole file before the file is truncated. `CurrentInv`: unless a
  thread still owes a restart, what runs has read what the file says. `UpkeepLeavesCashier`.
  `CopyInv`: a copy exists only while a thread works on it or it is known to be left, and a whole
  copy is what was published last. `DeskInv`: where a script has been, the Watcher is at the desk
  or some thread still owes it (`Owes`).

Each inductive invariant was checked by TLC before it was proved.

**Only model-checked:** the liveness properties `EventuallyFinal`, `AllReturn`, `TakesOver` and
`StandsDown` (liveness under fairness is beyond the prover). Every invariant, action property and
refinement that a passing run checks has a theorem.
No module declares a `RECURSIVE` operator, which would take the SMT backend from its proofs, and
no proof needs induction over data.

## 5. Plan

The runs are as many as a project of this size bears: twelve, with forty properties. What is
left:

* An abstract specification of a deployment - a configuration becomes the one shown, or nothing
  changes - and the refinement that shows it for one deployment at a time: `Known` is the
  invariant it needs.

**Not modelled**, with the reasons in `PROJECT.json`: pure I/O (MinIO, ffmpeg), the frontend,
accounts, credentials and settings (single-row operations), the audit trail and server-sent
events (nothing reads them back), the legacy server, which the backend replaces, an earlier copy
of the workers, which nothing starts, pure functions (inheritance, rendering, validation), and
scripts that only read or repair one machine by name. `gs_launcher.py` starts GuestScreen at a
list of cashiers, in ways that the upkeep scripts have too; its two variants do not parse.
