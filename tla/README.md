# GAIA: models, checks and proofs

GAIA is the administration platform of a land-reclamation consortium: who may
read what on the NAS, orders of land-registry extracts (*visure*), a register of
subjects imported from NAS folders, and a map of the network. It is a FastAPI
modular monolith (`backend/app`) over PostgreSQL, with a Next.js frontend, a
worker container that drives a browser on the SISTER portal
(`modules/catasto/worker`) and a network scanner container. This directory holds
TLA+ models of the parts where steps of several actors meet, the TLC runs that
check them and the proofs about them.

`PROJECT.json` is the index: components, runs, mutants (a plausible bug for each
checked property, which the property must catch), the source lines behind every
definition, hazards, findings and theorems.

## 1. The system

What holds everywhere in the backend, and what every model rests on:

- Endpoints are synchronous functions, run by FastAPI in a thread pool: two calls
  do overlap. Each has a database session of its own (`autoflush=False`), under
  READ COMMITTED, without row locks (`FOR UPDATE`), version columns or advisory
  locks. A handler reads rows, decides, and commits later; an UPDATE names only
  the columns whose value differs from the one the session read.
- The catasto worker, the network scanner and the scheduled sync are processes of
  their own, under `restart: unless-stopped`: they die between any two commits and
  come back.
- Whatever leaves the process (NAS over SSH, portal, nmap) fails or is slow.

### Components

| component | state | operations | meets | hard parts | correct when |
|---|---|---|---|---|---|
| Catasto batches (`services/catasto_batches.py`, `catasto_captcha.py`) | `catasto_batches`, `catasto_visure_requests` | create, start, cancel, retry, solve, skip | the worker, through the tables only | read-decide-commit of several threads and the worker on the same rows | one executing row, no lost documents, counters and verdicts that agree with the rows |
| Catasto worker (`worker.py`, `visura_flow.py`) | one batch and one row in hand, `stop_requested` | recover, take, authenticate, pick, begin, flow, wait for a CAPTCHA, persist, fail, finalize | portal, tables, signals | crash between transactions, deadlines, batch changed under it | every started batch ends, nothing stays PROCESSING |
| Connection tests and credentials (`catasto_credentials.py`, `worker.py:128-209`) | `catasto_connection_tests`, `catasto_credentials.verified_at` | queue, test, verify, replace, delete | same worker loop, before batches | crash, change or re-creation of the credentials during a test | a verified row has held a pair the portal let in; every test and every batch gets its turn |
| SISTER session (`browser_session.py`) | the nested calls of `login`, page | login, recovery of a locked session, menu with retries | worker | recovery called inside the `try` of the call that recovers | a bounded number of logins on an account the portal locks |
| Progress feed (`modules/catasto/routes.py`) | what was announced | poll in two statements, push, end | batch tables | commits between the two reads, state that moves after a terminal status | whoever is told COMPLETED has been told everything |
| NAS sync (`services/sync.py`, `jobs/sync.py`, `services/sync_runs.py`) | `snapshots`, users, groups, shares with `last_seen_snapshot_id` and `parent_id`, permissions, `sync_runs` | live job with retries, pasted payload, scheduled cycle | NAS, other jobs through unique names and row locks | overlap, deadlock, crash between two commits, partial answers | audit trail and `last_seen` tell the truth, hierarchy is right |
| Effective permissions (`services/permissions.py`, `_build_permission_entries_by_share`) | none (a calculation) | entries from ACL lines; two passes, denials first | called inside a sync | order, groups, alignment of ACLs with shares | what the documented rules give |
| Anagrafica import (`anagrafica/services/import_service.py`) | `ana_import_jobs`, items | enqueue or resume, process item by item, tally; snapshot of a preview | NAS, register | crash inside an item, two threads on one job, overlapping imports of one folder | a document is filed once, a COMPLETED job that is no snapshot has imported all it discovered, only a crash strands one |
| Register of subjects (`anagrafica/router.py`, `parser_service.py`, `classify_service.py`) | `ana_subjects`, persons, companies, documents | create, edit, deactivate; edit and delete a document; parse a name | imports, other operators | read-decide-commit beside an import on the same rows | details follow the type, the mark of the classifier is true |
| Network scan (`modules/network/services.py`, `scheduler.py`) | devices, alerts, scans | discover, upsert, mark offline, alert; edit a device | scheduler and API threads | overlap, stale discovery, attributes compared with a stale copy | one alert per transition, and a table the next scan repairs |
| Sections and accounts (`permission_resolver.py`, `section_permission.py`, `application_user.py`, two bootstrap scripts) | accounts, sections, role defaults, overrides | create, edit, delete, bulk updates, bootstrap; resolve | every guarded route, the menu | checks that precede a commit, four sources of a grant, two readers | menu and guard agree, every section has its defaults, two overlapping calls do not undo one another's columns |
| Audit, reviews, dashboard, `bootstrap_domain`, migrations, frontend, deployment | listings, fixed data, DDL, pages | | | none that takes several steps | |

The components left out, with reasons, are in `PROJECT.json` under `components`.

## 2. Plan

Order: first the queue whose actors meet most (batches and worker), then the sync
that everything in the access audit depends on, then the calculation it stores,
then the other writers, and the compositions over the first module.

| module | composes / abstracts | state |
|---|---|---|
| `CatastoBatches` | API handlers, worker, crash, time | done, proved |
| `VisuraOrders` | what a batch promises its owner; refined by `CatastoBatches` | done, refinement proved |
| `CatastoProgress` | a client's feed over `CatastoBatches` | done, proved |
| `SisterConnections` | credentials, their tests, the worker's turn, the login with its recoveries | done, proved |
| `NasSync` | jobs, database transactions, NAS failures | done, proved |
| `DirectorySnapshots` | what a sync leaves in the directory; refined by `NasSync` | done, refinement proved |
| `EffectivePermissions` | the calculation inside a sync | done, proved |
| `NetworkScan` | scans of scheduler and threads over one device table | done, proved |
| `DeviceScans` | what a scan does to the device table; refined by `NetworkScan` | done, refinement proved |
| `AnagraficaRegister`, `AnagraficaImport` | the register under its operators; imports over it | done, proved |
| `SubjectRegister` | imports and calls as transactions at one instant; refined by `AnagraficaImport` | done, refinement proved |
| `SectionPermissions` | accounts, sections, grants, bootstrap scripts | done, proved |
| form, CAPTCHA page and download of `browser_session.py` | the visura flow page by page | open |

## 3. Models

### CatastoBatches

| in the model | in the code |
|---|---|
| `batch`, `request`, `documents`, `hasCredentials` | the tables; `"absent"` is a row not yet inserted; `started_at` is an order (`clock`), `captcha_expires_at` is null, future or past |
| `call[h]`, `Read*`, `Commit*` | an API call served by thread `h`: it reads and passes its guards in one step, commits in another; what it read stays in `call[h]` |
| `FlushBatch`, `FlushRequest`, `Column` | the unit of work: only columns that differ from what was read are written |
| `CreateBatch` | insertion of a batch and its rows, invisible to others before |
| `wk` and `Boot` ... `StopGracefully` | the asyncio task of the worker: where it is, the batch and row in hand, the result, whether its local deadline has passed |
| `session`, `ReadTables`, `Save`, `SaveRequest` | a transaction of the worker: it reads the rows in one step and commits, column by column, in another; an exception or a crash in between loses it |
| `Crash`, `RequestStop`, `DeadlinePasses` | death of the container, SIGTERM, time |
| `overlapped` | not in the code: has a call committed over rows that had changed since it read them? |

A transaction of the worker that writes what it has read is two steps, with any
call in between; the SELECTs of one transaction are one step, and so is a
transaction that only reads. The visura flow keeps its outcomes
(document saved, manual CAPTCHA asked, page failure) and not its attempts. The
"WAIT" sleep, with only unanswered CAPTCHAs left, is the worker staying in
`"loop"`.

Some things hold under every interleaving (`ProcessingIsOwned`,
`CompletedHasDocument`). Others cannot, since a stale commit may overwrite
anything its session read otherwise; those are stated for behaviours in which no
call has committed over changed rows so far (`overlapped`). The worker's own
interference with calls is not excused: a cancel or retry while the worker
executes a row of the batch, or between a read of the worker and its commit, is
no overlap unless the call commits over changes. The worker does commit over
changes: a batch that fails turns rows skipped by a cancel since its read into
failed ones, and the recovery at boot puts a row back that was cancelled since.

### VisuraOrders, and CatastoBatches as an implementation of it

`VisuraOrders` says what the owner of a batch is promised and nothing of how: an
order is open, delivered, failed or skipped; it is delivered at most once and for
good, its document goes to the archive once, only failed orders are asked for
again, and a batch reported as finished has nothing left to do and is not touched
again. Once a call has crossed another change (`Disturb`), only the archive is
promised. `CatastoBatches!Orders` is the refinement mapping: a request's status
stands for a phase (`PhaseOf`), `documents` is the archive, the COMPLETED batches
are the finished ones, `overlapped` is `disturbed`; `OrdersAreKept` is the abstract
specification under it. Picking, CAPTCHAs, waiting, boots and reads are stutters;
a cancel and a retry are each one `MoveAll`, the failure of a whole batch is
`BreakOff`: the orders that were open when it looked are given up, even those
cancelled before it commits.

### CatastoProgress

`CatastoProgress` extends `CatastoBatches` with one client's feed: `PollBatch` and
`PollRequests` are the two SELECTs of a poll, with anything in between;
`announced` the `visura_completed` messages sent, `feed.row` the batch row the
final message is made of. The comparison with the state last sent is left out: it
only spares repetitions.

### SisterConnections

| in the model | in the code |
|---|---|
| `credential[u]`, `issued` | `catasto_credentials` and its ids; `had`, which pairs the row has held, is not in the code |
| `tests`, `queued` | `catasto_connection_tests` in the order of `created_at`; a test carries a copy of the pair |
| `call[h]`, `Read*`, `Commit*` | save, delete, test of the saved pair, test of a typed pair, as read and commit |
| `wk`, `Boot` ... `StampResult`, `TestFails` | `_recover_stuck_requests`, `_next_connection_test_id`, `_process_connection_test` |
| `Probe` | `BrowserSession.test_connection`: one step, which lets in right pairs only and may always fail |
| `TakeBatch`, `login` | `_process_batch` up to `ensure_authenticated`; the rest of a batch is `CatastoBatches` |
| `login.frame` | which call of the recursive `login` runs: the outer one, the one inside its `try`, the one inside an `except` of it |
| `Submit`, `MenuTimesOut`, `Classify`, `CloseSession`, ... | the exits of each page call, the `except` blocks, `_recover_locked_session` |

Account deletion and the graceful stop (a crash at `"idle"`) are left out.

### NasSync

| in the model | in the code |
|---|---|
| `job[j]` | the local state of one `run_live_sync_job` or `POST /sync/apply` |
| `payload` | the names (accounts, shares) that the listings brought; what each ACL grants is the module below |
| `nextId` | the sequence of `snapshots.id`: taken by `flush`, never given back |
| `lastSeen`, `parent` | `last_seen_snapshot_id` (0: no row) and `shares.parent_id` |
| `LookUp`, `Upsert`, `RefuseDuplicate` | SELECT by name, then UPDATE or INSERT, which waits for a row lock, or fails on the unique name |
| `BreakDeadlock` | the database aborts one of the jobs that wait for one another |
| `PlanParents`, `WriteParents` | `_assign_share_parents` over the rows the transaction sees, and the flush of its updates |
| `Commit`, `RefuseValue` | the commit, or the refusal of a value too long for its column |
| `RecordSuccess`, `RecordFailure` | `create_sync_run`, a transaction of its own |
| `overlapped` | not in the code: have two jobs been in progress at the same time? |

A row is locked when its upsert runs (the session may send the UPDATE with a
later flush) and rows are looked up in any order. `parent_id` is compared with
the committed one. Users and groups are one set of names: their code is the same
shape, on different tables.

`DirectorySnapshots` says what a job amounts to: it applies one listing whole, rows
and parents at one instant (`Apply`), or nothing (`Abandon`, `RegisterFailure`); an id
is given out once, used or not (`Issue`); the register says what happened
(`Register`). `NasSync!Directory` is the refinement mapping: the stage of a job is read
off where it stands (`StageOf`), the tables are the committed ones, and everything
between two commits (retries, look-ups, lock waits, rollbacks) is a stutter or an
`Issue`. When jobs have overlapped, ids may be applied out of order and a share may
hang under what was the deepest among fewer folders. `SyncsAreAtomic` is the abstract
specification under the mapping.

### EffectivePermissions

A calculation as a state machine: `ReadLine` and `NextShare` build the entries,
`BeginPair`, `ConsiderEntry`, `TurnToAllows` and `Answer` are the two passes of
`calculate_effective_permissions` for one user and one share. The state machine
lets the invariant speak of partial results (`AccumulatorIsPartial`), which
makes the proof possible without recursion. The reference is `Rightful`, stated
on the payload's own lines.

### NetworkScan

| in the model | in the code |
|---|---|
| `scan[s]` | the locals of one `run_network_scan`, in the scheduler or in a thread of `POST /network/scans` |
| `status`, `lastScan`, `alerts` | `network_devices.status`, `last_scan_id`; `network_alerts` |
| `scans` | `network_scans`; the hosts seen are kept, where the table has their number |
| `InsertScan`, `Load` | the flush that inserts the scan, and so takes its id, then the SELECT of every device; other scans may begin and commit between the two |
| `loaded` | the status the session has of each device, from that SELECT |
| `Refresh`, `Add`, `SendRow`, `InsertDevice`, `RefuseDuplicate` | the loop over the hosts; a new device flushes, and the flush sends the UPDATEs set so far, each of which waits for a row lock |
| `MarkOffline` | `previously_online`, read from the table, and its alerts |
| `StatusAfter`, `StampAfter`, `Raised`, `Commit` | what the flushes and the commit leave in the tables |
| `Fail` | an exception, a deadlock's victim, a dead process: rollback |
| `before` | not in the code: the committed scans two by two, in the order of their commits, which need not be that of their ids |
| `disturbed`, `overlapped` | not in the code: has another scan committed since this one loaded, and has such a scan committed? |

Any set of hosts may answer. Statuses under overlap may be wrong in both
directions: a scan that sees a device another has just marked offline does not
write `"online"`, since that is what it had loaded. What the properties say of
overlap is therefore what stays true of alerts and stamps
(`DevicesAreAnnouncedOnce`, `ReportsAreFounded`), and that the first scan no other one
disturbs puts everything right (`LoneScansAreExact`). A scan may commit undisturbed
with a smaller id than one committed before it loaded, so nothing is said of the
order of ids: `OneAlertPerOutage` and the refinement go by the order of commits.

`DeviceScans` says what a scan amounts to: it changes devices and alerts at one
instant. A scan that no other one overtook makes the table what it saw (`Alone`), at
any time; one that was overtaken may leave the status another scan gave and report
devices that were offline already, but announces every new device and reports every
device that it takes offline (`Overtaken`). `ScansAreAtomic` is that specification under
`NetworkScan!Inventory`: all steps but `Commit` are stutters.

### AnagraficaRegister and AnagraficaImport

| in the model | in the code |
|---|---|
| `subject`, `person`, `company`, `documents` | the tables; `person[s]` is the `codice_fiscale` of the details row; a document is a path and a copy number, since no constraint makes `nas_path` unique |
| `call[h]` | an operator's request between its read and its commit |
| `open[t]` | what the savepoint of an import has flushed and not committed: it holds the subject's row and its path (`Writing`, `PathContended`) and, apart from them, the details rows it has written and their keys (`holds`, `DetailsWait`) |
| `ReadSubject`, `ReadDetails`, `CommitUpdate` | a PUT: it reads the subject, then, with details in its payload, their rows; it writes of each row only what differs from what it read, so that a PUT of details alone does not wait for an import that has the subject |
| `ParsedType`, `Classified` | `parse_folder_name`, `classify_filename`, by what they tell apart |
| `job`, `item` | `ana_import_jobs`, `ana_import_job_items` |
| `thread[t]` | one run of `run_import` and `process_import_job` |
| `Discoverable`, `Listable` | `find ... 2>/dev/null`: any part of what exists |
| `WriteSubject`, `WriteDetails`, `DetailsConflict` | `_upsert_subject`: the flush of the subject, which always writes and so locks its row; the SELECT of the details and their flush, which writes a row only if it changes, and may be refused |
| `ReadDocuments`, `CommitItem` | the SELECTs and the writes of `_upsert_documents`, the commit of the item; a details row that was not written stays as others have left it (`CommittedKey`) |
| `preview` | a job that `create_import_snapshot` has recorded: COMPLETED, with COMPLETED items, and nothing imported |
| `TallyItems`, `FinishJob` | `_refresh_import_job_status`, read and written |
| `Register`, `CommitsAreSerial` | not in the code: the mapping to `SubjectRegister` below |
| `stale`, `shared` | not in the code: has a commit gone over a row changed since it was read; have two threads worked on one job at once |

`run_import` and `process_import_job` are driven by tests only: `/import/run`
records a snapshot (`Snapshot`; `router.py:154-190`) and resume answers 409
(`router.py:216-224`). The model takes them as the code has them.

What they do to the register is said twice more, without jobs, threads,
savepoints or crashes. `ImportsOnlyAdd`: until an operator's first call, an import
changes no row that is there, however many overlap. `SubjectRegister`: with
operators, every commit (an imported folder with its files, a creation, an edit, a
patch, a deletion) is a transaction that reads and writes at one instant, under
the database's unique values and the code's own checks, until one of them commits
over a row, of a subject, of details or of a document, that changed after it was
read; from then on only what the database keeps by itself is promised
(`CommitOver`). `CommitsAreSerial` is that specification
under `AnagraficaImport!Register`: flushes, waits, failures, reads and crashes are
stutters, the tables are the committed ones.

### SectionPermissions

| in the model | in the code |
|---|---|
| `users`, `sections`, `defaults`, `overrides` | the four tables; `"none"` is a row that does not exist |
| `request[r]`, `Admit`, `Look*`, `Commit*` | a call: its author (`api/deps.py`), what it is about, its commit; `was` is what the session read |
| `RowSeen` | the identity map: a call about its own author finds the author as read |
| `FlushUser`, `FlushSection`, `FlushGrants`, `Applies` | UPDATEs of changed columns; a bulk's inserts and updates, which fail whole if a row appeared or went |
| `Source`, `IsGranted` | `_resolve_for_section` |
| `GrantedKeys`, `CanAccess` | `GET /auth/my-permissions` and `require_section` |
| `BootstrapAdmin`, `BootstrapSection` | the two scripts, beside the calls |

## 4. Runs

| run | instance | shows |
|---|---|---|
| `catasto_safety` | 1 batch, 2 rows, 2 threads, 3 calls, 1 crash or stop | type, four safety properties under every overlap, and the refinement of `VisuraOrders` |
| `catasto_live` | 2 batches, 1 thread, 3 calls, 1 crash or stop | `StartedBatchEnds` |
| `catasto_feed` | 1 batch, 2 rows, 1 thread, 3 calls, 1 feed | a feed that ends has told all it counts, and it ends |
| `catasto_one_batch`, `catasto_shutdown` | smallest instance that shows it | disagreements with the product document, see 6 |
| `sister_connections` | 1 user, a right and a wrong pair, 2 threads, 2 tests, 4 calls, 1 crash | `verified_at`, outcomes of tests, bounded logins, everyone is served |
| `sync_overlap` | 1 live job, 1 pasted payload, 1 account, a folder in a share, 2 attempts, 1 crash | what stays true when two syncs overlap, what only when they do not, that jobs end, and the refinement of `DirectorySnapshots` |
| `sync_registered` | 1 live job, 1 crash | a disagreement with the deployment document, see 6 |
| `permissions` | 1 user, 1 group, 2 shares, all payloads with 2 texts of at most 1 line or 1 text of at most 3 | rules and completeness of the stored answers |
| `network_scans` | scheduler and 1 thread, 2 addresses, 4 transactions | what overlap can and cannot do to devices and alerts, lone scans are exact, and the refinement of `DeviceScans` |
| `anagrafica_import` | 2 threads over 1 job and 1 archive folder with 1 file, another folder with the same fiscal code and a second code for operators, 1 operator's call, 1 crash | overlapping imports and edits of one subject, imports alone only add, the refinement of `SubjectRegister`, and what a job's status is worth |
| `section_permissions` | 3 accounts and 3 sections, two of each competing for one name or key, 2 modules, roles in and out of the hierarchy, 2 overlapping calls or scripts, from every initial table | constraints, seeding, partial updates, menu and guard |

Bounds, each a constant: `MaxCalls` (API calls begun) and `MaxRestarts` (crashes
and stop signals), `MaxAttempts` (a setting of the code), `MaxCrashes`,
`MaxScans` (scan transactions begun), `MaxTests` (tests queued), `MaxJobs`
(import jobs), `MaxRequests` (calls and scripts begun). Why they are enough:

- three calls on one batch: a start, a cancel or retry that is overtaken, and a
  second one based on its result; two rows: one in execution and one waiting;
- one feed, since feeds only read;
- two tests: one in hand and one waiting; four calls: save, test, change or drop
  and save anew while the test runs;
- two jobs: each can wait for a row of the other;
- four scans: two outages of one device;
- three lines: a denial between two permissions, directly and through a group;
- two import threads meet at the row of one subject, and the operator's call is
  what makes a commit stale; two fiscal codes, so that a PUT of details alone can
  give a subject another one while an import has it;
- two calls of the permission administration, one changing what the other has
  read, from tables in any consistent state.

The proofs cover any number. Symmetry is used for threads, scanners, addresses
and rows that no definition tells apart, in runs of invariants, of action
properties over all of them and of the refinement; never for liveness.

Deadlock is not checked: a queue with nothing to do, jobs that have all ended and
a finished calculation stop, and so does a model whose bounds are used up.

### Fairness

`CatastoBatches!FairSpec`: a request thread that has read commits
(`WF(Commit(h))`); the worker takes its next step, boot included
(`WF(WorkerStep)`: one asyncio task, a container that is restarted); deadlines
pass. No fairness for calls, crashes or signals: nobody has to answer a CAPTCHA.
The number of restarts is bounded by `MaxRestarts`, so that a worker that is
killed for ever is left out.

`NasSync!FairSpec`: a job that has begun takes its next step. A thread does, and
the database breaks deadlocks. It assumes that each NAS command ends or fails:
the code itself waits for the exit status without a timeout
(`nas_connector.py:62`), so this is assumed of the NAS and not given by the code.

`CatastoProgress!FairProgressSpec` adds that the coroutine of a feed goes on
polling; its client may leave at any time.

`SisterConnections!FairSpec`: the worker's next step and the answer of a call
that has read. Every page call has a timeout, so that a login always gets on.
Users queue finitely many tests (`MaxTests`): the loop serves tests before
batches (`worker.py:86`), and without that bound `EveryoneIsServed` would be
false of the code.

## 5. Proofs

For every value of the constants, under the named assumptions of each module
(`CatalogAssumption`, `NoneAssumption`, `BoundsAssumption`; `NasAssumption`, while
`PathAssumption` is not needed; `PermissionAssumption`; `ScanAssumption`;
`ConnectionsAssumption`; `PermissionsAssumption`; `RegisterAssumption`,
`ImportAssumption`). The inductive invariants
(`IInv`, `ProgressIInv`) were checked with TLC on the instances above before they
were proved; the runs check the properties.

`CatastoBatches_proofs`. The properties are not inductive: a COMPLETED batch is
settled only because the worker cannot hold it, and this needs that the worker
holds a batch which is not COMPLETED, a row of that batch, and at `"finalize"`
no row in execution (`WorkerHoldsOpenWork`); a COMPLETED row keeps its document
only because a retry that would erase the reference has read the row as FAILED
after its one filing (`DocumentsAreFiled`), and a call's batch exists
(`CallsAreBound`, `RowsExist`). What the worker has read is still true but for
what a call may do meanwhile (`SessionIsRecent`), no two rows are in execution
(`OneInExecution`), and without overlap what it is about to write is due: the row
to recover is not in a COMPLETED batch (`RecoveryIsDue`), the rows of a batch read
as done still are (`VerdictIsDue`). `IInv` is their conjunction. `CommitEffect` and
`SerialCommit` say what a flush does to rows, in general and when nothing had
changed, `SaveEffect` the same of the worker's commits; `QuietStep` covers every
step that leaves the tables alone; the other lemmas take one group of actions each. Theorems: `TypeCorrect`,
`ProcessingOwned`, `CompletedDocumented`, `CompletedSettled`, `CancelledEmptied`,
`Invariance`, and the action property `CompletedKept`.

`NasSync_proofs`. `IInv` adds that ids of committed and of open snapshots are all
different and issued (`IdsAreIssued`), that the tables agree with where each job
stands (`TablesFollowJobs`), that written and remaining rows make up the payload
(`WritesCoverPayload`), and, without overlap, that one job runs, owns the newest
id and plans parents from tables nobody changes (`AloneIsUndisturbed`). `QuietStep`
handles every step of one job that leaves the tables alone; `CommitInv` is the
core. Theorems: `SyncInvariant`, `SyncTypes`, `LastSeenHolds`, `RunsHold`,
`NewestOwns`, `ParentsHold`.

For the refinement `IInv` is not enough: the parents that are flushed were planned
from rows of the job's own and committed ones, which stay (`PlansFollowTables`), and
attempts count from 1 (`AttemptsAreCounted`). Theorems: `SyncRefinement`, and
`ParentsContain`: whatever overlaps, `parent_id` leads to a folder that contains the
share and has a row, so that it neither dangles nor makes a cycle.

`EffectivePermissions_proofs`. `IInv`: the entries are those of the lines read
(`EntriesAreLines`), the accumulator sums up the entries considered
(`AccumulatorIsPartial`), and each pair is answered or waiting (`PairsAreSplit`).
At the end of the second pass the partial sum is the rule on the payload
(`AccumulatorIsRightful`). Theorems: `CalculationInvariant`, `CalculationTypes`,
`Rightfulness`, `Completeness`.

`NetworkScan_proofs`. `IInv` adds that ids are issued once, that no two scans
have written the same row and that rows inserted are not in the table yet
(`WritesAreExclusive`), that every host seen is visited or waiting
(`VisitsCoverSeen`), that a scan no commit has disturbed still knows the table
(`LoneIsUndisturbed`), and, for `OneAlertPerOutage`, that a device which is online
has been seen by a scan committed after its last alert's (`OnlineSinceAlert`).
`QuietStep` covers all steps but `Commit`, which `CommitLocals` and
`CommitTables` treat. Theorems: `ScanInvariant`, `ScanTypes`, `AnnouncedOnce`,
`Founded`, `AlertedOnce`, and the action properties `Reported` and `LoneScans`.
`ScanRefinement`: every step but `Commit` is a stutter of `DeviceScans`;
`CommitWrites` says what any commit leaves in the tables, `CommitAlone` that an
undisturbed one makes them what was seen (`LoneIsUndisturbed`).

`CatastoOrders_proofs`. `Refinement`: initial states map to initial states, and
every step maps to a step of `VisuraOrders` or to a stutter. Beyond `IInv` it
needs that what a call has read passed its guards (`GuardsWereMet`): only FAILED
requests are retried, only open ones skipped. `MoveAllStep` treats cancel and
retry, `BreakOffStep` the failure of a batch; `ArchiveGrows` is all that a commit over changed rows
still keeps. For the feed, `ProgressIInv` adds that a batch never counts more
documents than its requests have (`CountersAreFounded`, `ReadCompletedStays` of the
rows it counts) and that what a feed has read and told is still so (`FeedIsTrue`): this is where it matters that a
COMPLETED batch is final. Theorems: `Refinement`, `ProgressInvariant`,
`FeedsHold`, `FeedTypes`.

`SisterConnections_proofs`. `IInv` adds that row ids are handed out once, that a
call and a test that name a row name one that has held their pair (`CallsAreBound`,
`TestsAreBound`: `verified_at` is stamped by id, long after the pair was copied),
what the worker has in hand (`WorkerIsBound`), and how far a login can have come in
each of its frames (`LoginProgress`): at most one recovery has begun when the outer
frame is back in an `except`. Theorems: `ConnectionsInvariant`, `ConnectionTypes`,
`VerifiedHolds`, `TestsHeld`, `LoginBounded`, `OutcomesKept`,
`LockedOnlyAfterRecovery`.

`SectionPermissions_proofs`. The tables' constraints are inductive with the types
of what a call holds (`RequestTypeOK`: a bulk never removes a row). From them:
`MinRoleSeedsOnly`, and `MenuAndGuardAgree`, which needs the uniqueness of keys,
since the menu finds a section by module and the guard by key. Theorems also:
`PermissionTypes`, `OverridesOwned`, `NamesUnique`, `SectionsSeeded`,
`TablesAlwaysAgree`, `OtherColumnsKept`, `OverridesTogether`.

`AnagraficaImport_proofs`. `IInv` falls into three parts that steps rarely touch
together. `Bound`: everything is typed, and what calls and threads hold exists.
`JobsGood`: a job that was not shared is one thread's, which knows its row and has
every open item before it (`LoneThreads`, `OpenItemsAreHeld`), so that its tally is
of items nobody else writes. `RegisterGood`: an open write excludes every other
one on its row, and an open INSERT every other one on its path
(`OpenWritesExclude`); the documents read for a subject whose row is held are all
there are (`DocumentsWereSeen`). The commit is the core (`CommitFiles`,
`CommitKeepsDocs`): two threads that have read documents of one file would hold the
same subject. `OneSubjectRegister` and `OneDocumentRegister` treat the operators.

`ImportsAlone` is the invariant of behaviours in which no operator has called yet:
each row is what an import of its folder or file writes, so that a flush over it
changes nothing, whatever was read and when (`AloneInvariant`, `ImportsAdd`).
`RegisterStep` proves the refinement action by action. A commit that is not stale
finds the rows it read unchanged, the details included, so that its column-wise
flush writes whole rows (`FlushesUnchanged`; `CommittedKey` of a row that was not
written is the key it would have been given). An import besides needs that the documents it read are all
there are (`SawDocuments`), that its open write is bound to the folder it holds
(`WriteIsBound`), and that each listed file has one place, old or new
(`FilesHavePlaces`); then `CommittedSubject`, `CommittedDoc` and the abstract `Import`
agree (`ImportIsSerial`); so do `CommitUpdate` and the abstract `Update`
(`UpdateIsSerial`), whether or not an import has the subject open, since subject and
details are different rows; a commit that leaves the tables as they were is a
stutter. `ImportLasts`, `CreateLasts`, `SubjectCallLasts` and
`DocumentCallsLast` are what even a stale commit keeps.

Theorems: `ImportInvariant`, `ImportTypes`, `ImportFilesOnce`, `AloneInvariant`,
`ImportsAdd`, `ImportMatchesDetails`, `ImportMarksClassified`, `SerialRefinement`,
`ImportSettlesJobs`, `ImportAttendsJobs`.

`ImportSettlesJobs` takes two invariants: the statuses and the count of a COMPLETED
job (`CompletedMeansDone`), and that a COMPLETED item of a job that is no snapshot
names a subject that is there (`ItemsAreImported`): `CommitItem` is the only step
that completes an item of such a job, and a subject's row is never deleted.

Only model-checked: the liveness properties `StartedBatchEnds`, `FeedsEnd`,
`JobsEnd` and `EveryoneIsServed` (fairness and ENABLED are beyond the prover), and
the violations.

## 6. Findings

Each is a run in which TLC shows the code doing other than a document says; the
quotations are in `PROJECT.json`.

- Two batches of one user can be PROCESSING at once, with no overlap of calls at
  all: finalization puts a cancelled and retried batch back to PROCESSING. (With
  overlap a race of two starts is enough.)
- A stop signal during a manual CAPTCHA closes the current row as failed.
- An applied sync may stay without a `sync_runs` row.

Seen while modelling, and kept as observations without a run:

- *Catasto.* An exception of a page call in one row fails every row of its batch
  not yet begun (`worker.py:265`), where PRD_catasto.md:143 has the worker resume.
  The log speaks of a single recovery of the portal session, but a login may
  recover twice and submit three times (`LoginIsBounded` states what holds).
  `verified_at` survives a change of the pair. The probe of a test does not
  recover a locked session and `stop` never logs out, so a test right after a
  batch may fail with a right pair.
- *Sync.* The permissions page takes the highest `snapshot_id` that has rows, so
  after a sync without permissions it shows those of an older snapshot
  (`repositories/permissions.py:8`).
- *Anagrafica.* An item left PROCESSING by a crash is never selected again, and a
  job that dies between `enqueue_import` and its start stays PENDING, which
  `enqueue_import` does not resume. A second import puts a subject back to ACTIVE
  and overwrites a document type chosen by an operator, mark included. What `find`
  cannot read is missing without an error. A snapshot counts a folder it could not
  list both as imported and as an error. Of two folders with one fiscal code, one
  fails in every job. An operator who moves a subject to another folder while it
  is imported can have its documents filed twice (a stale commit).
- *Permissions.* `min_role` decides nothing once a section is seeded
  (`MinRoleSeedsOnly`), so editing it has no effect for the four roles.
  PROMPT_CODEX_permissions.md asks otherwise of the tests: "viewer accede a sezione
  con `min_role=viewer` via source `"min_role"`" (336), "viewer negato su sezione con
  `min_role=admin` via source `"denied"`" (337), "DELETE override ripristina accesso
  via `min_role`" (341). A viewer is let in and refused as it says, but the source
  is always `role_default`, since every role is seeded with the section, as lines
  220 and 307 of the same document ask, and a role default comes before `min_role`; the test in the
  repository takes either source (`test_section_permissions.py:81`). The page that
  edits accounts sends role, state and modules of the account as the page loaded it
  (`gaia/users/page.tsx:247-257`), so that saving a page opened before another
  administrator deactivated the account makes it active again: to the server this
  is a difference it is asked to make, and `OtherColumnsStay` is only about the
  time between the read and the commit of one call. The guard
  of a section does not ask for its module; the menu does. Two overlapping bulks
  can leave a mix of both. What a guard has decided may no longer be so at the
  commit.

## 7. Not modelled

Texts and layout; what OCR and the portal answer; the form, CAPTCHA and download
pages; the feed of one connection test; parsing of listings (`nas_parsers.py`) and
of uploaded tables; the content of rows; passwords and tokens; read-only listings;
`bootstrap_domain`, migrations, frontend, deployment. Deletion of an account with
its catasto rows (cascades, and a foreign key of the reviews that refuses it).
Loops of crashes without end, an endless stream of connection tests and a NAS that
never answers are outside the fairness assumed.
