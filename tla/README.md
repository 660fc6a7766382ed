# Verification of calibre-web-cli

TLA+ models of the job queue, the device cache, the USB bus, the shutdown, the
snapshots, the jobs and the routes of this application, the TLC runs that check
them on small instances, and TLAPS proofs of all their safety properties for
every instance. Paths are relative to the repository; `worker.py` and its
like without a directory are the files of `app/services/`.

To check: `tlc -config <run>.cfg <module>` for a run of the tables below,
`tlapm <module>.tla` for a module whose name ends in `Proofs`.

## 1. The system

One process: an asyncio event loop (the upload route, the worker coroutine, the
device poller, the listing task) and a pool of threads (every route declared
`def`, and every `asyncio.to_thread`). Its collaborators are `calibredb`,
`ebook-convert` and `fetch-ebook-metadata` (subprocesses), `libmtp` (in
process), the library's `metadata.db` and folders, a data directory for
snapshots, and one Kindle. The app is the only writer of the library
(`docs/troubleshooting.md:15`).

| Component | State | Operations | Interaction | Hard about it | Correct when |
|---|---|---|---|---|---|
| Job queue, `worker.py` | `_queue`, `_jobs` (history, at most 100), the worker task, `_stopping` | `enqueue` with rotation, `_run`, `start`, `stop` | routes enqueue from threads, uploads from the loop; handlers run in the coroutine | an asyncio queue used from threads; cancellation; rotation beside the worker | each accepted job runs once, in order, one at a time; active jobs stay listed |
| Poller and cache, `device.py`, `app/state.py` | `DeviceState` | tick, listing with backoff, `books_on_device` | the loop's poller and listing task; handlers update the cache | a listing in flight over resets, transfers, unplugs | one listing at a time, cache equals device, cleared after unplug |
| USB bus, `mtp_helper.py` | `_lock` | six verbs | poller and handlers await the lock; threads use the device | cancelling a caller leaves its thread | one thread on the bus; calls served in order |
| Lifespan, `app/main.py` | the worker's, the poller's and the listing's tasks | start, `Worker.stop`, asyncio's own cancellation | cancels tasks inside and in line for the lock | the order of three cancellations, threads that hang | every shutdown ends; calls end if threads do |
| MTP verbs and ctypes backend, `mtp_helper.py` | device objects, one handle, `_backend` | detect, list, send, remove, send/remove thumbnail | libmtp, loaded by the first call | refusals, unplug, short listings, duplicates, sentinels | handle closed, expected errors only, reports hold, sidecar fresh, other books untouched |
| Snapshots, `snapshot.py` | files by date | copy, prune | first step of library jobs | failure half-way, midnight, restart | a changed day has a snapshot; the window is kept |
| Upload, `app/routes/upload.py` + job | spool directory | spool under limits, enqueue, add, delete | route to worker to `calibredb` | limits in a stream, clean-up on each path | refused for cause; files found; nothing left behind |
| Conversion, `app/handlers.py`, `calibre_cli.py` | formats of books | autoconvert, convert job | `calibredb`, `ebook-convert` | each call may fail | only whole outputs reach the library; all reader formats after upload; reports tell what was done |
| Refresh, same files | metadata, cover | show, fetch, cover, set | Calibre programs | unchecked failures, failure after the cover is set | blanks filled, nothing replaced, reports tell the truth |
| Device jobs, `app/handlers.py` | names on the device, cache, sidecars | send, remove | MTP verbs, library | two handlers must agree on a name over time | remove finds what send wrote |
| Pages, `app/routes/library.py` over `db.py` | the cookie of page sizes | count, select, Next links | reads the library beside the jobs | two reads per page, a shelf that changes during a walk | a walk shows every book |
| Covers, `app/routes/cover.py` | none; the browser's cache | look up, stat, send, 304 | reads what jobs replace | four reads per request | no replaced cover is confirmed |
| Health, `app/routes/health.py` | one probe file | three checks | threads; reads `DeviceState` | overlapping probes | 503 exactly for what is broken |

Not modelled: the SQL of the library's filters, the sort by author, the details
and the search suggestions (each is one read, shown as it is; ties in the order
of a page are SQLite's); the device route, templates, authentication and
settings (no state); the layouts of libmtp's C structures; the container files.
`remove_thumbnail(ignore_missing=False)` has no caller in the app. PROJECT.json
lists each with its reason, and the hazards of the code line by line with the
property for each.

## 2. Modules

| Module | Models | State and actions in the code |
|---|---|---|
| `JobLifecycle` | what the queue promises | accept, execute the oldest, conclude or interrupt |
| `Worker`, `MCWorker` | `worker.py` | `kept`/`born` = `_jobs` and its order; `call`, `excess`, `keys` = the frames of `enqueue`/`_evict_terminal`; `queue`, `unfinished` = the asyncio queue; `task`, `current` = `_run` |
| `FifoLock` | what the lock promises | who is inside, and which waiting call is before which |
| `MtpBus` | one call of `mtp_helper`, its `_lock` and its thread | `waiters` = the lock's futures, `phase` = each call, `onBus` = threads in libmtp |
| `Lifespan`, `MCLifespan` | the tasks that make the calls, and the shutdown | `stage` = `lifespan` of `main.py`, then asyncio's end; `poller`, `worker`, `spawned` = the tasks |
| `MtpStore`, `MCMtpStore` | one verb over the ctypes backend, object by object | `stage` walks the check of the file, `_get_backend`, `_open_device`, the folder, the listing, deletions and the put; histories `missed`, `short`, `gone`, `twice` |
| `DeviceSync`, `MCDeviceSync` | `DeviceState`, `_poll_tick`, `_sync_filenames`, the handlers' cache updates | a variable per field of `DeviceState`; the device itself, with `copies` of each name; the lock as a line; histories `hasty`, `leftover`, `doubtful` |
| `Snapshot` | `snapshot_if_needed` and the jobs after it | `copies`, `content` by day; `phase` of the job; history `troubled` |
| `Formats` | the formats of the library's books; choice of source and device formats | `formats` = what the library lists, `files` = what is there |
| `BatchJob` | the loop every handler shares | `kind`, `todo`, `progress`, `outcome` |
| `Conversion`, `MCConversion` | `handle_upload`, `handle_convert`, `convert_book` in its thread | `plan` (targets left), `known` (the handler's `existing` and `produced`, or `book.formats`), `conv` = the call of `convert_book`: source, exit code, output; histories `failures`, `interrupted` |
| `Refresh`, `MCRefresh` | `handle_refresh`, `refresh_metadata` | `step` = next Calibre program; locals `seen`, `found`, `image`, `applied` |
| `DeviceJobs`, `MCDeviceJobs` | `handle_send`, `handle_remove` | `device`, `cache`, `tiles` by book and EXTH identity, `identity` of each Kindle file of the library; histories `sentAs`, `strayed`, `orphaned` |
| `Upload`, `MCUpload` | `POST /upload` and its job | `spool`, `dir`, `saved`, byte counts, `verdicts` |
| `Pages` | `list_view`, `list_books` and the Next links | `shelf` = the books that match, in the order of titles; `read` = where a request or the walk stands; histories `moved`, `slid`, `torn` |
| `Cover` | `GET /cover` | `serving` = the route's next step, `cached` = the browser's copy; history `lost` |
| `HealthProbe` | `GET /health` | `pc` of each request, `probe`; history `overlapped` |
| `Routes`, `MCRoutes` | the three routes that only read, as `create_app` puts them side by side | `route` |
| `WorkerProofs`, `LifespanProofs`, `DeviceSyncProofs`, `MtpStoreProofs`, `SnapshotProofs`, `UploadProofs`, `RoutesProofs` | theorems about the module of that name and those it extends | section 5 |
| `HandlersProofs` | theorems about `DeviceJobs`, `Conversion` and `Refresh` | section 5 |

Composition: `Conversion`, `Refresh` and `DeviceJobs` extend `BatchJob`, and
two of them `Formats`; the names that each of the three needs carry the module's
name, so that `HandlersProofs` can extend them. `Lifespan` extends `MtpBus` with
the tasks that call and are cancelled, `Routes` puts `Pages`, `Cover` and
`HealthProbe` side by side.
`Worker` implements `JobLifecycle` and the lock of `Lifespan` implements
`FifoLock`, both by refinement mapping. `DeviceSync` uses the lock as the line
that it is shown to be, while nobody is cancelled, and takes from `MtpStore`
that a listing may come back short; `DeviceJobs` takes from it that a transfer
may raise what no handler expects. `Snapshot` and the handlers take one job at a
time, which `Worker` guarantees.

Definitions commented "Mutant" are deliberate errors in the definition after
them; PROJECT.json pairs each with the property that notices it. They are in
no specification.

### Granularity

`Worker` lets a thread be preempted between the steps in which CPython may hand
over its interpreter lock; an upload's `enqueue` runs on the loop thread, so no
loop code runs inside it (`LoopFree`). In `DeviceSync` a tick is one step, for
it has no `await`; listing and transfers take three: wait for the lock, work in
the thread, act on the result. Handlers take one step per subprocess or device
call, routes one per read of the library, in which jobs may write in between.
`convert_book` runs in a thread, step by step, which a cancelled handler leaves
behind; the next job begins when it has ended, for a process that stops waits for
its threads and a new one has none. An output of `ebook-convert` is none, a part or
the whole, and a part only if its exit code says so: that is an assumption on
the program, for `convert_book` looks at no more (`calibre_cli.py:494`).
In `Lifespan` cancelling and resuming a task are two steps. A put from a thread
also schedules the woken coroutine without waking the selector; the poller's
timer does so within five seconds, so it delays and does not lose.

## 3. Runs

A passing run checks its properties on every reachable state. Invariants named
`...Inv`, and `ChangedDayIsCovered`, `AutoconvertCompletes`, `WalkMissesNothing`
and `CoverFresh`, are conjunctions that begin with the module's type invariant.
State counts are of distinct states.

| Run | Shows | Bounds |
|---|---|---|
| `Worker_threads` | `TypeOK`, `AcceptedOnce`, `SerialExecution`, `ActiveJobsListed`, `ImplementsLifecycle` with threads | two threads and an upload, history of 1, two starts; 1.2M |
| `Worker_uploads` | `BalancedCount`, `RotationTakesOldestExcess`, `JobsFinish` when `enqueue` is called on the loop only | three uploads, history of 2, two starts; 13k |
| `Worker_lostwakeup` | `JobsFinish` is violated: see D1 | one thread |
| `DeviceSync_sessions` | `SyncInv` (one listing at a time, the lock matches the tasks, giving up is final), `CacheExact`, `EventuallyListed`, `EventuallyCleared` | two names, up to two files of one, two sessions, replugs at any time, one raising tick, three attempts; 532k |
| `Lifespan_stop` | `LockInv` (one owner, no lost hand-over), `BusExclusive`, `FirstComeFirstServed`, `CallsReturn`, `StopEnds` | two listings and two transfers, a shutdown at any moment; 2.1k |
| `MtpStore_verbs` | `HandleInv` (the handle is closed, errors are the expected ones), `SidecarsFollow`, `ReportsHold`, `OthersUntouched` | three objects, two books; 81k |
| `Snapshot_days` | `ChangedDayIsCovered`, `ChangesNeedSnapshot`, `SnapshotsStay` | four days, two books per job, three changes, retention 0 and 2; 272k |
| `Upload_limits` | `SpoolInv` (the job finds its files, nothing is left behind), `LimitsDecide`, `NoUploadDropped` | two files of up to 3 chunks, limits 2 per file and 3 in all: both are met, passed and exceeded; 16k |
| `Conversion_jobs` | `AutoconvertCompletes` (and done jobs are settled), `FailureLeavesBook` | two books, all formats, one lost file; any number of exceptions, cancellations and kills; 2.7M |
| `Refresh_jobs` | `RefreshTypeOK`, `FillBlanksKeeps`, `OutcomeTellsFields` | two books, a field to search by and one more; 153k |
| `DeviceJobs_changes` | `JobInv` (done jobs are settled, no EPUB on the device), `BadgesFollow`, `NativeTileGoes`, `HandlersAgreeOnName` | two books, one with an EPUB, one with damaged headers and none, a MOBI or another format; two identities, two changes of the library; 1.45M |
| `Routes_requests` | `WalkMissesNothing`, `CoverFresh`, `HealthInv` (whatever is broken is reported, no probe left), `FalseAlarmNeedsOverlap` | shelves of none, three and four books, one more to come, two changes during a walk, settings of -3, -1, 0, 2 and 3 books to a page, of which 2 and less are accepted; three covers; three health requests; 768k |

Deadlock is checked wherever the system goes on for ever; `Worker`, `Lifespan`,
`Snapshot` and `Upload` stop when their calls, days or files are used up, or the
process does.
Symmetry is used for books, contents and object ids that no constant tells
apart, and in no run of a liveness property.

### Properties with a condition

The code keeps some of its promises only as long as something does not happen.
The property then names exactly that, with a history variable where the state
does not tell, so that it says when the promise holds, and that nothing else
breaks it:

| Property | Holds unless | Recorded in |
|---|---|---|
| `CacheExact` | the device came back before the application had done with its last session | `hasty` |
| `CacheExact` | the file is one of a transfer that failed | `doubtful` |
| `CacheExact` (nothing missing) | the listing came back short, or a removal has left another file of the name | `short`, `leftover` |
| `BusExclusive` | the shutdown abandoned a call inside the lock | its phase, `aborted` |
| `SidecarsFollow` | a deletion was refused, a listing came back short, or the firmware left a sentinel after it | `missed`, `short` |
| `ReportsHold` (removal) | the book was sent while the device had it | `twice` |
| `HandleInv` (kind of error) | libmtp is missing, or the file went away under the call | `libmtp`, `gone` |
| `WalkMissesNothing` | the book changed place, one on an earlier page went away, or one came between the two reads of the last page; or the setting is below 1 | `moved`, `slid`, `torn`, `pageSize` |
| `CoverFresh` | the file was lost during the request | `lost` |
| `ChangedDayIsCovered` | the day's copy was cut short, or it began with a job running | `troubled` |
| `AutoconvertCompletes` | a conversion of the book failed, or its upload was broken off (an exception, a cancellation, a kill) or failed with the book added | `failures`, `interrupted` |
| `FailureLeavesBook` (failed books) | calibredb failed with the format listed | `conv.half` |
| `HandlersAgreeOnName`, `BadgesFollow` (removal) | what the book's name is taken from changed while the device had it | `strayed` |
| `NativeTileGoes` | a sidecar is of another identity than the library's file has now, or a deletion failed quietly | `orphaned` |
| `BadgesFollow` | two books have one file name | the constant `Stem`; a run and a theorem take them distinct |
| `NoUploadDropped` | a later file of the request has the same name | `Overwritten` |
| `FalseAlarmNeedsOverlap` | two probes overlapped | `overlapped` |

### Divergences seen while modelling

What the repository says and what the code does, as the models show it. D1 is a
run of its own; the others are behaviours of the models, met there by dropping
the condition or by following the named actions.

- D1 (`Worker_lostwakeup`). `README.md:77` has a background job run. A
  `put_nowait` from a thread (`worker.py:76`) between the test for an empty
  queue and the registration of the getter inside `get()` (`FindEmpty`,
  `PutItem`, `WakeGetter`, `RegisterGetter`) wakes nobody: the job waits until
  another one is enqueued.
- D2 (`Worker`, `RaiseKeyError`). Two overlapping rotations may reach one key:
  `worker.py:92` raises `KeyError` after the job was listed (line 74) and before
  it is queued (line 76). It is shown as queued for ever and its request fails.
- D3 (`Worker`, `Settle`). From a thread, the worker can run a whole job between
  the append and the count of its put; `task_done()` (`worker.py:129`) then
  raises, outside every `except`, and the coroutine ends (`task = "dead"`).
  `BalancedCount`, which excludes it, is checked for uploads only.
- D4 (`Worker`, `EndScan`). `worker.py:95`: over the cap "every entry is
  non-terminal". A job that ends after the rotation has passed it is terminal.
- D5 (`Worker`, `StopDone`). `worker.py:140`: "Drain anything still queued".
  Nothing is drained; a later `start()` in the same process goes on with the
  queue.
- D6 (`DeviceSync`, `hasty`). `state.py:30-31` resets the cache whenever the
  device leaves. The reset happens in a tick: a replug between two ticks, or
  under a running listing, carries names of the old session into the new one.
- D7 (`DeviceSync`, `PollPresent`). `state.py:23-24`: a `last_detect_error` of
  None means the most recent tick succeeded. A tick that finds the device leaves
  an old error in place; only one that finds none clears it (`EventuallyCleared`).
- D8 (`DeviceSync`, `Init`). `state.py:27-28`: `/health` stays pessimistic until
  the first tick. The route reads `last_detect_error` only and says "ok" before.
- D9 (`Lifespan`, `AbortInside`). `mtp_helper.py:12-15`: "two operations never
  share the USB bus". A call cancelled inside the lock, as `Worker.stop()` does,
  releases it while its thread goes on, and the listing that waited behind it
  starts its own, before asyncio cancels that too.
- D10 (`Snapshot`, `CopyFails`, `Midnight`). `README.md:117` has a copy written
  on the first mutation of each day. A copy cut short leaves a file that passes
  for the day's snapshot (`snapshot.py:61`), and a job that runs past midnight
  makes the new day's first change without one.
- D11 (`Conversion`, `ConvertBook`; `DeviceJobs`, `GainFormat`). The convert
  dialog marks a book "already has", which `tests/routes/test_jobs_routes.py:102-103`
  calls "will skip"; the job does not ask and converts it. What there was is
  replaced, and with it the identity that its sidecar is found by.
- D12 (`Refresh`, `RefreshTypeOK`). The handler stores `no_match` and `error`
  (`handlers.py:197`), which `BookState` (`worker.py:17`) does not declare.
- D13 (`DeviceJobs`, `GainFormat`, `LoseFile`). `handlers.py:42-43` wants send
  and remove to agree on the name. A conversion to a preferred format between
  them changes it; so does the loss of the library file, for the fallback is the
  title (`handlers.py:313-320`) and not the stem, "<title> - <author>". So does
  a refresh in overwrite mode between them, for Calibre renames a book's files
  with its title and authors: file names are constants of the model, and this is
  the one cause of a stray book that it does not have.
- D14 (`DeviceJobs`, `Badged`). `README.md:97`: a badge appears the moment a
  send completes. A book that has only an EPUB travels as AZW3, a name none of
  its formats has, and shows no badge: `BadgesFollow` leaves it out.
- D15 (`DeviceJobs`, `RemoveTile`). `README.md:105`: every remove deletes the
  sidecar. It deletes the one that the library's file identifies
  (`handlers.py:102-107, 335`), which need not be the one that the send wrote.
  A book sent from its EPUB went with the identity of a passing AZW3
  (`handlers.py:262-270`): an EPUB has none to find it by, and an AZW3 that the
  library gets later has its own. A format converted again between send and
  remove has another identity than before. Each leaves a sidecar for good
  (`orphaned`).
- D16 (`DeviceJobs`, `IdentityRaises`). `calibre_cli.py:347-349` returns (None,
  None) on any parse error and `handlers.py:284` does not fail a send. A header
  that breaks off raises `struct.error` (`calibre_cli.py:367-368`), which fails
  the job after the transfer.
- D17 (`Upload`, `OpenFile`). `README.md:76`: nothing is silently dropped. Two
  files of one base name share a spool path (`upload.py:50-56`): the earlier is
  lost, and its path reported twice.
- D18 (`HealthProbe`, `Unlink`). `README.md:116`: 200 when healthy. Overlapping
  requests share one probe file, and the second `unlink` fails.
- D19 (`MtpStore`, `Listings`; `DeviceSync`, `SyncList`). `device.py:93-95`: on
  failure a retry is scheduled. libmtp answers a listing that breaks off like
  an empty folder, and `list_folder` (`mtp_helper.py:317-336`) asks it for no
  error: the listing passes for a success, and badges are missing until the
  next replug.
- D20 (`MtpStore`, `ReportsHold`; `DeviceSync`, `leftover`). `README.md:81`: remove deletes the files and
  the badges clear. A book sent twice is on the device twice; remove deletes
  the first of its objects (`mtp_helper.py:513-520`), and the badge clears with
  the other still there.
- D21 (`Worker`). `worker.py:82-83`: active jobs "are still visible to /jobs".
  The history keeps them all, but the page shows the newest hundred
  (`jobs.py:116`): beyond that the running job is the first to go.
- D22 (no model). `README.md:59`: an empty `CALIBRE_WEB_CLI_MTP_USB_IDS` means
  any MTP device. The verbs read it so (`mtp_helper.py:414`); detection, and with
  it the listing and the indicator, is off (`device.py:66-67`, `main.py:32-36`).
- D23 (`Pages`, `NextRefused`). `README.md:58` sets no limit to
  `CALIBRE_WEB_CLI_PAGE_SIZE`. Above 200 the first page's own Next link is
  refused (`library.py:49`).
- D24 (`Cover`, `SendPlaceholder`). The placeholders of a book share one ETag
  (`cover.py:46`), though they show its title: after a refresh the old title is
  confirmed for as long as the browser asks.
- D25 (`DeviceJobs`, `TransferRaises`). `handlers.py:286` and `325` expect
  `MTPHelperError` only. If libmtp cannot be loaded, or the file goes away between
  `isfile` and `getsize` (`mtp_helper.py:349, 496`), the job fails as a whole,
  its book "running" and the rest "pending" for good.
- D26 (`DeviceJobs`, `BadgesFollow`). `README.md:81`: remove deletes the files
  and the badges clear. Two entries of one title and author have files of one
  name, so the file of one badges the other: with one stem for both books, a
  badge stays after the removal. The proof of `BadgesFollow` asked for
  `StemsDistinct`, and TLC shows that it is needed.
- D27 (`Pages`, `DivideByZero`, `TotalPages`). `README.md:58` calls
  `CALIBRE_WEB_CLI_PAGE_SIZE` the default grid size, and `config.py:34` takes any
  integer. `list_books` raises it to 1 (`db.py:215`), the count of the pages
  does not (`library.py:65`): with 0 the first page divides by zero, with a
  negative number it shows one book and has no Next link, or, on an empty
  shelf, may have one that is refused.
- D28 (`Conversion`, `AddUnnoticed`, `ReadRaises`, `StopWorker`).
  `handlers.py:55-57`: formats "present on every uploaded book". An exception, a
  cancellation or a kill between `add_book` and the last conversion leaves the
  book without them, and nothing takes it up again.

### Why the bounds are enough

`Worker`: two rotations and the worker are all the parties a rotation can meet;
a history of 1 or 2 is exceeded by the second or third job; two starts give
stop, restart and stop. `DeviceSync`: one transfer and one listing is all the
code allows, two sessions are an old one and a new one. `Lifespan`: the code has
at most one listing and one transfer in the lock at a time; two of each let one
end and another begin, and an abandoned thread meet its successor. `Snapshot`: with four days and
a retention of two there are two days in the window and two to prune. `MtpStore`:
an old sidecar, its sentinel and something else, or a book twice. `Pages`: three and
four books make two pages or more for each page size, of which the last is full
or not, and two changes can undo one another; `Cover`: a cover, its replacement
and the next one. `DeviceJobs`: with two changes of the library a format can be
gained and its file lost, or the other way round, and two identities tell the
file sent from the file there is now; a sidecar is taken to be of one book, for
Calibre gives each its own. `Conversion`: one lost file is enough to make a
source missing, and nothing bounds the failures. The settings of `Pages` are on
both sides of 0 and of the largest size accepted. Two books in a job
(`MaxBatch`) tell "this book" from "the others".

What a bound hides from a run, the theorems of section 5 cover: each safety
property is proved for every value of the constants, the bounds included.
Liveness alone depends on them.

## 4. Fairness

- `Worker!FairSpec`: the scheduler runs each thread inside `enqueue`, the loop
  runs what is ready. That a handler ends is an assumption on Calibre and the
  device: no call has a timeout. Requests, `start` and `stop` owe nothing.
- `DeviceSync!FairSpec`: the poller ticks every five seconds and does not raise
  for ever, time passes, the listing task and the transfer go on.
- `Lifespan!FairSpec`: the loop runs what is ready, and no more. Threads in libmtp
  may hang: `StopEnds` holds all the same, and `CallsReturn` says what follows if
  they do not. "closed" is the end of the tasks; the process then waits for the
  threads of the executor as long as asyncio and the interpreter do.

## 5. What is proved

Every invariant, action property and refinement of the passing runs is a
theorem, for every value of the constants that the named assumptions of the
modules allow; TLC evaluates those on every run. Only the liveness properties
stay with TLC.

| Module | Theorem | Property |
|---|---|---|
| `WorkerProofs` | `TypeCorrect` | `TypeOK` |
| | `AcceptedOnceInvariant` | a job is in the queue exactly while queued and accepted, once |
| | `SerialExecutionInvariant` | at most one job runs, the one in the coroutine's hand |
| | `ActiveJobsListedInvariant` | rotation takes no queued or running job |
| | `StatesFollowCallsInvariant` | state, call and finish time of a job agree (in no run) |
| | `Refinement` | `Worker` implements `JobLifecycle` |
| | `CountIsBalanced`, `RotationIsRight` | `BalancedCount`, `RotationTakesOldestExcess`, both if `ThreadJobs = {}` |
| `LifespanProofs` | `LockCorrect`, `BusSharing` | `LockInv`, `BusExclusive` |
| | `ServedInOrder` | who enters the lock was first in its line, or all in it were cancelled (in no run) |
| | `LockIsLine` | the lock implements `FifoLock` (`FirstComeFirstServed`) |
| `DeviceSyncProofs` | `SyncCorrect`, `CacheCorrect` | `SyncInv`, `CacheExact` |
| | `ListingsNeverOverlap` | a tick starts a listing only if none is alive (in no run) |
| `MtpStoreProofs` | `CallsEndCleanly`, `ReportsTrue`, `SidecarsCorrect`, `OthersKept` | `HandleInv`, `ReportsHold`, `SidecarsFollow`, `OthersUntouched` |
| `SnapshotProofs` | `ChangedDayCovered`, `ChangesHaveSnapshot`, `SnapshotsKept` | `ChangedDayIsCovered`, `ChangesNeedSnapshot`, `SnapshotsStay` |
| `UploadProofs` | `SpoolCorrect`, `LimitsCorrect`, `UploadsKept` | `SpoolInv`, `LimitsDecide`, `NoUploadDropped` |
| `HandlersProofs` | `JobsCorrect`, `NamesCorrect`, `TilesCorrect` | `JobInv`, `HandlersAgreeOnName`, `NativeTileGoes` |
| | `BadgesCorrect` | `BadgesFollow`, if `StemsDistinct` |
| | `ReadersAreComplete`, `FailuresLeaveBooks` | `AutoconvertCompletes`, `FailureLeavesBook` |
| | `RefreshTypes`, `BlanksAreFilled`, `OutcomesAreTrue` | `RefreshTypeOK`, `FillBlanksKeeps`, `OutcomeTellsFields` |
| `RoutesProofs` | `NothingMissed` | `WalkMissesNothing` |
| | `CoversAreFresh`, `NothingUnreported`, `AlarmsAreTrue` | `CoverFresh`, `HealthInv`, `FalseAlarmNeedsOverlap` |

### From which assumptions

The named `ASSUME`s say that bounds and limits are numbers, that a subset of
jobs, books or fields is one, that reserved values (`NoJob`, `Unsafe`, `Absent`,
`Part`) are no members of the sets they are set apart from, that the lock's
calls are listings or calls of jobs and not both, that a shelf shows a book once,
that the page sizes offered lie within what the route accepts, and that having no
identity is not an identity. The setting of the page size may be any integer. Two theorem
hypotheses go further, each for a behaviour of the code:

- `ThreadJobs = {}`: `enqueue` is called on the loop only, as by the upload
  route. One route in a thread is enough for the worker to take a job that is
  not counted yet (D3), and for a rotation to pass a job that then ends (D4).
- `StemsDistinct`: no two books share a file name (D26).

### The inductive invariants

None of the properties is inductive alone. TLC checked each strengthening on the
runs' instances before it was proved. There is a lemma for each action, or group
of actions, that disturbs a part of it, and one for those that do not.

- `Worker`. `IInv` is `TypeOK` with `JobInHand` (the coroutine holds a job
  exactly while it handles or settles one) and the four safety properties, which
  need each other: that `TakeJob` starts a queued job needs `AcceptedOnce`; that
  it does not start a second one needs `SerialExecution`; that a rotation spares
  it needs `StatesFollowCalls`. On the loop alone `UploadInv` adds that one call
  at a time is inside `enqueue` and the coroutine is not (`LoopInv`), what the
  count is at each of its steps (`CountInv`), that stamps tell the order of
  arrival (`StampInv`), and that what a rotation has measured and passed stays
  true (`RotationInv`). The refinement takes each action to a step of
  `JobLifecycle` or to a stutter, under `IInv`.
- `Lifespan`. `LifeInv`: each call in the line has one future there, and a
  resolved future is the first, of a free lock (`LineInv`); a thread on the bus
  belongs to a call inside or aborted (`ThreadInv`); the worker and the poller
  have one call each under way (`OneEach`), which is what leaves at most two
  threads when one is abandoned; only cancelled tasks give up (`GivenUp`). For
  `FifoLock` the abstract line is the order relation of the calls that wait
  and are not cancelled: each step of the deque of futures adds a last one,
  drops some, or leaves the relation as it is.
- `DeviceSync`. `TaskInv` spells the lock out (`LockShape`: five queues) and
  adds that what made a listing due stays true while it is alive (`StillDue`).
  `CacheInv` says, for a session that began with a clean slate, how far cache,
  folder and the listing in hand may differ while a transfer or a listing is
  under way, and of which names a removal has left a file; `CacheExact` is what
  is left of it when none is.
- `MtpStore`. `StoreInv`: which stage a verb may be in and with what
  (`CallInv`); a book never stored on top of itself has one object
  (`OneObject`); what is still to be deleted is the book's, and all that is if
  nothing was left out (`TargetInv`); what is so at the end (`EndInv`).
- `Snapshot`. `SnapshotInv`: copies come of the day on which the running job
  began, before any change of that day. That pruning leaves no more than the
  window is a fact about cardinalities of intervals.
- `Upload`. `RouteInv` (where the route is), `SpoolContents` (what the spool has
  while a file is written over another), `CountInv` (bytes counted are bytes
  read), `VerdictInv`. `BytesOf`, a recursive function, is unfolded by its
  equation, proved by the least counterexample (`WellFoundedInduction`).
- `BatchJob`. `BatchInv`: the books of a loop are distinct and only the one at its head
  has a state of its own yet. `NamesInv`: a book that has not strayed is on the
  device under the name its file gives now. `BadgeInv`: the cache has nothing
  but that name for it. `TilesInv`: of a book with a Kindle format that is not
  orphaned, the one sidecar there may be is the one its file identifies now.
  `ConvInv` ties the call of `convert_book`, the handler and the library
  together: where the loop stands (`ConvertLoop`), that books with untried
  conversions are out of the loop's hands (`InterruptedInv`), that a call gets
  from step to step with what it found and only a whole output is ever added
  (`CallInv`), that it is the call its handler waits for, about the formats it
  knows (`HandInv`, `KnownInv`), and that a convertible book has each reader
  format or its conversion is still planned (`ReadersInv`). `RefInv`: what is shown of a book in hand is
  what it has, or nothing. `FirstOfProperties` says of the choice of a format
  that it is the first that is available; `SourceFound`, that a conversion has a
  source exactly if the book is convertible.
- `Routes`. `WalkInv`: what the walk owes its reader is on pages to come
  (`Place`), until it has read the last one, and what it counted is no less than what
  it finds. `CoverInv`: versions only grow, so what is read later is as new as
  what was read earlier. `ProbeInv`: a request that probes alone finds its file,
  and one past a check has recorded its failure.

### What the proofs changed

Three definitions could not be reasoned about and were restated: `FifoLock` has
an order relation in place of a sequence filtered by `SelectSeq`; `Pages` tells a
place by counting the titles before it (`Place`) in place of sorting;
`_autoconvert_all_formats` passing over a target is an action of its own
(`PassTarget`). Two conditions came to light: `StemsDistinct` (D26), and that the
assumptions on shelves, limits and reserved names had not been stated. Batches
may have any number of books (`MaxBatch`), where the model had said two.

### Checked by TLC only

Liveness needs fairness and ENABLED, which are beyond the prover: `JobsFinish`,
`EventuallyListed`, `EventuallyCleared`, `CallsReturn`, `StopEnds`, and the
violation of `JobsFinish` (D1). No module uses a RECURSIVE operator; what a
recursive function computes for every input cannot be proved here beyond its
equation (`Upload!BytesOf`).

## 6. Plan

Done: the core and its extension to the components of section 1; the proofs of
their safety properties. Left:

1. Copies of one name in `DeviceJobs`, a composition with `MtpStore`, beyond TLC's
   reach at the present bounds but not beyond a refinement: each transfer of
   `DeviceJobs` as what a call of `MtpStore` may do. With it, file names that a
   refresh in overwrite mode changes (D13).
2. How many jobs several overlapping rotations may take between them (D2, and
   the hazard at `worker.py:85`).
3. The two readings of the USB filter (D22), the route that shows the hundred
   newest jobs (D21), the identity parser against a reference definition.
