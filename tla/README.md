# A formal model of Boomarr

Boomarr keeps directories of symbolic links ("outputs") in line with a read-only
media library: a file gets a link in an output if the filters configured for
that output (audio language, resolution, codec, ...) accept what a probe finds in
it. It runs as a command (`boomarr scan`, `boomarr clean`) or as a daemon
(`boomarr watch`) with a web interface, schedules and web hooks.

This directory holds TLA+ modules of its core, the TLC configurations that check
them and proofs for TLAPS. Paths below are relative to the repository; Python
files are those of `boomarr/` unless a directory is given.

1. [The system](#the-system): inventory and what makes each part correct
2. [The modules](#the-modules): how model and code correspond
3. [The runs](#the-runs): what is model-checked, bounds, fairness
4. [The proofs](#the-proofs)
5. [Where code and documentation differ](#where-code-and-documentation-differ)
6. [What is left out](#what-is-left-out)
7. [What could come next](#what-could-come-next)

## The system

| Component | State | Operations | Interacts with |
| --- | --- | --- | --- |
| Library scan (`processor.py`, `symlinks.py`) | links, directories and temporary links in the outputs; per scan: discovered files, stamps, probe answers, expected paths, result | discover, check the input, look up, probe, store, `ensure_link`, `plan_removals`, `_remove`, `prune_empty_dirs`, `prune`; `clean_stale` | probe cache, probers, filters, removal guard (`models.py`) |
| Scan queue and worker (`daemon.py`) | request queue, debounce window, running scan, shutdown and cancel events | `request_scan`, `cancel_scan`, `request_shutdown`, `_next_event`, `_collect`, `merge_events`, `_run_scan` | triggers, web API, preflight, scan thread |
| Scan runner (`runner.py`, `hooks.py`, `metrics.py`) | report of a scan, changed outputs | `scan_libraries`, `run`, `_record`, `_run_hooks` | library scan, history, hooks (media server refresh, notifications) |
| Live reload (`daemon.py`, `triggers/`) | configuration, trigger list, store handle | `apply_config`, `_start_triggers`, `_stop_triggers` | configuration store, worker, status cache |
| Status cache (`daemon.py`, `status.py`) | cached statistics, generation, lock | `status`, `refresh_status`, `invalidate_status` | state store, worker |
| Configuration store (`config_store.py`) | file, backup, loaded configuration, etag | `document`, `save`, `import`, `load` | web API, live reload, editors of the file |
| Probe cache and history (`state.py`) | rows path -> (size, mtime, tracks); scans; meta | `get`, `put`, `delete`, `prune`, `add_scan` | library scan, web API |
| Probers (`probers/`) | Sonarr/Radarr index with a time to live | `probe`, `_refresh` | Sonarr/Radarr, ffprobe |
| Filters, languages (`filters/`, `languages.py`) | none | `matches` | library scan |
| Configuration rules (`config.py`) | none | validation, `map_to_remote`, overlap check | everything |
| Events and logs (`events.py`, `log.py`) | bounded queues, ring buffer | `publish`, `subscribe` | web sockets |
| Authentication (`auth_store.py`, `web/security.py`, `web/oidc.py`) | accounts, session version, throttle | login, setup, logout everywhere | web API |
| Web API, command line, frontend, packaging | none of their own | translate requests | everything |

**What is hard here.** Nothing locks one process against another: the daemon,
`boomarr scan` and `boomarr clean` may work on the same outputs and the same
SQLite cache at once, and each file operation of one may fall between any two of
another. Processes are killed between any two system calls. The library changes
while it is scanned, and the share it lives on may not be mounted at all. The
daemon's cancel event is one object that is set and cleared by an event loop and
read at four places by the scan thread. Requests of different kinds are merged.
A save of the configuration switches the store, the schedules and the cached
statistics under everything that runs, and waits in the middle of it. Browsers
hold documents, sessions and dashboards that are older than the server's, over
channels that drop, reorder and end.

**What makes the parts correct.**

- Scan: a scan never takes a wanted link away, not even for a moment; regular files
  stay; an unmounted share, a failed probe, a cancel and a dry run remove nothing; a
  cached probe result is trusted only for the very version of the file it was made
  from; an undisturbed scan repairs whatever was left behind; what changed is
  reported to the media server. Where Sonarr or Radarr answer for a file, or where
  `boomarr clean` runs beside a scan, some of this does not hold; see
  [below](#where-code-and-documentation-differ).
- Queue: no request is lost, none is answered by a scan that began before it, a
  real request never ends as a dry run, a shutdown always reaches the scan.
- Runner: what is stored as the last scan was complete; hooks run only for scans that
  went through all libraries, stored or not.
- Live reload: exactly the configured schedules run; a scan keeps the open store it
  began with; statistics of before a save or a scan are never served after it.
- Configuration store: a save never overwrites what its page has not fetched, changes
  what was edited and nothing else, and does not make values of the environment
  permanent; what is replaced is in the backup.
- Probe cache and history: a kill between two statements loses no reported scan and
  leaves no row of an old schema; several processes see one store.
- Authentication: what was revoked stays revoked, across restarts too; a session
  belongs to the account of now; the throttle neither locks out for ever nor lets
  more attempts through than it says.
- Events: a dashboard may miss events, but never shows a past scan for ever; a
  stream does not hold up a shutdown.
- Rules: outputs never reach into each other or into an input; the spelling of a
  language or the prober that answers does not decide where a file is linked; what
  keeps a scan from starting is what the health page says.

## The modules

| Module | Role |
| --- | --- |
| `LibraryScan` | one library, its outputs, and the processes that scan or clean it |
| `ScanService` | what the scan queue promises, as an abstract specification |
| `ScanDaemon` | the queue, the worker and the scan thread; implements `ScanService` |
| `LiveConfig` | the daemon while its configuration changes: schedules, runner, store, statistics |
| `ConfigStore` | the configuration file, the server's handling of it and everybody who writes it |
| `MemoryStore` | what a state store promises: the in-memory one |
| `StateStore` | the SQLite store, statement by statement, used by several processes; implements `MemoryStore` |
| `AuthSessions` | account, sessions, API key, single sign-on, throttle, `auth.json` |
| `EventFeed` | event bus, stream, dashboard request and the page that follows them |
| `PathRules`, `MediaRules`, `ScanChecks` | pure rules: paths and mappings; languages, tracks, filters, the index of Sonarr/Radarr; preflight, health page, notifications |
| `Rules` | the properties of the rules, over any set of inputs |
| `MCLibraryScan`, `MCScanDaemon`, `MCLiveConfig`, `MCConfigStore`, `MCStateStore`, `MCAuthSessions`, `MCEventFeed`, `MCRules` | small instances for TLC |
| `LibraryScanProofs`, `ScanDaemonProofs`, `ConfigStoreProofs`, `LiveConfigProofs`, `AuthSessionsProofs`, `StateStoreProofs`, `EventFeedProofs`, `RulesProofs` | theorems and proofs |

The modules meet at narrow places, and each takes the other side as free: a scan
may begin at any time in `LiveConfig` (its requests are `ScanDaemon`'s), the
verdict of the preflight is free in `ScanDaemon` (it is computed in `ScanChecks`),
a library scan is one step from `BeginLibrary` to `EndLibrary` there (its inside is
`LibraryScan`), the cache is a function with atomic operations in `LibraryScan`
(`StateStore` shows that the database behaves like that), and filters are sets of
contents there (`MediaRules` says which contents).

### LibraryScan

*State.* `source`, `sidecars`, `mount` are the input directory; a source file is
a version: a stamp (its size and mtime) and a content (what a probe would find).
`index[s]` is what Sonarr and Radarr said of the files when process `s` asked last;
it outlives a scan, as the pipeline keeps its probers (`pipeline.py:125-130`).
`out[o][n]` is the entry of name `n` in output `o`: nothing, a regular file, or a
link to a path of the library or to a foreign target. A name is the mirror of a
path (`Dest`) or the hidden temporary name of `SymlinkManager._replace` (`Tmp`).
`cache` is the table of `state.py`. `unreported` is history: outputs changed since
the media server was told. Everything else is per process: `pc`, the captured
command and configuration (`job`), the cancel event (`cancel`, which remembers
where it arrived), and the local variables of `LibraryProcessor` and
`SymlinkManager` in the records `walk`, `look`, `link` and `res`.

*Actions* follow `process_library`: `StartScan`; `WalkDir` and `CheckInput`
(`_discover_files`, `_input_is_usable`); `Lookup` (phase 1); `BeginProbing`,
`Probe`, `StoreProbe`, `AbortProbing`, `EndProbing` (phase 2: workers answer in
any order, the loop stores answers in the order they complete; a file in `Indexed`
may be answered for from the index, however old that is, and the index may be
fetched again at any probe: when it is too old is the subject of `MediaRules`); per output
`BeginOutput`, `EnsureLink`, then `MakeDir` and `CreateLink` for a new link or
`UnlinkTmp`, `LinkTmp`, `ReplaceTmp` for a changed one, `PlanRemovals` with the
removal guard, `RemoveLink`, `PruneDirs` (phase 3); `PruneCache` (phase 4) and
`Finish` (the end of `ScanRunner.run`: hooks). `StartClean`, `CheckClean`,
`SweepOutput`, `SweepLink` (`link.exists()`), `UnlinkStale` (`unlink` of that name,
whatever it is by then), `SweepDirs`, `EndSweep` are `boomarr clean`. One
action changes the outputs by at most one system call, and reads of the outputs that
decide on a change are steps before it.

*Environment and faults*: source files and subtitles come, change and go; the
share is unmounted, leaving a missing, an empty or a littered mount point;
filters are edited; links are edited by hand; a process is cancelled or killed;
a directory cannot be read; a link, an unlink, the database or a hook fails (after
a failure of the database the result of the library is dropped, `res.dropped`).

*Abstractions.* A filter is the set of contents it accepts, an arbitrary choice among
`FilterChoices`. The order of files, outputs and probe answers is free, which covers every
order the program can take. A link's target is the file it leads to; absolute and relative
spellings of it are one. An edit of a file always changes its size or mtime. `plan_removals`
and the listing of the links read an output in one step, and `prune_empty_dirs` removes its
empty directories in one: an `rmdir` of a directory that was filled meanwhile fails and
changes nothing. Directories are one level deep and outputs do not overlap. Regular files do
not sit at temporary names.

### ScanDaemon and ScanService

*State.* `queue`, `batch`, `worker`, `current`, `shutdown`, `cancelled` are the
attributes and locals of `Daemon`; `run`, `lib`, `report` are those of
`ScanRunner.run` in its executor thread. `lastScan`, `hooked`, `closed` and `aimed`
record what was done to which request.

*Actions.* On the event loop one action is the code between two awaits:
`RequestScan`, `CancelScan`, `RequestShutdown`, `Poll` and `WaitTimeout`
(`_next_event`, which looks at the shutdown only between waits), `Take`
(`_collect`), `GiveUp`, `SkipScan` (preflight) and `StartScan` (`_run_scan`),
`EndScan`. In the thread, `BeginLibrary`, `EndLibrary`, `MakeReport`, `Record` and
`RunHooks` each read the cancel event at most once, where the code does. `RecordFails`
is the exception that `_record` catches: the scan is not stored, and its hooks run all
the same.

*Refinement.* `ScanService` knows requests, not queues: a request is pending,
then part of the one running scan or dropped, and the kind of a scan is the merge
of its requests. `pending` is mapped to the queue and the open window, `active` to
the window of a running scan, `running` to `current`.

### LiveConfig

*State.* `config`, `state`, `runner`, `triggers`, `restart`, `generation`, `status`
and `lock` are the attributes of `Daemon`; `open` and `tasks` are what exists
whether or not the daemon still knows it: stores that are not closed and trigger
loops that run. `waiting` holds the calls of `apply_config` that are at its one
await. A trigger is its schedule and the save that built it, so two objects of the
same schedule differ. `lost` is history: the stores that a failed save closed although
the runner goes on using them.

*Actions.* `Apply` is `apply_config` up to the await, and to its end if nothing has
to be awaited. Two of its calls can raise: `ApplyFails` is the store that cannot be
opened, after the configuration was assigned; `LogFails` the log file that cannot be
opened, after the store was switched (`SwitchStore`) and before the runner is built
again. `EndTask` is the end of a cancelled trigger loop, `Resume` the rest of
`apply_config`. `StartScan`, `ScanWrites` and `EndScan` are a
scan as the rest of the daemon sees it. `StartReading`, `Read` and `Store` are
`_compute_status` with its lock and its thread. What matters is that the runner,
the store and the generation are read at different times; the counts in the
statistics are represented by the version of the outputs they saw.

### ConfigStore

*State.* `file` and `backup` on disk; `raw`, the environment and the process's
token key; `job`, the write that is under way between two system calls; per page of
the settings editor the document, its etag, the settings it locks and the edits. The
file is a record of three settings that stand for all: an ordinary one, one that an
environment variable may override and `server.api_key`, a secret. A key may be absent,
null or a value; an etag is the content. `basis`, `seen` and `exposed` are history: the
file and the environment a document was made from, and whether a write was computed
from a document in which a value of the environment passes for one of the file.

*Actions.* `Start` (`load`, with the template, the refusal of an invalid file and
another environment each time), `Kill`, `Fetch`, `Change` and `Leave` (the page), `Save`
(`PUT /config` of a page: `unmask`, `_candidate`, validation, the comparison of etags),
`SaveByScript`, `Import`, then `TruncateBackup`, `FillBackup`, `Replace`, `FailWrite` and
`Finish` (the system calls of `_write_text` and the reload), `EditByHand`. A page fetches
the document at any time, as the frontend does on focus and on `config.updated`
(`main.tsx:17`, `use-events.ts:84-86`); if it holds edits it keeps them and takes the new
etag (`config-editor.tsx:48`). Masking, unmasking, the environment and the text that is
written are operators that do what the conversions do to each of the three settings.
The environment enters in two ways: `_apply_env_vars` overrides a setting and lists
it, and a validator stands in for a key that is null without listing it
(`KeyFromEnvironment`).

*Abstractions.* Nobody edits the file by hand between the comparison of the etag and
the rename, which are a few system calls of one handler; the code has no lock
against that. Two pages cannot interfere there, since the handler does not wait.
`notifications.urls` has a validator like that of the key, but counts as overridden
whenever the list of the file is empty (`config.py:1464-1466`), so it acts like the
setting that a variable overrides.

### StateStore and MemoryStore

*State.* The file that has the name of the database, the committed contents of every
file that ever had it, and per process its connection, the statement it is at, and
the contents its open transaction would commit. A connection stays on its file when
another process deletes the name.

*Actions.* `Connect`, `FindDamage` and `Reset` (`_open_or_reset`: any `DatabaseError` while
the file is opened and checked is taken for damage, be it a lock; in a step of its own
the file that has the name by then is deleted and a new one made), then `ReadVersion`,
`DropTable`, `CreateTables`, `SetVersion` (`_check_schema_version`; each statement commits
by itself), and the operations statement by statement: `Get` and
`Forget`, `Put`, `Prune`, `InsertScan`, `TrimScans`, `SetLast`, ended by `Commit`.
`Close` is also a kill. `Damage` is the disk. SQLite's own promise (one writer,
atomic commits) is taken as given.

*Refinement.* The database that is found at the path, as a store in memory would hold
it: rows of an old schema are not there, the history is the ids in order. Every step
of every process is then one operation of `MemoryStore` or none.

### AuthSessions

*State.* The account with its version, secret and API key, in memory and in
`auth.json`; per browser its cookie (the version and the secret it was issued under)
and where its single sign-on is; per address the failures of the throttle.

*Actions.* `Setup`, `Login`, `FailedLogin`, `ChangePassword`, `RevokeSessions`,
`Logout`, `RegenerateKey`, `OidcLogin`, `OidcCallback`, `OidcComplete`, `OidcFail`,
`Restart` (with a credential of the environment, or none), `LoseFile`, `Configure`,
`Tick`. Each write of `auth.json` may fail, which the code only logs. A session that is
older than `auth.session_days` is a `Logout`. Secrets are the ordinals of their draws:
two draws never agree.

### EventFeed

*State.* What a snapshot of the daemon shows; the events of the scan thread that
wait for the loop; per page its stream, its bounded queue, its request and its
dashboard. *Actions.* The daemon's events (`RequestScan` to `FinishScan`,
`RequestShutdown`), `DeliverThread` (`call_soon_threadsafe`), `Subscribe`, `Hello`,
`Receive`, `EndStream`, `Disconnect` (the stream of `api.py` and its reader
`use-events.ts`), `Poll`, `Answer` and `Show` (the dashboard request). `missed` notes
which dashboards lack an event.

### The rules

`PathRules`, `MediaRules` and `ScanChecks` have no variables. `Rules` takes the inputs
(layouts, mappings, tracks, pictures, series of lookups, situations) as constants, makes
each an initial state and judges it by a reference definition:
sets of paths for the overlap rules, mounts for the path mappings, the languages that
are really spoken for the language filters, the resolution a release is sold as for
the resolution classes, and the two other readers of the same facts for the
preflight, the health page and the notifications. `MCRules` gives the constants small
domains; the tables of languages are cut to one language with three codes and one with
two.

## The runs

| Run | Instance | States | Checks |
| --- | --- | --- | --- |
| `scan_core` | one process, a film and its subtitle, one output, every event | 838k | `ScanConverges`, `ChangesReported`, `CancelledKeepsLinks`, `UnmountedKeepsLinks`, `WantedLinksStay`, `RegularFilesStay`, `LiveForeignStay` |
| `scan_files` | two films in two directories, one known to Sonarr/Radarr, any filter | 5.5M | `ScanConverges` where several files matter: partial walks, the guard, outdated answers |
| `scan_overlap` | two processes that scan or clean at once | 1.5M | `CacheFresh`, `WantedLinksStay` |
| `stray_mount` | a bare mount point with an entry | | `NeverEmptiedWhileUnmounted`, which is violated |
| `stale_index` | a file that Sonarr/Radarr answer for is replaced | | `AlwaysCorrect`, which is violated |
| `daemon_queue` | three requests of any kind, two libraries, cancels, a shutdown, fair | 507k | `ShutdownCancels`, `CancelIsAimed`, `LastScanComplete`, `HookedIsComplete`, `ServiceSpec`, `EveryRequestCloses`, `ShutdownStops` |
| `live_config` | two saves, four configurations, two scans, a reading thread, fair | 982k | `CleanSavesAreApplied`, `ScheduleRuns`, `ScanStoreIsOpen`, `ServedIsCurrent`, `SavesFinish` |
| `config_edits` | a page that refetches, scripts, uploads, hand edits: two writes, two processes in any environment | 866k | `EnvironmentStaysOut`, `UnseenChangesAreKept`, `UneditedSettingsAreKept`, `ReplacedIsBackedUp` |
| `state_store` | two processes, one media file, a history of two, three scans, two database files | 3.2M | `DatabaseIsSound`, `ActsAsMemory` |
| `auth_sessions` | two browsers, two credentials, three versions, one new secret or key | 1.7M | `EndedStaysEnded`, `SessionsAreOfTheAccount`, `LockoutIsExact` |
| `event_feed` | one page, a queue of two, two requests, one lost connection, fair | 399k | `CaughtUpIsCurrent`, `DashboardsConverge`, `StreamsEnd` |
| `rules` | every small input; a state is one input | 540k | `OutputsAreSafe`, `MappedPathsAgree`, `MediaIsJudgedByContent`, `IndexIsReused`, `UsersAreTold` |

### What the properties say

*Scan.* `CacheFresh`: a row that a lookup would accept describes the version that is
there, unless Sonarr or Radarr can answer for the file. `ScanConverges`: a real scan that
ran undisturbed, without errors and without a refusal of the guard leaves no broken link,
no link to another file and no temporary link, and links exactly the wanted ones of the
files that Sonarr and Radarr do not answer for, whatever was there before.
`WantedLinksStay`: no step of a scan makes the entry of a path disappear that matches and
did not change since that scan began, with the same exception. `RegularFilesStay`: what is
no link is neither removed nor replaced. `LiveForeignStay`: a working link that leads
elsewhere stays, unless it has the name of a file that the scan links; then it becomes
that very link. `CancelledKeepsLinks`, `UnmountedKeepsLinks`: a dry run, an early cancel and
an unmounted share change nothing. `ChangesReported`: a scan that runs its hooks hands them
every output in which it changed a link, whatever links, removals or directories failed,
unless the result was dropped because the probe cache raised.

*Queue.* `ShutdownCancels`, `CancelIsAimed`: the cancel event is cleared neither too
often nor too rarely. `LastScanComplete`: the places that read the cancel event never
disagree in a harmful way. `HookedIsComplete`: nor do hooks run for a scan that left out a
library, also if the scan could not be stored. `ServiceSpec`: the queue is the abstract
service. `EveryRequestCloses`, `ShutdownStops`.

*Live reload.* `CleanSavesAreApplied`: saves that do not overlap and do not fail leave
exactly the saved schedules running, with the runner, store and restart
flag of the configuration. `ScheduleRuns`: however saves overlap, every schedule of the
configuration runs. `ScanStoreIsOpen`: the store a scan began with is open until the
scan ends, unless a save that failed at its log file had closed it before. `ServedIsCurrent`:
statistics served from the cache are those of the configuration and the outputs of now,
however their thread overlapped with saves and scans. `SavesFinish`.

*Configuration file.* `UnseenChangesAreKept`: a page replaces only the version of the file
that it fetched last. `UneditedSettingsAreKept`: a save leaves every setting that was not
edited as it was, masked secrets and overridden settings included, if its document was
made from the file it replaces, in the environment of now (`Current`).
`EnvironmentStaysOut`: the environment's values never reach the file or the backup, apart
from the two ways that `exposed` notes. `ReplacedIsBackedUp`: what a write replaces is in
the backup as a whole before it is gone.

*Database.* `DatabaseIsSound`: wherever processes are killed, scans whose id was handed
out are in the history until enough newer ones are, and rows that are read are of this
schema. `ActsAsMemory`: see above; the deletion of a database is the step to an empty
store.

*Sign-in.* `EndedStaysEnded`: revoked sessions and replaced keys are never accepted again,
across restarts and losses of `auth.json`. `SessionsAreOfTheAccount`. `LockoutIsExact`: after
exactly the wait it is told an address may try again, one unit earlier it may not.

*Events.* `CaughtUpIsCurrent`: a page that handled its events shows the scan of now
unless its dashboard misses an event. `DashboardsConverge`: whatever was dropped,
overtaken or counted twice, dashboards agree with the daemon once it is quiet.
`StreamsEnd`: a shutdown ends every stream.

*Rules.* `OutputsAreSafe`: in an accepted layout no path belongs to two outputs or to an
output and an input. `MappedPathsAgree`: mappings behave like mounts and back, and Plex is
asked to rescan every section an output is in. `MediaIsJudgedByContent`: spelling, prober and
crop do not decide where a file is linked. `IndexIsReused`: Sonarr/Radarr is asked at most
once per lifetime of the index, also while it fails. `UsersAreTold`: a skipped scan has its
check on the health page, and notifications agree with that page.

### Bounds and why they are enough

Every bound is a constant with `Max` in its name, and a guard of the action it limits.

- *Scan.* `MaxBudget` bounds the steps of the environment (edits, crashes, faults) of one
  behaviour to one or two, `MaxClock` the number of versions written; scans are not
  bounded, so any number of them runs between, before and after those steps. Two
  disturbances give every pair "left behind by one, met by the other" (a crash, then an
  edit; an unmount, then a remount). Two contents are one that a filter accepts and one
  that it does not; two media files with `MinCount = 1` and 50 percent are the smallest
  library in which the guard refuses some removals and lets others pass. Two processes
  exhibit all pairwise races; a third adds no new kind of conflict on one name.
- *Queue.* Three requests fill a window, the queue behind it and the running scan at once.
- *Live reload.* Two saves overlap in every way a pair can. Pairs of the four
  configurations differ in one or several of the settings that are compared, and have
  no, one or two schedules, one of them shared.
- *Configuration file.* Two writes and two processes: one change between the opening of a
  page and its save, one restart between them. One page, because whatever a second one
  writes a script writes too; the proofs are about any number.
- *Database.* A history of two and three scans reach the trim; two files let one be
  deleted while a connection is on it. Processes are symmetric.
- *Sign-in.* Three versions: one to issue a session, one to revoke it and one to be
  mistaken for it. Two failures and a window of one unit, over two ticks, let failures
  expire one by one.
- *Events.* A queue of two is full after two events; two scans follow each other. One
  page, because pages share nothing.
- *Rules.* Two names and paths up to three long give equal, nested, sibling and unrelated
  directories; two libraries with up to two outputs, two mappings, two audio tracks.

`UserDuringScan = FALSE` assumes that nobody edits outputs by hand while a process is
at work, `EnvSecret = FALSE` that cookies are signed with the drawn secret. The section on
[code and documentation](#where-code-and-documentation-differ) says what happens without
them. `Indexed` is the set of files that Sonarr or Radarr answer for; it is empty in
`scan_core` and `scan_overlap`, whose properties leave such files out, and holds one of two
files in `scan_files`, where the other must not suffer from it.

Deadlock is checked in all scan runs. The other runs say `CHECK_DEADLOCK FALSE`, because
their systems stop: the worker and the streams after a shutdown, the other modules when
their bounds are used up; `rules` does not move at all.

### Fairness

Fairness is weak everywhere, and of steps that the program itself takes.

- *Queue*: the worker, the end of the debounce window (its deadline is fixed by the first
  request) and the scan thread.
- *Live reload*: a cancelled trigger loop ends, a call whose triggers have ended goes on,
  a thread that reads the store comes back.
- *Events*: the worker, the callbacks of the loop, the stream and the browser's timers and
  requests.

No fairness is assumed of requests, cancels, shutdowns, saves, edits or faults. The
remaining modules have no liveness properties: their loops and handlers are finite, and
whether a probe answers is a matter of time limits outside the models.

### Mutants

Each property is shown to be able to fail: definitions whose name ends in `Bug`, beside
the definition they imitate, are plausible mistakes (a row stored under the stamp after
the probe, a link removed before it is replaced, a cancel event that is not cleared, a
store closed under a scan, an etag that is not compared, a history trimmed one too short,
a version that is not counted up, ...), and with one in place TLC finds the property violated.

## The proofs

TLC checks the instances above; TLAPS proves the following for every number of
processes, files, outputs, requests, pages, saves, browsers and steps. The proofs use
the named assumptions of the modules (paths are disjoint, sentinels are no values, the
bounds are numbers), which TLC evaluates in every run, and the assumptions of the
table. None depends on the size of a bound.

| Theorem | Says |
| --- | --- |
| `ScanDaemonProofs!DaemonImplementsService` | `Spec => ServiceSpec` |
| `ScanDaemonProofs!ShutdownReachesScan`, `CancelHitsItsScan`, `StoredScanIsComplete` | `ShutdownCancels`, `CancelIsAimed`, `LastScanComplete` |
| `ScanDaemonProofs!HookedScanIsComplete`, `TypeCorrect` | `HookedIsComplete`, `TypeOK` |
| `LibraryScanProofs!TypeCorrect` | `Spec => []TypeOK` |
| `LibraryScanProofs!CacheStaysFresh`, `CutOffScansKeepLinks` | `CacheFresh`, `CancelledKeepsLinks` |
| `LibraryScanProofs!WantedLinksAreKept`, `UnmountedLibrariesAreKept` | `WantedLinksStay`, `UnmountedKeepsLinks` |
| `LibraryScanProofs!ScansConverge` | `ScanConverges` |
| `LibraryScanProofs!RegularFilesAreKept`, `LiveForeignLinksAreKept` | `RegularFilesStay`, `LiveForeignStay`, if `UserDuringScan = FALSE` |
| `LibraryScanProofs!ChangesAreReported` | `ChangesReported` |
| `ConfigStoreProofs!BackupIsComplete` | `ReplacedIsBackedUp` |
| `ConfigStoreProofs!UnseenChangesAreNotReplaced` | `UnseenChangesAreKept` |
| `ConfigStoreProofs!OnlyEditsAreSaved` | `UneditedSettingsAreKept` |
| `ConfigStoreProofs!EnvironmentIsNotStored` | `EnvironmentStaysOut` |
| `LiveConfigProofs!ScansKeepTheirStore`, `NothingOutdatedIsServed` | `ScanStoreIsOpen`, `ServedIsCurrent` |
| `LiveConfigProofs!SavesAreApplied`, `NoScheduleIsLost` | `CleanSavesAreApplied`, `ScheduleRuns` |
| `AuthSessionsProofs!EndedSessionsStayEnded`, `SessionsBelongToTheAccount` | `EndedStaysEnded`, `SessionsAreOfTheAccount`, if `~EnvSecret` |
| `AuthSessionsProofs!LockoutsAreExact` | `LockoutIsExact` |
| `StateStoreProofs!DatabaseStaysSound` | `DatabaseIsSound` |
| `StateStoreProofs!DatabaseActsAsMemory` | `Spec => ActsAsMemory` |
| `EventFeedProofs!CaughtUpPagesAreCurrent` | `CaughtUpIsCurrent` |
| `RulesProofs!AcceptedOutputsAreSafe`, `MappingsAgree` | `OutputsAreSafe`, `MappedPathsAgree` |
| `RulesProofs!ContentDecides`, `IndexIsAlwaysReused`, `UsersAreAlwaysTold` | `MediaIsJudgedByContent`, `IndexIsReused`, `UsersAreTold` |

*The daemon.* The inductive invariant `IInv` adds to the types that the worker
waits exactly while a scan runs and a window is never empty (`WorkerState`), that a
request is in one place and only once (`OnePlace`, which the refinement needs: taking
the batch out of the pending set must not take a request that is still queued),
that requests which wait were in no scan yet (`NotYetScanned`), and what the thread
may conclude at each of its readings of the cancel event (`ThreadState`: the event
is never cleared while a scan runs, so a report that says "not cancelled" covered all
libraries). Each action of the daemon then maps to one action of the service or to
none. `ShutdownCancels` and `CancelIsAimed` are inductive as they stand.

*The cache.* `CacheFresh` is not inductive: a probe may answer before a file is
replaced and be stored afterwards. `FreshInv` adds that the index knows nothing of the
files it does not answer for (`IndexScope`), that no stamp is younger than the
newest version (`StampsPast`), that stamps are taken before the first answer
(`StatBeforeProbe`), and that an answer which is not stored yet is right or carries
an outdated stamp (`AnswersFresh`). Replacing a file makes a version younger than
every stamp anybody holds, so it invalidates rows and answers alike.

*Cancelled scans and dry runs.* `CutOffInv` adds which places such a scan can be at;
a lemma that no step of one process touches the private state of another
(`OthersKept`) reduces the proof to the process that moves.

*Wanted links.* `WantedInv` follows a path that stays as it is through the scan: it is
visible; the walk has found it or its directory is still to be read; what is known of its
tracks is right or nothing, by `FreshInv` both for rows and for answers, because the stamp
taken of such a file is still its stamp (`Surveyed`); so a wanted path is expected or
preserved, and its link is in no removal plan (`Spares`). `EntriesStay` shows that
only `RemoveLink` and `UnlinkStale` can take an entry away, and a scan takes no step of the
second kind. Steps of other processes and of the
environment only take paths out of the set of stable ones (`Undisturbed`).

*Convergence.* `ConvergeInv` is the other half. A scan that runs alone and has met no
trouble (`Converging`) has found exactly the visible files and has an answer for each
(`Informed`). What it expects in the output at hand exists and is, but for the files whose
answer may be outdated, what belongs there (`Meets`); the links it has gone past are right,
and its removal plan holds everything that is left to take away (`Aligned`). An output it is
done with is in line, unless the guard refused its removals (`Settled`). Nobody else writes
meanwhile, so what is settled stays so.

*Files and links of others.* A removal plan is unlinked by name, long after it was made.
`ForeignInv` says that its names, and the name that a clean has found broken, hold nothing
that must stay, that a link about to be replaced is no regular file, and that temporary
names hold only links of their own. `BookInv` adds that what is being linked is expected,
so that a link that replaces another is the expected one (`WritesAreExpected`).
Every step of every process is gentle: it changes only links and free names and makes
no entries but links into the library (`StepsAreGentle`), so plans stay harmless
(`HarmlessFrame`) as long as nobody edits the outputs meanwhile.

*The unmounted share.* `AwayInv`: an undisturbed process runs alone, and if the share is
away it has found no file, and past `_input_is_usable` there is no link in any output, so
that there is nothing to link, to remove or to sweep.

*The report.* `ReportInv`: while an output is reconciled, its changes are in the flags of
its `ReconcileResult`, and in `changed_outputs` once it is done. The one way out is
the probe cache that raises after links were changed: it drops the result
(`runner.py:163`), and the property says so.

*The configuration file.* All four theorems rest on `Base`: the types, and at which stage of a
write the backup is whole (`JobOK`). That unseen changes are kept needs that the file does
not change under a write that has begun, and that its page is not refetched meanwhile
(`WriterIsCurrent`). That the environment stays out is not a property of the file alone,
since its values reach every page and come back: `OutInv` says that what is loaded and what
is about to be written are free of them, that a page shows an overriding value only if it
was opened under one, and that keys of the environment are on pages as tokens only. The
save of a page takes both out again (`TextIsOwn`) as long as the environment is the one
the page was opened in and no key is null, which is what `exposed` notes.

*Settings that were not edited.* `EditInv` says of a page that its document copies the file
it was made from, up to the mask and the environment (`PagesShow`), and of the write that is
under way that it has each setting either from the document or from what is loaded
(`WriterSaves`). A setting that the environment overrides comes back from what is
loaded, not from the page. That the etag matches is therefore not enough: the page may have
taken a new etag under its edits, and another save and a hand edit that puts the first
file back make an old one valid again while the server has something else loaded. The
property has to say that the document's file, the loaded one and the one on disk agree.

*Live reload.* `StoreInv`: the current store is open, and the runner and the scan have that
one, an older one that was kept open for a scan, or one that is `lost`. `ServedInv`:
statistics are current if their generation is, up to a running scan or a waiting save, of
which each ends with a new generation. `CleanInv`: without overlap the one save that waits
is of the current configuration and waits for all triggers. With overlap that is lost;
`ScheduleInv` says what remains: the schedules of the configuration are run by triggers that
no waiting save will stop (`Provided`, with `Doomed` the others), or the last save that
waits will start them. It needs that trigger objects are new (`Fresh`), so that a trigger
that is started is never one that is being waited for.

*Sessions.* `SessionInv` compares cookies with the state of the process only if they carry
its secret: such a cookie has a version that is not in the future, an older one if it was
revoked, and the account of now if the version is that of now; `auth.json` holds what
the process knows or nothing; keys that were replaced are older draws.

*The throttle.* `ThrottleInv`: the failures of an address rise, none is later than now, and
there are never more than the limit. Because they rise, dropping old failures from the front
until one is recent (`_prune`) drops all old ones and no others; because there are no more
than the limit, the wait ends exactly when the oldest of a full window expires.

*Events.* `FeedInv` compares, for each page, the queue with the daemon: the last event of a
queue that tells whether a scan runs tells it right, and so does the last one that tells the
progress if the scan thread has nothing under way (`Tracks`); where the queue is silent, the
dashboard shows it already (`Fits`), and so does a reply that is still to be shown and is not
outdated (`Promising`). An empty queue is silent.

*The database.* `Inv` adds to what is promised of the files the same for the contents a
transaction would commit together with the id it will promise (`DraftInv`), and that one
process at a time writes a file (`OneWriter`), so that a commit never undoes another.
`DatabaseActsAsMemory` adds `Exact`: the history is exactly the window of the newest ids, an old
version has no rows in a new table, and a transaction that is about to commit differs from
the committed contents by one operation (`Operation`) or is the insertion that waits for its
trim (`Inserted`). Every commit is then one operation of the store in memory and every other
statement none.

*The rules.* A state of `Rules` is one input and never changes, so each theorem is a lemma
about the operators for every input the assumptions allow: `NamesMakePaths`,
`LayoutsAreOfPaths` and the others say only what kind of thing an input is. Two trees share
a path only if both roots are prefixes of it, and then one is a prefix of the other. The
longest mapping that applies is the last mount above a path because two directories above
the same path are comparable by their lengths. The filters see tracks only through the
languages and heights that their spellings stand for. The index is a recursive
function of the number of lookups.

*Induction.* The library's induction theorems cannot be used (they take an operator), so what
needs induction is proved from the least element of a set of numbers: that one exists
(`NaturalsInduction` states it for sets), and that the least counterexample cannot be one.
The recursion of the index is solved in the same way, by the function that every shorter
series defines.

Operators the proofs are about are written so that TLAPS can expand them: the history of
the database is the increasing enumeration of its ids (`History`), old failures are
dropped one prefix at a time (`Stale`), the index is a recursive function (`MediaRules!Indexed`).
They mean what the sorts and folds of the community modules mean.

Every safety property that a passing run checks is the statement of a theorem. Only
model-checked are the liveness properties (`EveryRequestCloses`, `ShutdownStops`,
`SavesFinish`, `DashboardsConverge`, `StreamsEnd`), which rest on fairness and are out of
this prover's reach.

## Where code and documentation differ

What the documentation or a comment says and the code does not do. The first two have a
run. For the others the step of the model is named that shows it, and where the claim has a
formula of its own or a constant excludes the case, that formula or constant, which can be
put into a configuration.

*Of the library scan*

- *`boomarr clean` on a bare mount point* (`stray_mount`, `NeverEmptiedWhileUnmounted`). It takes
  any entry in the mount point for a mounted share and has no removal guard, so it can empty
  an output (`processor.py:352`); `README.md:64` says that an unmounted share never does.
- *Answers of an outdated index* (`stale_index`, `AlwaysCorrect`). Sonarr and Radarr are asked
  for all files at once and the answer is kept for `cache_ttl`, across scans
  (`probers/arr.py:151-170`, `pipeline.py:125-130`). A file that is replaced meanwhile is
  answered for with its old tracks, and these are stored under its new stamp
  (`processor.py:169-172`), so that every later scan trusts them. The link is then wrong, or
  missing, until the file changes once more; `docs/how-it-works.md:37-39` says that the
  output "is always correct after a scan". `CacheFresh`, `WantedLinksStay` and `ScanConverges`
  leave out the files in `Indexed`.
- *`boomarr clean` beside a scan* (`SweepLink`, `UnlinkStale`). Clean finds a link broken
  (`symlinks.py:183-184`), a scan replaces it by the right one (`symlinks.py:72`), and clean
  unlinks that (`symlinks.py:210`). The next scan links it again. `WantedLinksStay` is
  therefore about the steps of scans.
- *Files put in place of links during a scan or clean* (`UserDuringScan = TRUE` breaks
  `RegularFilesStay`). A regular file that takes the name of a link between the plan, or the
  test of clean, and the unlink is deleted (`symlinks.py:210`), and one that takes it while
  the link is changed is replaced (`symlinks.py:60-72`), against `symlinks.py:3-5`.
- *Empty directories* (`PruneDirs`, `SweepDirs`). Every empty directory of an output is
  removed (`symlinks.py:189-203`), also one that a user made and no link was ever in;
  `symlinks.py:3-5` and `docs/how-it-works.md:47-48` speak of those left empty by removing
  links. No property demands or forbids it.
- *Foreign links* (`ForeignLinksStay`). A link that points outside the input directory is
  removed when it is broken (`symlinks.py:157`), and replaced, working or not, when it has
  the name of a wanted one (`symlinks.py:60-72`); `docs/how-it-works.md:49-50` says that such
  links are left alone. `LiveForeignStay` says what remains of that.
- *Lost refreshes.* A scan cancelled while it links changes an output, but its hooks are
  skipped (`runner.py:220`); and if the probe cache raises after links were changed, the
  result is dropped while the hooks run without it (`runner.py:163`, `StoreFails`). The next
  scan finds nothing to change, so the media server is never told
  (`docs/configuration.md:349-350`).
- *Partly readable trees* (`WalkFails`). `os.walk` skips a directory it cannot read, and the
  links of what is in it are removed, up to the removal guard.

*Of the daemon*

- *Merged requests* (`ForceKept`). The `force` of a dry run is dropped when it is merged with a
  real scan (`daemon.py:63`, against `daemon.py:53-54`).
- *Saves that overlap or fail* (`SavedIsApplied`). Two saves that both wait for schedules to
  end each start their own; the schedules of the first are forgotten and run on until
  the process ends (`daemon.py:180`). If the new database or the new log file cannot be
  opened the configuration is already assigned (`daemon.py:170`), and saving again finds no
  difference. If it is the log file (`daemon.py:176-177`, `LogFails`), the old store is
  already closed (`daemon.py:172-175`) and the runner still has it, so the next scan begins
  with a closed store. `docs/web-ui.md:46-47` says that saves are applied immediately.

*Of the configuration file*

- *Edits of the file while a page is open* (`Fetch`). `docs/web-ui.md:61-62` says that saving
  is refused "if the file changed on disk after you opened the page". The page fetches
  the document again on focus and after each save of another (`main.tsx:17`,
  `use-events.ts:84-86`); if it has edits it keeps them and sends the new etag
  (`config-editor.tsx:48`), so the other change is overwritten without a conflict.
  `UnseenChangesAreKept` speaks of the last fetch.
- *Edits of the file before a page is opened.* The document is the loaded configuration, the
  etag that of the file (`config_store.py:276-285`): a page opened after an edit by hand that
  the server did not read yet overwrites it. `UneditedSettingsAreKept` leaves this out by
  `basis`.
- *A file that is put back by hand.* A page is open, another save replaces the file, and a hand
  edit restores the first one: the page's etag is valid again while the server still has the
  other file loaded, and a setting that the environment overrides is then saved with the
  value of the other file (`config_store.py:305`, `:334`). `UneditedSettingsAreKept` leaves
  this out by `raw = file`.
- *A key that is null* (`FallsBack`). With `api_key: null` in the file, or sent by a page that
  clears the key, the validator takes the environment's (`config.py:535-541`), but the key is
  not counted as overridden (`config.py:1459-1463`), so the next save writes the
  environment's key into the file; `docs/web-ui.md:66-68` and `config_store.py:129-131` say
  that it never does.
- *Another environment after a restart* (`Start`). A page that shows the environment's value saves
  it as its own once the variable is gone (against the same lines).

*Of the database*

- *Opening an intact database* (`FindDamage`). Every `sqlite3.DatabaseError` while it is opened and
  checked deletes it, also "database is locked" (`state.py:332-339`);
  `docs/how-it-works.md:63-64` speaks of a corrupt or outdated cache. A process that has it
  open goes on writing to the deleted file.
- *Two processes that open a damaged database* (`Reset`). The test is made on a connection, the
  deletion by name (`state.py:292-293`): the second process deletes the database that the
  first has made. Two that open an outdated one at once may drop each other's table.

*Of the web interface*

- *A fixed secret and a lost `auth.json`* (`EnvSecret = TRUE` breaks `EndedStaysEnded`). The
  version starts again at 1, so revoked cookies of that version are accepted.
- *The throttle.* `docs/web-ui.md:103-105` says that an address is locked out for five minutes;
  the code uses a sliding window, so the wait is what is left of it.
- *Counts of the dashboard.* Requests that are merged or skipped leave `queued` too high on
  the page, a request between the subscription and the hello is counted twice, and a reply
  may overwrite newer events; if the end of a scan is dropped the page shows the scan until its
  next poll. `DashboardsConverge` says that the poll repairs all of these.
- *Plex sections above a mapped directory.* A section whose location contains the remote
  directory of a mapping is not found, because it has no local path; `SectionsAreRefreshed`
  leaves it out.

## What is left out

*Assumed of the surroundings.* The file system's single calls are atomic, as are SQLite's
commits; an edit of a media file changes its size or mtime; cryptography works; external
answers (ffprobe, Sonarr/Radarr, media servers, the OpenID provider) are free choices among
the answers the code handles.

*Not modelled, because it holds no state or only reads it*: log, error and report texts, the
ring buffer of log lines, metrics formats, counters of cache hits, the queries of the history
page, HTTP payloads, rendering, argument parsing, packaging and deployment; the ranges and
defaults of single settings; filters that compare one value (codecs, file extensions).

*Not modelled, because the logic is another's*: when a cron schedule fires next (croniter),
the JWKS and metadata caches of the OpenID client, proxy headers, the setup token.

*Cut short.* Requests that a dying web server still accepts after the worker has stopped.
Users of single sign-on are not told apart. Sonarr/Radarr report one number of channels for all
tracks of a file, and `MediaIsJudgedByContent` compares files in which they agree. The
percentage of the removal guard counts links of the same scan as existing
(`models.py:140`), so that a dry run may foretell another verdict; this is part of
`LibraryScan`, but nothing in the repository says which of the two is meant, so no property
speaks of it.

## What could come next

- Two pages of `ConfigStore` together with `LiveConfig`, which today are joined by the
  sequence of saved configurations only.
- The OpenID client's own state (`web/oidc.py`): pending logins and the cached keys.
- The validation of single settings, as far as two of them depend on each other.
