----------------------------- MODULE LiveConfig -----------------------------
(* What a running daemon does when its configuration changes (daemon.py):
   apply_config switches the state store, the scan runner, the schedules and
   the cached dashboard statistics while scans run, schedules fire, dashboards
   are served and further saves arrive.

   Everything on the event loop is atomic between two awaits.  apply_config
   has one: it waits for the old schedules to end.  The scan, the statistics
   and the history pages read the store in threads of their own.

   A configuration is what the daemon compares: its schedules, its database,
   its logging and the listener settings of the web server that need a restart. *)
EXTENDS Naturals, Sequences, FiniteSets

CONSTANTS
    Schedule,     \* schedules a configuration may ask for
    Database,     \* databases it may name
    Logging,      \* log settings
    Listener,     \* listener settings
    Config,       \* the configurations that are saved
    Reader,       \* threads that read the store for the web interface
    None,         \* nothing
    MaxSaves, MaxDisk, MaxScans  \* bounds: saves, changes of the outputs, scans

Handle == 0 .. MaxSaves          \* a store opened by the n-th save (0: at start)
Trigger == Schedule \X (0 .. MaxSaves)  \* a trigger object built by the n-th save

ASSUME Bounds == MaxSaves \in Nat /\ MaxDisk \in Nat /\ MaxScans \in Nat
ASSUME Configs == Config \subseteq
    [triggers: SUBSET Schedule, database: Database, logging: Logging, server: Listener]
ASSUME NoneIsNothing ==
    None \notin Handle /\ None \notin Config /\ None \notin [config: Config, store: Handle]

VARIABLES
    config,     \* Daemon.config
    booted,     \* the listener settings the web server was started with
    state,      \* Daemon.state: the current store
    open,       \* the stores that are not closed
    runner,     \* Daemon.runner: the configuration and the store scans use
    triggers,   \* Daemon.triggers: the trigger objects it would stop
    tasks,      \* the trigger objects whose loop runs
    waiting,    \* saves that wait for schedules to end, first come first served
    saves,      \* number of saves
    restart,    \* Daemon.restart_required
    scans,      \* number of scans
    scan,       \* the runner of the scan that runs, or None
    disk,       \* how often the outputs changed
    generation, \* Daemon._status_generation
    status,     \* Daemon._status: generation and data, or None
    lock,       \* who holds Daemon._status_lock, or None
    reader,     \* per thread: idle, reading (since when, with what), failed
    tangled,    \* history: a save began while another was waiting
    broken,     \* history: a save failed half way
    lost        \* history: stores such a save closed although the runner uses them

loop    == <<config, booted, state, open, runner, triggers, tasks, waiting, saves, restart>>
worker  == <<scans, scan, disk>>
cache   == <<generation, status, lock, reader>>
history == <<tangled, broken, lost>>
vars    == <<loop, worker, cache, history>>

Build(c, n) == c.triggers \X {n}
Idle == [at |-> "idle", gen |-> 0, config |-> None, store |-> None, disk |-> 0]

Init ==
    /\ config \in Config
    /\ booted = config.server
    /\ state = 0 /\ open = {0}
    /\ runner = [config |-> config, store |-> 0]
    /\ triggers = Build(config, 0) /\ tasks = triggers
    /\ waiting = <<>> /\ saves = 0 /\ restart = FALSE
    /\ scans = 0 /\ scan = None /\ disk = 0
    /\ generation = 0 /\ status = None /\ lock = None
    /\ reader = [r \in Reader |-> Idle]
    /\ tangled = FALSE /\ broken = FALSE /\ lost = {}
----------------------------------------------------------------------------
(* apply_config.  Definitions whose name ends in Bug are mutants of the
   definition after them. *)

Scanning == scan # None

\* The old store is closed only if no scan uses it; one that was kept open for
\* a scan is never closed.
AfterSwitchBug(n) == (open \union {n}) \ {state}
AfterSwitch(n) == (open \union {n}) \ (IF Scanning THEN {} ELSE {state})

\* The runner is built after the store was switched.
RunnerOfBug(c, old, new) == [config |-> c, store |-> old]
RunnerOf(c, old, new) == [config |-> c, store |-> new]

\* Schedules are restarted only if they differ.
TriggersDifferBug(c) == (c.triggers = {}) # (config.triggers = {})
TriggersDiffer(c) == c.triggers # config.triggers

\* What runs once the schedules are in place: the restart flag is computed from
\* the configuration of this save, and the statistics become outdated.
Conclude(c) ==
    /\ restart' = (c.server # booted)
    /\ generation' = generation + 1

\* The store of a save: a new one if the database changes, and the old one closed.
SwitchStore(c) ==
    IF c.database # config.database
    THEN state' = saves + 1 /\ open' = AfterSwitch(saves + 1)
    ELSE UNCHANGED <<state, open>>

\* A save, up to its await: configuration, store and runner are switched; if
\* the schedules change, the old ones are told to end.
Apply(c) ==
    /\ saves < MaxSaves
    /\ LET n == saves + 1
           stop == TriggersDiffer(c)
           quick == stop /\ triggers \cap tasks = {}
       IN /\ saves' = n
          /\ config' = c
          /\ SwitchStore(c)
          /\ runner' = RunnerOf(c, state, state')
          /\ IF stop /\ ~quick
             THEN /\ waiting' = Append(waiting, [n |-> n, config |-> c, for |-> triggers])
                  /\ UNCHANGED <<triggers, tasks, restart, generation>>
             ELSE /\ triggers' = IF stop THEN Build(c, n) ELSE triggers
                  /\ tasks' = IF stop THEN tasks \union Build(c, n) ELSE tasks
                  /\ Conclude(c)
                  /\ UNCHANGED waiting
          /\ tangled' = (tangled \/ waiting # <<>>)
    /\ UNCHANGED <<booted, worker, status, lock, reader, broken, lost>>

\* The new database cannot be opened: the configuration is already assigned,
\* everything else is not.
ApplyFails(c) ==
    /\ saves < MaxSaves
    /\ c.database # config.database
    /\ saves' = saves + 1
    /\ config' = c
    /\ broken' = TRUE
    /\ UNCHANGED <<booted, state, open, runner, triggers, tasks, waiting, restart,
                   worker, cache, tangled, lost>>

\* The new log file cannot be opened: the store is already switched, and the
\* runner still has the old one.
LogFails(c) ==
    /\ saves < MaxSaves
    /\ c.logging # config.logging
    /\ saves' = saves + 1
    /\ config' = c
    /\ SwitchStore(c)
    /\ broken' = TRUE
    /\ lost' = lost \union ({runner.store} \ open')
    /\ UNCHANGED <<booted, runner, triggers, tasks, waiting, restart, worker, cache,
                   tangled>>

\* A schedule that a waiting save cancelled ends.
EndTaskBug(t) ==
    /\ \E i \in 1 .. Len(waiting) : t = CHOOSE x \in waiting[i].for : TRUE
    /\ t \in tasks
    /\ tasks' = tasks \ {t}
    /\ UNCHANGED <<config, booted, state, open, runner, triggers, waiting, saves,
                   restart, worker, cache, history>>
EndTask(t) ==
    /\ \E i \in 1 .. Len(waiting) : t \in waiting[i].for
    /\ t \in tasks
    /\ tasks' = tasks \ {t}
    /\ UNCHANGED <<config, booted, state, open, runner, triggers, waiting, saves,
                   restart, worker, cache, history>>

\* The save that waited longest goes on: it replaces the list of triggers,
\* whatever the list is by now.
Resume ==
    /\ waiting # <<>>
    /\ LET w == Head(waiting) IN
         /\ w.for \cap tasks = {}
         /\ triggers' = Build(w.config, w.n)
         /\ tasks' = tasks \union Build(w.config, w.n)
         /\ Conclude(w.config)
    /\ waiting' = Tail(waiting)
    /\ UNCHANGED <<config, booted, state, open, runner, saves, worker, status, lock,
                   reader, history>>
----------------------------------------------------------------------------
(* Scans.  What asks for them (schedules, buttons, webhooks) and how requests
   become scans is the subject of ScanDaemon; here one may begin at any time. *)

\* The runner is read when the scan begins and used until it ends.
StartScan ==
    /\ ~Scanning /\ scans < MaxScans
    /\ scans' = scans + 1
    /\ scan' = runner
    /\ UNCHANGED <<loop, disk, cache, history>>

ScanWrites ==
    /\ Scanning /\ disk < MaxDisk
    /\ disk' = disk + 1
    /\ UNCHANGED <<loop, scans, scan, cache, history>>

EndScan ==
    /\ Scanning
    /\ scan' = None
    /\ generation' = generation + 1
    /\ UNCHANGED <<loop, scans, disk, status, lock, reader, history>>
----------------------------------------------------------------------------
(* The statistics of the dashboard. *)

Cached == status # None /\ status.gen = generation

\* _compute_status, past the lock: unless the statistics were computed in the
\* meantime a thread starts, with the configuration and the store of now.
\* Statistics older than STATUS_MAX_AGE are computed again even so.
StartReading(r) ==
    /\ reader[r].at = "idle" /\ lock = None
    /\ lock' = r
    /\ reader' = [reader EXCEPT ![r] =
          [at |-> "reading", gen |-> generation, config |-> config, store |-> state, disk |-> 0]]
    /\ UNCHANGED <<loop, worker, generation, status, history>>

\* The thread counts the links and queries the store; a store that was closed
\* raises, and the lock is released.
Read(r) ==
    /\ reader[r].at = "reading"
    /\ reader' = [reader EXCEPT ![r] =
          IF reader[r].store \in open THEN [@ EXCEPT !.at = "read", !.disk = disk]
          ELSE Idle]
    /\ lock' = IF reader[r].store \in open THEN lock ELSE None
    /\ UNCHANGED <<loop, worker, generation, status, history>>

\* The generation is the one read before the thread was started.
StampBug(r) == generation
Stamp(r) == reader[r].gen

Store(r) ==
    /\ reader[r].at = "read"
    /\ status' = [gen |-> Stamp(r), config |-> reader[r].config, disk |-> reader[r].disk]
    /\ reader' = [reader EXCEPT ![r] = Idle]
    /\ lock' = None
    /\ UNCHANGED <<loop, worker, generation, history>>

Save == \E c \in Config : Apply(c) \/ ApplyFails(c) \/ LogFails(c)
Triggers == \E t \in Trigger : EndTask(t)
Statistics == \E r \in Reader : StartReading(r) \/ Read(r) \/ Store(r)

Next == Save \/ Triggers \/ Resume \/ StartScan \/ ScanWrites \/ EndScan \/ Statistics

Spec == Init /\ [][Next]_vars

\* The event loop runs what is ready: a cancelled schedule ends, a save whose
\* schedules have ended goes on, a thread that reads comes back.
Fairness ==
    /\ WF_vars(Triggers) /\ WF_vars(Resume)
    /\ \A r \in Reader : WF_vars(Read(r) \/ Store(r))

FairSpec == Spec /\ Fairness
----------------------------------------------------------------------------
(* Properties. *)

Waiting == [n: 1 .. MaxSaves, config: Config, for: SUBSET Trigger]
RunnerState == [config: Config, store: Handle]

TypeOK ==
    /\ config \in Config /\ booted \in Listener
    /\ state \in Handle /\ open \in SUBSET Handle
    /\ runner \in RunnerState
    /\ triggers \in SUBSET Trigger /\ tasks \in SUBSET Trigger
    /\ waiting \in Seq(Waiting)
    /\ saves \in 0 .. MaxSaves /\ restart \in BOOLEAN
    /\ scans \in 0 .. MaxScans /\ scan \in RunnerState \union {None}
    /\ disk \in 0 .. MaxDisk
    /\ generation \in Nat
    /\ status \in [gen: Nat, config: Config, disk: 0 .. MaxDisk] \union {None}
    /\ lock \in Reader \union {None}
    /\ reader \in [Reader -> [at: {"idle", "reading", "read"}, gen: Nat,
                              config: Config \union {None}, store: Handle \union {None},
                              disk: 0 .. MaxDisk]]
    /\ tangled \in BOOLEAN /\ broken \in BOOLEAN /\ lost \subseteq Handle

Settled == waiting = <<>>
Specs(ts) == {t[1] : t \in ts}

\* Once every save is applied the daemon runs on the saved configuration: its
\* schedules and no other, its runner, its database, its restart flag.
OnSavedConfig ==
    /\ tasks = triggers
    /\ Specs(triggers) = config.triggers
    /\ runner = [config |-> config, store |-> state]
    /\ restart = (config.server # booted)

\* "validated, written and applied immediately, without a restart"
\* (docs/web-ui.md:47).  The code does not keep this when saves overlap or
\* a database or a log file cannot be opened.
SavedIsApplied == Settled => OnSavedConfig

\* It does otherwise.
CleanSavesAreApplied == Settled /\ ~tangled /\ ~broken => OnSavedConfig

\* Also when saves overlap no schedule is ever lost: what the configuration
\* asks for runs, beside schedules that nobody will stop any more.
ScheduleRuns == Settled /\ ~broken => config.triggers \subseteq Specs(tasks)

\* A scan works on an open store from its start to its end, whatever is saved
\* meanwhile, unless a save that failed at its log file closed the store under the
\* runner before the scan began (apply_config).
ScanStoreIsOpen == Scanning => scan.store \in open \union lost

\* Statistics that are served from the cache are those of the configuration
\* and of the outputs as the last scan left them, however the thread that
\* computed them overlapped with scans and saves.
ServedIsCurrent ==
    Cached /\ Settled /\ ~Scanning /\ ~broken =>
        status.config = config /\ status.disk = disk

\* Every save is answered.
SavesFinish == [](waiting # <<>> => <>(waiting = <<>>))
=============================================================================
