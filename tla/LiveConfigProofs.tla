-------------------------- MODULE LiveConfigProofs --------------------------
(***************************************************************************)
(* A scan keeps an open store, no schedule is lost and no outdated         *)
(* statistics are served, for any number of saves, scans and readers.      *)
(***************************************************************************)
EXTENDS LiveConfig, TLAPS

-----------------------------------------------------------------------------
(* Types. *)

ReaderState == [at: {"idle", "reading", "read"}, gen: Nat, config: Config \union {None},
                store: Handle \union {None}, disk: 0 .. MaxDisk]
Statistic == [gen: Nat, config: Config, disk: 0 .. MaxDisk]

\* A thread that reads has the configuration and the store of its start.
ReadersStarted == \A r \in Reader : reader[r].at # "idle" => reader[r].config \in Config

Types == TypeOK /\ ReadersStarted

LEMMA BuildTyped ==
  ASSUME NEW c \in Config, NEW n \in 0 .. MaxSaves
  PROVE  /\ Build(c, n) \subseteq Trigger
         /\ \A t \in Build(c, n) : t[2] = n
         /\ Specs(Build(c, n)) = c.triggers
<1>1. c.triggers \subseteq Schedule
  BY Configs
<1>2. \A t \in Build(c, n) : t[1] \in c.triggers /\ t[2] = n /\ t = <<t[1], n>>
  BY DEF Build
<1>3. \A s \in c.triggers : <<s, n>> \in Build(c, n)
  BY DEF Build
<1>4. Build(c, n) \subseteq Trigger
  BY <1>1, <1>2 DEF Trigger
<1>5. Specs(Build(c, n)) \subseteq c.triggers
  BY <1>2 DEF Specs
<1>6. c.triggers \subseteq Specs(Build(c, n))
  <2> SUFFICES ASSUME NEW s \in c.triggers PROVE s \in Specs(Build(c, n))
    OBVIOUS
  <2>1. <<s, n>>[1] = s
    OBVIOUS
  <2> QED BY <1>3, <2>1 DEF Specs
<1> QED BY <1>2, <1>4, <1>5, <1>6

LEMMA IdleTyped == Idle \in ReaderState
BY Bounds DEF Idle, ReaderState

LEMMA InitTypes == Init => Types
<1> SUFFICES ASSUME Init PROVE Types
  OBVIOUS
<1>1. triggers \subseteq Trigger
  BY Bounds, BuildTyped DEF Init
<1>2. reader \in [Reader -> ReaderState]
  BY IdleTyped DEF Init
<1>3. config \in Config /\ booted \in Listener
  BY Configs DEF Init
<1>4. runner \in RunnerState /\ state \in Handle /\ open \subseteq Handle
  BY <1>3, Bounds DEF Init, RunnerState, Handle
<1>5. saves \in 0 .. MaxSaves /\ scans \in 0 .. MaxScans /\ disk \in 0 .. MaxDisk
  BY Bounds DEF Init
<1>6. waiting \in Seq(Waiting) /\ generation \in Nat
  BY DEF Init
<1>7. restart \in BOOLEAN /\ tangled \in BOOLEAN /\ broken \in BOOLEAN
  BY DEF Init
<1>8. ReadersStarted
  BY DEF Init, ReadersStarted, Idle
<1>9. scan = None /\ status = None /\ lock = None /\ tasks = triggers /\ lost = {}
  BY DEF Init
<1> QED BY <1>1, <1>2, <1>3, <1>4, <1>5, <1>6, <1>7, <1>8, <1>9 DEF Types, TypeOK, ReaderState

LEMMA ApplyTypes == ASSUME Types, NEW c \in Config, Apply(c) PROVE Types'
<1> DEFINE n == saves + 1
<1>1. n \in 0 .. MaxSaves /\ n \in 1 .. MaxSaves /\ saves' = n /\ n \in Handle
  BY Bounds DEF Apply, Types, TypeOK, Handle
<1>2. state' \in Handle /\ open' \subseteq Handle /\ runner' \in RunnerState
  BY <1>1 DEF Apply, SwitchStore, Types, TypeOK, AfterSwitch, RunnerOf, RunnerState
<1>3. triggers' \subseteq Trigger /\ tasks' \subseteq Trigger
  BY <1>1, BuildTyped DEF Apply, Types, TypeOK
<1>4. waiting' \in Seq(Waiting)
  <2> DEFINE w == [n |-> n, config |-> c, for |-> triggers]
  <2>1. triggers \in SUBSET Trigger
    BY DEF Types, TypeOK
  <2>2. w \in Waiting
    BY <1>1, <2>1 DEF Waiting
  <2>3. waiting' \in {waiting, Append(waiting, w)}
    BY DEF Apply
  <2> HIDE DEF w
  <2>4. waiting \in Seq(Waiting)
    BY DEF Types, TypeOK
  <2>5. Append(waiting, w) \in Seq(Waiting)
    BY <2>2, <2>4
  <2> QED BY <2>3, <2>4, <2>5
<1>5. restart' \in BOOLEAN /\ generation' \in Nat
  <2>1. \/ restart' = restart /\ generation' = generation
        \/ restart' = (c.server # booted) /\ generation' = generation + 1
    BY DEF Apply, Conclude
  <2>2. generation' \in Nat
    BY <2>1 DEF Types, TypeOK
  <2>3. restart \in BOOLEAN /\ (c.server # booted) \in BOOLEAN
    BY DEF Types, TypeOK
  <2>4. restart' \in BOOLEAN
    BY <2>1, <2>3, Zenon
  <2> QED BY <2>2, <2>4
<1>6. tangled' \in BOOLEAN
  BY DEF Apply, Types, TypeOK
<1> QED BY <1>1, <1>2, <1>3, <1>4, <1>5, <1>6
        DEF Apply, Types, TypeOK, ReadersStarted, worker

LEMMA ResumeTypes == ASSUME Types, Resume PROVE Types'
<1> DEFINE w == Head(waiting)
<1>1. w \in Waiting /\ waiting' \in Seq(Waiting)
  BY DEF Resume, Types, TypeOK
<1>2. w.config \in Config /\ w.n \in 0 .. MaxSaves
  BY <1>1, Bounds DEF Waiting
<1>3. triggers' \subseteq Trigger /\ tasks' \subseteq Trigger
  BY <1>2, BuildTyped DEF Resume, Types, TypeOK
<1>4. restart' \in BOOLEAN /\ generation' \in Nat
  BY DEF Resume, Conclude, Types, TypeOK
<1> QED BY <1>1, <1>3, <1>4 DEF Resume, Types, TypeOK, ReadersStarted, worker, history

LEMMA ScanTypes == ASSUME Types, StartScan \/ ScanWrites \/ EndScan PROVE Types'
<1>1. scans' \in 0 .. MaxScans /\ disk' \in 0 .. MaxDisk /\ generation' \in Nat
  BY Bounds DEF StartScan, ScanWrites, EndScan, Types, TypeOK, cache
<1>2. scan' \in RunnerState \union {None}
  BY DEF StartScan, ScanWrites, EndScan, Types, TypeOK
<1> QED BY <1>1, <1>2 DEF StartScan, ScanWrites, EndScan, Types, TypeOK, ReadersStarted,
           loop, cache, history

LEMMA StatisticsTypes ==
  ASSUME Types, NEW r \in Reader, StartReading(r) \/ Read(r) \/ Store(r)
  PROVE  Types'
<1>1. /\ reader \in [Reader -> ReaderState] /\ UNCHANGED <<loop, worker, generation, history>>
      /\ config \in Config /\ state \in Handle /\ generation \in Nat /\ disk \in 0 .. MaxDisk
      /\ 0 \in 0 .. MaxDisk
  BY Bounds DEF Types, TypeOK, ReaderState, StartReading, Read, Store
<1>2. /\ reader' \in [Reader -> ReaderState]
      /\ reader'[r].at # "idle" => reader'[r].config \in Config
  <2>1. CASE StartReading(r)
    BY <1>1, <2>1 DEF StartReading, ReaderState
  <2>2. CASE Read(r) /\ reader[r].store \in open
    <3>1. /\ reader' = [reader EXCEPT ![r] = [reader[r] EXCEPT !.at = "read", !.disk = disk]]
          /\ reader[r].at = "reading"
      BY <2>2 DEF Read
    <3>2. /\ [reader[r] EXCEPT !.at = "read", !.disk = disk] \in ReaderState
          /\ [reader[r] EXCEPT !.at = "read", !.disk = disk].config = reader[r].config
      BY <1>1 DEF ReaderState
    <3> QED BY <1>1, <3>1, <3>2 DEF Types, ReadersStarted
  <2>3. CASE Store(r) \/ (Read(r) /\ reader[r].store \notin open)
    BY <1>1, <2>3, IdleTyped DEF Store, Read, Idle
  <2> QED BY <2>1, <2>2, <2>3
<1>3. status' \in Statistic \union {None}
  BY <1>1 DEF StartReading, Read, Store, Types, TypeOK, ReadersStarted, Statistic, Stamp, ReaderState
<1>4. lock' \in Reader \union {None}
  BY DEF StartReading, Read, Store, Types, TypeOK
<1>5. TypeOK'
  BY <1>1, <1>2, <1>3, <1>4 DEF Types, TypeOK, ReaderState, Statistic, loop, worker, history
<1>6. \A q \in Reader \ {r} : reader'[q] = reader[q]
  BY <1>1 DEF StartReading, Read, Store
<1>7. ReadersStarted'
  BY <1>1, <1>2, <1>6 DEF Types, ReadersStarted, loop
<1> QED BY <1>5, <1>7 DEF Types

LEMMA NextTypes == Types /\ [Next]_vars => Types'
<1> SUFFICES ASSUME Types, [Next]_vars PROVE Types'
  OBVIOUS
<1>1. CASE Save
  <2>1. PICK c \in Config : Apply(c) \/ ApplyFails(c) \/ LogFails(c)
    BY <1>1 DEF Save
  <2>3. CASE LogFails(c)
    <3>1. saves + 1 \in Handle /\ saves' \in 0 .. MaxSaves
      BY <2>3, Bounds DEF LogFails, Types, TypeOK, Handle
    <3>2. state' \in Handle /\ open' \subseteq Handle /\ lost' \subseteq Handle
      BY <2>3, <3>1 DEF LogFails, SwitchStore, AfterSwitch, Types, TypeOK, RunnerState
    <3> QED BY <2>3, <3>1, <3>2 DEF LogFails, Types, TypeOK, ReadersStarted, worker, cache
  <2>2. CASE ApplyFails(c)
    BY <2>2, Bounds DEF ApplyFails, Types, TypeOK, ReadersStarted, worker, cache
  <2> QED BY <2>1, <2>2, <2>3, ApplyTypes
<1>2. CASE Triggers
  BY <1>2 DEF Triggers, EndTask, Types, TypeOK, ReadersStarted, worker, cache, history
<1>3. CASE Statistics
  BY <1>3, StatisticsTypes DEF Statistics
<1>4. CASE UNCHANGED vars
  BY <1>4 DEF vars, loop, worker, cache, history, Types, TypeOK, ReadersStarted
<1> QED BY <1>1, <1>2, <1>3, <1>4, ResumeTypes, ScanTypes DEF Next

\* Type correctness of a daemon that is reconfigured.
THEOREM TypeCorrect == Spec => []TypeOK
<1>1. Types => TypeOK
  BY DEF Types
<1> QED BY <1>1, InitTypes, NextTypes, PTL DEF Spec
-----------------------------------------------------------------------------
(* The store of a scan. *)

\* The store of now is open; the runner and the scan have that one, an older one
\* that was kept open, or one that a failed save closed.
StoreInv ==
  /\ state \in open /\ state <= saves
  /\ runner.store \in open \union lost
  /\ Scanning => scan.store \in open \union lost

\* A save gives the daemon an open store and closes none that a scan uses.
LEMMA SwitchKeepsStores ==
  ASSUME Types, StoreInv, NEW c \in Config, SwitchStore(c), saves' = saves + 1
  PROVE  /\ state' \in open' /\ state' <= saves'
         /\ Scanning => open \subseteq open'
<1>1. state \in Nat /\ saves \in Nat
  BY DEF Types, TypeOK, Handle
<1>2. CASE c.database # config.database
  <2>1. state' = saves + 1 /\ open' = AfterSwitch(saves + 1) /\ saves + 1 # state
    BY <1>1, <1>2 DEF SwitchStore, StoreInv
  <2> QED BY <1>1, <2>1 DEF AfterSwitch
<1>3. CASE c.database = config.database
  BY <1>1, <1>3 DEF SwitchStore, StoreInv
<1> QED BY <1>2, <1>3

LEMMA NextStore == Types /\ StoreInv /\ [Next]_vars => StoreInv'
<1> SUFFICES ASSUME Types, StoreInv, [Next]_vars PROVE StoreInv'
  OBVIOUS
<1>2. ASSUME NEW c \in Config, Apply(c) PROVE StoreInv'
  <2>1. /\ runner'.store = state' /\ UNCHANGED <<scan, lost>> /\ saves' = saves + 1
        /\ SwitchStore(c)
    BY <1>2 DEF Apply, RunnerOf, worker
  <2> QED BY <2>1, SwitchKeepsStores DEF StoreInv, Scanning
<1>3. ASSUME NEW c \in Config, ApplyFails(c) PROVE StoreInv'
  <2>1. saves' = saves + 1 /\ saves \in Nat /\ state \in Nat
    BY <1>3 DEF ApplyFails, Types, TypeOK, Handle
  <2> QED BY <1>3, <2>1 DEF ApplyFails, StoreInv, Scanning, worker
<1>6. ASSUME NEW c \in Config, LogFails(c) PROVE StoreInv'
  <2>1. /\ UNCHANGED <<scan, runner>> /\ saves' = saves + 1 /\ SwitchStore(c)
        /\ lost' = lost \union ({runner.store} \ open')
    BY <1>6 DEF LogFails, worker
  <2> QED BY <2>1, SwitchKeepsStores DEF StoreInv, Scanning
<1>4. CASE StartScan \/ ScanWrites \/ EndScan
  BY <1>4 DEF StartScan, ScanWrites, EndScan, StoreInv, Scanning, loop, history
<1>5. CASE Triggers \/ Resume \/ Statistics \/ UNCHANGED vars
  BY <1>5 DEF Triggers, EndTask, Resume, Statistics, StartReading, Read, Store, vars, loop, worker,
              history, StoreInv, Scanning
<1> QED BY <1>2, <1>3, <1>4, <1>5, <1>6 DEF Next, Save

\* A scan works on an open store from its start to its end, whatever is saved
\* meanwhile, unless a save failed at its log file and left the runner with the
\* store it had closed (apply_config).
THEOREM ScansKeepTheirStore == Spec => []ScanStoreIsOpen
<1>1. Init => StoreInv
  BY Bounds DEF Init, StoreInv, Scanning
<1>2. StoreInv => ScanStoreIsOpen
  BY DEF StoreInv, ScanStoreIsOpen
<1> QED BY <1>1, <1>2, InitTypes, NextTypes, NextStore, PTL DEF Spec
-----------------------------------------------------------------------------
(* The statistics that are served. *)

\* Statistics computed from generation g and configuration c are current if g is.
Current(g, c) == g <= generation /\ (g = generation => c = config \/ waiting # <<>> \/ broken)
CurrentDisk(g, d) == g = generation => d = disk \/ Scanning

ServedInv ==
  /\ status # None => Current(status.gen, status.config) /\ CurrentDisk(status.gen, status.disk)
  /\ \A r \in Reader :
        /\ reader[r].at # "idle" => Current(reader[r].gen, reader[r].config)
        /\ reader[r].at = "read" => CurrentDisk(reader[r].gen, reader[r].disk)

\* What was computed before the generation changed is not served after it.
LEMMA OutdatedIsNotServed ==
  ASSUME Types, ServedInv, generation' = generation + 1, UNCHANGED <<status, reader>>
  PROVE  ServedInv'
<1>1. \A g \in Nat : \A c, d : g <= generation => Current(g, c)' /\ CurrentDisk(g, d)'
  <2> SUFFICES ASSUME NEW g \in Nat, NEW c, NEW d, g <= generation
               PROVE  g <= generation' /\ g # generation'
    BY DEF Current, CurrentDisk
  <2> QED BY DEF Types, TypeOK
<1>2. \A g, c : Current(g, c) => g <= generation
  BY DEF Current
<1>3. /\ \A r \in Reader : reader[r].at \in {"idle", "reading", "read"} /\ reader[r].gen \in Nat
      /\ status # None => status.gen \in Nat
  BY DEF Types, TypeOK
<1> QED BY <1>1, <1>2, <1>3 DEF ServedInv

LEMMA StatisticsServed ==
  ASSUME Types, ServedInv, NEW r \in Reader, StartReading(r) \/ Read(r) \/ Store(r)
  PROVE  ServedInv'
<1>1. /\ UNCHANGED <<generation, config, waiting, broken, scan, disk>>
      /\ reader \in [Reader -> ReaderState]
  BY DEF StartReading, Read, Store, loop, worker, history, Types, TypeOK, ReaderState
<1>2. /\ \A g, c : Current(g, c)' <=> Current(g, c)
      /\ \A g, d : CurrentDisk(g, d)' <=> CurrentDisk(g, d)
  BY <1>1 DEF Current, CurrentDisk, Scanning
<1>3. CASE StartReading(r)
  <2>1. Current(generation, config)
    BY DEF Current, Types, TypeOK
  <2>2. /\ reader'[r].at = "reading" /\ reader'[r].gen = generation
        /\ reader'[r].config = config /\ status' = status
        /\ \A q \in Reader \ {r} : reader'[q] = reader[q]
    BY <1>1, <1>3 DEF StartReading
  <2> QED BY <1>2, <2>1, <2>2 DEF ServedInv
<1>4. CASE Read(r)
  <2>1. status' = status /\ \A q \in Reader \ {r} : reader'[q] = reader[q]
    BY <1>1, <1>4 DEF Read
  <2>2. CASE reader[r].store \in open
    <3>1. /\ reader' = [reader EXCEPT ![r] = [reader[r] EXCEPT !.at = "read", !.disk = disk]]
          /\ reader[r].at = "reading" /\ reader[r] \in ReaderState
      BY <1>1, <1>4, <2>2 DEF Read
    <3>2. /\ reader'[r].gen = reader[r].gen /\ reader'[r].config = reader[r].config
          /\ reader'[r].disk = disk
      BY <1>1, <3>1 DEF ReaderState
    <3>3. CurrentDisk(reader[r].gen, disk) /\ Current(reader[r].gen, reader[r].config)
      BY <3>1 DEF CurrentDisk, ServedInv
    <3> QED BY <1>2, <2>1, <3>2, <3>3 DEF ServedInv
  <2>3. CASE reader[r].store \notin open
    <3>1. reader'[r].at = "idle"
      BY <1>1, <1>4, <2>3 DEF Read, Idle
    <3> QED BY <1>2, <2>1, <3>1 DEF ServedInv
  <2> QED BY <2>2, <2>3
<1>5. CASE Store(r)
  <2>1. /\ status' = [gen |-> reader[r].gen, config |-> reader[r].config, disk |-> reader[r].disk]
        /\ reader[r].at = "read" /\ reader'[r].at = "idle"
        /\ \A q \in Reader \ {r} : reader'[q] = reader[q]
    BY <1>1, <1>5 DEF Store, Stamp, Idle
  <2>2. Current(status'.gen, status'.config) /\ CurrentDisk(status'.gen, status'.disk)
    BY <2>1 DEF ServedInv
  <2> QED BY <1>2, <2>1, <2>2 DEF ServedInv
<1> QED BY <1>3, <1>4, <1>5

LEMMA NextServed == Types /\ ServedInv /\ [Next]_vars => ServedInv'
<1> SUFFICES ASSUME Types, ServedInv, [Next]_vars PROVE ServedInv'
  OBVIOUS
<1>1. ASSUME NEW c \in Config, Apply(c) PROVE ServedInv'
  <2>1. UNCHANGED <<status, reader, disk, scan, broken>>
    BY <1>1 DEF Apply, worker
  <2>2. CASE generation' = generation + 1
    BY <2>1, <2>2, OutdatedIsNotServed
  <2>3. CASE generation' # generation + 1
    <3>1. generation' = generation /\ \E w : waiting' = Append(waiting, w)
      BY <1>1, <2>3 DEF Apply, Conclude
    <3>2. waiting' # <<>>
      BY <3>1 DEF Types, TypeOK
    <3> QED BY <2>1, <3>1, <3>2 DEF ServedInv, Current, CurrentDisk, Scanning
  <2> QED BY <2>2, <2>3
<1>2. ASSUME NEW c \in Config, ApplyFails(c) \/ LogFails(c) PROVE ServedInv'
  BY <1>2 DEF ApplyFails, LogFails, worker, cache, ServedInv, Current, CurrentDisk, Scanning
<1>3. CASE Resume
  BY <1>3, OutdatedIsNotServed DEF Resume, Conclude
<1>4. CASE EndScan
  BY <1>4, OutdatedIsNotServed DEF EndScan
<1>5. CASE StartScan
  <2>1. scan' # None
    BY <1>5, NoneIsNothing DEF StartScan, Types, TypeOK, RunnerState
  <2> QED BY <1>5, <2>1 DEF StartScan, loop, cache, history, ServedInv, Current, CurrentDisk, Scanning
<1>6. CASE ScanWrites
  BY <1>6 DEF ScanWrites, loop, cache, history, ServedInv, Current, CurrentDisk, Scanning
<1>7. CASE Triggers \/ UNCHANGED vars
  BY <1>7 DEF Triggers, EndTask, vars, loop, worker, cache, history, ServedInv, Current, CurrentDisk,
              Scanning
<1>8. CASE Statistics
  BY <1>8, StatisticsServed DEF Statistics
<1> QED BY <1>1, <1>2, <1>3, <1>4, <1>5, <1>6, <1>7, <1>8 DEF Next, Save

\* Statistics that are served from the cache are those of the configuration
\* and of the outputs of now, however threads, scans and saves overlapped
\* (_compute_status, _status_generation).
THEOREM NothingOutdatedIsServed == Spec => []ServedIsCurrent
<1>1. Init => ServedInv
  BY DEF Init, ServedInv, Idle
<1>2. ServedInv => ServedIsCurrent
  BY DEF ServedInv, ServedIsCurrent, Cached, Settled, Current, CurrentDisk
<1> QED BY <1>1, <1>2, InitTypes, NextTypes, NextServed, PTL DEF Spec
-----------------------------------------------------------------------------
(* Saves that do not overlap. *)

\* The save that waits, if one does, is the last one, and waits for the
\* schedules the daemon ran before it.
CleanInv ==
  ~tangled /\ ~broken =>
    /\ runner = [config |-> config, store |-> state]
    /\ waiting = <<>> =>
         /\ tasks = triggers /\ Specs(triggers) = config.triggers
         /\ restart = (config.server # booted)
    /\ waiting # <<>> =>
         Len(waiting) = 1 /\ waiting[1].config = config /\ waiting[1].for = triggers
           /\ tasks \subseteq triggers

LEMMA ApplyClean == ASSUME Types, CleanInv, NEW c \in Config, Apply(c) PROVE CleanInv'
<1> DEFINE n == saves + 1
<1> SUFFICES ASSUME ~tangled', ~broken' PROVE
      /\ runner' = [config |-> c, store |-> state']
      /\ waiting' = <<>> =>
           /\ tasks' = triggers' /\ Specs(triggers') = c.triggers
           /\ restart' = (c.server # booted)
      /\ waiting' # <<>> =>
           Len(waiting') = 1 /\ waiting'[1].config = c /\ waiting'[1].for = triggers'
             /\ tasks' \subseteq triggers'
  BY DEF CleanInv, Apply, Specs
<1>1. waiting = <<>> /\ ~tangled /\ ~broken /\ n \in 0 .. MaxSaves
  <2>1. tangled' = (tangled \/ waiting # <<>>) /\ broken' = broken
    BY DEF Apply
  <2>2. n \in 0 .. MaxSaves
    BY Bounds DEF Apply, Types, TypeOK
  <2> QED BY <2>1, <2>2, Zenon
<1>2. runner' = [config |-> c, store |-> state']
  BY DEF Apply, RunnerOf
<1>3. tasks = triggers /\ Specs(triggers) = config.triggers
  BY <1>1 DEF CleanInv
<1>4. CASE ~TriggersDiffer(c)
  BY <1>1, <1>2, <1>3, <1>4 DEF Apply, Conclude, TriggersDiffer
<1>5. CASE TriggersDiffer(c) /\ triggers \cap tasks = {}
  <2>1. /\ triggers' = Build(c, n) /\ tasks' = triggers' /\ waiting' = <<>>
        /\ restart' = (c.server # booted)
    BY <1>1, <1>3, <1>5 DEF Apply, Conclude
  <2> QED BY <1>1, <1>2, <2>1, BuildTyped
<1>6. CASE TriggersDiffer(c) /\ triggers \cap tasks # {}
  <2> DEFINE w == [n |-> n, config |-> c, for |-> triggers]
  <2>1. waiting' = Append(<<>>, w) /\ UNCHANGED <<triggers, tasks>>
    BY <1>1, <1>6 DEF Apply
  <2>2. w.config = c /\ w.for = triggers
    OBVIOUS
  <2> HIDE DEF w
  <2>3. Len(waiting') = 1 /\ waiting'[1] = w /\ waiting' # <<>>
    BY <2>1
  <2> QED BY <1>2, <1>3, <2>1, <2>2, <2>3
<1> QED BY <1>4, <1>5, <1>6

LEMMA NextClean == Types /\ CleanInv /\ [Next]_vars => CleanInv'
<1> SUFFICES ASSUME Types, CleanInv, [Next]_vars PROVE CleanInv'
  OBVIOUS
<1>1. ASSUME NEW c \in Config, ApplyFails(c) \/ LogFails(c) PROVE CleanInv'
  BY <1>1 DEF ApplyFails, LogFails, CleanInv
<1>2. CASE Triggers
  <2>1. /\ UNCHANGED <<config, booted, state, runner, triggers, waiting, restart, tangled, broken>>
        /\ tasks' \subseteq tasks /\ waiting # <<>>
    BY <1>2 DEF Triggers, EndTask, history, Types, TypeOK
  <2> QED BY <2>1 DEF CleanInv, Specs
<1>3. CASE Resume
  <2> DEFINE w == Head(waiting)
  <2> SUFFICES ASSUME ~tangled, ~broken
               PROVE  /\ runner' = [config |-> config', store |-> state']
                      /\ waiting' = <<>> /\ tasks' = triggers'
                      /\ Specs(triggers)' = config'.triggers
                      /\ restart' = (config'.server # booted')
    BY <1>3 DEF Resume, CleanInv, history
  <2>1. /\ waiting # <<>> /\ Len(waiting) = 1 /\ w.config = config /\ w.for = triggers
        /\ tasks \subseteq triggers /\ waiting' = Tail(waiting) /\ w \in Waiting
    BY <1>3 DEF Resume, CleanInv, Types, TypeOK
  <2>2. waiting' = <<>> /\ tasks = {}
    BY <1>3, <2>1 DEF Resume, Types, TypeOK
  <2>3. w.n \in 0 .. MaxSaves /\ config \in Config
    BY <2>1, Bounds DEF Waiting, Types, TypeOK
  <2>4. triggers' = Build(config, w.n) /\ tasks' = triggers' /\ restart' = (config.server # booted)
    BY <1>3, <2>1, <2>2 DEF Resume, Conclude
  <2>5. Specs(triggers') = config.triggers
    BY <2>3, <2>4, BuildTyped
  <2> QED BY <1>3, <2>2, <2>4, <2>5 DEF Resume, CleanInv, Specs
<1>4. CASE StartScan \/ ScanWrites \/ EndScan \/ Statistics \/ UNCHANGED vars
  BY <1>4 DEF StartScan, ScanWrites, EndScan, Statistics, StartReading, Read, Store, vars, loop, worker,
              cache, history, CleanInv, Specs
<1> QED BY <1>1, <1>2, <1>3, <1>4, ApplyClean DEF Next, Save

\* A save that overlaps no other and opens its database ends with the daemon
\* on exactly that configuration (apply_config).
THEOREM SavesAreApplied == Spec => []CleanSavesAreApplied
<1>1. Init => CleanInv
  <2> SUFFICES ASSUME Init PROVE CleanInv
    OBVIOUS
  <2>1. 0 \in 0 .. MaxSaves
    BY Bounds
  <2> QED BY <2>1, BuildTyped DEF Init, CleanInv
<1>2. CleanInv => CleanSavesAreApplied
  BY DEF CleanInv, CleanSavesAreApplied, OnSavedConfig, Settled
<1> QED BY <1>1, <1>2, InitTypes, NextTypes, NextClean, PTL DEF Spec
-----------------------------------------------------------------------------
(* Saves that overlap. *)

\* The schedules that a waiting save will end.
Doomed == UNION {waiting[i].for : i \in 1 .. Len(waiting)}

\* What the configuration asks for runs and is to stay, or the last save that
\* waits will start it.
Provided ==
  \/ broken
  \/ config.triggers \subseteq Specs(tasks \ Doomed)
  \/ waiting # <<>> /\ waiting[Len(waiting)].config.triggers = config.triggers

\* A trigger of a later save is none of those that are known.
Fresh ==
  /\ \A t \in triggers \union Doomed : t[2] <= saves
  /\ \A i \in 1 .. Len(waiting) : waiting[i].n <= saves

ScheduleInv == Provided /\ Fresh

LEMMA NumbersAreNaturals ==
  ASSUME Types
  PROVE  /\ \A t \in triggers \union Doomed : t[2] \in Nat
         /\ \A i \in 1 .. Len(waiting) : waiting[i].n \in Nat
<1>1. triggers \subseteq Trigger /\ \A i \in 1 .. Len(waiting) : waiting[i] \in Waiting
  BY DEF Types, TypeOK
<1>2. \A w \in Waiting : w.for \subseteq Trigger /\ w.n \in Nat
  BY Bounds DEF Waiting
<1>3. triggers \union Doomed \subseteq Trigger
  BY <1>1, <1>2 DEF Doomed
<1>4. \A t \in Trigger : t[2] \in Nat
  BY Bounds DEF Trigger
<1> QED BY <1>1, <1>2, <1>3, <1>4

LEMMA ApplyProvided == ASSUME Types, ScheduleInv, NEW c \in Config, Apply(c) PROVE ScheduleInv'
<1> DEFINE n == saves + 1
<1>1. /\ n \in 0 .. MaxSaves /\ saves \in Nat /\ saves' = n /\ config' = c /\ broken' = broken
      /\ waiting \in Seq(Waiting) /\ triggers \subseteq Trigger
  BY Bounds DEF Apply, Types, TypeOK
<1>2. \A t \in triggers \union Doomed : t[2] <= n
  BY <1>1, NumbersAreNaturals DEF ScheduleInv, Fresh
<1>3. \A i \in 1 .. Len(waiting) : waiting[i].n <= n
  BY <1>1, NumbersAreNaturals DEF ScheduleInv, Fresh
<1>4. CASE ~TriggersDiffer(c)
  <2>1. UNCHANGED <<triggers, tasks, waiting>> /\ c.triggers = config.triggers
    BY <1>4 DEF Apply, TriggersDiffer
  <2> QED BY <1>1, <1>2, <1>3, <2>1 DEF ScheduleInv, Provided, Fresh, Doomed, Specs
<1>5. CASE TriggersDiffer(c) /\ triggers \cap tasks = {}
  <2>1. triggers' = Build(c, n) /\ tasks' = tasks \union Build(c, n) /\ waiting' = waiting
    BY <1>5 DEF Apply
  <2>2. Doomed' = Doomed
    BY <2>1 DEF Doomed
  <2>3. \A t \in Build(c, n) : t[2] = n /\ t \notin Doomed
    BY <1>1, BuildTyped DEF ScheduleInv, Fresh
  <2>4. Build(c, n) \subseteq tasks' \ Doomed'
    BY <2>1, <2>2, <2>3
  <2>5. c.triggers \subseteq Specs(tasks' \ Doomed')
    BY <1>1, <2>4, BuildTyped DEF Specs
  <2>6. Fresh'
    BY <1>1, <1>2, <1>3, <2>1, <2>2, <2>3 DEF Fresh
  <2>7. Provided'
    BY <1>1, <2>5 DEF Provided, Specs
  <2> QED BY <2>6, <2>7 DEF ScheduleInv
<1>6. CASE TriggersDiffer(c) /\ triggers \cap tasks # {}
  <2> DEFINE w == [n |-> n, config |-> c, for |-> triggers]
  <2>1. waiting' = Append(waiting, w) /\ UNCHANGED <<triggers, tasks>>
    BY <1>6 DEF Apply
  <2>2. w.config = c /\ w.for = triggers /\ w.n = n
    OBVIOUS
  <2> HIDE DEF w
  <2>3. /\ Len(waiting') = Len(waiting) + 1 /\ waiting'[Len(waiting')] = w /\ waiting' # <<>>
        /\ \A i \in 1 .. Len(waiting) : waiting'[i] = waiting[i]
        /\ Len(waiting) \in Nat
    BY <1>1, <2>1
  <2>4. Doomed' \subseteq Doomed \union triggers
    BY <2>2, <2>3 DEF Doomed
  <2>5. Fresh'
    BY <1>1, <1>2, <1>3, <2>1, <2>2, <2>3, <2>4 DEF Fresh
  <2> QED BY <1>1, <2>2, <2>3, <2>5 DEF ScheduleInv, Provided
<1> QED BY <1>4, <1>5, <1>6

LEMMA ResumeProvided == ASSUME Types, ScheduleInv, Resume PROVE ScheduleInv'
<1> DEFINE w == Head(waiting)
<1>1. /\ waiting # <<>> /\ waiting \in Seq(Waiting) /\ w = waiting[1] /\ w \in Waiting
      /\ waiting' = Tail(waiting) /\ Len(waiting) \in Nat \ {0}
      /\ Len(waiting') = Len(waiting) - 1
      /\ \A i \in 1 .. Len(waiting') : waiting'[i] = waiting[i + 1] /\ i + 1 \in 1 .. Len(waiting)
  BY DEF Resume, Types, TypeOK
<1>2. /\ triggers' = Build(w.config, w.n) /\ tasks' = tasks \union Build(w.config, w.n)
      /\ UNCHANGED <<config, saves, broken>>
  BY DEF Resume, history
<1>3. w.config \in Config /\ w.n \in 0 .. MaxSaves /\ w.n <= saves
  BY <1>1, Bounds DEF Waiting, ScheduleInv, Fresh
<1>4. Doomed' \subseteq Doomed
  BY <1>1 DEF Doomed
<1>5. Fresh'
  BY <1>1, <1>2, <1>3, <1>4, BuildTyped DEF ScheduleInv, Fresh
<1>6. CASE config.triggers \subseteq Specs(tasks \ Doomed)
  BY <1>2, <1>4, <1>5, <1>6 DEF ScheduleInv, Provided, Specs
<1>7. CASE waiting[Len(waiting)].config.triggers = config.triggers
  <2>1. CASE Len(waiting) = 1
    <3>1. Doomed' = {} /\ w.config.triggers = config.triggers
      BY <1>1, <1>7, <2>1 DEF Doomed
    <3>2. Specs(Build(w.config, w.n)) = config.triggers
      BY <1>3, <3>1, BuildTyped
    <3> QED BY <1>2, <1>5, <3>1, <3>2 DEF ScheduleInv, Provided, Specs
  <2>2. CASE Len(waiting) # 1
    BY <1>1, <1>2, <1>5, <1>7, <2>2 DEF ScheduleInv, Provided
  <2> QED BY <2>1, <2>2
<1> QED BY <1>2, <1>5, <1>6, <1>7 DEF ScheduleInv, Provided

LEMMA NextProvided == Types /\ ScheduleInv /\ [Next]_vars => ScheduleInv'
<1> SUFFICES ASSUME Types, ScheduleInv, [Next]_vars PROVE ScheduleInv'
  OBVIOUS
<1>1. ASSUME NEW c \in Config, ApplyFails(c) \/ LogFails(c) PROVE ScheduleInv'
  <2>1. /\ broken' /\ UNCHANGED <<triggers, tasks, waiting>> /\ saves' = saves + 1 /\ saves \in Nat
    BY <1>1 DEF ApplyFails, LogFails, Types, TypeOK
  <2>2. Fresh'
    BY <2>1, NumbersAreNaturals DEF ScheduleInv, Fresh, Doomed
  <2> QED BY <2>1, <2>2 DEF ScheduleInv, Provided
<1>2. CASE Triggers
  <2>1. PICK t \in Trigger : EndTask(t)
    BY <1>2 DEF Triggers
  <2>2. /\ UNCHANGED <<config, triggers, waiting, saves, broken>> /\ tasks' = tasks \ {t}
        /\ t \in Doomed
    BY <2>1 DEF EndTask, history, Doomed
  <2>3. tasks' \ Doomed' = tasks \ Doomed /\ Doomed' = Doomed
    BY <2>2 DEF Doomed
  <2> QED BY <2>2, <2>3 DEF ScheduleInv, Provided, Fresh, Specs
<1>3. CASE StartScan \/ ScanWrites \/ EndScan \/ Statistics \/ UNCHANGED vars
  BY <1>3 DEF StartScan, ScanWrites, EndScan, Statistics, StartReading, Read, Store, vars, loop, worker,
              cache, history, ScheduleInv, Provided, Fresh, Doomed, Specs
<1> QED BY <1>1, <1>2, <1>3, ApplyProvided, ResumeProvided DEF Next, Save

\* However saves overlap, every schedule of the configuration runs once they
\* are applied (apply_config, _stop_triggers, _start_triggers).
THEOREM NoScheduleIsLost == Spec => []ScheduleRuns
<1>1. Init => ScheduleInv
  <2> SUFFICES ASSUME Init PROVE ScheduleInv
    OBVIOUS
  <2>1. Doomed = {} /\ 0 \in 0 .. MaxSaves /\ config \in Config
    BY Bounds DEF Init, Doomed
  <2>2. Specs(triggers) = config.triggers /\ \A t \in triggers : t[2] = 0
    BY <2>1, BuildTyped DEF Init
  <2> QED BY <2>1, <2>2 DEF Init, ScheduleInv, Provided, Fresh
<1>2. ScheduleInv => ScheduleRuns
  BY DEF ScheduleInv, Provided, ScheduleRuns, Settled, Specs
<1> QED BY <1>1, <1>2, InitTypes, NextTypes, NextProvided, PTL DEF Spec
=============================================================================
