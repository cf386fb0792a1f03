---------------------------- MODULE LibraryScan ----------------------------
(***************************************************************************)
(* One source library, its output directories and the processes that scan  *)
(* or clean it: boomarr/processor.py, symlinks.py and the part of runner.py *)
(* that runs around them.  The `watch` daemon and any number of `boomarr   *)
(* scan` / `boomarr clean` processes may work on the same directories and  *)
(* the same probe cache at once; nothing locks one against the other.      *)
(*                                                                         *)
(* The environment edits source files, mounts and unmounts the share,      *)
(* changes the filters, edits the outputs by hand, kills processes and     *)
(* makes system calls fail, each time at the cost of one unit of `budget`. *)
(***************************************************************************)
EXTENDS Integers, FiniteSets

CONSTANTS
  Scanner,         \* processes that scan or clean the library
  Media, Sidecar,  \* relative paths of media files and of subtitles
  Dir, DirOf,      \* subdirectories of the library, and the one of each path
  SidecarsOf,      \* the subtitles whose name starts with a media file's stem
  Output,          \* output directories, one per symlink library
  Content,         \* what a probe can find in a file (its tracks)
  Foreign,         \* link targets outside the input directory ...
  LiveForeign,     \* ... and those of them that exist
  Absent,          \* no directory entry
  RegularFile,     \* a regular file in an output directory
  NoFile,          \* no source file
  NoInfo,          \* no probe result
  Pending,         \* the probe of a file has not answered yet
  Stray,           \* a non-media file found in the bare mount point
  MountStates,     \* states of the share the environment may choose
  Indexed,         \* the media files Sonarr or Radarr can answer for
  Modes,           \* the commands that are run: a subset of {"scan", "clean"}
  FilterChoices,   \* the filters a configuration may give an output
  MinCount,        \* removal guard: number of links always removable
  MaxPercent,      \* removal guard: percentage of links removable
  Events,          \* what the environment does and which faults occur
  UserDuringScan,  \* whether outputs are edited by hand during a scan
  MaxClock,        \* bound on the number of source file versions
  MaxBudget        \* bound on the environment's steps

Path   == Media \cup Sidecar
Target == Path \cup Foreign
Entry  == Target \cup {Absent, RegularFile}

ASSUME NonEmptyAssumption == Scanner # {} /\ Media # {} /\ Output # {}

ASSUME PathAssumption ==
  /\ Media \cap Sidecar = {} /\ Path \cap Foreign = {}
  /\ LiveForeign \subseteq Foreign
  /\ DirOf \in [Path -> Dir]
  /\ SidecarsOf \in [Media -> SUBSET Sidecar]
  /\ Indexed \subseteq Media
  /\ Absent # RegularFile /\ {Absent, RegularFile} \cap Target = {}
  /\ Stray \notin Path

ASSUME ContentAssumption ==
  /\ NoInfo # Pending /\ {NoInfo, Pending} \cap Content = {}
  /\ FilterChoices \subseteq SUBSET Content
  /\ NoFile \notin [stamp : Nat, content : Content]

ASSUME BoundAssumption ==
  /\ MinCount \in Nat /\ MaxPercent \in Nat
  /\ MaxClock \in Nat /\ MaxBudget \in Nat
  /\ UserDuringScan \in BOOLEAN
  /\ MountStates \subseteq {"up", "missing", "empty", "stray"}
  /\ Modes \subseteq {"scan", "clean"}
  /\ Events \subseteq {"media", "sidecar", "mount", "filters", "edit", "mkdir",
                      "cancel", "crash", "walk", "link", "remove", "store", "hook"}

VARIABLES
  source,      \* source[m]: the version of media file m, or NoFile
  sidecars,    \* the subtitles that exist
  mount,       \* "up", "missing", or a bare mount point "empty" / "stray"
  clock,       \* stamp of the youngest version of any source file
  index,       \* index[s]: the library of Sonarr/Radarr as process s fetched it
  filters,     \* filters[o]: the contents the configuration wants in o
  budget,      \* environment steps left
  out,         \* out[o][n]: the directory entry n of output o
  dirs,        \* dirs[o]: the subdirectories of output o that exist
  cache,       \* cache[m]: the row of the probe cache for m, or NoFile
  unreported,  \* outputs changed since the media server was last told
  pc,          \* pc[s]: where process s is
  job,         \* job[s]: the command s runs and the configuration it captured
  cancel,      \* cancel[s]: where s was when it was cancelled, or "no"
  walk,        \* walk[s]: discovery of the source files
  todo,        \* todo[s]: the paths left in the loop s is in
  look,        \* look[s]: stamps, probe answers and the infos of the scan
  link,        \* link[s]: reconciliation of the outputs
  res,         \* res[s]: the ScanResult
  ghost        \* ghost[s]: history of the scan (for the properties)

input == <<source, sidecars, mount, clock, index>>
outs  == <<out, dirs, unreported>>
local == <<pc, job, cancel, walk, todo, look, link, res>>
vars  == <<source, sidecars, mount, clock, index, filters, budget, out, dirs, cache,
           unreported, pc, job, cancel, walk, todo, look, link, res, ghost>>

(***************************************************************************)
(* Names in an output directory: the link that mirrors path p, and the     *)
(* hidden `.name.boomarr-tmp` an atomic update goes through.               *)
(***************************************************************************)
Dest(p) == <<p, "link">>
Tmp(p)  == <<p, "tmp">>
Name    == Path \X {"link", "tmp"}

Version  == [stamp : Nat, content : Content]
LinkPCs  == {"link", "mkdir", "symlink", "tmp_unlink", "tmp_link", "tmp_replace"}
PreLink  == {"walk", "lookup", "probe"}
PC       == PreLink \cup LinkPCs \cup
            {"idle", "begin", "remove", "prune", "finish",
             "clean", "sweep_next", "sweep"}

Job   == [mode : {"scan", "clean"}, dry : BOOLEAN, force : BOOLEAN,
          cfg : [Output -> SUBSET Content]]
Walk  == [files : SUBSET (Path \cup {Stray}), left : SUBSET Dir]
Look  == [stamp : [Media -> Nat], got : [Media -> Content \cup {NoInfo, Pending}],
          info : [Media -> Content \cup {NoInfo}]]
Link  == [outs : SUBSET Output, cur : Output, at : Path,
          expected : SUBSET Path, preserve : SUBSET Path,
          plan : SUBSET Name, doom : SUBSET Name,
          created : BOOLEAN, removed : BOOLEAN]
Res   == [changed : SUBSET Output, blocked : SUBSET Output, errors : BOOLEAN,
          dropped : BOOLEAN]
Ghost == [quiet : BOOLEAN, stable : SUBSET Path, touched : SUBSET Output]

NoJob   == [mode |-> "scan", dry |-> FALSE, force |-> FALSE,
            cfg |-> [o \in Output |-> {}]]
NoWalk  == [files |-> {}, left |-> {}]
NoLook  == [stamp |-> [m \in Media |-> 0], got |-> [m \in Media |-> Pending],
            info |-> [m \in Media |-> NoInfo]]
NoLink  == [outs |-> {}, cur |-> CHOOSE o \in Output : TRUE,
            at |-> CHOOSE p \in Path : TRUE, expected |-> {}, preserve |-> {},
            plan |-> {}, doom |-> {}, created |-> FALSE, removed |-> FALSE]
NoRes   == [changed |-> {}, blocked |-> {}, errors |-> FALSE, dropped |-> FALSE]
NoIndex == [m \in Media |-> NoInfo]
NoGhost == [quiet |-> FALSE, stable |-> {}, touched |-> {}]

Init ==
  /\ source \in [Media -> {NoFile} \cup [stamp : {1}, content : Content]]
  /\ sidecars \in SUBSET Sidecar
  /\ mount = "up" /\ clock = 1 /\ budget = MaxBudget
  /\ index = [s \in Scanner |-> NoIndex]
  /\ filters \in [Output -> FilterChoices]
  /\ out = [o \in Output |-> [n \in Name |-> Absent]]
  /\ dirs = [o \in Output |-> {}]
  /\ cache = [m \in Media |-> NoFile]
  /\ unreported = {}
  /\ pc = [s \in Scanner |-> "idle"]
  /\ job = [s \in Scanner |-> NoJob]
  /\ cancel = [s \in Scanner |-> "no"]
  /\ walk = [s \in Scanner |-> NoWalk]
  /\ todo = [s \in Scanner |-> {}]
  /\ look = [s \in Scanner |-> NoLook]
  /\ link = [s \in Scanner |-> NoLink]
  /\ res = [s \in Scanner |-> NoRes]
  /\ ghost = [s \in Scanner |-> NoGhost]

-----------------------------------------------------------------------------
(***************************************************************************)
(* What the file system shows.                                             *)
(***************************************************************************)
Present(p) == IF p \in Media THEN source[p] # NoFile ELSE p \in sidecars
Visible(p) == mount = "up" /\ Present(p)

IsLink(e) == e \in Target
Live(e)   == IF e \in Path THEN Visible(e) ELSE e \in LiveForeign

Links(o)  == {n \in Name : IsLink(out[o][n])}
HasLinks  == \E o \in Output : Links(o) # {}

\* os.walk of subdirectory d; the root, read with it, holds the stray file
Found(d) == {p \in Path : DirOf[p] = d /\ Visible(p)} \cup
            (IF mount = "stray" THEN {Stray} ELSE {})

(***************************************************************************)
(* Definitions whose name ends in Bug are mutants: each is the definition  *)
(* that follows it with a plausible mistake, used to show that the         *)
(* properties can fail.                                                    *)
(***************************************************************************)

(***************************************************************************)
(* The decisions of the pipeline.                                          *)
(***************************************************************************)
InputUsableBug(hasFiles) == mount # "missing"

\* _input_is_usable
InputUsable(hasFiles) == mount # "missing" /\ (hasFiles \/ ~HasLinks)

\* StateStore.get: a row counts only for the very size and mtime of the file
CacheHit(m, stamp) == cache[m] # NoFile /\ cache[m].stamp = stamp

MediaFound(s) == Media \cap walk[s].files

\* a media file and the subtitles that follow it
Sources(s, m) == {m} \cup (SidecarsOf[m] \cap walk[s].files)

ExpectedBug(s, o) == UNION {Sources(s, m) : m \in
  {m \in MediaFound(s) : look[s].info[m] # NoInfo}}

Expected(s, o) == UNION {Sources(s, m) : m \in
  {m \in MediaFound(s) : look[s].info[m] # NoInfo /\ look[s].info[m] \in job[s].cfg[o]}}

PreservedBug(s) == {}

Preserved(s) == UNION {Sources(s, m) : m \in
  {m \in MediaFound(s) : look[s].info[m] = NoInfo}}

RemovalsBug(o, keep) ==
  {n \in Links(o) \ {Dest(p) : p \in keep} : out[o][n] \in Path}

RemovalsOfAllBug(o, keep) == Links(o) \ {Dest(p) : p \in keep}

\* plan_removals
Removals(o, keep) ==
  {n \in Links(o) \ {Dest(p) : p \in keep} :
     ~Live(out[o][n]) \/ out[o][n] \in Path}

\* RemovalGuard.blocks
Blocks(removals, existing) ==
  removals > MinCount /\ existing > 0 /\ removals * 100 > MaxPercent * existing

Refused(s, removals, existing) == ~job[s].force /\ Blocks(removals, existing)

\* prune_empty_dirs
EmptyDirs(o) == {d \in dirs[o] : \A n \in Name : DirOf[n[1]] = d => out[o][n] = Absent}

-----------------------------------------------------------------------------
(***************************************************************************)
(* One scan of process s, step by step.                                    *)
(***************************************************************************)
Running(s) == pc[s] # "idle"
Goto(s, where) == pc' = [pc EXCEPT ![s] = where]
Fail(s) == res' = [res EXCEPT ![s].errors = TRUE]

\* A change of an output entry that the media server can see.
Write(s, o, n, e) ==
  /\ out' = [out EXCEPT ![o][n] = e]
  /\ unreported' = unreported \cup {o}
  /\ ghost' = [ghost EXCEPT ![s].touched = @ \cup {o}]

\* The process captures the configuration and starts from nothing.  It is
\* undisturbed (quiet) as long as no other process runs beside it.
Start(s, mode, dry, force) ==
  /\ ~Running(s)
  /\ job' = [job EXCEPT ![s] = [mode |-> mode, dry |-> dry, force |-> force,
                                cfg |-> filters]]
  /\ ghost' = [r \in Scanner |->
       IF r = s THEN [quiet |-> \A q \in Scanner \ {s} : ~Running(q),
                      stable |-> {p \in Path : Visible(p)}, touched |-> {}]
                ELSE [ghost[r] EXCEPT !.quiet = FALSE]]
  /\ UNCHANGED <<input, filters, budget, outs, cache, cancel, todo, look, link, res>>

StartScan(s, dry, force) ==
  /\ "scan" \in Modes
  /\ Start(s, "scan", dry, force)
  /\ Goto(s, "walk")
  /\ walk' = [walk EXCEPT ![s].left = Dir]

\* _discover_files, one directory at a time
WalkDir(s, d) ==
  /\ pc[s] = "walk" /\ d \in walk[s].left
  /\ walk' = [walk EXCEPT ![s].files = @ \cup Found(d), ![s].left = @ \ {d}]
  /\ UNCHANGED <<input, filters, budget, outs, cache, pc, job, cancel, todo, look,
                 link, res, ghost>>

CheckInput(s) ==
  /\ pc[s] = "walk" /\ walk[s].left = {}
  /\ IF InputUsable(walk[s].files # {})
     THEN Goto(s, "lookup") /\ todo' = [todo EXCEPT ![s] = MediaFound(s)]
          /\ UNCHANGED res
     ELSE Goto(s, "finish") /\ Fail(s) /\ UNCHANGED todo
  /\ UNCHANGED <<input, filters, budget, outs, cache, job, cancel, walk, look, link,
                 ghost>>

\* Phase 1: stat the file and look it up; a mismatching row is deleted.
Lookup(s, m) ==
  /\ pc[s] = "lookup" /\ m \in todo[s]
  /\ todo' = [todo EXCEPT ![s] = @ \ {m}]
  /\ IF ~Visible(m)
     THEN Fail(s) /\ UNCHANGED <<look, cache>>
     ELSE /\ IF CacheHit(m, source[m].stamp)
             THEN /\ look' = [look EXCEPT ![s].info[m] = cache[m].content]
                  /\ UNCHANGED cache
             ELSE /\ look' = [look EXCEPT ![s].stamp[m] = source[m].stamp]
                  /\ cache' = [cache EXCEPT ![m] = NoFile]
          /\ UNCHANGED res
  /\ UNCHANGED <<input, filters, budget, outs, pc, job, cancel, walk, link, ghost>>

BeginProbing(s) ==
  /\ pc[s] = "lookup" /\ todo[s] = {}
  /\ Goto(s, "probe")
  /\ todo' = [todo EXCEPT ![s] = {m \in Media : look[s].stamp[m] # 0}]
  /\ UNCHANGED <<input, filters, budget, outs, cache, job, cancel, walk, look, link,
                 res, ghost>>

\* What Sonarr/Radarr would answer for all files now (_refresh).
Fetched == [m \in Media |-> IF m \in Indexed /\ source[m] # NoFile
                            THEN source[m].content ELSE NoInfo]

\* The answers of the chain of probers: none, the tracks of the file, or those
\* of the index, which tells of the version there was when it was fetched.
Answers(s, m, known) ==
  {NoInfo} \cup (IF cancel[s] # "no" THEN {}
                ELSE {known[m]} \cup (IF Visible(m) THEN {source[m].content} ELSE {}))

\* A worker asks the probers, or gives up because of the cancel.  The index
\* outlives the scan, and a refresh that fails leaves it as it was.
Probe(s, m) ==
  /\ pc[s] = "probe" /\ m \in todo[s] /\ look[s].got[m] = Pending
  /\ \E known \in {index[s], Fetched} :
       /\ index' = [index EXCEPT ![s] = known]
       /\ \E answer \in Answers(s, m, known) :
            look' = [look EXCEPT ![s].got[m] = answer]
  /\ UNCHANGED <<source, sidecars, mount, clock, filters, budget, outs, cache, pc,
                 job, cancel, walk, todo, link, res, ghost>>

Answered(answer) == answer # NoInfo

RowBug(s, m, answer) ==
  [stamp |-> IF source[m] # NoFile THEN source[m].stamp ELSE look[s].stamp[m],
   content |-> answer]

\* The row carries the size and mtime taken before the probe.
Row(s, m, answer) == [stamp |-> look[s].stamp[m], content |-> answer]

StoreProbe(s, m) ==
  LET answer == look[s].got[m] IN
  /\ pc[s] = "probe" /\ m \in todo[s] /\ answer # Pending /\ cancel[s] = "no"
  /\ todo' = [todo EXCEPT ![s] = @ \ {m}]
  /\ IF Answered(answer)
     THEN /\ cache' = [cache EXCEPT ![m] = Row(s, m, answer)]
          /\ look' = [look EXCEPT ![s].info[m] = answer]
          /\ UNCHANGED res
     ELSE Fail(s) /\ UNCHANGED <<cache, look>>
  /\ UNCHANGED <<input, filters, budget, outs, pc, job, cancel, walk, link, ghost>>

\* The cancelled loop returns at the next answer; later answers are dropped.
AbortProbing(s) ==
  /\ pc[s] = "probe" /\ cancel[s] # "no"
  /\ \E m \in todo[s] : look[s].got[m] # Pending
  /\ Goto(s, "finish")
  /\ UNCHANGED <<input, filters, budget, outs, cache, job, cancel, walk, todo, look,
                 link, res, ghost>>

StoppedBug(s) == FALSE

Stopped(s) == cancel[s] # "no"

EndProbing(s) ==
  /\ pc[s] = "probe" /\ todo[s] = {}
  /\ IF Stopped(s)
     THEN Goto(s, "finish") /\ UNCHANGED link
     ELSE Goto(s, "begin") /\ link' = [link EXCEPT ![s].outs = Output]
  /\ UNCHANGED <<input, filters, budget, outs, cache, job, cancel, walk, todo, look,
                 res, ghost>>

-----------------------------------------------------------------------------
(***************************************************************************)
(* Phase 3: bring one output after another in line.                        *)
(***************************************************************************)
BeginOutput(s, o) ==
  /\ pc[s] = "begin" /\ o \in link[s].outs
  /\ Goto(s, "link")
  /\ todo' = [todo EXCEPT ![s] = Expected(s, o)]
  /\ link' = [link EXCEPT ![s].outs = @ \ {o}, ![s].cur = o,
                          ![s].expected = Expected(s, o),
                          ![s].preserve = Preserved(s),
                          ![s].created = FALSE, ![s].removed = FALSE]
  /\ UNCHANGED <<input, filters, budget, outs, cache, job, cancel, walk, look, res,
                 ghost>>

\* Leave ensure_link for path p.
Linked(s, p) == Goto(s, "link") /\ todo' = [todo EXCEPT ![s] = @ \ {p}]

Created(s) == link' = [link EXCEPT ![s].created = TRUE]

KeepsBug(entry, p) == entry = p

\* The right link is there, or a regular file is in the way.
Keeps(entry, p) == entry \in {p, RegularFile}

\* ensure_link: look at the entry and choose between keeping, creating and
\* replacing it; a dry run only counts.
EnsureLink(s, p) ==
  LET entry == out[link[s].cur][Dest(p)] IN
  /\ pc[s] = "link" /\ p \in todo[s]
  /\ \/ /\ Keeps(entry, p)
        /\ Linked(s, p) /\ UNCHANGED link
     \/ /\ ~Keeps(entry, p) /\ job[s].dry
        /\ Linked(s, p) /\ Created(s)
     \/ /\ ~Keeps(entry, p) /\ ~job[s].dry
        /\ Goto(s, IF entry = Absent THEN "mkdir" ELSE "tmp_unlink")
        /\ link' = [link EXCEPT ![s].at = p]
        /\ UNCHANGED todo
  /\ UNCHANGED <<input, filters, budget, outs, cache, job, cancel, walk, look, res,
                 ghost>>

MakeDir(s) ==
  /\ pc[s] = "mkdir"
  /\ dirs' = [dirs EXCEPT ![link[s].cur] = @ \cup {DirOf[link[s].at]}]
  /\ Goto(s, "symlink")
  /\ UNCHANGED <<input, filters, budget, out, unreported, cache, job, cancel, walk,
                 todo, look, link, res, ghost>>

\* os.symlink fails when the name was taken or the directory pruned meanwhile
CreateLink(s) ==
  LET o == link[s].cur
      p == link[s].at IN
  /\ pc[s] = "symlink"
  /\ Linked(s, p)
  /\ IF out[o][Dest(p)] = Absent /\ DirOf[p] \in dirs[o]
     THEN Write(s, o, Dest(p), p) /\ Created(s) /\ UNCHANGED res
     ELSE Fail(s) /\ UNCHANGED <<out, unreported, ghost, link>>
  /\ UNCHANGED <<input, filters, budget, dirs, cache, job, cancel, walk, look>>

UnlinkTmpBug(s) ==
  /\ pc[s] = "tmp_unlink"
  /\ out' = [out EXCEPT ![link[s].cur][Dest(link[s].at)] = Absent]
  /\ Goto(s, "tmp_link")
  /\ UNCHANGED <<input, filters, budget, dirs, unreported, cache, job, cancel, walk,
                 todo, look, link, res, ghost>>

UnlinkTmp(s) ==
  /\ pc[s] = "tmp_unlink"
  /\ out' = [out EXCEPT ![link[s].cur][Tmp(link[s].at)] = Absent]
  /\ Goto(s, "tmp_link")
  /\ UNCHANGED <<input, filters, budget, dirs, unreported, cache, job, cancel, walk,
                 todo, look, link, res, ghost>>

LinkTmp(s) ==
  LET o == link[s].cur
      p == link[s].at IN
  /\ pc[s] = "tmp_link"
  /\ IF out[o][Tmp(p)] = Absent /\ DirOf[p] \in dirs[o]
     THEN /\ out' = [out EXCEPT ![o][Tmp(p)] = p]
          /\ Goto(s, "tmp_replace") /\ UNCHANGED <<todo, res>>
     ELSE Linked(s, p) /\ Fail(s) /\ UNCHANGED out
  /\ UNCHANGED <<input, filters, budget, dirs, unreported, cache, job, cancel, walk,
                 look, link, ghost>>

\* os.replace moves whatever the temporary name holds over the link.
ReplaceTmp(s) ==
  LET o == link[s].cur
      p == link[s].at IN
  /\ pc[s] = "tmp_replace"
  /\ Linked(s, p)
  /\ IF out[o][Tmp(p)] # Absent
     THEN /\ out' = [out EXCEPT ![o][Dest(p)] = out[o][Tmp(p)], ![o][Tmp(p)] = Absent]
          /\ unreported' = unreported \cup {o}
          /\ ghost' = [ghost EXCEPT ![s].touched = @ \cup {o}]
          /\ Created(s) /\ UNCHANGED res
     ELSE Fail(s) /\ UNCHANGED <<out, unreported, ghost, link>>
  /\ UNCHANGED <<input, filters, budget, dirs, cache, job, cancel, walk, look>>

OutputDoneBug(s, created, removed) ==
  /\ Goto(s, "begin")
  /\ res' = [res EXCEPT ![s].changed = IF created THEN @ \cup {link[s].cur} ELSE @]

\* The output is done; its name goes into changed_outputs if a link changed.
OutputDone(s, created, removed) ==
  /\ Goto(s, "begin")
  /\ res' = [res EXCEPT ![s].changed =
       IF created \/ removed THEN @ \cup {link[s].cur} ELSE @]

\* plan_removals and the removal guard
PlanRemovals(s) ==
  LET o    == link[s].cur
      plan == Removals(o, link[s].expected \cup link[s].preserve)
      refused == Refused(s, Cardinality(plan), Cardinality(Links(o)))
  IN
  /\ pc[s] = "link" /\ todo[s] = {}
  /\ \/ /\ refused
        /\ Goto(s, "begin")
        /\ res' = [res EXCEPT ![s].blocked = @ \cup {o},
             ![s].changed = IF link[s].created THEN @ \cup {o} ELSE @]
        /\ UNCHANGED link
     \/ /\ ~refused /\ job[s].dry
        /\ OutputDone(s, link[s].created, plan # {})
        /\ UNCHANGED link
     \/ /\ ~refused /\ ~job[s].dry
        /\ Goto(s, "remove")
        /\ link' = [link EXCEPT ![s].plan = plan]
        /\ UNCHANGED res
  /\ UNCHANGED <<input, filters, budget, outs, cache, job, cancel, walk, todo, look,
                 ghost>>

\* _remove: the link planned for removal is unlinked by name, whatever it is
\* by now; a name that vanished is not counted.
RemoveLink(s, n) ==
  LET o == link[s].cur IN
  /\ pc[s] = "remove" /\ n \in link[s].plan
  /\ link' = [link EXCEPT ![s].plan = @ \ {n},
                          ![s].removed = @ \/ out[o][n] # Absent]
  /\ IF out[o][n] # Absent
     THEN Write(s, o, n, Absent)
     ELSE UNCHANGED <<out, unreported, ghost>>
  /\ UNCHANGED <<input, filters, budget, dirs, cache, pc, job, cancel, walk, todo,
                 look, res>>

PruneDirs(s) ==
  LET o == link[s].cur IN
  /\ pc[s] = "remove" /\ link[s].plan = {}
  /\ dirs' = [dirs EXCEPT ![o] = @ \ EmptyDirs(o)]
  /\ OutputDone(s, link[s].created, link[s].removed)
  /\ UNCHANGED <<input, filters, budget, out, unreported, cache, job, cancel, walk,
                 todo, look, link, ghost>>

\* Phase 4: forget the rows of files that were not discovered.
PruneCache(s) ==
  /\ pc[s] = "begin" /\ link[s].outs = {}
  /\ cache' = [m \in Media |-> IF m \in walk[s].files THEN cache[m] ELSE NoFile]
  /\ Goto(s, "finish")
  /\ UNCHANGED <<input, filters, budget, outs, job, cancel, walk, todo, look, link,
                 res, ghost>>

\* What a process knows is gone when it ends.
Reset(s) ==
  /\ Goto(s, "idle")
  /\ job' = [job EXCEPT ![s] = NoJob]
  /\ cancel' = [cancel EXCEPT ![s] = "no"]
  /\ walk' = [walk EXCEPT ![s] = NoWalk]
  /\ todo' = [todo EXCEPT ![s] = {}]
  /\ look' = [look EXCEPT ![s] = NoLook]
  /\ link' = [link EXCEPT ![s] = NoLink]
  /\ res' = [res EXCEPT ![s] = NoRes]

\* ScanRunner.run: the hooks see the changed outputs of a real scan that was
\* not cancelled.
RunsHooks(s) == job[s].mode = "scan" /\ ~job[s].dry /\ cancel[s] = "no"

Finish(s) ==
  /\ pc[s] = "finish"
  /\ unreported' = IF RunsHooks(s) THEN unreported \ res[s].changed ELSE unreported
  /\ Reset(s)
  /\ ghost' = [ghost EXCEPT ![s] = NoGhost]
  /\ UNCHANGED <<input, filters, budget, out, dirs, cache>>

-----------------------------------------------------------------------------
(***************************************************************************)
(* boomarr clean: remove broken links, without probing and without guard.  *)
(***************************************************************************)
StartClean(s) ==
  /\ "clean" \in Modes
  /\ Start(s, "clean", FALSE, FALSE)
  /\ Goto(s, "clean")
  /\ UNCHANGED walk

\* Any entry of the input directory counts, and a mounted library has some.
CleanUsable == InputUsable(mount \in {"up", "stray"})

CheckClean(s) ==
  /\ pc[s] = "clean"
  /\ IF CleanUsable
     THEN Goto(s, "sweep_next") /\ link' = [link EXCEPT ![s].outs = Output]
     ELSE Goto(s, "finish") /\ UNCHANGED link
  /\ UNCHANGED <<input, filters, budget, outs, cache, job, cancel, walk, todo, look,
                 res, ghost>>

SweepOutput(s, o) ==
  /\ pc[s] = "sweep_next" /\ o \in link[s].outs
  /\ Goto(s, "sweep")
  /\ link' = [link EXCEPT ![s].outs = @ \ {o}, ![s].cur = o, ![s].plan = Links(o)]
  /\ UNCHANGED <<input, filters, budget, outs, cache, job, cancel, walk, todo, look,
                 res, ghost>>

Broken(e) == IsLink(e) /\ ~Live(e)

\* clean_stale: link.exists() finds a link broken or not ...
SweepLink(s, n) ==
  /\ pc[s] = "sweep" /\ n \in link[s].plan /\ link[s].doom = {}
  /\ link' = [link EXCEPT ![s].plan = @ \ {n},
       ![s].doom = IF Broken(out[link[s].cur][n]) THEN {n} ELSE {}]
  /\ UNCHANGED <<input, filters, budget, outs, cache, pc, job, cancel, walk, todo,
                 look, res, ghost>>

\* ... and then _remove unlinks the name, whatever has it by now.
UnlinkStale(s, n) ==
  LET o == link[s].cur IN
  /\ pc[s] = "sweep" /\ n \in link[s].doom
  /\ link' = [link EXCEPT ![s].doom = {}]
  /\ IF out[o][n] # Absent
     THEN Write(s, o, n, Absent)
     ELSE UNCHANGED <<out, unreported, ghost>>
  /\ UNCHANGED <<input, filters, budget, dirs, cache, pc, job, cancel, walk, todo,
                 look, res>>

SweepDirs(s) ==
  LET o == link[s].cur IN
  /\ pc[s] = "sweep" /\ link[s].plan = {} /\ link[s].doom = {}
  /\ dirs' = [dirs EXCEPT ![o] = @ \ EmptyDirs(o)]
  /\ Goto(s, "sweep_next")
  /\ UNCHANGED <<input, filters, budget, out, unreported, cache, job, cancel, walk,
                 todo, look, link, res, ghost>>

EndSweep(s) ==
  /\ pc[s] = "sweep_next" /\ link[s].outs = {}
  /\ Goto(s, "finish")
  /\ UNCHANGED <<input, filters, budget, outs, cache, job, cancel, walk, todo, look,
                 link, res, ghost>>

-----------------------------------------------------------------------------
(***************************************************************************)
(* The environment and its faults.  Every step but Cancel costs budget,    *)
(* ends the quiet of all scans and takes the paths it touches out of the   *)
(* set of paths that stayed as they were since the scan began.             *)
(***************************************************************************)
Disturb(s, gone) ==
  [quiet |-> FALSE, stable |-> ghost[s].stable \ gone, touched |-> ghost[s].touched]

Spend(event) == event \in Events /\ budget > 0 /\ budget' = budget - 1

Disturbance(event, gone) ==
  /\ Spend(event)
  /\ ghost' = [s \in Scanner |-> Disturb(s, gone)]

\* A media file is added, replaced (with a new size or mtime) or removed.
EditMedia(m, new) ==
  /\ source' = [source EXCEPT ![m] = new]
  /\ Disturbance("media", {m})
  /\ UNCHANGED <<sidecars, mount, index, filters, outs, cache, local>>

PutMedia(m, c) ==
  /\ clock < MaxClock
  /\ clock' = clock + 1
  /\ EditMedia(m, [stamp |-> clock + 1, content |-> c])

DeleteMedia(m) ==
  /\ source[m] # NoFile
  /\ EditMedia(m, NoFile)
  /\ UNCHANGED clock

ToggleSidecar(p) ==
  /\ sidecars' = IF p \in sidecars THEN sidecars \ {p} ELSE sidecars \cup {p}
  /\ Disturbance("sidecar", {p})
  /\ UNCHANGED <<source, mount, clock, index, filters, outs, cache, local>>

Mount(state) ==
  /\ state \in MountStates \ {mount}
  /\ mount' = state
  /\ Disturbance("mount", Path)
  /\ UNCHANGED <<source, sidecars, clock, index, filters, outs, cache, local>>

ChangeFilters(o, wanted) ==
  /\ wanted \in FilterChoices \ {filters[o]}
  /\ filters' = [filters EXCEPT ![o] = wanted]
  /\ Disturbance("filters", {})
  /\ UNCHANGED <<input, outs, cache, local>>

\* Somebody edits an output by hand.
UserMayAct == UserDuringScan \/ \A s \in Scanner : ~Running(s)

UserEdit(o, p, e) ==
  /\ UserMayAct
  /\ e \in Entry \ {out[o][Dest(p)]}
  /\ out' = [out EXCEPT ![o][Dest(p)] = e]
  /\ dirs' = [dirs EXCEPT ![o] = IF e = Absent THEN @ ELSE @ \cup {DirOf[p]}]
  /\ Disturbance("edit", {})
  /\ UNCHANGED <<input, filters, unreported, cache, local>>

UserMakeDir(o, d) ==
  /\ UserMayAct
  /\ d \notin dirs[o]
  /\ dirs' = [dirs EXCEPT ![o] = @ \cup {d}]
  /\ Disturbance("mkdir", {})
  /\ UNCHANGED <<input, filters, out, unreported, cache, local>>

\* The daemon's cancel button and SIGTERM; they are free.
Cancel(s) ==
  /\ "cancel" \in Events
  /\ Running(s) /\ job[s].mode = "scan" /\ cancel[s] = "no"
  /\ cancel' = [cancel EXCEPT ![s] = pc[s]]
  /\ UNCHANGED <<input, filters, budget, outs, cache, pc, job, walk, todo, look, link,
                 res, ghost>>

\* The process is killed; the disk, the outputs and the database remain.
Crash(s) ==
  /\ Running(s)
  /\ Spend("crash")
  /\ Reset(s)
  /\ index' = [index EXCEPT ![s] = NoIndex]
  /\ ghost' = [r \in Scanner |-> IF r = s THEN NoGhost ELSE Disturb(r, {})]
  /\ UNCHANGED <<source, sidecars, mount, clock, filters, outs, cache>>

\* os.walk skips a directory it cannot read.
WalkFails(s, d) ==
  /\ pc[s] = "walk" /\ d \in walk[s].left
  /\ walk' = [walk EXCEPT ![s].left = @ \ {d}]
  /\ Spend("walk")
  /\ ghost' = [r \in Scanner |->
       Disturb(r, IF r = s THEN {p \in Path : DirOf[p] = d} ELSE {})]
  /\ UNCHANGED <<input, filters, outs, cache, pc, job, cancel, todo, look, link, res>>

\* An OSError inside ensure_link is counted and the next path is linked.
LinkFails(s) ==
  /\ pc[s] \in LinkPCs \ {"link"}
  /\ Linked(s, link[s].at) /\ Fail(s)
  /\ Disturbance("link", {})
  /\ UNCHANGED <<input, filters, outs, cache, job, cancel, walk, look, link>>

\* An OSError of unlink is logged and nothing else.
RemoveFails(s, n) ==
  /\ \/ pc[s] = "remove" /\ n \in link[s].plan
     \/ pc[s] = "sweep" /\ n \in link[s].doom
  /\ link' = [link EXCEPT ![s].plan = @ \ {n}, ![s].doom = {}]
  /\ Disturbance("remove", {})
  /\ UNCHANGED <<input, filters, outs, cache, pc, job, cancel, walk, todo, look, res>>

\* The probe cache raises: scan_libraries drops the result of the library.
StoreFails(s) ==
  /\ \/ pc[s] = "lookup" /\ todo[s] # {}
     \/ pc[s] = "probe" /\ \E m \in todo[s] : look[s].got[m] # Pending
     \/ pc[s] = "begin" /\ link[s].outs = {}
  /\ Goto(s, "finish")
  /\ res' = [res EXCEPT ![s] = [NoRes EXCEPT !.errors = TRUE, !.dropped = TRUE]]
  /\ Disturbance("store", {})
  /\ UNCHANGED <<input, filters, outs, cache, job, cancel, walk, todo, look, link>>

\* A hook that raises is logged and never retried.
HookFails(s) ==
  /\ pc[s] = "finish" /\ RunsHooks(s)
  /\ Spend("hook")
  /\ Reset(s)
  /\ ghost' = [r \in Scanner |-> IF r = s THEN NoGhost ELSE Disturb(r, {})]
  /\ UNCHANGED <<input, filters, outs, cache>>

-----------------------------------------------------------------------------
Begins(s) ==
  \/ \E dry, force \in BOOLEAN : StartScan(s, dry, force)
  \/ StartClean(s)

Discovers(s) == CheckInput(s) \/ \E d \in Dir : WalkDir(s, d)

Probes(s) ==
  \/ BeginProbing(s) \/ AbortProbing(s) \/ EndProbing(s)
  \/ \E m \in Media : Lookup(s, m) \/ Probe(s, m) \/ StoreProbe(s, m)

Reconciles(s) ==
  \/ \E o \in Output : BeginOutput(s, o)
  \/ \E p \in Path : EnsureLink(s, p)
  \/ MakeDir(s) \/ CreateLink(s) \/ UnlinkTmp(s) \/ LinkTmp(s) \/ ReplaceTmp(s)
  \/ PlanRemovals(s) \/ PruneDirs(s) \/ PruneCache(s)
  \/ \E n \in Name : RemoveLink(s, n)

Cleans(s) ==
  \/ CheckClean(s) \/ SweepDirs(s) \/ EndSweep(s)
  \/ \E o \in Output : SweepOutput(s, o)
  \/ \E n \in Name : SweepLink(s, n) \/ UnlinkStale(s, n)

\* The steps a process takes on its own once it has begun.
Proceeds(s) == Discovers(s) \/ Probes(s) \/ Reconciles(s) \/ Cleans(s) \/ Finish(s)

Faults(s) ==
  \/ Crash(s) \/ LinkFails(s) \/ StoreFails(s) \/ HookFails(s)
  \/ \E d \in Dir : WalkFails(s, d)
  \/ \E n \in Name : RemoveFails(s, n)

Environment ==
  \/ \E m \in Media : DeleteMedia(m) \/ \E c \in Content : PutMedia(m, c)
  \/ \E p \in Sidecar : ToggleSidecar(p)
  \/ \E state \in MountStates : Mount(state)
  \/ \E o \in Output, wanted \in FilterChoices : ChangeFilters(o, wanted)
  \/ \E o \in Output, p \in Path, e \in Entry : UserEdit(o, p, e)
  \/ \E o \in Output, d \in Dir : UserMakeDir(o, d)

Next ==
  \/ \E s \in Scanner : Begins(s) \/ Proceeds(s) \/ Cancel(s) \/ Faults(s)
  \/ Environment

Spec == Init /\ [][Next]_vars

-----------------------------------------------------------------------------
(***************************************************************************)
(* Properties.                                                             *)
(***************************************************************************)
\* Every variable keeps its shape.
TypeOK ==
  /\ source \in [Media -> Version \cup {NoFile}]
  /\ sidecars \subseteq Sidecar
  /\ mount \in {"up", "missing", "empty", "stray"}
  /\ clock \in Nat /\ budget \in Nat
  /\ index \in [Scanner -> [Media -> Content \cup {NoInfo}]]
  /\ filters \in [Output -> SUBSET Content]
  /\ out \in [Output -> [Name -> Entry]]
  /\ dirs \in [Output -> SUBSET Dir]
  /\ cache \in [Media -> Version \cup {NoFile}]
  /\ unreported \subseteq Output
  /\ pc \in [Scanner -> PC]
  /\ job \in [Scanner -> Job]
  /\ cancel \in [Scanner -> PC \cup {"no"}]
  /\ walk \in [Scanner -> Walk]
  /\ todo \in [Scanner -> SUBSET Path]
  /\ look \in [Scanner -> Look]
  /\ link \in [Scanner -> Link]
  /\ res \in [Scanner -> Res]
  /\ ghost \in [Scanner -> Ghost]

\* A row of the probe cache that a lookup would accept describes the version
\* of the file that is there, however edits, probes and several scans overlap,
\* unless Sonarr or Radarr can answer for the file (StateStore.get, the stat taken
\* before _probe_all, state.put).
CacheFresh ==
  \A m \in Media \ Indexed :
    source[m] # NoFile /\ CacheHit(m, source[m].stamp)
      => cache[m].content = source[m].content

\* What the output ought to hold: the media files that match the filters now,
\* with their subtitles.
Desired(o) ==
  UNION {{m} \cup (SidecarsOf[m] \cap sidecars) :
         m \in {m \in Media : Visible(m) /\ source[m].content \in filters[o]}}

\* The paths whose links do not depend on an answer of Sonarr or Radarr.
Sure == Path \ UNION {{m} \cup SidecarsOf[m] : m \in Indexed}

\* No broken link, no link to another file and no temporary link is left, and of
\* the given paths exactly the desired ones are linked.
InLine(o, paths) ==
  /\ \A p \in Path : ~Broken(out[o][Dest(p)]) /\ out[o][Dest(p)] \notin Path \ {p}
  /\ \A p \in Path : out[o][Tmp(p)] = Absent
  /\ \A p \in paths : IF p \in Desired(o) THEN out[o][Dest(p)] \in {p, RegularFile}
                                          ELSE out[o][Dest(p)] # p

\* s was a real scan, ran alone, and met no error and no refusal of the guard.
EndsWell(s) ==
  /\ pc[s] = "finish" /\ job[s].mode = "scan" /\ ghost[s].quiet
  /\ ~job[s].dry /\ cancel[s] = "no" /\ ~res[s].errors /\ res[s].blocked = {}

\* Such a scan leaves every output in line with the sources and the filters,
\* whatever state crashes, hand edits and earlier scans had left; for a file that
\* Sonarr or Radarr answers for there is at least no wrong and no broken link
\* (process_library, ensure_link, plan_removals, docs/how-it-works.md:37-39).
ScanConverges == \A s \in Scanner : EndsWell(s) => \A o \in Output : InLine(o, Sure)

Moves(s) == <<pc[s], link[s]>>' # <<pc[s], link[s]>>

\* Path p belongs into output o for process s, and nothing about it changed
\* since s began.
Wanted(s, o, p) ==
  /\ p \in ghost[s].stable
  /\ \E m \in (Media \ Indexed) \cap ghost[s].stable :
       p \in {m} \cup SidecarsOf[m] /\ source[m].content \in job[s].cfg[o]

\* The media server never sees a scan take a wanted link away: the scan keeps the
\* entry of a path that matches and did not change, also while it replaces a wrong
\* link, when the probe fails, and when other processes scan, clean or crash
\* (process_library, ensure_link, plan_removals).
WantedLinksStay ==
  [][\A s \in Scanner, o \in Output, p \in Path :
       Moves(s) /\ job[s].mode = "scan" /\ Wanted(s, o, p) /\ out[o][Dest(p)] # Absent
         => out'[o][Dest(p)] # Absent]_vars

\* No process ever removes or replaces a regular file of an output
\* (symlinks.py:3-5, docs/how-it-works.md:47-48).
RegularFilesStay ==
  [][\A s \in Scanner, o \in Output, p \in Path :
       Moves(s) /\ out[o][Dest(p)] = RegularFile => out'[o][Dest(p)] = RegularFile]_vars

\* A working link that somebody else made stays as it is, unless it has the name of
\* a file that the scan links; then it becomes exactly that link (ensure_link,
\* plan_removals, clean_stale).
LiveForeignStay ==
  [][\A s \in Scanner, o \in Output, p \in Path :
       Moves(s) /\ out[o][Dest(p)] \in LiveForeign
         => \/ out'[o][Dest(p)] = out[o][Dest(p)]
            \/ p \in link[s].expected /\ out'[o][Dest(p)] = p]_vars

\* A scan cancelled before it began to link, and a dry run, change no link
\* (processor.py:40, docs/how-it-works.md:60-62).
CancelledKeepsLinks ==
  \A s \in Scanner :
    job[s].dry \/ cancel[s] \in PreLink => ghost[s].touched = {}

\* A scan or clean that runs alone while the share is away changes no link
\* (_input_is_usable, docs/how-it-works.md:51-55).
UnmountedKeepsLinks ==
  \A s \in Scanner :
    ghost[s].quiet /\ mount \in {"missing", "empty"} => ghost[s].touched = {}

\* A scan that runs its hooks hands them every output in which it changed a link,
\* whatever links and removals failed, unless the result was dropped because the
\* probe cache raised (changed_outputs, ScanRunner.run, scan_libraries,
\* README.md:74).
ChangesReported ==
  \A s \in Scanner :
    pc[s] = "finish" /\ RunsHooks(s) /\ ~res[s].dropped
      => ghost[s].touched \subseteq res[s].changed

-----------------------------------------------------------------------------
(***************************************************************************)
(* Claims of the documentation that the code does not keep.  Runs          *)
(* stray_mount and stale_index show the last two; the README tells what     *)
(* breaks the first.                                                       *)
(***************************************************************************)
\* docs/how-it-works.md:49-50: links pointing elsewhere "are left alone".
\* A broken one is removed whoever made it, and any may be replaced.
ForeignLinksStay ==
  [][\A s \in Scanner, o \in Output, p \in Path :
       Moves(s) /\ out[o][Dest(p)] \in Foreign
         => out'[o][Dest(p)] = out[o][Dest(p)]]_vars

\* README.md:64: "an unmounted share never empties your filtered library".
\* A stray entry in the mount point defeats _input_is_usable, and clean has no
\* removal guard.
NeverEmptiedWhileUnmounted ==
  \A s \in Scanner, o \in Output :
    /\ pc[s] = "finish" /\ job[s].mode = "clean"
    /\ ghost[s].quiet /\ mount # "up" /\ o \in ghost[s].touched
    => \E p \in Path : out[o][Dest(p)] \in Path

\* docs/how-it-works.md:37-39: the output is "always correct after a scan, no matter
\* what happened before".  An answer of an outdated index is stored as the tracks of
\* the file's new version, and later scans trust it.
AlwaysCorrect == \A s \in Scanner : EndsWell(s) => \A o \in Output : InLine(o, Path)
=============================================================================
