------------------------- MODULE LibraryScanProofs -------------------------
(***************************************************************************)
(* LibraryScan, for any number of processes, files, outputs and steps of   *)
(* the environment: its types, the probe cache, cancelled scans and dry    *)
(* runs, what is not Boomarr's, the report to the hooks, the unmounted     *)
(* share, wanted links and convergence.  Each part has an inductive        *)
(* invariant of its own; that of the wanted links rests on those of the    *)
(* cache and of the unmounted share, and that of convergence on all three. *)
(***************************************************************************)
EXTENDS LibraryScan, TLAPS

(***************************************************************************)
(* The parts of the state.                                                 *)
(***************************************************************************)
\* Where a process can go.
LEMMA Places ==
  {"idle", "begin", "walk", "lookup", "probe", "link", "mkdir", "symlink",
   "tmp_unlink", "tmp_link", "tmp_replace", "remove", "finish", "clean",
   "sweep_next", "sweep"} \subseteq PC
BY DEF PC, PreLink, LinkPCs

\* Names of an output directory, and what they may hold.
LEMMA Names ==
  /\ \A p \in Path : Dest(p) \in Name /\ Tmp(p) \in Name
  /\ Path \subseteq Entry /\ Absent \in Entry /\ Media \subseteq Path
BY DEF Name, Dest, Tmp, Entry, Target, Path

\* The fields of what a process knows.
LEMMA Fields ==
  ASSUME TypeOK, NEW s \in Scanner
  PROVE  /\ walk[s].files \subseteq Path \cup {Stray} /\ walk[s].left \subseteq Dir
         /\ \A m \in Media : /\ look[s].stamp[m] \in Nat
                             /\ look[s].got[m] \in Content \cup {NoInfo, Pending}
         /\ link[s].cur \in Output /\ link[s].at \in Path
         /\ link[s].outs \subseteq Output /\ link[s].plan \subseteq Name
         /\ link[s].doom \subseteq Name
<1>1. walk[s] \in Walk /\ look[s] \in Look /\ link[s] \in Link
  BY DEF TypeOK
<1>2. walk[s].files \subseteq Path \cup {Stray} /\ walk[s].left \subseteq Dir
  BY <1>1 DEF Walk
<1>3. \A m \in Media : /\ look[s].stamp[m] \in Nat
                       /\ look[s].got[m] \in Content \cup {NoInfo, Pending}
  BY <1>1 DEF Look
<1>4. /\ link[s].cur \in Output /\ link[s].at \in Path
      /\ link[s].outs \subseteq Output /\ link[s].plan \subseteq Name
      /\ link[s].doom \subseteq Name
  BY <1>1 DEF Link
<1> QED BY <1>2, <1>3, <1>4

\* A visible file has a version.
LEMMA VisibleVersion ==
  ASSUME TypeOK, NEW m \in Media, Visible(m)
  PROVE  source[m] # NoFile /\ source[m].stamp \in Nat /\ source[m].content \in Content
BY DEF TypeOK, Visible, Present, Version

\* What discovery finds are paths (_discover_files).
LEMMA FoundPaths ==
  ASSUME TypeOK, NEW s \in Scanner
  PROVE  /\ \A d \in Dir : Found(d) \subseteq Path \cup {Stray}
         /\ MediaFound(s) \subseteq Media /\ MediaFound(s) \subseteq Path
         /\ \A o \in Output : Expected(s, o) \subseteq Path
         /\ Preserved(s) \subseteq Path
<1>1. \A m \in MediaFound(s) : Sources(s, m) \subseteq Path
  BY PathAssumption DEF MediaFound, Sources, Path
<1>2. \A o \in Output : Expected(s, o) \subseteq Path
  BY <1>1 DEF Expected
<1>3. Preserved(s) \subseteq Path
  BY <1>1 DEF Preserved
<1> QED BY <1>2, <1>3, Names DEF Found, MediaFound

-----------------------------------------------------------------------------
(***************************************************************************)
(* The operators that change the state keep its types.                     *)
(***************************************************************************)
LEMMA GotoTyped ==
  ASSUME TypeOK, NEW s \in Scanner, NEW where \in PC, Goto(s, where)
  PROVE  pc' \in [Scanner -> PC]
BY DEF TypeOK, Goto

LEMMA FailTyped ==
  ASSUME TypeOK, NEW s \in Scanner, Fail(s) \/ UNCHANGED res
  PROVE  res' \in [Scanner -> Res]
<1>1. res \in [Scanner -> Res]
  BY DEF TypeOK
<1> QED BY <1>1 DEF Fail, Res

LEMMA LinkedTyped ==
  ASSUME TypeOK, NEW s \in Scanner, NEW p, Linked(s, p)
  PROVE  pc' \in [Scanner -> PC] /\ todo' \in [Scanner -> SUBSET Path]
<1>1. pc \in [Scanner -> PC] /\ todo \in [Scanner -> SUBSET Path]
  BY DEF TypeOK
<1> QED BY <1>1, Places DEF Linked, Goto

LEMMA CreatedTyped ==
  ASSUME TypeOK, NEW s \in Scanner, Created(s) \/ UNCHANGED link
  PROVE  link' \in [Scanner -> Link]
<1>1. link \in [Scanner -> Link]
  BY DEF TypeOK
<1>2. CASE UNCHANGED link
  BY <1>1, <1>2
<1>3. CASE Created(s)
  <2>1. link' = [link EXCEPT ![s].created = TRUE]
    BY <1>3 DEF Created
  <2> QED BY <1>1, <2>1 DEF Link
<1> QED BY <1>2, <1>3

LEMMA TouchedTyped ==
  ASSUME TypeOK, NEW s \in Scanner, NEW o \in Output,
         ghost' = [ghost EXCEPT ![s].touched = @ \cup {o}] \/ UNCHANGED ghost
  PROVE  ghost' \in [Scanner -> Ghost]
<1>1. ghost \in [Scanner -> Ghost]
  BY DEF TypeOK
<1> QED BY <1>1 DEF Ghost

LEMMA OutTyped ==
  ASSUME TypeOK, NEW o \in Output, NEW n \in Name, NEW e \in Entry,
         out' = [out EXCEPT ![o][n] = e]
  PROVE  out' \in [Output -> [Name -> Entry]]
<1>1. out \in [Output -> [Name -> Entry]]
  BY DEF TypeOK
<1> QED BY <1>1

LEMMA WriteTyped ==
  ASSUME TypeOK, NEW s \in Scanner, NEW o \in Output, NEW n \in Name, NEW e \in Entry,
         Write(s, o, n, e)
  PROVE  /\ out' \in [Output -> [Name -> Entry]] /\ unreported' \subseteq Output
         /\ ghost' \in [Scanner -> Ghost]
<1>1. out' \in [Output -> [Name -> Entry]]
  BY OutTyped DEF Write
<1>2. unreported' \subseteq Output
  BY DEF Write, TypeOK
<1>3. ghost' \in [Scanner -> Ghost]
  BY TouchedTyped DEF Write
<1> QED BY <1>1, <1>2, <1>3

LEMMA OutputDoneTyped ==
  ASSUME TypeOK, NEW s \in Scanner, NEW created, NEW removed,
         OutputDone(s, created, removed)
  PROVE  pc' \in [Scanner -> PC] /\ res' \in [Scanner -> Res]
<1>1. pc' \in [Scanner -> PC]
  BY GotoTyped, Places DEF OutputDone
<1>2. link[s].cur \in Output /\ res \in [Scanner -> Res]
  BY Fields DEF TypeOK
<1> DEFINE done == IF created \/ removed THEN res[s].changed \cup {link[s].cur}
                                         ELSE res[s].changed
<1>3. done \subseteq Output /\ res' = [res EXCEPT ![s].changed = done]
  BY <1>2 DEF OutputDone, Res
<1> HIDE DEF done
<1>4. res' \in [Scanner -> Res]
  BY <1>2, <1>3 DEF Res
<1> QED BY <1>1, <1>4

\* A process that is gone knows nothing.
LEMMA EmptyRecords ==
  /\ NoJob \in Job /\ NoWalk \in Walk /\ NoLook \in Look /\ NoLink \in Link
  /\ NoRes \in Res /\ NoGhost \in Ghost
<1>1. NoJob \in Job
  BY DEF NoJob, Job
<1>2. NoWalk \in Walk
  BY DEF NoWalk, Walk
<1>3. NoLook \in Look
  BY DEF NoLook, Look
<1>4. NoLink \in Link
  <2>1. (CHOOSE o \in Output : TRUE) \in Output /\ (CHOOSE p \in Path : TRUE) \in Path
    BY NonEmptyAssumption DEF Path
  <2> QED BY <2>1 DEF NoLink, Link
<1>5. NoRes \in Res
  BY DEF NoRes, Res
<1>6. NoGhost \in Ghost
  BY DEF NoGhost, Ghost
<1> QED BY <1>1, <1>2, <1>3, <1>4, <1>5, <1>6

LEMMA ResetTyped ==
  ASSUME TypeOK, NEW s \in Scanner, Reset(s)
  PROVE  /\ pc' \in [Scanner -> PC] /\ job' \in [Scanner -> Job]
         /\ cancel' \in [Scanner -> PC \cup {"no"}] /\ walk' \in [Scanner -> Walk]
         /\ todo' \in [Scanner -> SUBSET Path] /\ look' \in [Scanner -> Look]
         /\ link' \in [Scanner -> Link] /\ res' \in [Scanner -> Res]
BY GotoTyped, Places, EmptyRecords DEF TypeOK, Reset

-----------------------------------------------------------------------------
(***************************************************************************)
(* Discovery and probing keep the types.                                   *)
(***************************************************************************)
LEMMA BeginTyped == ASSUME TypeOK, NEW s \in Scanner, Begins(s) PROVE TypeOK'
<1>1. ASSUME NEW mode \in {"scan", "clean"}, NEW dry \in BOOLEAN, NEW force \in BOOLEAN,
             Start(s, mode, dry, force)
      PROVE  job' \in [Scanner -> Job] /\ ghost' \in [Scanner -> Ghost]
  <2>1. [mode |-> mode, dry |-> dry, force |-> force, cfg |-> filters] \in Job
    BY DEF TypeOK, Job
  <2>2. job' \in [Scanner -> Job]
    BY <1>1, <2>1 DEF Start, TypeOK
  <2>3. [quiet |-> \A q \in Scanner \ {s} : ~Running(q),
         stable |-> {p \in Path : Visible(p)}, touched |-> {}] \in Ghost
    BY DEF Ghost
  <2>4. \A r \in Scanner : [ghost[r] EXCEPT !.quiet = FALSE] \in Ghost
    BY DEF TypeOK, Ghost
  <2>5. ghost' \in [Scanner -> Ghost]
    BY <1>1, <2>3, <2>4 DEF Start
  <2> QED BY <2>2, <2>5
<1>2. ASSUME NEW dry \in BOOLEAN, NEW force \in BOOLEAN, StartScan(s, dry, force)
      PROVE  TypeOK'
  <2>1. job' \in [Scanner -> Job] /\ ghost' \in [Scanner -> Ghost]
    BY <1>1, <1>2 DEF StartScan
  <2>2. pc' \in [Scanner -> PC]
    BY <1>2, GotoTyped, Places DEF StartScan
  <2>3. walk' \in [Scanner -> Walk]
    <3>1. walk \in [Scanner -> Walk] /\ walk' = [walk EXCEPT ![s].left = Dir]
      BY <1>2 DEF StartScan, TypeOK
    <3> QED BY <3>1 DEF Walk
  <2> QED BY <1>2, <2>1, <2>2, <2>3 DEF TypeOK, StartScan, Start, input, outs
<1>3. ASSUME StartClean(s) PROVE TypeOK'
  <2>1. job' \in [Scanner -> Job] /\ ghost' \in [Scanner -> Ghost]
    BY <1>1, <1>3 DEF StartClean
  <2>2. pc' \in [Scanner -> PC]
    BY <1>3, GotoTyped, Places DEF StartClean
  <2> QED BY <1>3, <2>1, <2>2 DEF TypeOK, StartClean, Start, input, outs
<1> QED BY <1>2, <1>3 DEF Begins

LEMMA DiscoverTyped == ASSUME TypeOK, NEW s \in Scanner, Discovers(s) PROVE TypeOK'
<1>1. ASSUME NEW d \in Dir, WalkDir(s, d) PROVE TypeOK'
  <2>1. /\ walk \in [Scanner -> Walk]
        /\ walk' = [walk EXCEPT ![s].files = walk[s].files \cup Found(d),
                                ![s].left = walk[s].left \ {d}]
    BY <1>1 DEF WalkDir, TypeOK, Walk
  <2>2. /\ walk[s].files \cup Found(d) \subseteq Path \cup {Stray}
        /\ walk[s].left \ {d} \subseteq Dir
    BY Fields, FoundPaths
  <2>3. walk' \in [Scanner -> Walk]
    BY <2>1, <2>2 DEF Walk
  <2> QED BY <1>1, <2>3 DEF TypeOK, WalkDir, input, outs
<1>2. ASSUME CheckInput(s) PROVE TypeOK'
  <2>1. pc' \in [Scanner -> PC]
    BY <1>2, GotoTyped, Places DEF CheckInput
  <2>2. res' \in [Scanner -> Res]
    BY <1>2, FailTyped DEF CheckInput
  <2>3. todo' \in [Scanner -> SUBSET Path]
    BY <1>2, FoundPaths DEF CheckInput, TypeOK
  <2> QED BY <1>2, <2>1, <2>2, <2>3 DEF TypeOK, CheckInput, input, outs
<1> QED BY <1>1, <1>2 DEF Discovers

LEMMA LookupTyped ==
  ASSUME TypeOK, NEW s \in Scanner, NEW m \in Media, Lookup(s, m) PROVE TypeOK'
<1>1. res' \in [Scanner -> Res]
  BY FailTyped DEF Lookup
<1>2. todo' \in [Scanner -> SUBSET Path]
  BY DEF Lookup, TypeOK
<1>3. cache' \in [Media -> Version \cup {NoFile}]
  BY DEF Lookup, TypeOK
<1>4. look' \in [Scanner -> Look]
  <2>1. look \in [Scanner -> Look]
    BY DEF TypeOK
  <2>2. CASE UNCHANGED look
    BY <2>1, <2>2
  <2>3. CASE Visible(m) /\ CacheHit(m, source[m].stamp)
    <3>1. cache[m].content \in Content
      BY <2>3 DEF CacheHit, TypeOK, Version
    <3>2. look' = [look EXCEPT ![s].info[m] = cache[m].content]
      BY <2>3 DEF Lookup
    <3> QED BY <2>1, <3>1, <3>2 DEF Look
  <2>4. CASE Visible(m) /\ ~CacheHit(m, source[m].stamp)
    <3>1. source[m].stamp \in Nat
      BY <2>4, VisibleVersion
    <3>2. look' = [look EXCEPT ![s].stamp[m] = source[m].stamp]
      BY <2>4 DEF Lookup
    <3> QED BY <2>1, <3>1, <3>2 DEF Look
  <2> QED BY <2>2, <2>3, <2>4 DEF Lookup
<1> QED BY <1>1, <1>2, <1>3, <1>4 DEF TypeOK, Lookup, input, outs

\* What a process knows of the library of Sonarr or Radarr (_refresh, _index).
LEMMA KnownTyped ==
  ASSUME TypeOK, NEW s \in Scanner
  PROVE  /\ index[s] \in [Media -> Content \cup {NoInfo}]
         /\ Fetched \in [Media -> Content \cup {NoInfo}]
         /\ NoIndex \in [Media -> Content \cup {NoInfo}]
<1>1. \A m \in Media : source[m] # NoFile => source[m].content \in Content
  BY DEF TypeOK, Version
<1> QED BY <1>1 DEF TypeOK, Fetched, NoIndex

\* The answer of the probers for file m, and the index it may come from.
LEMMA ProbeAnswers ==
  ASSUME TypeOK, NEW s \in Scanner, NEW m \in Media, Probe(s, m)
  PROVE  \E known \in {index[s], Fetched} :
           /\ index' = [index EXCEPT ![s] = known]
           /\ \E answer \in Content \cup {NoInfo} :
                /\ look' = [look EXCEPT ![s].got[m] = answer]
                /\ \/ answer \in {NoInfo, known[m]}
                   \/ Visible(m) /\ answer = source[m].content
<1>1. PICK known \in {index[s], Fetched} :
        /\ index' = [index EXCEPT ![s] = known]
        /\ \E answer \in Answers(s, m, known) : look' = [look EXCEPT ![s].got[m] = answer]
  BY DEF Probe
<1>2. PICK answer \in Answers(s, m, known) : look' = [look EXCEPT ![s].got[m] = answer]
  BY <1>1
<1>3. known[m] \in Content \cup {NoInfo}
  BY KnownTyped
<1>4. \/ answer \in {NoInfo, known[m]}
      \/ Visible(m) /\ answer = source[m].content
  BY <1>2 DEF Answers
<1>5. answer \in Content \cup {NoInfo}
  BY <1>3, <1>4, VisibleVersion
<1> QED BY <1>1, <1>2, <1>4, <1>5

LEMMA ProbeTyped ==
  ASSUME TypeOK, NEW s \in Scanner, NEW m \in Media, Probe(s, m) PROVE TypeOK'
<1>1. PICK known \in {index[s], Fetched} :
        /\ index' = [index EXCEPT ![s] = known]
        /\ \E answer \in Content \cup {NoInfo} : look' = [look EXCEPT ![s].got[m] = answer]
  BY ProbeAnswers
<1>2. PICK answer \in Content \cup {NoInfo} : look' = [look EXCEPT ![s].got[m] = answer]
  BY <1>1
<1>3. look \in [Scanner -> Look] /\ index \in [Scanner -> [Media -> Content \cup {NoInfo}]]
  BY DEF TypeOK
<1>4. look' \in [Scanner -> Look]
  BY <1>2, <1>3 DEF Look
<1>5. index' \in [Scanner -> [Media -> Content \cup {NoInfo}]]
  BY <1>1, <1>3, KnownTyped
<1> QED BY <1>4, <1>5 DEF TypeOK, Probe, outs

LEMMA StoreProbeTyped ==
  ASSUME TypeOK, NEW s \in Scanner, NEW m \in Media, StoreProbe(s, m) PROVE TypeOK'
<1> DEFINE answer == look[s].got[m]
<1>1. answer \in Content \cup {NoInfo} /\ look[s].stamp[m] \in Nat
  BY Fields DEF StoreProbe
<1>2. res' \in [Scanner -> Res]
  BY FailTyped DEF StoreProbe
<1>3. todo' \in [Scanner -> SUBSET Path]
  BY DEF StoreProbe, TypeOK
<1>4. CASE Answered(answer)
  <2>1. answer \in Content
    BY <1>1, <1>4 DEF Answered
  <2>2. Row(s, m, answer) \in Version
    BY <1>1, <2>1 DEF Row, Version
  <2>3. cache' \in [Media -> Version \cup {NoFile}]
    BY <1>4, <2>2 DEF StoreProbe, TypeOK
  <2>4. look \in [Scanner -> Look] /\ look' = [look EXCEPT ![s].info[m] = answer]
    BY <1>4 DEF StoreProbe, TypeOK
  <2> HIDE DEF answer
  <2>5. look' \in [Scanner -> Look]
    BY <2>1, <2>4 DEF Look
  <2> QED BY <1>2, <1>3, <2>3, <2>5 DEF TypeOK, StoreProbe, input, outs
<1>5. CASE ~Answered(answer)
  BY <1>2, <1>3, <1>5 DEF TypeOK, StoreProbe, input, outs
<1> QED BY <1>4, <1>5

LEMMA ProbingTyped == ASSUME TypeOK, NEW s \in Scanner, Probes(s) PROVE TypeOK'
<1>1. ASSUME BeginProbing(s) PROVE TypeOK'
  <2>1. todo' \in [Scanner -> SUBSET Path] /\ pc' \in [Scanner -> PC]
    BY <1>1, GotoTyped, Places, Names DEF BeginProbing, TypeOK
  <2> QED BY <1>1, <2>1 DEF TypeOK, BeginProbing, input, outs
<1>2. ASSUME AbortProbing(s) PROVE TypeOK'
  <2>1. pc' \in [Scanner -> PC]
    BY <1>2, GotoTyped, Places DEF AbortProbing
  <2> QED BY <1>2, <2>1 DEF TypeOK, AbortProbing, input, outs
<1>3. ASSUME EndProbing(s) PROVE TypeOK'
  <2>1. pc' \in [Scanner -> PC]
    BY <1>3, GotoTyped, Places DEF EndProbing
  <2>2. link' \in [Scanner -> Link]
    <3>1. link \in [Scanner -> Link]
      BY DEF TypeOK
    <3>2. UNCHANGED link \/ link' = [link EXCEPT ![s].outs = Output]
      BY <1>3 DEF EndProbing
    <3>3. [link EXCEPT ![s].outs = Output] \in [Scanner -> Link]
      BY <3>1 DEF Link
    <3> QED BY <3>1, <3>2, <3>3
  <2> QED BY <1>3, <2>1, <2>2 DEF TypeOK, EndProbing, input, outs
<1> QED BY <1>1, <1>2, <1>3, LookupTyped, ProbeTyped, StoreProbeTyped DEF Probes

-----------------------------------------------------------------------------
(***************************************************************************)
(* Reconciliation keeps the types.                                         *)
(***************************************************************************)
LEMMA BeginOutputTyped ==
  ASSUME TypeOK, NEW s \in Scanner, NEW o \in Output, BeginOutput(s, o) PROVE TypeOK'
<1>1. Expected(s, o) \subseteq Path /\ Preserved(s) \subseteq Path
  BY FoundPaths
<1>2. pc' \in [Scanner -> PC] /\ todo' \in [Scanner -> SUBSET Path]
  BY <1>1, GotoTyped, Places DEF BeginOutput, TypeOK
<1>3. link \in [Scanner -> Link]
  BY DEF TypeOK
<1>4. [link[s] EXCEPT !.outs = @ \ {o}, !.cur = o, !.expected = Expected(s, o),
                      !.preserve = Preserved(s), !.created = FALSE,
                      !.removed = FALSE] \in Link
  BY <1>1, <1>3 DEF Link
<1>5. link' = [link EXCEPT ![s] =
        [link[s] EXCEPT !.outs = @ \ {o}, !.cur = o, !.expected = Expected(s, o),
                        !.preserve = Preserved(s), !.created = FALSE,
                        !.removed = FALSE]]
  BY <1>3 DEF BeginOutput
<1>6. link' \in [Scanner -> Link]
  BY <1>3, <1>4, <1>5
<1> QED BY <1>2, <1>6 DEF TypeOK, BeginOutput, input, outs

LEMMA EnsureLinkTyped ==
  ASSUME TypeOK, NEW s \in Scanner, NEW p \in Path, EnsureLink(s, p) PROVE TypeOK'
<1> DEFINE entry == out[link[s].cur][Dest(p)]
<1>1. CASE Keeps(entry, p) \/ job[s].dry
  <2>1. Linked(s, p) /\ (Created(s) \/ UNCHANGED link)
    BY <1>1 DEF EnsureLink
  <2> QED BY <2>1, LinkedTyped, CreatedTyped DEF TypeOK, EnsureLink, input, outs
<1>2. CASE ~Keeps(entry, p) /\ ~job[s].dry
  <2>1. /\ Goto(s, IF entry = Absent THEN "mkdir" ELSE "tmp_unlink")
        /\ link' = [link EXCEPT ![s].at = p] /\ UNCHANGED todo
    BY <1>2 DEF EnsureLink
  <2>2. pc' \in [Scanner -> PC]
    BY <2>1, GotoTyped, Places
  <2>3. link \in [Scanner -> Link]
    BY DEF TypeOK
  <2>4. link' \in [Scanner -> Link]
    BY <2>1, <2>3 DEF Link
  <2> QED BY <2>1, <2>2, <2>4 DEF TypeOK, EnsureLink, input, outs
<1> QED BY <1>1, <1>2

LEMMA CreateLinkTyped ==
  ASSUME TypeOK, NEW s \in Scanner, CreateLink(s) PROVE TypeOK'
<1> DEFINE o == link[s].cur
           p == link[s].at
<1>1. o \in Output /\ p \in Path /\ Dest(p) \in Name /\ p \in Entry
  BY Fields, Names
<1>2. /\ Linked(s, p)
      /\ \/ Write(s, o, Dest(p), p) /\ Created(s) /\ UNCHANGED res
         \/ Fail(s) /\ UNCHANGED <<out, unreported, ghost, link>>
      /\ UNCHANGED <<input, filters, budget, dirs, cache, job, cancel, walk, look>>
  BY DEF CreateLink
<1> HIDE DEF o, p
<1>3. pc' \in [Scanner -> PC] /\ todo' \in [Scanner -> SUBSET Path]
  BY <1>2, LinkedTyped
<1>4. res' \in [Scanner -> Res] /\ link' \in [Scanner -> Link]
  BY <1>2, FailTyped, CreatedTyped
<1>5. /\ out' \in [Output -> [Name -> Entry]] /\ unreported' \subseteq Output
      /\ ghost' \in [Scanner -> Ghost]
  BY <1>1, <1>2, WriteTyped DEF TypeOK
<1> QED BY <1>2, <1>3, <1>4, <1>5 DEF TypeOK, input

LEMMA LinkTmpTyped ==
  ASSUME TypeOK, NEW s \in Scanner, LinkTmp(s) PROVE TypeOK'
<1> DEFINE o == link[s].cur
           p == link[s].at
<1>1. o \in Output /\ p \in Path /\ Tmp(p) \in Name /\ p \in Entry
  BY Fields, Names
<1>2. /\ \/ /\ out' = [out EXCEPT ![o][Tmp(p)] = p]
            /\ Goto(s, "tmp_replace") /\ UNCHANGED <<todo, res>>
         \/ Linked(s, p) /\ Fail(s) /\ UNCHANGED out
      /\ UNCHANGED <<input, filters, budget, dirs, unreported, cache, job, cancel, walk,
                     look, link, ghost>>
  BY DEF LinkTmp
<1> HIDE DEF o, p
<1>3. pc' \in [Scanner -> PC] /\ todo' \in [Scanner -> SUBSET Path]
  BY <1>2, LinkedTyped, GotoTyped, Places DEF TypeOK
<1>4. res' \in [Scanner -> Res]
  BY <1>2, FailTyped
<1>5. out' \in [Output -> [Name -> Entry]]
  BY <1>1, <1>2, OutTyped DEF TypeOK
<1> QED BY <1>2, <1>3, <1>4, <1>5 DEF TypeOK, input

LEMMA ReplaceTmpTyped ==
  ASSUME TypeOK, NEW s \in Scanner, ReplaceTmp(s) PROVE TypeOK'
<1> DEFINE o == link[s].cur
           p == link[s].at
<1>1. o \in Output /\ p \in Path /\ Tmp(p) \in Name /\ Dest(p) \in Name
  BY Fields, Names
<1>2. /\ Linked(s, p)
      /\ \/ /\ out' = [out EXCEPT ![o][Dest(p)] = out[o][Tmp(p)], ![o][Tmp(p)] = Absent]
            /\ unreported' = unreported \cup {o}
            /\ ghost' = [ghost EXCEPT ![s].touched = @ \cup {o}]
            /\ Created(s) /\ UNCHANGED res
         \/ Fail(s) /\ UNCHANGED <<out, unreported, ghost, link>>
      /\ UNCHANGED <<input, filters, budget, dirs, cache, job, cancel, walk, look>>
  BY DEF ReplaceTmp
<1> HIDE DEF o, p
<1>3. pc' \in [Scanner -> PC] /\ todo' \in [Scanner -> SUBSET Path]
  BY <1>2, LinkedTyped
<1>4. res' \in [Scanner -> Res] /\ link' \in [Scanner -> Link]
  BY <1>2, FailTyped, CreatedTyped
<1>5. out' \in [Output -> [Name -> Entry]]
  <2>1. out \in [Output -> [Name -> Entry]]
    BY DEF TypeOK
  <2>2. out[o][Tmp(p)] \in Entry /\ Absent \in Entry
    BY <1>1, <2>1, Names
  <2>3. [out EXCEPT ![o][Dest(p)] = out[o][Tmp(p)], ![o][Tmp(p)] = Absent]
          \in [Output -> [Name -> Entry]]
    BY <1>1, <2>1, <2>2
  <2> QED BY <1>2, <2>1, <2>3
<1>6. unreported' \subseteq Output /\ ghost' \in [Scanner -> Ghost]
  BY <1>1, <1>2, TouchedTyped DEF TypeOK
<1> QED BY <1>2, <1>3, <1>4, <1>5, <1>6 DEF TypeOK, input

LEMMA PlanTyped ==
  ASSUME TypeOK, NEW s \in Scanner, NEW keep,
         link' = [link EXCEPT ![s].plan = Removals(link[s].cur, keep)] \/ UNCHANGED link
  PROVE  link' \in [Scanner -> Link]
<1>1. link \in [Scanner -> Link]
  BY DEF TypeOK
<1>2. Removals(link[s].cur, keep) \subseteq Name
  BY DEF Removals, Links
<1>3. [link EXCEPT ![s].plan = Removals(link[s].cur, keep)] \in [Scanner -> Link]
  BY <1>1, <1>2 DEF Link
<1> QED BY <1>1, <1>3

LEMMA PlanRemovalsTyped ==
  ASSUME TypeOK, NEW s \in Scanner, PlanRemovals(s) PROVE TypeOK'
<1> DEFINE o    == link[s].cur
           keep == link[s].expected \cup link[s].preserve
           plan == Removals(o, keep)
           refused == Refused(s, Cardinality(plan), Cardinality(Links(o)))
<1>1. link' \in [Scanner -> Link]
  BY PlanTyped DEF PlanRemovals
<1>2. CASE refused
  <2>1. /\ Goto(s, "begin")
        /\ res' = [res EXCEPT ![s].blocked = @ \cup {o},
                              ![s].changed = IF link[s].created THEN @ \cup {o} ELSE @]
    BY <1>2 DEF PlanRemovals
  <2>2. o \in Output /\ res \in [Scanner -> Res]
    BY Fields DEF TypeOK
  <2> HIDE DEF o
  <2>3. [res EXCEPT ![s].blocked = @ \cup {o},
                    ![s].changed = IF link[s].created THEN @ \cup {o} ELSE @]
          \in [Scanner -> Res]
    BY <2>2 DEF Res
  <2>4. pc' \in [Scanner -> PC] /\ res' \in [Scanner -> Res]
    BY <2>1, <2>3, GotoTyped, Places
  <2> QED BY <1>1, <2>4 DEF TypeOK, PlanRemovals, input, outs
<1>3. CASE ~refused /\ job[s].dry
  <2>1. OutputDone(s, link[s].created, plan # {})
    BY <1>3 DEF PlanRemovals
  <2>2. pc' \in [Scanner -> PC] /\ res' \in [Scanner -> Res]
    BY <2>1, OutputDoneTyped
  <2> QED BY <1>1, <2>2 DEF TypeOK, PlanRemovals, input, outs
<1>4. CASE ~refused /\ ~job[s].dry
  <2>1. Goto(s, "remove") /\ UNCHANGED res
    BY <1>4 DEF PlanRemovals
  <2>2. pc' \in [Scanner -> PC]
    BY <2>1, GotoTyped, Places
  <2> QED BY <1>1, <2>1, <2>2 DEF TypeOK, PlanRemovals, input, outs
<1> QED BY <1>2, <1>3, <1>4

LEMMA RemoveLinkTyped ==
  ASSUME TypeOK, NEW s \in Scanner, NEW n \in Name, RemoveLink(s, n) PROVE TypeOK'
<1> DEFINE o == link[s].cur
<1>1. o \in Output /\ link \in [Scanner -> Link] /\ Absent \in Entry
  BY Fields, Names DEF TypeOK
<1>2. link' \in [Scanner -> Link]
  <2>1. link' = [link EXCEPT ![s].plan = @ \ {n}, ![s].removed = @ \/ out[o][n] # Absent]
    BY DEF RemoveLink
  <2>2. [link[s] EXCEPT !.plan = @ \ {n}, !.removed = @ \/ out[o][n] # Absent] \in Link
    BY <1>1 DEF Link
  <2> QED BY <1>1, <2>1, <2>2
<1>3. Write(s, o, n, Absent) \/ UNCHANGED <<out, unreported, ghost>>
  BY DEF RemoveLink
<1> HIDE DEF o
<1>4. /\ out' \in [Output -> [Name -> Entry]] /\ unreported' \subseteq Output
      /\ ghost' \in [Scanner -> Ghost]
  BY <1>1, <1>3, WriteTyped DEF TypeOK
<1> QED BY <1>2, <1>4 DEF TypeOK, RemoveLink, input

LEMMA ReconcileTyped == ASSUME TypeOK, NEW s \in Scanner, Reconciles(s) PROVE TypeOK'
<1>1. ASSUME MakeDir(s) PROVE TypeOK'
  <2>1. link[s].cur \in Output /\ DirOf[link[s].at] \in Dir
    BY Fields, PathAssumption
  <2>2. dirs' \in [Output -> SUBSET Dir] /\ pc' \in [Scanner -> PC]
    BY <1>1, <2>1, GotoTyped, Places DEF MakeDir, TypeOK
  <2> QED BY <1>1, <2>2 DEF TypeOK, MakeDir, input
<1>2. ASSUME UnlinkTmp(s) PROVE TypeOK'
  <2>1. link[s].cur \in Output /\ Tmp(link[s].at) \in Name /\ Absent \in Entry
    BY Fields, Names
  <2>2. out' = [out EXCEPT ![link[s].cur][Tmp(link[s].at)] = Absent]
    BY <1>2 DEF UnlinkTmp
  <2>3. out' \in [Output -> [Name -> Entry]]
    BY <2>1, <2>2, OutTyped
  <2>4. pc' \in [Scanner -> PC]
    BY <1>2, GotoTyped, Places DEF UnlinkTmp
  <2> QED BY <1>2, <2>3, <2>4 DEF TypeOK, UnlinkTmp, input
<1>3. ASSUME PruneDirs(s) PROVE TypeOK'
  <2>1. dirs' \in [Output -> SUBSET Dir]
    BY <1>3, Fields DEF PruneDirs, TypeOK
  <2>2. pc' \in [Scanner -> PC] /\ res' \in [Scanner -> Res]
    BY <1>3, OutputDoneTyped DEF PruneDirs
  <2> QED BY <1>3, <2>1, <2>2 DEF TypeOK, PruneDirs, input
<1>4. ASSUME PruneCache(s) PROVE TypeOK'
  <2>1. cache' \in [Media -> Version \cup {NoFile}]
    BY <1>4 DEF PruneCache, TypeOK
  <2>2. pc' \in [Scanner -> PC]
    BY <1>4, GotoTyped, Places DEF PruneCache
  <2> QED BY <1>4, <2>1, <2>2 DEF TypeOK, PruneCache, input, outs
<1> QED BY <1>1, <1>2, <1>3, <1>4, BeginOutputTyped, EnsureLinkTyped, CreateLinkTyped,
           LinkTmpTyped, ReplaceTmpTyped, PlanRemovalsTyped, RemoveLinkTyped
        DEF Reconciles

-----------------------------------------------------------------------------
(***************************************************************************)
(* Clean, the end of a process and the environment keep the types.         *)
(***************************************************************************)
LEMMA CleanTyped == ASSUME TypeOK, NEW s \in Scanner, Cleans(s) PROVE TypeOK'
<1>1. link \in [Scanner -> Link]
  BY DEF TypeOK
<1>2. ASSUME CheckClean(s) PROVE TypeOK'
  <2>1. pc' \in [Scanner -> PC]
    BY <1>2, GotoTyped, Places DEF CheckClean
  <2>2. [link EXCEPT ![s].outs = Output] \in [Scanner -> Link]
    BY <1>1 DEF Link
  <2>3. link' \in [Scanner -> Link]
    BY <1>1, <1>2, <2>2 DEF CheckClean
  <2> QED BY <1>2, <2>1, <2>3 DEF TypeOK, CheckClean, input, outs
<1>3. ASSUME NEW o \in Output, SweepOutput(s, o) PROVE TypeOK'
  <2>1. pc' \in [Scanner -> PC]
    BY <1>3, GotoTyped, Places DEF SweepOutput
  <2>2. Links(o) \subseteq Name
    BY DEF Links
  <2>3. [link[s] EXCEPT !.outs = @ \ {o}, !.cur = o, !.plan = Links(o)] \in Link
    BY <1>1, <2>2 DEF Link
  <2>4. link' \in [Scanner -> Link]
    BY <1>1, <1>3, <2>3 DEF SweepOutput
  <2> QED BY <1>3, <2>1, <2>4 DEF TypeOK, SweepOutput, input, outs
<1>4. ASSUME NEW n \in Name, SweepLink(s, n) PROVE TypeOK'
  <2>1. PICK doom \in SUBSET Name :
          link' = [link EXCEPT ![s].plan = @ \ {n}, ![s].doom = doom]
    BY <1>4 DEF SweepLink
  <2>2. [link[s] EXCEPT !.plan = @ \ {n}, !.doom = doom] \in Link
    BY <1>1 DEF Link
  <2>3. link' \in [Scanner -> Link]
    BY <1>1, <2>1, <2>2
  <2> QED BY <1>4, <2>3 DEF TypeOK, SweepLink, input, outs
<1>7. ASSUME NEW n \in Name, UnlinkStale(s, n) PROVE TypeOK'
  <2>1. link[s].cur \in Output /\ Absent \in Entry
    BY Fields, Names
  <2>2. [link EXCEPT ![s].doom = {}] \in [Scanner -> Link]
    BY <1>1 DEF Link
  <2>3. link' \in [Scanner -> Link]
    BY <1>7, <2>2 DEF UnlinkStale
  <2>4. Write(s, link[s].cur, n, Absent) \/ UNCHANGED <<out, unreported, ghost>>
    BY <1>7 DEF UnlinkStale
  <2>5. /\ out' \in [Output -> [Name -> Entry]] /\ unreported' \subseteq Output
        /\ ghost' \in [Scanner -> Ghost]
    BY <2>1, <2>4, WriteTyped DEF TypeOK
  <2> QED BY <1>7, <2>3, <2>5 DEF TypeOK, UnlinkStale, input
<1>5. ASSUME SweepDirs(s) PROVE TypeOK'
  <2>1. dirs' \in [Output -> SUBSET Dir] /\ pc' \in [Scanner -> PC]
    BY <1>5, Fields, GotoTyped, Places DEF SweepDirs, TypeOK
  <2> QED BY <1>5, <2>1 DEF TypeOK, SweepDirs, input
<1>6. ASSUME EndSweep(s) PROVE TypeOK'
  <2>1. pc' \in [Scanner -> PC]
    BY <1>6, GotoTyped, Places DEF EndSweep
  <2> QED BY <1>6, <2>1 DEF TypeOK, EndSweep, input, outs
<1> QED BY <1>2, <1>3, <1>4, <1>5, <1>6, <1>7 DEF Cleans

LEMMA FinishTyped == ASSUME TypeOK, NEW s \in Scanner, Finish(s) PROVE TypeOK'
<1>1. unreported' \subseteq Output /\ ghost' \in [Scanner -> Ghost]
  BY EmptyRecords DEF Finish, TypeOK
<1> QED BY <1>1, ResetTyped DEF TypeOK, Finish, input

LEMMA CancelTyped == ASSUME TypeOK, NEW s \in Scanner, Cancel(s) PROVE TypeOK'
<1>1. cancel' \in [Scanner -> PC \cup {"no"}]
  BY DEF Cancel, TypeOK
<1> QED BY <1>1 DEF TypeOK, Cancel, input, outs

LEMMA DisturbTyped ==
  ASSUME TypeOK, NEW s \in Scanner, NEW gone
  PROVE  Disturb(s, gone) \in Ghost
<1>1. ghost[s].stable \subseteq Path /\ ghost[s].touched \subseteq Output
  BY DEF TypeOK, Ghost
<1> QED BY <1>1 DEF Disturb, Ghost

LEMMA SpendTyped == ASSUME TypeOK, NEW event, Spend(event) PROVE budget' \in Nat
BY DEF TypeOK, Spend

LEMMA DisturbanceTyped ==
  ASSUME TypeOK, NEW event, NEW gone, Disturbance(event, gone)
  PROVE  budget' \in Nat /\ ghost' \in [Scanner -> Ghost]
BY SpendTyped, DisturbTyped DEF Disturbance

LEMMA FaultTyped == ASSUME TypeOK, NEW s \in Scanner, Faults(s) PROVE TypeOK'
<1>1. ASSUME Crash(s) \/ HookFails(s) PROVE TypeOK'
  <2>1. Reset(s) /\ budget' \in Nat
    BY <1>1, SpendTyped DEF Crash, HookFails
  <2>2. ghost' \in [Scanner -> Ghost]
    BY <1>1, DisturbTyped, EmptyRecords DEF Crash, HookFails
  <2>3. UNCHANGED index \/ index' = [index EXCEPT ![s] = NoIndex]
    BY <1>1 DEF Crash, HookFails, input
  <2>4. index' \in [Scanner -> [Media -> Content \cup {NoInfo}]]
    BY <2>3, KnownTyped DEF TypeOK
  <2> QED BY <1>1, <2>1, <2>2, <2>4, ResetTyped
          DEF TypeOK, Crash, HookFails, input, outs
<1>2. ASSUME LinkFails(s) PROVE TypeOK'
  <2>1. pc' \in [Scanner -> PC] /\ todo' \in [Scanner -> SUBSET Path]
    BY <1>2, LinkedTyped DEF LinkFails
  <2>2. res' \in [Scanner -> Res]
    BY <1>2, FailTyped DEF LinkFails
  <2>3. budget' \in Nat /\ ghost' \in [Scanner -> Ghost]
    BY <1>2, DisturbanceTyped DEF LinkFails
  <2> QED BY <1>2, <2>1, <2>2, <2>3 DEF TypeOK, LinkFails, input, outs
<1>3. ASSUME StoreFails(s) PROVE TypeOK'
  <2>1. pc' \in [Scanner -> PC]
    BY <1>3, GotoTyped, Places DEF StoreFails
  <2>2. [NoRes EXCEPT !.errors = TRUE, !.dropped = TRUE] \in Res
    BY EmptyRecords DEF Res
  <2>3. res' \in [Scanner -> Res]
    BY <1>3, <2>2 DEF StoreFails, TypeOK
  <2>4. budget' \in Nat /\ ghost' \in [Scanner -> Ghost]
    BY <1>3, DisturbanceTyped DEF StoreFails
  <2> QED BY <1>3, <2>1, <2>3, <2>4 DEF TypeOK, StoreFails, input, outs
<1>4. ASSUME NEW d \in Dir, WalkFails(s, d) PROVE TypeOK'
  <2>1. /\ walk \in [Scanner -> Walk]
        /\ walk' = [walk EXCEPT ![s].left = walk[s].left \ {d}]
    BY <1>4 DEF WalkFails, TypeOK, Walk
  <2>2. walk' \in [Scanner -> Walk]
    BY <2>1, Fields DEF Walk
  <2>3. budget' \in Nat /\ ghost' \in [Scanner -> Ghost]
    BY <1>4, SpendTyped, DisturbTyped DEF WalkFails
  <2> QED BY <1>4, <2>2, <2>3 DEF TypeOK, WalkFails, input, outs
<1>5. ASSUME NEW n \in Name, RemoveFails(s, n) PROVE TypeOK'
  <2>1. /\ link \in [Scanner -> Link]
        /\ link' = [link EXCEPT ![s].plan = @ \ {n}, ![s].doom = {}]
    BY <1>5 DEF RemoveFails, TypeOK
  <2>2. link' \in [Scanner -> Link]
    <3>1. [link[s] EXCEPT !.plan = @ \ {n}, !.doom = {}] \in Link
      BY <2>1 DEF Link
    <3> QED BY <2>1, <3>1
  <2>3. budget' \in Nat /\ ghost' \in [Scanner -> Ghost]
    BY <1>5, DisturbanceTyped DEF RemoveFails
  <2> QED BY <1>5, <2>2, <2>3 DEF TypeOK, RemoveFails, input, outs
<1> QED BY <1>1, <1>2, <1>3, <1>4, <1>5 DEF Faults

LEMMA EnvironmentTyped == TypeOK /\ Environment => TypeOK'
<1> SUFFICES ASSUME TypeOK, Environment PROVE TypeOK'
  OBVIOUS
<1>1. ASSUME NEW m \in Media, NEW new \in Version \cup {NoFile}, EditMedia(m, new),
             clock' \in Nat
      PROVE  TypeOK'
  <2>1. source' \in [Media -> Version \cup {NoFile}]
    BY <1>1 DEF EditMedia, TypeOK
  <2>2. budget' \in Nat /\ ghost' \in [Scanner -> Ghost]
    BY <1>1, DisturbanceTyped DEF EditMedia
  <2> QED BY <1>1, <2>1, <2>2 DEF TypeOK, EditMedia, outs, local
<1>2. ASSUME NEW m \in Media, NEW c \in Content, PutMedia(m, c) PROVE TypeOK'
  <2>1. clock' \in Nat /\ [stamp |-> clock + 1, content |-> c] \in Version
    BY <1>2 DEF PutMedia, TypeOK, Version
  <2> QED BY <1>1, <1>2, <2>1 DEF PutMedia
<1>3. ASSUME NEW m \in Media, DeleteMedia(m) PROVE TypeOK'
  <2>1. clock' \in Nat
    BY <1>3 DEF DeleteMedia, TypeOK
  <2> QED BY <1>1, <1>3, <2>1 DEF DeleteMedia
<1>4. ASSUME NEW p \in Sidecar, ToggleSidecar(p) PROVE TypeOK'
  <2>1. sidecars' \subseteq Sidecar
    BY <1>4 DEF ToggleSidecar, TypeOK
  <2>2. budget' \in Nat /\ ghost' \in [Scanner -> Ghost]
    BY <1>4, DisturbanceTyped DEF ToggleSidecar
  <2> QED BY <1>4, <2>1, <2>2 DEF TypeOK, ToggleSidecar, outs, local
<1>5. ASSUME NEW state \in MountStates, Mount(state) PROVE TypeOK'
  <2>1. mount' \in {"up", "missing", "empty", "stray"}
    BY <1>5, BoundAssumption DEF Mount
  <2>2. budget' \in Nat /\ ghost' \in [Scanner -> Ghost]
    BY <1>5, DisturbanceTyped DEF Mount
  <2> QED BY <1>5, <2>1, <2>2 DEF TypeOK, Mount, outs, local
<1>6. ASSUME NEW o \in Output, NEW wanted \in FilterChoices, ChangeFilters(o, wanted)
      PROVE  TypeOK'
  <2>1. filters' \in [Output -> SUBSET Content]
    BY <1>6, ContentAssumption DEF ChangeFilters, TypeOK
  <2>2. budget' \in Nat /\ ghost' \in [Scanner -> Ghost]
    BY <1>6, DisturbanceTyped DEF ChangeFilters
  <2> QED BY <1>6, <2>1, <2>2 DEF TypeOK, ChangeFilters, input, outs, local
<1>7. ASSUME NEW o \in Output, NEW p \in Path, NEW e \in Entry, UserEdit(o, p, e)
      PROVE  TypeOK'
  <2>1. out' \in [Output -> [Name -> Entry]]
    BY <1>7, OutTyped, Names DEF UserEdit
  <2>2. DirOf[p] \in Dir
    BY PathAssumption
  <2>3. dirs' \in [Output -> SUBSET Dir]
    BY <1>7, <2>2 DEF UserEdit, TypeOK
  <2>4. budget' \in Nat /\ ghost' \in [Scanner -> Ghost]
    BY <1>7, DisturbanceTyped DEF UserEdit
  <2> QED BY <1>7, <2>1, <2>3, <2>4 DEF TypeOK, UserEdit, input, local
<1>8. ASSUME NEW o \in Output, NEW d \in Dir, UserMakeDir(o, d) PROVE TypeOK'
  <2>1. dirs' \in [Output -> SUBSET Dir]
    BY <1>8 DEF UserMakeDir, TypeOK
  <2>2. budget' \in Nat /\ ghost' \in [Scanner -> Ghost]
    BY <1>8, DisturbanceTyped DEF UserMakeDir
  <2> QED BY <1>8, <2>1, <2>2 DEF TypeOK, UserMakeDir, input, local
<1> QED BY <1>2, <1>3, <1>4, <1>5, <1>6, <1>7, <1>8 DEF Environment

-----------------------------------------------------------------------------
LEMMA InitTyped == Init => TypeOK
<1> SUFFICES ASSUME Init PROVE TypeOK
  OBVIOUS
<1>1. source \in [Media -> Version \cup {NoFile}]
  BY DEF Init, Version
<1>2. budget \in Nat /\ clock \in Nat
  BY BoundAssumption DEF Init
<1>3. filters \in [Output -> SUBSET Content]
  BY ContentAssumption DEF Init
<1>4. out \in [Output -> [Name -> Entry]] /\ dirs \in [Output -> SUBSET Dir]
  BY Names DEF Init
<1>5. /\ job \in [Scanner -> Job] /\ walk \in [Scanner -> Walk]
      /\ look \in [Scanner -> Look] /\ link \in [Scanner -> Link]
      /\ res \in [Scanner -> Res] /\ ghost \in [Scanner -> Ghost]
  BY EmptyRecords DEF Init
<1>6. pc \in [Scanner -> PC]
  BY Places DEF Init
<1>7. index \in [Scanner -> [Media -> Content \cup {NoInfo}]]
  BY DEF Init, NoIndex
<1> QED BY <1>1, <1>2, <1>3, <1>4, <1>5, <1>6, <1>7 DEF Init, TypeOK

LEMMA NextTyped == TypeOK /\ [Next]_vars => TypeOK'
<1> SUFFICES ASSUME TypeOK, [Next]_vars PROVE TypeOK'
  OBVIOUS
<1>1. ASSUME NEW s \in Scanner, Begins(s) \/ Proceeds(s) \/ Cancel(s) \/ Faults(s)
      PROVE  TypeOK'
  BY <1>1, BeginTyped, DiscoverTyped, ProbingTyped, ReconcileTyped, CleanTyped,
     FinishTyped, CancelTyped, FaultTyped DEF Proceeds
<1>2. CASE Environment
  BY <1>2, EnvironmentTyped
<1>3. CASE UNCHANGED vars
  BY <1>3 DEF TypeOK, vars
<1> QED BY <1>1, <1>2, <1>3 DEF Next

\* Every variable of the scan keeps its shape, whatever the processes and the
\* environment do.
THEOREM TypeCorrect == Spec => []TypeOK
BY InitTyped, NextTyped, PTL DEF Spec

-----------------------------------------------------------------------------
(***************************************************************************)
(* The probe cache.  CacheFresh alone is not inductive: it has to be known *)
(* that no stamp lies in the future, and that a probe answer that is still *)
(* to be stored is either right or carries a stamp that is out of date.    *)
(***************************************************************************)
\* Every stamp was taken from a version that has been written.
StampsPast ==
  \A m \in Media :
    /\ source[m] # NoFile => source[m].stamp <= clock
    /\ cache[m] # NoFile => cache[m].stamp <= clock
    /\ \A s \in Scanner : look[s].stamp[m] <= clock

Early == {"idle", "walk", "lookup"}

\* Stamps are taken before the first probe answers (processor.py, phases 1, 2).
StatBeforeProbe ==
  \A s \in Scanner, m \in Media : pc[s] \in Early => look[s].got[m] = Pending

\* Sonarr and Radarr answer for no other files (_index).
IndexScope == \A s \in Scanner, m \in Media \ Indexed : index[s][m] = NoInfo

\* An answer whose stamp is that of the file is the content of the file.
AnswerFresh(s, m) ==
  look[s].got[m] \in Content /\ source[m] # NoFile /\ source[m].stamp = look[s].stamp[m]
    => look[s].got[m] = source[m].content

AnswersFresh == \A s \in Scanner, m \in Media \ Indexed : AnswerFresh(s, m)

FreshInv ==
  TypeOK /\ IndexScope /\ StampsPast /\ StatBeforeProbe /\ AnswersFresh /\ CacheFresh

\* Only a probe and the end of a process change what it knows of the index.
LEMMA NextScope == TypeOK /\ IndexScope /\ [Next]_vars => IndexScope'
<1> SUFFICES ASSUME TypeOK, IndexScope, [Next]_vars PROVE IndexScope'
  OBVIOUS
<1>1. index \in [Scanner -> [Media -> Content \cup {NoInfo}]]
  BY DEF TypeOK
<1>2. \A m \in Media \ Indexed : Fetched[m] = NoInfo /\ NoIndex[m] = NoInfo
  BY DEF Fetched, NoIndex
<1>3. ASSUME NEW s \in Scanner, NEW m \in Media, Probe(s, m) PROVE IndexScope'
  <2>1. PICK known \in {index[s], Fetched} : index' = [index EXCEPT ![s] = known]
    BY <1>3 DEF Probe
  <2>2. \A x \in Media \ Indexed : known[x] = NoInfo
    BY <1>2, <2>1 DEF IndexScope
  <2> QED BY <1>1, <2>1, <2>2 DEF IndexScope
<1>4. ASSUME NEW s \in Scanner, Crash(s) PROVE IndexScope'
  BY <1>1, <1>2, <1>4 DEF Crash, IndexScope
<1>5. CASE UNCHANGED index
  BY <1>5 DEF IndexScope
<1>6. ASSUME NEW s \in Scanner, Begins(s) \/ Discovers(s) \/ Cancel(s) \/ Finish(s)
      PROVE  UNCHANGED index
  BY <1>6 DEF Begins, StartScan, StartClean, Start, Discovers, WalkDir, CheckInput,
     Cancel, Finish, input
<1>7. ASSUME NEW s \in Scanner, Probes(s), ~\E m \in Media : Probe(s, m)
      PROVE  UNCHANGED index
  BY <1>7 DEF Probes, BeginProbing, AbortProbing, EndProbing, Lookup, StoreProbe, input
<1>8. ASSUME NEW s \in Scanner, Reconciles(s) PROVE UNCHANGED index
  BY <1>8 DEF Reconciles, BeginOutput, EnsureLink, MakeDir, CreateLink, UnlinkTmp,
     LinkTmp, ReplaceTmp, PlanRemovals, RemoveLink, PruneDirs, PruneCache, input
<1>9. ASSUME NEW s \in Scanner, Cleans(s) PROVE UNCHANGED index
  BY <1>9 DEF Cleans, CheckClean, SweepOutput, SweepLink, UnlinkStale, SweepDirs,
     EndSweep, input
<1>10. ASSUME NEW s \in Scanner, Faults(s), ~Crash(s) PROVE UNCHANGED index
  BY <1>10 DEF Faults, LinkFails, StoreFails, HookFails, WalkFails, RemoveFails, input
<1>11. CASE Environment
  BY <1>5, <1>11 DEF Environment, DeleteMedia, PutMedia, EditMedia, ToggleSidecar, Mount,
     ChangeFilters, UserEdit, UserMakeDir, input
<1>12. CASE UNCHANGED vars
  BY <1>5, <1>12 DEF vars
<1> QED BY <1>3, <1>4, <1>5, <1>6, <1>7, <1>8, <1>9, <1>10, <1>11, <1>12
        DEF Next, Proceeds

LEMMA InitFresh == Init => FreshInv
<1> SUFFICES ASSUME Init PROVE FreshInv
  OBVIOUS
<1>1. TypeOK
  BY InitTyped
<1>2. \A m \in Media :
        /\ cache[m] = NoFile
        /\ \A s \in Scanner : look[s].got[m] = Pending /\ look[s].stamp[m] = 0
  BY DEF Init, NoLook
<1>3. \A m \in Media : source[m] # NoFile => source[m].stamp <= clock
  BY DEF Init
<1>4. StampsPast
  BY <1>2, <1>3 DEF Init, StampsPast
<1>5. StatBeforeProbe /\ AnswersFresh
  BY <1>2, ContentAssumption DEF StatBeforeProbe, AnswersFresh, AnswerFresh
<1>6. CacheFresh
  BY <1>2 DEF CacheFresh, CacheHit
<1>7. IndexScope
  BY DEF Init, IndexScope, NoIndex
<1> QED BY <1>1, <1>4, <1>5, <1>6, <1>7 DEF FreshInv

\* Steps that touch neither the files nor the cache nor what was looked up.
LEMMA FreshFrame ==
  ASSUME FreshInv, TypeOK', IndexScope', UNCHANGED <<source, clock, cache, look>>,
         \A s \in Scanner : pc'[s] \in Early => pc[s] \in Early
  PROVE  FreshInv'
<1>1. StampsPast'
  BY DEF FreshInv, StampsPast
<1>2. StatBeforeProbe'
  BY DEF FreshInv, StatBeforeProbe
<1>3. AnswersFresh'
  BY DEF FreshInv, AnswersFresh, AnswerFresh
<1>4. CacheFresh'
  BY DEF FreshInv, CacheFresh, CacheHit
<1> QED BY <1>1, <1>2, <1>3, <1>4 DEF FreshInv

\* A process that ends forgets what it looked up.
LEMMA FreshReset ==
  ASSUME FreshInv, TypeOK', IndexScope', NEW s \in Scanner, Reset(s),
         UNCHANGED <<source, clock, cache>>
  PROVE  FreshInv'
<1>1. \A m \in Media : NoLook.got[m] = Pending /\ NoLook.stamp[m] = 0
  BY DEF NoLook
<1>2. /\ look' = [look EXCEPT ![s] = NoLook] /\ pc' = [pc EXCEPT ![s] = "idle"]
      /\ look \in [Scanner -> Look] /\ pc \in [Scanner -> PC] /\ clock \in Nat
  BY DEF Reset, Goto, FreshInv, TypeOK
<1>3. StampsPast'
  BY <1>1, <1>2 DEF FreshInv, StampsPast
<1>4. StatBeforeProbe'
  BY <1>1, <1>2 DEF FreshInv, StatBeforeProbe
<1>5. AnswersFresh'
  BY <1>1, <1>2, ContentAssumption DEF FreshInv, AnswersFresh, AnswerFresh
<1>6. CacheFresh'
  BY DEF FreshInv, CacheFresh, CacheHit
<1> QED BY <1>3, <1>4, <1>5, <1>6 DEF FreshInv

\* Phase 1 takes the stamp of the file and deletes a row that does not match.
LEMMA FreshLookup ==
  ASSUME FreshInv, TypeOK', IndexScope', NEW s \in Scanner, NEW m \in Media, Lookup(s, m)
  PROVE  FreshInv'
<1>1. /\ UNCHANGED <<source, clock, pc>> /\ pc[s] = "lookup"
      /\ cache' = cache \/ cache' = [cache EXCEPT ![m] = NoFile]
      /\ cache \in [Media -> Version \cup {NoFile}] /\ look \in [Scanner -> Look]
      /\ clock \in Nat
  BY DEF Lookup, FreshInv, TypeOK, input
<1>2. \/ look' = look
      \/ look' = [look EXCEPT ![s].info[m] = cache[m].content]
      \/ Visible(m) /\ look' = [look EXCEPT ![s].stamp[m] = source[m].stamp]
  BY DEF Lookup
<1>3. Visible(m) => source[m].stamp <= clock
  BY VisibleVersion DEF FreshInv, StampsPast
<1>4. \A r \in Scanner, x \in Media :
        /\ look'[r].got[x] = look[r].got[x]
        /\ \/ look'[r].stamp[x] = look[r].stamp[x]
           \/ r = s /\ x = m /\ look'[r].stamp[x] <= clock
  <2>1. CASE look' = look
    BY <2>1
  <2>2. CASE look' = [look EXCEPT ![s].info[m] = cache[m].content]
    BY <1>1, <2>2 DEF Look
  <2>3. CASE Visible(m) /\ look' = [look EXCEPT ![s].stamp[m] = source[m].stamp]
    BY <1>1, <1>3, <2>3 DEF Look
  <2> QED BY <1>2, <2>1, <2>2, <2>3
<1>5. StampsPast'
  BY <1>1, <1>4 DEF FreshInv, StampsPast
<1>6. StatBeforeProbe'
  BY <1>1, <1>4 DEF FreshInv, StatBeforeProbe
<1>7. AnswersFresh'
  <2>1. look'[s].got[m] = Pending
    BY <1>1, <1>4 DEF FreshInv, StatBeforeProbe, Early
  <2> QED BY <1>1, <1>4, <2>1, ContentAssumption DEF FreshInv, AnswersFresh, AnswerFresh
<1>8. CacheFresh'
  BY <1>1 DEF FreshInv, CacheFresh, CacheHit
<1> QED BY <1>5, <1>6, <1>7, <1>8 DEF FreshInv

\* A probe of a file that Sonarr and Radarr do not know answers with the content
\* the file has at that moment.
LEMMA FreshProbe ==
  ASSUME FreshInv, TypeOK', IndexScope', NEW s \in Scanner, NEW m \in Media, Probe(s, m)
  PROVE  FreshInv'
<1>1. PICK answer \in Content \cup {NoInfo} :
        /\ look' = [look EXCEPT ![s].got[m] = answer]
        /\ \E known \in {index[s], Fetched} : answer \in {NoInfo, known[m], source[m].content}
  BY ProbeAnswers DEF FreshInv
<1>2. /\ UNCHANGED <<source, clock, cache, pc>> /\ pc[s] = "probe"
      /\ look \in [Scanner -> Look]
  BY DEF Probe, FreshInv, TypeOK
<1>8. m \notin Indexed => answer \in {NoInfo, source[m].content}
  <2>1. m \notin Indexed => Fetched[m] = NoInfo /\ index[s][m] = NoInfo
    BY DEF Fetched, FreshInv, IndexScope
  <2> QED BY <1>1, <2>1
<1>3. \A r \in Scanner, x \in Media :
        /\ look'[r].stamp[x] = look[r].stamp[x]
        /\ \/ look'[r].got[x] = look[r].got[x]
           \/ /\ r = s /\ x = m
              /\ m \notin Indexed => look'[r].got[x] \in {NoInfo, source[m].content}
  BY <1>1, <1>2, <1>8 DEF Look
<1>4. StampsPast'
  BY <1>2, <1>3 DEF FreshInv, StampsPast
<1>5. StatBeforeProbe'
  BY <1>2, <1>3 DEF FreshInv, StatBeforeProbe, Early
<1>6. AnswersFresh'
  BY <1>2, <1>3, ContentAssumption DEF FreshInv, AnswersFresh, AnswerFresh
<1>7. CacheFresh'
  BY <1>2 DEF FreshInv, CacheFresh, CacheHit
<1> QED BY <1>4, <1>5, <1>6, <1>7 DEF FreshInv

\* The answer is stored under the stamp taken before the probe (state.put).
LEMMA FreshStore ==
  ASSUME FreshInv, TypeOK', IndexScope', NEW s \in Scanner, NEW m \in Media, StoreProbe(s, m)
  PROVE  FreshInv'
<1> DEFINE answer == look[s].got[m]
<1>1. /\ UNCHANGED <<source, clock, pc>> /\ answer # Pending
      /\ cache \in [Media -> Version \cup {NoFile}] /\ look \in [Scanner -> Look]
      /\ answer \in Content \cup {NoInfo, Pending}
  BY Fields DEF StoreProbe, FreshInv, TypeOK, input
<1>2. look' = look \/ look' = [look EXCEPT ![s].info[m] = answer]
  BY DEF StoreProbe
<1>3. \A r \in Scanner, x \in Media :
        look'[r].got[x] = look[r].got[x] /\ look'[r].stamp[x] = look[r].stamp[x]
  <2>1. CASE look' = look
    BY <2>1
  <2>2. CASE look' = [look EXCEPT ![s].info[m] = answer]
    <3>1. \A r \in Scanner : look[r] \in Look
      BY <1>1
    <3> QED BY <1>1, <2>2, <3>1 DEF Look
  <2> QED BY <1>2, <2>1, <2>2
<1>4. \/ cache' = cache
      \/ answer \in Content /\ cache' = [cache EXCEPT ![m] = Row(s, m, answer)]
  BY <1>1 DEF StoreProbe, Answered
<1>5. Row(s, m, answer).stamp = look[s].stamp[m] /\ Row(s, m, answer).content = answer
  BY DEF Row
<1>6. StampsPast'
  BY <1>1, <1>3, <1>4, <1>5 DEF FreshInv, StampsPast
<1>7. StatBeforeProbe' /\ AnswersFresh'
  BY <1>1, <1>3 DEF FreshInv, StatBeforeProbe, AnswersFresh, AnswerFresh
<1>8. CacheFresh'
  <2>1. m \notin Indexed => AnswerFresh(s, m)
    BY DEF FreshInv, AnswersFresh
  <2> QED BY <1>1, <1>4, <1>5, <2>1 DEF FreshInv, CacheFresh, CacheHit, AnswerFresh
<1> QED BY <1>6, <1>7, <1>8 DEF FreshInv

\* Rows of files that were not discovered are forgotten (state.prune).
LEMMA FreshPrune ==
  ASSUME FreshInv, TypeOK', IndexScope', NEW s \in Scanner, PruneCache(s)
  PROVE  FreshInv'
<1>1. /\ UNCHANGED <<source, clock, look>>
      /\ \A m \in Media : cache'[m] \in {cache[m], NoFile}
      /\ \A r \in Scanner : pc'[r] \in Early => pc[r] \in Early
  BY DEF PruneCache, input, Goto, FreshInv, TypeOK, Early
<1>2. StampsPast'
  BY <1>1 DEF FreshInv, StampsPast
<1>3. StatBeforeProbe' /\ AnswersFresh'
  BY <1>1 DEF FreshInv, StatBeforeProbe, AnswersFresh, AnswerFresh
<1>4. CacheFresh'
  BY <1>1 DEF FreshInv, CacheFresh, CacheHit
<1> QED BY <1>2, <1>3, <1>4 DEF FreshInv

\* A new version is younger than every stamp anybody holds; a file that is gone
\* matches nothing.
LEMMA FreshEdit ==
  ASSUME FreshInv, TypeOK', IndexScope', NEW m \in Media,
         DeleteMedia(m) \/ \E c \in Content : PutMedia(m, c)
  PROVE  FreshInv'
<1>1. PICK new :
        /\ source' = [source EXCEPT ![m] = new]
        /\ \/ new = NoFile /\ clock' = clock
           \/ new.stamp = clock + 1 /\ clock' = clock + 1
  <2>1. CASE DeleteMedia(m)
    BY <2>1 DEF DeleteMedia, EditMedia
  <2>2. ASSUME NEW c \in Content, PutMedia(m, c)
        PROVE  /\ source' = [source EXCEPT ![m] = [stamp |-> clock + 1, content |-> c]]
               /\ clock' = clock + 1
    BY <2>2 DEF PutMedia, EditMedia
  <2>3. \A c : [stamp |-> clock + 1, content |-> c].stamp = clock + 1
    OBVIOUS
  <2> QED BY <2>1, <2>2, <2>3
<1>2. /\ UNCHANGED <<cache, look, pc>> /\ clock \in Nat
      /\ source \in [Media -> Version \cup {NoFile}]
      /\ cache \in [Media -> Version \cup {NoFile}]
      /\ \A s \in Scanner, x \in Media : look[s].stamp[x] \in Nat
  BY Fields DEF DeleteMedia, PutMedia, EditMedia, local, FreshInv, TypeOK
<1>3. \A x \in Media : /\ source[x] # NoFile => source[x].stamp \in Nat
                       /\ cache[x] # NoFile => cache[x].stamp \in Nat
  BY <1>2 DEF Version
<1>4. StampsPast'
  BY <1>1, <1>2, <1>3 DEF FreshInv, StampsPast
<1>5. StatBeforeProbe'
  BY <1>2 DEF FreshInv, StatBeforeProbe
<1>6. AnswersFresh'
  BY <1>1, <1>2, <1>3 DEF FreshInv, StampsPast, AnswersFresh, AnswerFresh
<1>7. CacheFresh'
  BY <1>1, <1>2, <1>3 DEF FreshInv, StampsPast, CacheFresh, CacheHit
<1> QED BY <1>4, <1>5, <1>6, <1>7 DEF FreshInv

LEMMA NextFresh == FreshInv /\ [Next]_vars => FreshInv'
<1> SUFFICES ASSUME FreshInv, [Next]_vars PROVE FreshInv'
  OBVIOUS
<1>1. TypeOK' /\ IndexScope'
  BY NextTyped, NextScope DEF FreshInv
<1>2. pc \in [Scanner -> PC]
  BY DEF FreshInv, TypeOK
<1>3. CASE UNCHANGED vars
  BY <1>1, <1>3, FreshFrame DEF vars
<1>4. ASSUME NEW s \in Scanner, Begins(s) \/ Discovers(s) PROVE FreshInv'
  BY <1>1, <1>2, <1>4, FreshFrame
     DEF Begins, StartScan, StartClean, Start, Running, Discovers, WalkDir, CheckInput,
         Goto, input, Early
<1>5. ASSUME NEW s \in Scanner, Probes(s) PROVE FreshInv'
  <2>1. CASE BeginProbing(s) \/ AbortProbing(s) \/ EndProbing(s)
    BY <1>1, <1>2, <2>1, FreshFrame
       DEF BeginProbing, AbortProbing, EndProbing, Goto, input, Early
  <2> QED BY <1>1, <1>5, <2>1, FreshLookup, FreshProbe, FreshStore DEF Probes
<1>6. ASSUME NEW s \in Scanner, Reconciles(s) PROVE FreshInv'
  <2>1. CASE PruneCache(s)
    BY <1>1, <2>1, FreshPrune
  <2>2. CASE ~PruneCache(s)
    <3>1. UNCHANGED <<source, clock, cache, look>>
      BY <1>6, <2>2 DEF Reconciles, BeginOutput, EnsureLink, MakeDir, CreateLink,
         UnlinkTmp, LinkTmp, ReplaceTmp, PlanRemovals, RemoveLink, PruneDirs, input
    <3>2. \A r \in Scanner : pc'[r] \in Early => pc[r] \in Early
      BY <1>2, <1>6, <2>2 DEF Reconciles, BeginOutput, EnsureLink, MakeDir, CreateLink,
         UnlinkTmp, LinkTmp, ReplaceTmp, PlanRemovals, RemoveLink, PruneDirs, Goto,
         Linked, OutputDone, Early
    <3> QED BY <1>1, <3>1, <3>2, FreshFrame
  <2> QED BY <2>1, <2>2
<1>7. ASSUME NEW s \in Scanner, Cleans(s) PROVE FreshInv'
  BY <1>1, <1>2, <1>7, FreshFrame
     DEF Cleans, CheckClean, SweepOutput, SweepLink, UnlinkStale, SweepDirs,
         EndSweep, Goto, input, Early
<1>8. ASSUME NEW s \in Scanner, Finish(s) \/ Crash(s) \/ HookFails(s) PROVE FreshInv'
  BY <1>1, <1>8, FreshReset DEF Finish, Crash, HookFails, input
<1>9. ASSUME NEW s \in Scanner,
             \/ Cancel(s) \/ LinkFails(s) \/ StoreFails(s)
             \/ \E d \in Dir : WalkFails(s, d)
             \/ \E n \in Name : RemoveFails(s, n)
      PROVE  FreshInv'
  BY <1>1, <1>2, <1>9, FreshFrame
     DEF Cancel, LinkFails, StoreFails, WalkFails, RemoveFails, Linked, Goto, input, Early
<1>10. CASE Environment
  <2>1. CASE \E m \in Media : DeleteMedia(m) \/ \E c \in Content : PutMedia(m, c)
    BY <1>1, <2>1, FreshEdit
  <2>2. CASE ~\E m \in Media : DeleteMedia(m) \/ \E c \in Content : PutMedia(m, c)
    <3>1. UNCHANGED <<source, clock, cache, look, pc>>
      BY <1>10, <2>2 DEF Environment, ToggleSidecar, Mount, ChangeFilters, UserEdit,
         UserMakeDir, input, local
    <3> QED BY <1>1, <3>1, FreshFrame
  <2> QED BY <2>1, <2>2
<1> QED BY <1>3, <1>4, <1>5, <1>6, <1>7, <1>8, <1>9, <1>10
        DEF Next, Proceeds, Faults

\* The probe cache never vouches for tracks the file does not have, however
\* many scans probe and store at once while the files are replaced, unless they
\* were those of Sonarr or Radarr.
THEOREM CacheStaysFresh == Spec => []CacheFresh
<1>1. FreshInv => CacheFresh
  BY DEF FreshInv
<1> QED BY <1>1, InitFresh, NextFresh, PTL DEF Spec

-----------------------------------------------------------------------------
(***************************************************************************)
(* Cancelled scans and dry runs.                                           *)
(***************************************************************************)
\* What a step of another process leaves of process r.
Kept(r) ==
  /\ pc'[r] = pc[r] /\ job'[r] = job[r] /\ cancel'[r] = cancel[r]
  /\ ghost'[r].touched = ghost[r].touched

\* A process touches no state of another but its history.
LEMMA OthersKept ==
  ASSUME TypeOK, NEW s \in Scanner, NEW r \in Scanner \ {s},
         Begins(s) \/ Proceeds(s) \/ Cancel(s) \/ Faults(s)
  PROVE  Kept(r)
<1> USE DEF Kept
<1>1. /\ pc \in [Scanner -> PC] /\ job \in [Scanner -> Job]
      /\ cancel \in [Scanner -> PC \cup {"no"}] /\ ghost \in [Scanner -> Ghost]
  BY DEF TypeOK
<1>2. \A gone : Disturb(r, gone).touched = ghost[r].touched
  BY DEF Disturb
<1>3. [ghost[r] EXCEPT !.quiet = FALSE].touched = ghost[r].touched
  BY <1>1 DEF Ghost
<1>4. CASE Begins(s)
  BY <1>1, <1>3, <1>4 DEF Begins, StartScan, StartClean, Start, Goto
<1>5. CASE Discovers(s) \/ Probes(s)
  BY <1>1, <1>5 DEF Discovers, WalkDir, CheckInput, Probes, BeginProbing, AbortProbing,
     EndProbing, Lookup, Probe, StoreProbe, Goto
<1>6. CASE Reconciles(s)
  <2>1. UNCHANGED <<job, cancel>>
    BY <1>6 DEF Reconciles, BeginOutput, EnsureLink, MakeDir, CreateLink, UnlinkTmp,
       LinkTmp, ReplaceTmp, PlanRemovals, RemoveLink, PruneDirs, PruneCache
  <2>2. pc'[r] = pc[r]
    BY <1>1, <1>6 DEF Reconciles, BeginOutput, EnsureLink, MakeDir, CreateLink,
       UnlinkTmp, LinkTmp, ReplaceTmp, PlanRemovals, RemoveLink, PruneDirs, PruneCache,
       Goto, Linked, OutputDone
  <2>3. ghost'[r] = ghost[r]
    BY <1>1, <1>6 DEF Reconciles, BeginOutput, EnsureLink, MakeDir, CreateLink,
       UnlinkTmp, LinkTmp, ReplaceTmp, PlanRemovals, RemoveLink, PruneDirs, PruneCache,
       Write
  <2> QED BY <2>1, <2>2, <2>3
<1>7. CASE Cleans(s)
  BY <1>1, <1>7 DEF Cleans, CheckClean, SweepOutput, SweepLink, UnlinkStale, SweepDirs, EndSweep,
     Goto, Write
<1>8. CASE Finish(s) \/ Cancel(s)
  BY <1>1, <1>8 DEF Finish, Cancel, Reset, Goto
<1>9. CASE Faults(s)
  BY <1>1, <1>2, <1>9 DEF Faults, Crash, LinkFails, StoreFails, HookFails, WalkFails,
     RemoveFails, Reset, Goto, Linked, Disturbance
<1> QED BY <1>4, <1>5, <1>6, <1>7, <1>8, <1>9 DEF Proceeds

Unlinked == PreLink \cup {"finish"}

\* Until it links, a scan has touched nothing; a dry run and a scan that was
\* cancelled before it began to link never get where links are written.
CutOff(s) ==
  /\ pc[s] \in PreLink \cup {"idle"} => ghost[s].touched = {}
  /\ pc[s] = "idle" => cancel[s] = "no"
  /\ job[s].dry => pc[s] \in Unlinked \cup {"begin", "link"} /\ ghost[s].touched = {}
  /\ cancel[s] \in PreLink => pc[s] \in Unlinked /\ ghost[s].touched = {}

CutOffInv == TypeOK /\ \A s \in Scanner : CutOff(s)

LEMMA InitCutOff == Init => CutOffInv
<1> SUFFICES ASSUME Init PROVE CutOffInv
  OBVIOUS
<1>1. ASSUME NEW s \in Scanner PROVE CutOff(s)
  BY DEF Init, CutOff, PreLink, NoGhost, NoJob
<1> QED BY <1>1, InitTyped DEF CutOffInv

LEMMA CutOffKept ==
  ASSUME NEW r \in Scanner, CutOff(r), Kept(r)
  PROVE  CutOff(r)'
BY DEF CutOff, Kept

\* A process that ends starts anew.
LEMMA CutOffReset ==
  ASSUME TypeOK, NEW s \in Scanner, Reset(s), ghost'[s] = NoGhost
  PROVE  CutOff(s)'
<1>1. pc'[s] = "idle" /\ job'[s] = NoJob /\ cancel'[s] = "no"
  BY DEF Reset, Goto, TypeOK
<1> QED BY <1>1 DEF CutOff, PreLink, NoGhost, NoJob

\* The steps of the process itself.
LEMMA CutOffStep ==
  ASSUME CutOffInv, NEW s \in Scanner,
         Begins(s) \/ Proceeds(s) \/ Cancel(s) \/ Faults(s)
  PROVE  CutOff(s)'
<1> USE DEF CutOff, PreLink, Unlinked
<1>1. /\ pc \in [Scanner -> PC] /\ job \in [Scanner -> Job]
      /\ cancel \in [Scanner -> PC \cup {"no"}] /\ ghost \in [Scanner -> Ghost]
      /\ CutOff(s)
  BY DEF CutOffInv, TypeOK
<1>2. CASE Begins(s)
  <2>1. ASSUME NEW mode, NEW dry, NEW force, Start(s, mode, dry, force)
        PROVE  ghost'[s].touched = {} /\ cancel'[s] = "no" /\ job'[s].dry = dry
    BY <1>1, <2>1 DEF Start, Running
  <2>2. pc'[s] \in {"walk", "clean"} /\ (pc'[s] = "clean" => job'[s].dry = FALSE)
    BY <1>1, <1>2, <2>1 DEF Begins, StartScan, StartClean, Goto
  <2>3. ghost'[s].touched = {} /\ cancel'[s] = "no"
    BY <1>2, <2>1 DEF Begins, StartScan, StartClean
  <2> QED BY <2>2, <2>3
<1>3. CASE Discovers(s) \/ Probes(s)
  <2>1. UNCHANGED <<job, cancel, ghost>> /\ pc[s] \in PreLink
    BY <1>3 DEF Discovers, WalkDir, CheckInput, Probes, BeginProbing, AbortProbing,
       EndProbing, Lookup, Probe, StoreProbe
  <2>2. /\ pc'[s] \in Unlinked \cup {"begin"}
        /\ pc'[s] = "begin" => cancel[s] = "no"
    BY <1>1, <1>3 DEF Discovers, WalkDir, CheckInput, Probes, BeginProbing, AbortProbing,
       EndProbing, Lookup, Probe, StoreProbe, Goto, Stopped
  <2> QED BY <1>1, <2>1, <2>2
<1>4. CASE Reconciles(s)
  <2>1. UNCHANGED <<job, cancel>> /\ pc[s] \notin Unlinked
    BY <1>4 DEF Reconciles, BeginOutput, EnsureLink, MakeDir, CreateLink, UnlinkTmp,
       LinkTmp, ReplaceTmp, PlanRemovals, RemoveLink, PruneDirs, PruneCache
  <2>2. cancel[s] \notin PreLink
    BY <1>1, <2>1
  <2>3. pc'[s] \notin PreLink \cup {"idle"}
    BY <1>1, <1>4 DEF Reconciles, BeginOutput, EnsureLink, MakeDir, CreateLink,
       UnlinkTmp, LinkTmp, ReplaceTmp, PlanRemovals, RemoveLink, PruneDirs, PruneCache,
       Goto, Linked, OutputDone
  <2>4. ASSUME job[s].dry
        PROVE  pc'[s] \in Unlinked \cup {"begin", "link"} /\ ghost'[s] = ghost[s]
    <3>1. pc[s] \in {"begin", "link"}
      BY <1>1, <2>1, <2>4
    <3>2. \/ \E o \in Output : BeginOutput(s, o)
          \/ \E p \in Path : EnsureLink(s, p)
          \/ PlanRemovals(s) \/ PruneCache(s)
      BY <1>4, <3>1 DEF Reconciles, MakeDir, CreateLink, UnlinkTmp, LinkTmp, ReplaceTmp,
         RemoveLink, PruneDirs
    <3> QED BY <1>1, <2>4, <3>2 DEF BeginOutput, EnsureLink, PlanRemovals, PruneCache,
            Goto, Linked, OutputDone
  <2> QED BY <1>1, <2>1, <2>2, <2>3, <2>4
<1>5. CASE Cleans(s)
  <2>1. UNCHANGED <<job, cancel>> /\ pc[s] \notin Unlinked \cup {"begin", "link"}
    BY <1>5 DEF Cleans, CheckClean, SweepOutput, SweepLink, UnlinkStale, SweepDirs, EndSweep
  <2>2. pc'[s] \notin PreLink \cup {"idle"}
    BY <1>1, <1>5 DEF Cleans, CheckClean, SweepOutput, SweepLink, UnlinkStale, SweepDirs, EndSweep,
       Goto
  <2> QED BY <1>1, <2>1, <2>2
<1>6. CASE Finish(s) \/ Crash(s) \/ HookFails(s)
  <2>1. Reset(s) /\ ghost'[s] = NoGhost
    BY <1>1, <1>6 DEF Finish, Crash, HookFails
  <2> QED BY <2>1, CutOffReset DEF CutOffInv
<1>7. CASE Cancel(s)
  <2>1. cancel'[s] = pc[s] /\ pc[s] # "idle" /\ UNCHANGED <<pc, job, ghost>>
    BY <1>1, <1>7 DEF Cancel, Running
  <2> QED BY <1>1, <2>1
<1>8. CASE \/ LinkFails(s) \/ StoreFails(s)
           \/ \E d \in Dir : WalkFails(s, d)
           \/ \E n \in Name : RemoveFails(s, n)
  <2>1. \A gone : Disturb(s, gone).touched = ghost[s].touched
    BY DEF Disturb
  <2>2. UNCHANGED <<job, cancel>> /\ ghost'[s].touched = ghost[s].touched
    BY <1>8, <2>1 DEF LinkFails, StoreFails, WalkFails, RemoveFails, Disturbance
  <2>3. \/ pc'[s] = pc[s] \/ pc'[s] = "finish"
        \/ pc'[s] = "link" /\ pc[s] \in LinkPCs \ {"link"}
    BY <1>1, <1>8 DEF LinkFails, StoreFails, WalkFails, RemoveFails, Goto, Linked
  <2>4. pc'[s] = "finish" /\ pc[s] # "finish" => pc[s] \in PreLink \cup {"begin"}
    BY <1>1, <1>8 DEF LinkFails, StoreFails, WalkFails, RemoveFails, Goto, Linked
  <2> QED BY <1>1, <2>2, <2>3, <2>4 DEF LinkPCs
<1> QED BY <1>2, <1>3, <1>4, <1>5, <1>6, <1>7, <1>8 DEF Proceeds, Faults

LEMMA NextCutOff == CutOffInv /\ [Next]_vars => CutOffInv'
<1> SUFFICES ASSUME CutOffInv, [Next]_vars PROVE CutOffInv'
  OBVIOUS
<1>1. TypeOK'
  BY NextTyped DEF CutOffInv
<1>2. ASSUME NEW s \in Scanner, Begins(s) \/ Proceeds(s) \/ Cancel(s) \/ Faults(s),
             NEW r \in Scanner
      PROVE  CutOff(r)'
  <2>1. CASE r = s
    BY <1>2, <2>1, CutOffStep
  <2>2. CASE r # s
    BY <1>2, <2>2, OthersKept, CutOffKept DEF CutOffInv
  <2> QED BY <2>1, <2>2
<1>3. ASSUME Environment \/ UNCHANGED vars, NEW r \in Scanner PROVE CutOff(r)'
  <2>1. \A gone : Disturb(r, gone).touched = ghost[r].touched
    BY DEF Disturb
  <2>2. Kept(r)
    BY <1>3, <2>1 DEF Kept, Environment, DeleteMedia, PutMedia, EditMedia,
       ToggleSidecar, Mount, ChangeFilters, UserEdit, UserMakeDir, Disturbance, local,
       vars
  <2> QED BY <2>2, CutOffKept DEF CutOffInv
<1> QED BY <1>1, <1>2, <1>3 DEF Next, CutOffInv

\* A dry run and a scan cancelled before it began to link change no link, at
\* whatever point the cancel arrives (process_library).
THEOREM CutOffScansKeepLinks == Spec => []CancelledKeepsLinks
<1>1. CutOffInv => CancelledKeepsLinks
  BY DEF CutOffInv, CutOff, CancelledKeepsLinks
<1> QED BY <1>1, InitCutOff, NextCutOff, PTL DEF Spec

-----------------------------------------------------------------------------
(***************************************************************************)
(* The books of the reconciliation: only a clean dooms links, and a scan   *)
(* links expected paths only.                                              *)
(***************************************************************************)
\* A process does not touch the plan of another.
LEMMA LinkKept ==
  ASSUME TypeOK, NEW s \in Scanner, NEW r \in Scanner \ {s},
         Begins(s) \/ Proceeds(s) \/ Cancel(s) \/ Faults(s)
  PROVE  link'[r] = link[r]
<1>1. link \in [Scanner -> Link]
  BY DEF TypeOK
<1>2. CASE Begins(s) \/ Discovers(s) \/ Probes(s) \/ Cancel(s)
  BY <1>1, <1>2 DEF Begins, StartScan, StartClean, Start, Discovers, WalkDir, CheckInput,
     Probes, BeginProbing, AbortProbing, EndProbing, Lookup, Probe, StoreProbe, Cancel
<1>3. CASE Reconciles(s) \/ Cleans(s)
  BY <1>1, <1>3 DEF Reconciles, BeginOutput, EnsureLink, MakeDir, CreateLink, UnlinkTmp,
     LinkTmp, ReplaceTmp, PlanRemovals, RemoveLink, PruneDirs, PruneCache, Created, Cleans,
     CheckClean, SweepOutput, SweepLink, UnlinkStale, SweepDirs, EndSweep
<1>4. CASE Finish(s) \/ Faults(s)
  BY <1>1, <1>4 DEF Finish, Faults, Crash, LinkFails, StoreFails, HookFails, WalkFails,
     RemoveFails, Reset
<1> QED BY <1>2, <1>3, <1>4 DEF Proceeds

\* A process changes nothing that another one knows.
LEMMA OthersMinds ==
  ASSUME TypeOK, NEW s \in Scanner, NEW r \in Scanner \ {s},
         Proceeds(s) \/ Cancel(s) \/ Faults(s)
  PROVE  walk'[r] = walk[r] /\ look'[r] = look[r] /\ todo'[r] = todo[r]
<1>1. /\ walk \in [Scanner -> Walk] /\ look \in [Scanner -> Look]
      /\ todo \in [Scanner -> SUBSET Path]
  BY DEF TypeOK
<1>2. walk'[r] = walk[r]
  BY <1>1 DEF Proceeds, Discovers, WalkDir, CheckInput, Probes, BeginProbing,
     AbortProbing, EndProbing, Lookup, Probe, StoreProbe, Cancel, Reconciles, BeginOutput,
     EnsureLink, MakeDir, CreateLink, UnlinkTmp, LinkTmp, ReplaceTmp, PlanRemovals,
     RemoveLink, PruneDirs, PruneCache, Cleans, CheckClean, SweepOutput, SweepLink, UnlinkStale,
     SweepDirs, EndSweep, Finish, Faults, Crash, LinkFails, StoreFails, HookFails,
     WalkFails, RemoveFails, Reset
<1>3. look'[r] = look[r]
  BY <1>1 DEF Proceeds, Discovers, WalkDir, CheckInput, Probes, BeginProbing,
     AbortProbing, EndProbing, Lookup, Probe, StoreProbe, Cancel, Reconciles, BeginOutput,
     EnsureLink, MakeDir, CreateLink, UnlinkTmp, LinkTmp, ReplaceTmp, PlanRemovals,
     RemoveLink, PruneDirs, PruneCache, Cleans, CheckClean, SweepOutput, SweepLink, UnlinkStale,
     SweepDirs, EndSweep, Finish, Faults, Crash, LinkFails, StoreFails, HookFails,
     WalkFails, RemoveFails, Reset
<1>4. todo'[r] = todo[r]
  BY <1>1 DEF Proceeds, Discovers, WalkDir, CheckInput, Probes, BeginProbing,
     AbortProbing, EndProbing, Lookup, Probe, StoreProbe, Cancel, Reconciles, BeginOutput,
     EnsureLink, MakeDir, CreateLink, UnlinkTmp, LinkTmp, ReplaceTmp, PlanRemovals,
     RemoveLink, PruneDirs, PruneCache, Cleans, CheckClean, SweepOutput, SweepLink, UnlinkStale,
     SweepDirs, EndSweep, Finish, Faults, Crash, LinkFails, StoreFails, HookFails,
     WalkFails, RemoveFails, Reset, Linked
<1> QED BY <1>2, <1>3, <1>4

\* A clean alone has a link to unlink, and what is being linked is expected.
Books(s) ==
  /\ pc[s] # "sweep" => link[s].doom = {}
  /\ pc[s] \in LinkPCs => todo[s] \subseteq link[s].expected
  /\ pc[s] \in LinkPCs \ {"link"} => link[s].at \in link[s].expected

BookInv == TypeOK /\ \A s \in Scanner : Books(s)

LEMMA InitBooks == Init => BookInv
<1> SUFFICES ASSUME Init PROVE BookInv
  OBVIOUS
<1>1. ASSUME NEW s \in Scanner PROVE Books(s)
  BY DEF Init, Books, LinkPCs, NoLink
<1> QED BY <1>1, InitTyped DEF BookInv

\* The steps of ensure_link.
LEMMA BooksLink ==
  ASSUME BookInv, NEW s \in Scanner,
         \/ MakeDir(s) \/ UnlinkTmp(s) \/ CreateLink(s) \/ LinkTmp(s) \/ ReplaceTmp(s)
         \/ LinkFails(s) \/ \E p \in Path : EnsureLink(s, p)
  PROVE  Books(s)'
<1> USE DEF LinkPCs
<1>1. /\ pc \in [Scanner -> PC] /\ todo \in [Scanner -> SUBSET Path]
      /\ link \in [Scanner -> Link] /\ link[s] \in Link /\ Books(s)
  BY DEF BookInv, TypeOK
<1>2. CASE MakeDir(s) \/ UnlinkTmp(s)
  BY <1>1, <1>2 DEF MakeDir, UnlinkTmp, Goto, Books
<1>3. ASSUME NEW p \in Path, Linked(s, p), Created(s) \/ UNCHANGED link,
             pc[s] \in LinkPCs
      PROVE  Books(s)'
  <2>1. link'[s].doom = link[s].doom /\ link'[s].expected = link[s].expected
    BY <1>1, <1>3 DEF Created, Link
  <2>2. pc'[s] = "link" /\ todo'[s] \subseteq todo[s]
    BY <1>1, <1>3 DEF Linked, Goto
  <2> QED BY <1>1, <1>3, <2>1, <2>2 DEF Books
<1>4. CASE CreateLink(s) \/ ReplaceTmp(s) \/ LinkFails(s)
  <2>1. link[s].at \in Path
    BY <1>1 DEF Link
  <2> QED BY <1>3, <1>4, <2>1 DEF CreateLink, ReplaceTmp, LinkFails
<1>5. CASE LinkTmp(s)
  <2>1. CASE Linked(s, link[s].at)
    <3>1. link[s].at \in Path
      BY <1>1 DEF Link
    <3> QED BY <1>3, <1>5, <2>1, <3>1 DEF LinkTmp
  <2>2. CASE Goto(s, "tmp_replace") /\ UNCHANGED todo
    BY <1>1, <1>5, <2>2 DEF LinkTmp, Goto, Books
  <2> QED BY <1>5, <2>1, <2>2 DEF LinkTmp
<1>6. ASSUME NEW p \in Path, EnsureLink(s, p) PROVE Books(s)'
  <2> DEFINE entry == out[link[s].cur][Dest(p)]
  <2>1. CASE Keeps(entry, p) \/ job[s].dry
    BY <1>3, <1>6, <2>1 DEF EnsureLink
  <2>2. CASE ~(Keeps(entry, p) \/ job[s].dry)
    <3>1. /\ link' = [link EXCEPT ![s].at = p] /\ UNCHANGED todo /\ p \in todo[s]
          /\ pc[s] = "link" /\ pc'[s] \in {"mkdir", "tmp_unlink"}
      BY <1>1, <1>6, <2>2 DEF EnsureLink, Goto
    <3>2. /\ link'[s].at = p /\ link'[s].expected = link[s].expected
          /\ link'[s].doom = link[s].doom
      BY <1>1, <3>1 DEF Link
    <3> QED BY <1>1, <3>1, <3>2 DEF Books
  <2> QED BY <2>1, <2>2
<1> QED BY <1>2, <1>4, <1>5, <1>6

LEMMA BooksStep ==
  ASSUME BookInv, NEW s \in Scanner,
         Begins(s) \/ Proceeds(s) \/ Cancel(s) \/ Faults(s)
  PROVE  Books(s)'
<1>1. /\ pc \in [Scanner -> PC] /\ todo \in [Scanner -> SUBSET Path]
      /\ link \in [Scanner -> Link] /\ link[s] \in Link /\ Books(s)
  BY DEF BookInv, TypeOK
<1>2. ASSUME pc'[s] \notin LinkPCs, pc'[s] # "sweep", pc[s] # "sweep",
             link'[s].doom = link[s].doom
      PROVE  Books(s)'
  BY <1>1, <1>2 DEF Books
<1>3. CASE Begins(s) \/ Discovers(s) \/ Probes(s)
  <2>1. /\ pc[s] \in PreLink \cup {"idle"}
        /\ pc'[s] \in PreLink \cup {"clean", "finish", "begin"}
    BY <1>1, <1>3 DEF Begins, StartScan, StartClean, Start, Running, Discovers, WalkDir,
       CheckInput, Probes, BeginProbing, AbortProbing, EndProbing, Lookup, Probe,
       StoreProbe, Goto, PreLink
  <2>2. link' = link \/ link' = [link EXCEPT ![s].outs = Output]
    BY <1>3 DEF Begins, StartScan, StartClean, Start, Discovers, WalkDir, CheckInput,
       Probes, BeginProbing, AbortProbing, EndProbing, Lookup, Probe, StoreProbe
  <2>3. link'[s].doom = link[s].doom
    BY <1>1, <2>2 DEF Link
  <2> QED BY <1>2, <2>1, <2>3 DEF PreLink, LinkPCs
<1>4. ASSUME NEW o \in Output, BeginOutput(s, o) PROVE Books(s)'
  <2>1. /\ pc[s] = "begin" /\ pc'[s] = "link" /\ todo'[s] = Expected(s, o)
        /\ link' = [link EXCEPT ![s].outs = @ \ {o}, ![s].cur = o,
                       ![s].expected = Expected(s, o), ![s].preserve = Preserved(s),
                       ![s].created = FALSE, ![s].removed = FALSE]
    BY <1>1, <1>4 DEF BeginOutput, Goto
  <2>2. link'[s].expected = Expected(s, o) /\ link'[s].doom = link[s].doom
    BY <1>1, <2>1 DEF Link
  <2> QED BY <1>1, <2>1, <2>2 DEF Books
<1>5. CASE PlanRemovals(s) \/ PruneDirs(s) \/ PruneCache(s) \/ StoreFails(s)
  <2>1. /\ pc[s] \in LinkPCs \cup PreLink \cup {"begin", "remove"}
        /\ pc'[s] \in {"begin", "remove", "finish"}
    BY <1>1, <1>5 DEF PlanRemovals, PruneDirs, PruneCache, StoreFails, OutputDone, Goto,
       LinkPCs, PreLink
  <2>2. link' = link \/ \E plan : link' = [link EXCEPT ![s].plan = plan]
    BY <1>5 DEF PlanRemovals, PruneDirs, PruneCache, StoreFails
  <2>3. link'[s].doom = link[s].doom
    BY <1>1, <2>2 DEF Link
  <2> QED BY <1>2, <2>1, <2>3 DEF PreLink, LinkPCs
<1>6. ASSUME NEW n \in Name, RemoveLink(s, n) \/ RemoveFails(s, n) PROVE Books(s)'
  <2>1. pc' = pc /\ pc[s] \in {"remove", "sweep"} /\ link'[s].doom \in {{}, link[s].doom}
    BY <1>1, <1>6 DEF RemoveLink, RemoveFails, Link
  <2> QED BY <1>1, <2>1 DEF Books, LinkPCs
<1>7. CASE Cleans(s)
  <2>1. ASSUME pc'[s] = "sweep" PROVE Books(s)'
    BY <2>1 DEF Books, LinkPCs
  <2>2. ASSUME pc'[s] # "sweep" PROVE Books(s)'
    <3>1. /\ pc'[s] \in {"sweep_next", "finish"} /\ link'[s].doom = {}
      BY <1>1, <1>7, <2>2 DEF Cleans, CheckClean, SweepOutput, SweepLink, UnlinkStale,
         SweepDirs, EndSweep, Goto, Books, Link
    <3> QED BY <3>1 DEF Books, LinkPCs
  <2> QED BY <2>1, <2>2
<1>8. CASE Finish(s) \/ Crash(s) \/ HookFails(s)
  <2>1. pc'[s] = "idle" /\ link'[s] = NoLink
    BY <1>1, <1>8 DEF Finish, Crash, HookFails, Reset, Goto
  <2> QED BY <2>1 DEF Books, LinkPCs, NoLink
<1>9. CASE Cancel(s) \/ \E d \in Dir : WalkFails(s, d)
  BY <1>1, <1>9 DEF Cancel, WalkFails, Books
<1> QED BY <1>3, <1>4, <1>5, <1>6, <1>7, <1>8, <1>9, BooksLink
        DEF Proceeds, Reconciles, Faults

LEMMA NextBooks == BookInv /\ [Next]_vars => BookInv'
<1> SUFFICES ASSUME BookInv, [Next]_vars PROVE BookInv'
  OBVIOUS
<1>1. TypeOK'
  BY NextTyped DEF BookInv
<1>2. ASSUME NEW s \in Scanner, Begins(s) \/ Proceeds(s) \/ Cancel(s) \/ Faults(s),
             NEW r \in Scanner, r # s
      PROVE  Books(r)'
  <2>1. pc'[r] = pc[r] /\ link'[r] = link[r]
    BY <1>2, OthersKept, LinkKept DEF BookInv, Kept
  <2>2. todo'[r] = todo[r]
    <3>1. CASE Begins(s)
      BY <3>1 DEF Begins, StartScan, StartClean, Start
    <3>2. CASE ~Begins(s)
      BY <1>2, <3>2, OthersMinds DEF BookInv
    <3> QED BY <3>1, <3>2
  <2> QED BY <2>1, <2>2 DEF BookInv, Books
<1>3. ASSUME Environment \/ UNCHANGED vars, NEW r \in Scanner PROVE Books(r)'
  <2>1. UNCHANGED <<pc, todo, link>>
    BY <1>3 DEF Environment, DeleteMedia, PutMedia, EditMedia, ToggleSidecar, Mount,
       ChangeFilters, UserEdit, UserMakeDir, local, vars
  <2> QED BY <2>1 DEF BookInv, Books
<1> QED BY <1>1, <1>2, <1>3, BooksStep DEF Next, BookInv

-----------------------------------------------------------------------------
(***************************************************************************)
(* Files and links of others.  A removal plan is made long before its      *)
(* names are unlinked, a clean unlinks some steps after it found a link    *)
(* broken, and a link is replaced some steps after it was looked at.  All  *)
(* stay harmless as long as nobody edits the outputs meanwhile, since no   *)
(* process makes an entry that is not its own.                             *)
(***************************************************************************)
Protected == LiveForeign \cup {RegularFile}
Replacing == {"tmp_unlink", "tmp_link", "tmp_replace"}

\* A temporary name holds the link that is to be moved, if anything.
OwnTmps == \A o \in Output, p \in Path : out[o][Tmp(p)] \in {Absent, p}

Harmless(s) ==
  /\ pc[s] = "remove" => \A n \in link[s].plan : out[link[s].cur][n] \notin Protected
  /\ \A n \in link[s].doom : out[link[s].cur][n] \notin Protected
  /\ pc[s] \in Replacing => out[link[s].cur][Dest(link[s].at)] # RegularFile

ForeignInv == TypeOK /\ BookInv /\ OwnTmps /\ \A s \in Scanner : Harmless(s)

\* The only entries a process changes are links and free names, and it makes
\* no entries but links into the library.
Gentle(o, n) ==
  out'[o][n] # out[o][n] =>
    /\ out[o][n] # RegularFile
    /\ out'[o][n] \in Path \cup {Absent}
    /\ out'[o][n] = Absent => out[o][n] \notin LiveForeign

GentleStep == OwnTmps' /\ \A o \in Output, n \in Name : Gentle(o, n)

LEMMA DistinctNames ==
  ASSUME NEW p \in Path, NEW q \in Path
  PROVE  Dest(p) # Tmp(q) /\ (Tmp(p) = Tmp(q) => p = q)
BY DEF Dest, Tmp

LEMMA NotProtected ==
  /\ Protected \cap (Path \cup {Absent}) = {}
  /\ \A e : (IsLink(e) /\ ~Live(e)) \/ e \in Path => e \notin Protected
BY PathAssumption DEF Protected, IsLink, Live, Target

\* One entry is written.
LEMMA GentleWrite ==
  ASSUME ForeignInv, NEW o \in Output, NEW n \in Name, NEW e \in Path \cup {Absent},
         out' = [out EXCEPT ![o][n] = e],
         out[o][n] # RegularFile, e = Absent => out[o][n] \notin LiveForeign,
         \A p \in Path : n = Tmp(p) => e \in {Absent, p}
  PROVE  GentleStep
<1>1. out \in [Output -> [Name -> Entry]]
  BY DEF ForeignInv, TypeOK
<1>2. \A a \in Output, b \in Name : out'[a][b] = IF a = o /\ b = n THEN e ELSE out[a][b]
  BY <1>1
<1>3. OwnTmps'
  BY <1>2, Names DEF ForeignInv, OwnTmps
<1> QED BY <1>2, <1>3 DEF GentleStep, Gentle

LEMMA GentleStutter == ASSUME ForeignInv, UNCHANGED out PROVE GentleStep
BY DEF ForeignInv, OwnTmps, GentleStep, Gentle

\* The temporary link is moved over the link that was looked at.
LEMMA GentleReplace ==
  ASSUME ForeignInv, NEW s \in Scanner, ReplaceTmp(s) PROVE GentleStep
<1> DEFINE o == link[s].cur
           p == link[s].at
<1>1. /\ out \in [Output -> [Name -> Entry]] /\ o \in Output /\ p \in Path
      /\ Dest(p) \in Name /\ Tmp(p) \in Name /\ Dest(p) # Tmp(p)
  BY Fields, Names, DistinctNames DEF ForeignInv, TypeOK
<1>2. out[o][Dest(p)] # RegularFile
  BY DEF ForeignInv, Harmless, Replacing, ReplaceTmp
<1>3. CASE out[o][Tmp(p)] # Absent
  <2>1. out[o][Tmp(p)] = p
    BY <1>1, <1>3 DEF ForeignInv, OwnTmps
  <2>2. out' = [out EXCEPT ![o][Dest(p)] = p, ![o][Tmp(p)] = Absent]
    BY <1>3, <2>1 DEF ReplaceTmp
  <2>3. \A a \in Output, b \in Name : out'[a][b] =
          IF a = o /\ b = Tmp(p) THEN Absent ELSE IF a = o /\ b = Dest(p) THEN p ELSE out[a][b]
    BY <1>1, <2>2
  <2> HIDE DEF o, p
  <2>4. OwnTmps'
    BY <1>1, <2>3, Names, DistinctNames DEF ForeignInv, OwnTmps
  <2>5. p \notin LiveForeign /\ p # RegularFile
    BY <1>1, NotProtected DEF Protected
  <2>6. ASSUME NEW a \in Output, NEW b \in Name PROVE Gentle(a, b)
    <3>1. CASE a = o /\ b = Tmp(p)
      BY <1>1, <2>1, <2>3, <2>5, <3>1 DEF Gentle
    <3>2. CASE a = o /\ b = Dest(p) /\ b # Tmp(p)
      <4>1. out'[a][b] = p
        BY <2>3, <3>2
      <4>2. p # Absent
        BY <1>1, PathAssumption DEF Target
      <4> QED BY <1>1, <1>2, <3>2, <4>1, <4>2 DEF Gentle
    <3>3. CASE ~(a = o /\ b \in {Tmp(p), Dest(p)})
      BY <2>3, <3>3 DEF Gentle
    <3> QED BY <3>1, <3>2, <3>3
  <2> QED BY <2>4, <2>6 DEF GentleStep
<1>4. CASE out[o][Tmp(p)] = Absent
  BY <1>4, GentleStutter DEF ReplaceTmp
<1> QED BY <1>3, <1>4

LEMMA StepsAreGentle ==
  ASSUME ForeignInv, NEW s \in Scanner,
         Begins(s) \/ Proceeds(s) \/ Cancel(s) \/ Faults(s)
  PROVE  GentleStep
<1> DEFINE o == link[s].cur
           p == link[s].at
<1>1. /\ o \in Output /\ p \in Path /\ Dest(p) \in Name /\ Tmp(p) \in Name
      /\ link[s].plan \subseteq Name
  BY Fields, Names DEF ForeignInv
<1>2. CASE Begins(s) \/ Discovers(s) \/ Probes(s) \/ Finish(s) \/ Cancel(s) \/ Faults(s)
  <2>1. UNCHANGED out
    BY <1>2 DEF Begins, StartScan, StartClean, Start, Discovers, WalkDir, CheckInput, Probes,
       BeginProbing, AbortProbing, EndProbing, Lookup, Probe, StoreProbe, Finish, Cancel,
       Faults, Crash, LinkFails, StoreFails, HookFails, WalkFails, RemoveFails, outs
  <2> QED BY <2>1, GentleStutter
<1>3. CASE CreateLink(s)
  <2>1. CASE UNCHANGED out
    BY <2>1, GentleStutter
  <2>2. CASE out' = [out EXCEPT ![o][Dest(p)] = p] /\ out[o][Dest(p)] = Absent
    <3>1. out[o][Dest(p)] # RegularFile /\ p # Absent
      BY <1>1, <2>2, PathAssumption DEF Target
    <3>2. \A q \in Path : Dest(p) # Tmp(q)
      BY <1>1, DistinctNames
    <3> HIDE DEF o, p
    <3> QED BY <1>1, <2>2, <3>1, <3>2, GentleWrite
  <2> QED BY <1>3, <2>1, <2>2 DEF CreateLink, Write
<1>4. CASE UnlinkTmp(s)
  <2>1. out' = [out EXCEPT ![o][Tmp(p)] = Absent]
    BY <1>4 DEF UnlinkTmp
  <2>2. out[o][Tmp(p)] \in {Absent, p}
    BY <1>1 DEF ForeignInv, OwnTmps
  <2>3. out[o][Tmp(p)] \notin Protected
    BY <1>1, <2>2, NotProtected
  <2> QED BY <1>1, <2>1, <2>3, GentleWrite DEF Protected
<1>5. CASE LinkTmp(s)
  <2>1. CASE UNCHANGED out
    BY <2>1, GentleStutter
  <2>2. CASE out' = [out EXCEPT ![o][Tmp(p)] = p] /\ out[o][Tmp(p)] = Absent
    <3>1. out[o][Tmp(p)] # RegularFile /\ p # Absent
      BY <1>1, <2>2, PathAssumption DEF Target
    <3>2. \A q \in Path : Tmp(p) = Tmp(q) => p = q
      BY <1>1, DistinctNames
    <3> HIDE DEF o, p
    <3> QED BY <1>1, <2>2, <3>1, <3>2, GentleWrite
  <2> QED BY <1>5, <2>1, <2>2 DEF LinkTmp
<1>6. CASE ReplaceTmp(s)
  BY <1>6, GentleReplace
<1>7. ASSUME NEW n \in Name, RemoveLink(s, n) \/ UnlinkStale(s, n) PROVE GentleStep
  <2>1. CASE UNCHANGED out
    BY <2>1, GentleStutter
  <2>2. CASE out' = [out EXCEPT ![o][n] = Absent]
    <3>1. out[o][n] \notin Protected
      BY <1>7 DEF RemoveLink, UnlinkStale, ForeignInv, Harmless
    <3> QED BY <1>1, <2>2, <3>1, GentleWrite DEF Protected
  <2> QED BY <1>7, <2>1, <2>2 DEF RemoveLink, UnlinkStale, Write
<1>8. CASE \/ PlanRemovals(s) \/ PruneDirs(s) \/ PruneCache(s) \/ MakeDir(s)
           \/ \E q \in Path : EnsureLink(s, q)
           \/ \E a \in Output : BeginOutput(s, a) \/ SweepOutput(s, a)
           \/ CheckClean(s) \/ SweepDirs(s) \/ EndSweep(s)
           \/ \E n \in Name : SweepLink(s, n)
  <2>1. UNCHANGED out
    BY <1>8 DEF PlanRemovals, PruneDirs, PruneCache, MakeDir, EnsureLink, BeginOutput,
       SweepOutput, SweepLink, CheckClean, SweepDirs, EndSweep, outs
  <2> QED BY <2>1, GentleStutter
<1> QED BY <1>2, <1>3, <1>4, <1>5, <1>6, <1>7, <1>8 DEF Proceeds, Reconciles, Cleans

\* A step that leads a process no closer to an unlink or a replacement.
Follows(s) ==
  /\ pc'[s] = "remove" =>
       pc[s] = "remove" /\ link'[s].cur = link[s].cur /\ link'[s].plan \subseteq link[s].plan
  /\ link'[s].doom # {} =>
       link'[s].cur = link[s].cur /\ link'[s].doom \subseteq link[s].doom
  /\ pc'[s] \in Replacing =>
       pc[s] \in Replacing /\ link'[s].cur = link[s].cur /\ link'[s].at = link[s].at

LEMMA HarmlessFrame ==
  ASSUME ForeignInv, GentleStep, NEW s \in Scanner, Follows(s)
  PROVE  Harmless(s)'
<1>1. /\ link[s].cur \in Output /\ link[s].at \in Path /\ link[s].plan \subseteq Name
      /\ link[s].doom \subseteq Name
  BY Fields DEF ForeignInv
<1>2. Harmless(s)
  BY DEF ForeignInv
<1>3. ASSUME NEW n \in Name, out[link[s].cur][n] \notin Protected
      PROVE  out'[link[s].cur][n] \notin Protected
  BY <1>1, <1>3, NotProtected DEF GentleStep, Gentle
<1>4. ASSUME NEW n \in Name, out[link[s].cur][n] # RegularFile
      PROVE  out'[link[s].cur][n] # RegularFile
  BY <1>1, <1>4, NotProtected DEF GentleStep, Gentle, Protected
<1>5. Dest(link[s].at) \in Name
  BY <1>1, Names
<1>6. pc'[s] = "remove" => \A n \in link'[s].plan : out'[link'[s].cur][n] \notin Protected
  BY <1>1, <1>2, <1>3 DEF Follows, Harmless
<1>7. pc'[s] \in Replacing => out'[link'[s].cur][Dest(link'[s].at)] # RegularFile
  BY <1>2, <1>4, <1>5 DEF Follows, Harmless
<1>8. \A n \in link'[s].doom : out'[link'[s].cur][n] \notin Protected
  BY <1>1, <1>2, <1>3 DEF Follows, Harmless
<1> QED BY <1>6, <1>7, <1>8 DEF Harmless

\* The removal plan holds links that are broken or lead into the library.
LEMMA HarmlessPlan ==
  ASSUME ForeignInv, NEW s \in Scanner, PlanRemovals(s), Books(s)'
  PROVE  Harmless(s)'
<1> DEFINE o == link[s].cur
           plan == Removals(o, link[s].expected \cup link[s].preserve)
<1>1. pc \in [Scanner -> PC] /\ link \in [Scanner -> Link] /\ link[s] \in Link
  BY DEF ForeignInv, TypeOK
<1>2. UNCHANGED out
  BY DEF PlanRemovals, outs
<1>3. CASE pc'[s] # "begin"
  <2>1. pc'[s] = "remove" /\ link' = [link EXCEPT ![s].plan = plan]
    BY <1>1, <1>3 DEF PlanRemovals, Goto, OutputDone
  <2>2. link'[s].cur = o /\ link'[s].plan = plan
    BY <1>1, <2>1 DEF Link
  <2>3. ASSUME NEW n \in plan PROVE out[o][n] \notin Protected
    <3>1. IsLink(out[o][n]) /\ (~Live(out[o][n]) \/ out[o][n] \in Path)
      BY DEF Removals, Links
    <3> QED BY <3>1, NotProtected
  <2> QED BY <1>2, <2>1, <2>2, <2>3 DEF Harmless, Replacing, Books
<1>4. CASE pc'[s] = "begin"
  BY <1>4 DEF Harmless, Replacing, Books
<1> QED BY <1>3, <1>4

\* A link is replaced only where no regular file was seen (ensure_link).
LEMMA HarmlessLook ==
  ASSUME ForeignInv, NEW s \in Scanner, NEW p \in Path, EnsureLink(s, p), Books(s)'
  PROVE  Harmless(s)'
<1> DEFINE entry == out[link[s].cur][Dest(p)]
<1>1. pc \in [Scanner -> PC] /\ link \in [Scanner -> Link] /\ link[s] \in Link
  BY DEF ForeignInv, TypeOK
<1>2. UNCHANGED out
  BY DEF EnsureLink, outs
<1>3. CASE pc'[s] \in Replacing
  <2>1. entry # RegularFile /\ pc'[s] # "remove" /\ link' = [link EXCEPT ![s].at = p]
    BY <1>1, <1>3 DEF EnsureLink, Linked, Goto, Replacing, Keeps
  <2>2. link'[s].cur = link[s].cur /\ link'[s].at = p
    BY <1>1, <2>1 DEF Link
  <2> QED BY <1>2, <1>3, <2>1, <2>2 DEF Harmless, Replacing, Books
<1>4. CASE pc'[s] \notin Replacing
  <2>1. pc'[s] \notin {"remove", "sweep"}
    BY <1>1, <1>4 DEF EnsureLink, Linked, Goto
  <2> QED BY <1>4, <2>1 DEF Harmless, Books
<1> QED BY <1>3, <1>4

\* The steps of the process itself.
LEMMA HarmlessStep ==
  ASSUME ForeignInv, NEW s \in Scanner,
         Begins(s) \/ Proceeds(s) \/ Cancel(s) \/ Faults(s)
  PROVE  Harmless(s)'
<1>1. pc \in [Scanner -> PC] /\ link \in [Scanner -> Link] /\ link[s] \in Link
  BY DEF ForeignInv, TypeOK
<1>2. GentleStep /\ Books(s) /\ Books(s)'
  BY StepsAreGentle, BooksStep DEF ForeignInv, BookInv
<1>3. CASE Begins(s) \/ Discovers(s) \/ Probes(s)
  <2>1. pc'[s] \notin Replacing \cup {"remove", "sweep"}
    BY <1>1, <1>3 DEF Begins, StartScan, StartClean, Discovers, WalkDir, CheckInput, Probes,
       BeginProbing, AbortProbing, EndProbing, Lookup, Probe, StoreProbe, Goto, Replacing
  <2> QED BY <1>2, <2>1 DEF Harmless, Books
<1>9. CASE Cleans(s)
  <2>1. pc'[s] \notin Replacing \cup {"remove"}
    BY <1>1, <1>9 DEF Cleans, CheckClean, SweepOutput, SweepLink, UnlinkStale, SweepDirs,
       EndSweep, Goto, Replacing
  <2>2. ASSUME NEW n \in Name, SweepLink(s, n)
        PROVE  \A x \in link'[s].doom : out'[link'[s].cur][x] \notin Protected
    <3>1. UNCHANGED out
      BY <2>2 DEF SweepLink, outs
    <3>2. /\ link'[s].cur = link[s].cur
          /\ link'[s].doom = IF Broken(out[link[s].cur][n]) THEN {n} ELSE {}
      BY <1>1, <2>2 DEF SweepLink, Link
    <3> QED BY <3>1, <3>2, NotProtected DEF Broken
  <2>3. ASSUME ~\E n \in Name : SweepLink(s, n) PROVE link'[s].doom = {}
    <3>1. CASE pc'[s] # "sweep"
      BY <1>2, <3>1 DEF Books
    <3>2. CASE pc'[s] = "sweep"
      <4>1. ~CheckClean(s) /\ ~SweepDirs(s) /\ ~EndSweep(s)
        BY <1>1, <3>2 DEF CheckClean, SweepDirs, EndSweep, Goto
      <4>2. ASSUME NEW o \in Output, SweepOutput(s, o) PROVE link'[s].doom = {}
        <5>1. pc[s] # "sweep" /\ link'[s].doom = link[s].doom
          BY <1>1, <4>2 DEF SweepOutput, Link
        <5> QED BY <1>2, <5>1 DEF Books
      <4>3. ASSUME NEW n \in Name, UnlinkStale(s, n) PROVE link'[s].doom = {}
        BY <1>1, <4>3 DEF UnlinkStale, Link
      <4> QED BY <1>9, <2>3, <4>1, <4>2, <4>3 DEF Cleans
    <3> QED BY <3>1, <3>2
  <2>4. \A x \in link'[s].doom : out'[link'[s].cur][x] \notin Protected
    BY <2>2, <2>3
  <2> QED BY <2>1, <2>4 DEF Harmless
<1>4. CASE Finish(s) \/ Crash(s) \/ HookFails(s) \/ StoreFails(s) \/ LinkFails(s)
  <2>1. pc'[s] \in {"idle", "finish", "link"}
    BY <1>1, <1>4 DEF Finish, Crash, HookFails, StoreFails, LinkFails, Reset, Linked, Goto
  <2> QED BY <1>2, <2>1 DEF Harmless, Replacing, Books
<1>5. CASE Cancel(s) \/ \E d \in Dir : WalkFails(s, d)
  BY <1>2, <1>5, HarmlessFrame DEF Cancel, WalkFails, Follows
<1>6. ASSUME NEW n \in Name, RemoveFails(s, n) \/ RemoveLink(s, n) PROVE Harmless(s)'
  <2>1. pc' = pc /\ pc[s] \notin Replacing
    BY <1>6 DEF RemoveFails, RemoveLink, Replacing
  <2>2. /\ link'[s].cur = link[s].cur /\ link'[s].plan \subseteq link[s].plan
        /\ link'[s].doom \subseteq link[s].doom
    BY <1>1, <1>6 DEF RemoveFails, RemoveLink, Link
  <2> QED BY <1>2, <2>1, <2>2, HarmlessFrame DEF Follows
<1>7. CASE UnlinkTmp(s) \/ LinkTmp(s)
  <2>1. link' = link /\ pc[s] \in Replacing /\ pc'[s] # "remove"
    BY <1>1, <1>7 DEF UnlinkTmp, LinkTmp, Linked, Goto, Replacing
  <2> QED BY <1>2, <2>1, HarmlessFrame DEF Follows
<1>8. CASE \/ MakeDir(s) \/ CreateLink(s) \/ ReplaceTmp(s) \/ PruneDirs(s) \/ PruneCache(s)
           \/ \E o \in Output : BeginOutput(s, o)
  <2>1. pc'[s] \in {"symlink", "link", "begin", "finish"}
    BY <1>1, <1>8 DEF MakeDir, CreateLink, ReplaceTmp, PruneDirs, PruneCache, BeginOutput,
       Linked, OutputDone, Goto
  <2> QED BY <1>2, <2>1 DEF Harmless, Replacing, Books
<1> QED BY <1>3, <1>4, <1>5, <1>6, <1>7, <1>8, <1>9, <1>2, HarmlessPlan, HarmlessLook
        DEF Proceeds, Reconciles, Faults

LEMMA InitForeign == Init => ForeignInv
<1> SUFFICES ASSUME Init PROVE ForeignInv
  OBVIOUS
<1>1. OwnTmps
  BY Names DEF Init, OwnTmps
<1>2. \A s \in Scanner : Harmless(s)
  BY DEF Init, Harmless, Replacing, NoLink
<1> QED BY <1>1, <1>2, InitTyped, InitBooks DEF ForeignInv

\* Outputs are edited only while nothing runs, and never at a temporary name.
LEMMA EnvironmentForeign ==
  ASSUME UserDuringScan = FALSE, ForeignInv, Environment
  PROVE  OwnTmps' /\ \A s \in Scanner : Harmless(s)'
<1>1. UNCHANGED <<pc, link>>
  BY DEF Environment, DeleteMedia, PutMedia, EditMedia, ToggleSidecar, Mount,
     ChangeFilters, UserEdit, UserMakeDir, local
<1>2. CASE UNCHANGED out
  BY <1>1, <1>2, GentleStutter, HarmlessFrame DEF Follows, GentleStep
<1>3. ASSUME NEW o \in Output, NEW p \in Path, NEW e \in Entry, UserEdit(o, p, e)
      PROVE  OwnTmps' /\ \A s \in Scanner : Harmless(s)'
  <2>1. out' = [out EXCEPT ![o][Dest(p)] = e] /\ \A s \in Scanner : pc[s] = "idle"
    BY <1>3 DEF UserEdit, UserMayAct, Running
  <2>2. out \in [Output -> [Name -> Entry]] /\ Dest(p) \in Name
    BY Names DEF ForeignInv, TypeOK
  <2>3. \A a \in Output, q \in Path : out'[a][Tmp(q)] = out[a][Tmp(q)]
    BY <2>1, <2>2, Names, DistinctNames
  <2>4. OwnTmps'
    BY <2>3 DEF ForeignInv, OwnTmps
  <2>5. \A s \in Scanner : link[s].doom = {}
    BY <2>1 DEF ForeignInv, BookInv, Books
  <2> QED BY <1>1, <2>1, <2>4, <2>5 DEF Harmless, Replacing
<1> QED BY <1>2, <1>3 DEF Environment, DeleteMedia, PutMedia, EditMedia, ToggleSidecar,
        Mount, ChangeFilters, UserMakeDir, outs

LEMMA NextForeign ==
  ASSUME UserDuringScan = FALSE, ForeignInv, [Next]_vars PROVE ForeignInv'
<1>1. TypeOK' /\ BookInv'
  BY NextTyped, NextBooks DEF ForeignInv
<1>2. ASSUME NEW s \in Scanner, Begins(s) \/ Proceeds(s) \/ Cancel(s) \/ Faults(s)
      PROVE  OwnTmps' /\ \A r \in Scanner : Harmless(r)'
  <2>1. GentleStep
    BY <1>2, StepsAreGentle
  <2>2. ASSUME NEW r \in Scanner, r # s PROVE Harmless(r)'
    <3>1. pc'[r] = pc[r] /\ link'[r] = link[r]
      BY <1>2, <2>2, OthersKept, LinkKept DEF ForeignInv, Kept
    <3> QED BY <2>1, <3>1, HarmlessFrame DEF Follows
  <2>3. Harmless(s)'
    BY <1>2, HarmlessStep
  <2> QED BY <2>1, <2>2, <2>3 DEF GentleStep
<1>3. ASSUME UNCHANGED vars PROVE OwnTmps' /\ \A r \in Scanner : Harmless(r)'
  <2>1. UNCHANGED <<out, pc, link>>
    BY <1>3 DEF vars
  <2>2. GentleStep
    BY <2>1, GentleStutter
  <2> QED BY <2>1, <2>2, HarmlessFrame DEF Follows, GentleStep
<1>4. OwnTmps' /\ \A r \in Scanner : Harmless(r)'
  BY <1>2, <1>3, EnvironmentForeign DEF Next
<1> QED BY <1>1, <1>4 DEF ForeignInv

\* Where a process has moved, the step was its own.
LEMMA MovesAreOwn ==
  ASSUME TypeOK, [Next]_vars, NEW s \in Scanner, Moves(s)
  PROVE  Begins(s) \/ Proceeds(s) \/ Cancel(s) \/ Faults(s)
<1>1. CASE Environment
  BY <1>1 DEF Moves, Environment, DeleteMedia, PutMedia, EditMedia, ToggleSidecar, Mount,
     ChangeFilters, UserEdit, UserMakeDir, local
<1>2. CASE UNCHANGED vars
  BY <1>2 DEF Moves, vars
<1>3. ASSUME NEW r \in Scanner \ {s}, Begins(r) \/ Proceeds(r) \/ Cancel(r) \/ Faults(r)
      PROVE  FALSE
  BY <1>3, OthersKept, LinkKept DEF Moves, Kept
<1> QED BY <1>1, <1>2, <1>3 DEF Next

\* No process removes or replaces a regular file of an output, however many scan
\* and clean at once, crash or fail (ensure_link, _remove, clean_stale), as long as
\* the outputs are edited by hand only between scans.
THEOREM RegularFilesAreKept ==
  ASSUME UserDuringScan = FALSE PROVE Spec => RegularFilesStay
<1>1. ForeignInv /\ [Next]_vars => ForeignInv'
  BY NextForeign
<1>2. ASSUME ForeignInv, [Next]_vars,
             NEW s \in Scanner, NEW o \in Output, NEW p \in Path,
             Moves(s), out[o][Dest(p)] = RegularFile
      PROVE  out'[o][Dest(p)] = RegularFile
  <2>1. GentleStep
    BY <1>2, MovesAreOwn, StepsAreGentle DEF ForeignInv
  <2> QED BY <1>2, <2>1, Names DEF GentleStep, Gentle
<1>3. ForeignInv /\ [Next]_vars =>
        [\A s \in Scanner, o \in Output, p \in Path :
           Moves(s) /\ out[o][Dest(p)] = RegularFile => out'[o][Dest(p)] = RegularFile]_vars
  BY <1>2
<1> QED BY <1>1, <1>3, InitForeign, PTL DEF Spec, RegularFilesStay

\* A link is written at the name of an expected path only, and leads to it.
LEMMA WritesAreExpected ==
  ASSUME ForeignInv, NEW s \in Scanner,
         Begins(s) \/ Proceeds(s) \/ Cancel(s) \/ Faults(s),
         NEW o \in Output, NEW p \in Path,
         out'[o][Dest(p)] \notin {out[o][Dest(p)], Absent}
  PROVE  p \in link[s].expected /\ out'[o][Dest(p)] = p
<1> DEFINE at == link[s].at
<1>1. /\ out \in [Output -> [Name -> Entry]] /\ link[s].cur \in Output /\ at \in Path
      /\ Dest(p) \in Name /\ Dest(at) \in Name /\ Tmp(at) \in Name
      /\ Dest(p) # Tmp(at) /\ (Dest(p) = Dest(at) => p = at)
  BY Fields, Names, DistinctNames DEF ForeignInv, TypeOK, Dest
<1>2. pc[s] \in LinkPCs \ {"link"} => at \in link[s].expected
  BY DEF ForeignInv, BookInv, Books
<1>3. CreateLink(s) \/ ReplaceTmp(s)
  <2>1. ~UNCHANGED out
    OBVIOUS
  <2>2. ~(Begins(s) \/ Discovers(s) \/ Probes(s) \/ Finish(s) \/ Cancel(s) \/ Faults(s))
    BY <2>1 DEF Begins, StartScan, StartClean, Start, Discovers, WalkDir, CheckInput, Probes,
       BeginProbing, AbortProbing, EndProbing, Lookup, Probe, StoreProbe, Finish, Cancel,
       Faults, Crash, LinkFails, StoreFails, HookFails, WalkFails, RemoveFails, outs
  <2>3. ~(UnlinkTmp(s) \/ LinkTmp(s))
    BY <1>1, <2>1 DEF UnlinkTmp, LinkTmp
  <2>4. ~\E n \in Name : RemoveLink(s, n) \/ UnlinkStale(s, n)
    <3>1. ASSUME NEW n \in Name, out' = [out EXCEPT ![link[s].cur][n] = Absent] PROVE FALSE
      <4>1. out'[o][Dest(p)] \in {out[o][Dest(p)], Absent}
        BY <1>1, <3>1
      <4> QED BY <4>1
    <3> QED BY <2>1, <3>1 DEF RemoveLink, UnlinkStale, Write
  <2>5. ~(\/ PlanRemovals(s) \/ PruneDirs(s) \/ PruneCache(s) \/ MakeDir(s)
          \/ \E q \in Path : EnsureLink(s, q)
          \/ \E a \in Output : BeginOutput(s, a) \/ SweepOutput(s, a)
          \/ CheckClean(s) \/ SweepDirs(s) \/ EndSweep(s)
          \/ \E n \in Name : SweepLink(s, n))
    BY <2>1 DEF PlanRemovals, PruneDirs, PruneCache, MakeDir, EnsureLink, BeginOutput,
       SweepOutput, SweepLink, CheckClean, SweepDirs, EndSweep, outs
  <2> QED BY <2>2, <2>3, <2>4, <2>5 DEF Proceeds, Reconciles, Cleans
<1>4. at \in link[s].expected
  BY <1>2, <1>3 DEF CreateLink, ReplaceTmp, LinkPCs
<1>5. CASE CreateLink(s)
  <2>1. out' = [out EXCEPT ![link[s].cur][Dest(at)] = at]
    BY <1>5 DEF CreateLink, Write
  <2> QED BY <1>1, <1>4, <2>1
<1>6. CASE ReplaceTmp(s)
  <2>1. out[link[s].cur][Tmp(at)] = at
    BY <1>1, <1>6 DEF ReplaceTmp, ForeignInv, OwnTmps
  <2>2. out' = [out EXCEPT ![link[s].cur][Dest(at)] = at, ![link[s].cur][Tmp(at)] = Absent]
    BY <1>6, <2>1 DEF ReplaceTmp
  <2> QED BY <1>1, <1>4, <2>2
<1> QED BY <1>3, <1>5, <1>6

\* Nor does a process touch a working link that leads out of the library, but to
\* put the link of a file in its place that the scan links under the same name
\* (plan_removals, _remove, clean_stale, ensure_link).
THEOREM LiveForeignLinksAreKept ==
  ASSUME UserDuringScan = FALSE PROVE Spec => LiveForeignStay
<1> DEFINE Spared(s, o, p) ==
      Moves(s) /\ out[o][Dest(p)] \in LiveForeign
        => \/ out'[o][Dest(p)] = out[o][Dest(p)]
           \/ p \in link[s].expected /\ out'[o][Dest(p)] = p
<1>1. ForeignInv /\ [Next]_vars => ForeignInv'
  BY NextForeign
<1>2. ASSUME ForeignInv, [Next]_vars, NEW s \in Scanner, NEW o \in Output, NEW p \in Path
      PROVE  Spared(s, o, p)
  <2>1. SUFFICES ASSUME Moves(s), out[o][Dest(p)] \in LiveForeign,
                        out'[o][Dest(p)] # out[o][Dest(p)]
                 PROVE  p \in link[s].expected /\ out'[o][Dest(p)] = p
    OBVIOUS
  <2>2. Begins(s) \/ Proceeds(s) \/ Cancel(s) \/ Faults(s)
    BY <1>2, <2>1, MovesAreOwn DEF ForeignInv
  <2>3. out'[o][Dest(p)] # Absent
    BY <1>2, <2>1, <2>2, StepsAreGentle, Names DEF GentleStep, Gentle
  <2> QED BY <1>2, <2>1, <2>2, <2>3, WritesAreExpected
<1>3. ForeignInv /\ [Next]_vars =>
        [\A s \in Scanner, o \in Output, p \in Path : Spared(s, o, p)]_vars
  BY <1>2
<1> QED BY <1>1, <1>3, InitForeign, PTL DEF Spec, LiveForeignStay

-----------------------------------------------------------------------------
(***************************************************************************)
(* What the hooks are told.  While an output is reconciled, its changes    *)
(* are known only to the flags of ReconcileResult; they reach the result   *)
(* of the scan when the output is done.                                    *)
(***************************************************************************)
Counted(s) == IF link[s].created \/ link[s].removed THEN {link[s].cur} ELSE {}

Reporting(s) ==
  /\ pc[s] \notin {"clean", "sweep_next", "sweep"}
  /\ pc[s] \in PreLink \cup {"idle"} => ghost[s].touched = {}
  /\ pc[s] \in LinkPCs => ~link[s].removed
  /\ pc[s] \in LinkPCs \cup {"remove"} => ghost[s].touched \subseteq res[s].changed \cup Counted(s)
  /\ \/ pc[s] = "begin"
     \/ pc[s] = "finish" /\ ~res[s].dropped
     => ghost[s].touched \subseteq res[s].changed

Reported(s) == job[s].mode = "scan" => Reporting(s)

ReportInv == TypeOK /\ \A s \in Scanner : Reported(s)

LEMMA InitReport == Init => ReportInv
<1> SUFFICES ASSUME Init PROVE ReportInv
  OBVIOUS
<1>1. ASSUME NEW s \in Scanner PROVE Reported(s)
  BY DEF Init, Reported, Reporting, PreLink, LinkPCs, NoGhost
<1> QED BY <1>1, InitTyped DEF ReportInv

\* What a step may do to what is known of process r without changing its report.
SameReport(r) ==
  /\ job'[r] = job[r] /\ ghost'[r].touched = ghost[r].touched
  /\ res'[r].changed = res[r].changed /\ res'[r].dropped = res[r].dropped
  /\ Counted(r)' = Counted(r)
  /\ link'[r].removed = link[r].removed

LEMMA ReportKept ==
  ASSUME NEW r \in Scanner, Reported(r), SameReport(r), pc'[r] = pc[r]
  PROVE  Reported(r)'
BY DEF Reported, Reporting, SameReport

\* A step from place to place that changes no link.
LEMMA ReportMoved ==
  ASSUME NEW r \in Scanner, Reported(r),
         job'[r] = job[r], ghost'[r].touched = ghost[r].touched,
         res'[r].changed = res[r].changed,
         \/ pc[r] \in PreLink /\ pc'[r] \in PreLink \cup {"begin", "finish"}
         \/ pc[r] = "begin" /\ pc'[r] = "finish"
         \/ pc[r] \in LinkPCs /\ pc'[r] \in LinkPCs /\ link'[r] = link[r]
  PROVE  Reported(r)'
BY DEF Reported, Reporting, Counted, PreLink, LinkPCs

LEMMA SameChanged ==
  ASSUME TypeOK, NEW s \in Scanner, Fail(s) \/ UNCHANGED res, NEW r \in Scanner
  PROVE  res'[r].changed = res[r].changed
<1>1. res \in [Scanner -> Res]
  BY DEF TypeOK
<1> QED BY <1>1 DEF Fail, Res

LEMMA WriteTouches ==
  ASSUME TypeOK, NEW s \in Scanner, NEW o, NEW n, NEW e, Write(s, o, n, e)
  PROVE  ghost'[s].touched = ghost[s].touched \cup {o}
<1>1. ghost \in [Scanner -> Ghost]
  BY DEF TypeOK
<1> QED BY <1>1 DEF Write, Ghost

LEMMA ResKept ==
  ASSUME TypeOK, NEW s \in Scanner, NEW r \in Scanner \ {s},
         Begins(s) \/ Proceeds(s) \/ Cancel(s) \/ Faults(s)
  PROVE  res'[r] = res[r]
<1>1. res \in [Scanner -> Res]
  BY DEF TypeOK
<1>2. CASE Begins(s) \/ Discovers(s) \/ Probes(s) \/ Cancel(s)
  BY <1>1, <1>2 DEF Begins, StartScan, StartClean, Start, Discovers, WalkDir, CheckInput,
     Probes, BeginProbing, AbortProbing, EndProbing, Lookup, Probe, StoreProbe, Cancel, Fail
<1>3. CASE Reconciles(s) \/ Cleans(s)
  BY <1>1, <1>3 DEF Reconciles, BeginOutput, EnsureLink, MakeDir, CreateLink, UnlinkTmp,
     LinkTmp, ReplaceTmp, PlanRemovals, RemoveLink, PruneDirs, PruneCache, OutputDone, Fail,
     Cleans, CheckClean, SweepOutput, SweepLink, UnlinkStale, SweepDirs, EndSweep
<1>4. CASE Finish(s) \/ Faults(s)
  BY <1>1, <1>4 DEF Finish, Faults, Crash, LinkFails, StoreFails, HookFails, WalkFails,
     RemoveFails, Reset, Fail
<1> QED BY <1>2, <1>3, <1>4 DEF Proceeds

\* A link that is made, or moved into place, is counted as created.
LEMMA ReportCreated ==
  ASSUME ReportInv, NEW s \in Scanner, CreateLink(s) \/ ReplaceTmp(s)
  PROVE  Reported(s)'
<1>1. /\ pc \in [Scanner -> PC] /\ link \in [Scanner -> Link] /\ link[s] \in Link
      /\ ghost \in [Scanner -> Ghost] /\ TypeOK /\ Reported(s)
  BY DEF ReportInv, TypeOK
<1>2. pc'[s] = "link" /\ pc[s] \in LinkPCs /\ job' = job
  BY <1>1 DEF CreateLink, ReplaceTmp, Linked, Goto, LinkPCs
<1>3. res'[s].changed = res[s].changed
  BY <1>1, SameChanged DEF CreateLink, ReplaceTmp
<1>4. CASE UNCHANGED <<ghost, link>>
  BY <1>1, <1>2, <1>3, <1>4, ReportMoved DEF LinkPCs
<1>5. CASE ~UNCHANGED <<ghost, link>>
  <2>1. Created(s) /\ ghost'[s].touched = ghost[s].touched \cup {link[s].cur}
    BY <1>1, <1>5, WriteTouches DEF CreateLink, ReplaceTmp, Ghost
  <2>2. link'[s].created /\ link'[s].cur = link[s].cur /\ link'[s].removed = link[s].removed
    BY <1>1, <2>1 DEF Created, Link
  <2> QED BY <1>1, <1>2, <1>3, <2>1, <2>2 DEF Reported, Reporting, Counted, LinkPCs, PreLink
<1> QED BY <1>4, <1>5

\* A link that was unlinked is counted as removed.
LEMMA ReportRemoved ==
  ASSUME ReportInv, NEW s \in Scanner, NEW n \in Name, RemoveLink(s, n)
  PROVE  Reported(s)'
<1>1. /\ link \in [Scanner -> Link] /\ link[s] \in Link /\ TypeOK /\ Reported(s)
  BY DEF ReportInv, TypeOK
<1>2. UNCHANGED <<pc, job, res>> /\ pc[s] = "remove"
  BY DEF RemoveLink
<1>3. /\ link'[s].cur = link[s].cur /\ link'[s].created = link[s].created
      /\ link'[s].removed = (link[s].removed \/ out[link[s].cur][n] # Absent)
  BY <1>1 DEF RemoveLink, Link
<1>4. CASE out[link[s].cur][n] # Absent
  <2>1. ghost'[s].touched = ghost[s].touched \cup {link[s].cur}
    BY <1>1, <1>4, WriteTouches DEF RemoveLink
  <2> QED BY <1>1, <1>2, <1>3, <1>4, <2>1 DEF Reported, Reporting, Counted, LinkPCs, PreLink
<1>5. CASE out[link[s].cur][n] = Absent
  <2>1. ghost' = ghost
    BY <1>5 DEF RemoveLink
  <2> QED BY <1>1, <1>2, <1>3, <2>1 DEF Reported, Reporting, Counted, LinkPCs, PreLink
<1> QED BY <1>4, <1>5

\* The output is done, or the guard refuses its removals.
LEMMA ReportDone ==
  ASSUME ReportInv, NEW s \in Scanner, PlanRemovals(s) \/ PruneDirs(s)
  PROVE  Reported(s)'
<1>1. /\ pc \in [Scanner -> PC] /\ link \in [Scanner -> Link] /\ link[s] \in Link
      /\ res \in [Scanner -> Res] /\ Reported(s)
  BY DEF ReportInv, TypeOK
<1>2. /\ UNCHANGED <<job, ghost>> /\ pc[s] \in {"link", "remove"}
      /\ PlanRemovals(s) => pc[s] = "link"
  BY DEF PlanRemovals, PruneDirs
<1>3. CASE pc'[s] = "begin"
  <2>1. res[s].changed \cup Counted(s) \subseteq res'[s].changed \/ job[s].mode # "scan"
    <3>1. CASE PlanRemovals(s)
      <4>1. link[s].removed = FALSE \/ job[s].mode # "scan"
        BY <1>1, <1>2, <3>1 DEF Reported, Reporting, LinkPCs, Link
      <4>2. res[s].changed \cup (IF link[s].created THEN {link[s].cur} ELSE {})
              \subseteq res'[s].changed
        BY <1>1, <1>3, <3>1 DEF PlanRemovals, OutputDone, Goto, Res
      <4> QED BY <4>1, <4>2 DEF Counted
    <3>2. CASE PruneDirs(s)
      BY <1>1, <3>2 DEF PruneDirs, OutputDone, Counted, Res
    <3> QED BY <3>1, <3>2
  <2> QED BY <1>1, <1>2, <1>3, <2>1 DEF Reported, Reporting, LinkPCs, PreLink
<1>4. CASE pc'[s] # "begin"
  <2>1. pc'[s] = "remove" /\ pc[s] = "link" /\ res' = res
    BY <1>1, <1>2, <1>4 DEF PlanRemovals, PruneDirs, OutputDone, Goto
  <2>2. /\ link'[s].cur = link[s].cur /\ link'[s].created = link[s].created
        /\ link'[s].removed = link[s].removed
    BY <1>1, <1>4, <2>1 DEF PlanRemovals, PruneDirs, OutputDone, Goto, Link
  <2> QED BY <1>1, <1>2, <2>1, <2>2 DEF Reported, Reporting, Counted, LinkPCs, PreLink
<1> QED BY <1>3, <1>4

LEMMA ReportStep ==
  ASSUME ReportInv, NEW s \in Scanner,
         Begins(s) \/ Proceeds(s) \/ Cancel(s) \/ Faults(s)
  PROVE  Reported(s)'
<1>1. /\ pc \in [Scanner -> PC] /\ link \in [Scanner -> Link] /\ link[s] \in Link
      /\ job \in [Scanner -> Job] /\ ghost \in [Scanner -> Ghost]
      /\ TypeOK /\ Reported(s)
  BY DEF ReportInv, TypeOK
<1>2. CASE Begins(s)
  <2>1. ASSUME NEW mode, NEW dry, NEW force, Start(s, mode, dry, force)
        PROVE  ghost'[s].touched = {} /\ job'[s].mode = mode
    BY <1>1, <2>1 DEF Start
  <2>2. \/ pc'[s] = "walk" /\ ghost'[s].touched = {}
        \/ job'[s].mode = "clean"
    BY <1>1, <1>2, <2>1 DEF Begins, StartScan, StartClean, Goto
  <2> QED BY <2>2 DEF Reported, Reporting, PreLink, LinkPCs
<1>3. CASE Discovers(s) \/ Probes(s)
  <2>1. /\ UNCHANGED <<job, ghost>> /\ pc[s] \in PreLink
        /\ Fail(s) \/ UNCHANGED res
    BY <1>3 DEF Discovers, WalkDir, CheckInput, Probes, BeginProbing, AbortProbing,
       EndProbing, Lookup, Probe, StoreProbe, PreLink
  <2>2. pc'[s] \in PreLink \cup {"begin", "finish"}
    BY <1>1, <1>3 DEF Discovers, WalkDir, CheckInput, Probes, BeginProbing, AbortProbing,
       EndProbing, Lookup, Probe, StoreProbe, Goto, PreLink
  <2> QED BY <1>1, <2>1, <2>2, SameChanged, ReportMoved
<1>4. ASSUME NEW o \in Output, BeginOutput(s, o) PROVE Reported(s)'
  <2>1. /\ UNCHANGED <<job, ghost, res>> /\ pc[s] = "begin" /\ pc'[s] = "link"
        /\ link'[s].removed = FALSE
    BY <1>1, <1>4 DEF BeginOutput, Goto, Link
  <2> QED BY <1>1, <2>1 DEF Reported, Reporting, LinkPCs, PreLink
<1>5. ASSUME NEW p \in Path, EnsureLink(s, p) PROVE Reported(s)'
  <2>1. UNCHANGED <<job, ghost, res>> /\ pc[s] = "link" /\ pc'[s] \in LinkPCs
    BY <1>1, <1>5 DEF EnsureLink, Linked, Goto, LinkPCs
  <2>2. /\ link'[s].removed = link[s].removed /\ link'[s].cur = link[s].cur
        /\ link[s].created => link'[s].created
    BY <1>1, <1>5 DEF EnsureLink, Created, Link
  <2> QED BY <1>1, <2>1, <2>2 DEF Reported, Reporting, Counted, LinkPCs, PreLink
<1>6. CASE MakeDir(s) \/ UnlinkTmp(s) \/ LinkTmp(s) \/ LinkFails(s)
  <2>1. /\ UNCHANGED <<job, link>> /\ pc[s] \in LinkPCs /\ pc'[s] \in LinkPCs
        /\ Fail(s) \/ UNCHANGED res
    BY <1>1, <1>6 DEF MakeDir, UnlinkTmp, LinkTmp, LinkFails, Linked, Goto, LinkPCs
  <2>2. ghost'[s].touched = ghost[s].touched
    BY <1>6 DEF MakeDir, UnlinkTmp, LinkTmp, LinkFails, Disturbance, Disturb
  <2> QED BY <1>1, <2>1, <2>2, SameChanged, ReportMoved
<1>7. CASE PruneCache(s)
  <2>1. UNCHANGED <<job, ghost, res>> /\ pc[s] = "begin" /\ pc'[s] = "finish"
    BY <1>1, <1>7 DEF PruneCache, Goto
  <2> QED BY <1>1, <2>1, ReportMoved
<1>8. CASE Cleans(s)
  <2>1. job' = job /\ pc[s] \in {"clean", "sweep_next", "sweep"}
    BY <1>8 DEF Cleans, CheckClean, SweepOutput, SweepLink, UnlinkStale, SweepDirs, EndSweep
  <2> QED BY <1>1, <2>1 DEF Reported, Reporting
<1>9. CASE Finish(s) \/ Crash(s) \/ HookFails(s)
  <2>1. pc'[s] = "idle" /\ ghost'[s] = NoGhost
    BY <1>1, <1>9 DEF Finish, Crash, HookFails, Reset, Goto
  <2> QED BY <2>1 DEF Reported, Reporting, NoGhost, LinkPCs, PreLink
<1>10. CASE Cancel(s) \/ \E d \in Dir : WalkFails(s, d)
  <2>1. UNCHANGED <<pc, job, link, res>>
    BY <1>10 DEF Cancel, WalkFails
  <2>2. ghost'[s].touched = ghost[s].touched
    BY <1>10 DEF Cancel, WalkFails, Disturb
  <2> QED BY <1>1, <2>1, <2>2, ReportKept DEF SameReport, Counted
<1>11. ASSUME NEW n \in Name, RemoveFails(s, n) PROVE Reported(s)'
  <2>1. UNCHANGED <<pc, job, res>> /\ ghost'[s].touched = ghost[s].touched
    BY <1>11 DEF RemoveFails, Disturbance, Disturb
  <2>2. /\ link'[s].cur = link[s].cur /\ link'[s].created = link[s].created
        /\ link'[s].removed = link[s].removed
    BY <1>1, <1>11 DEF RemoveFails, Link
  <2> QED BY <1>1, <2>1, <2>2, ReportKept DEF SameReport, Counted
<1>12. CASE StoreFails(s)
  <2>1. pc'[s] = "finish" /\ res'[s] = [NoRes EXCEPT !.errors = TRUE, !.dropped = TRUE]
    BY <1>1, <1>12 DEF StoreFails, Goto, TypeOK
  <2>2. res'[s].dropped
    BY <2>1 DEF NoRes
  <2> QED BY <2>1, <2>2 DEF Reported, Reporting, LinkPCs, PreLink
<1> QED BY <1>2, <1>3, <1>4, <1>5, <1>6, <1>7, <1>8, <1>9, <1>10, <1>11, <1>12,
           ReportCreated, ReportRemoved, ReportDone
        DEF Proceeds, Reconciles, Faults

LEMMA NextReport ==
  ASSUME ReportInv, [Next]_vars PROVE ReportInv'
<1>1. TypeOK'
  BY NextTyped DEF ReportInv
<1>2. ASSUME NEW s \in Scanner, Begins(s) \/ Proceeds(s) \/ Cancel(s) \/ Faults(s),
             NEW r \in Scanner
      PROVE  Reported(r)'
  <2>1. CASE r = s
    BY <1>2, <2>1, ReportStep
  <2>2. CASE r # s
    <3>1. Kept(r) /\ link'[r] = link[r] /\ res'[r] = res[r]
      BY <1>2, <2>2, OthersKept, LinkKept, ResKept DEF ReportInv
    <3> QED BY <3>1, ReportKept DEF ReportInv, Kept, SameReport, Counted
  <2> QED BY <2>1, <2>2
<1>3. ASSUME Environment \/ UNCHANGED vars, NEW r \in Scanner PROVE Reported(r)'
  <2>1. UNCHANGED <<pc, job, link, res>>
    BY <1>3 DEF Environment, DeleteMedia, PutMedia, EditMedia, ToggleSidecar, Mount,
       ChangeFilters, UserEdit, UserMakeDir, local, vars
  <2>2. ghost'[r].touched = ghost[r].touched
    BY <1>3 DEF Environment, DeleteMedia, PutMedia, EditMedia, ToggleSidecar, Mount,
       ChangeFilters, UserEdit, UserMakeDir, Disturbance, Disturb, vars
  <2> QED BY <2>1, <2>2, ReportKept DEF ReportInv, SameReport, Counted
<1>4. \A r \in Scanner : Reported(r)'
  BY <1>2, <1>3 DEF Next
<1> QED BY <1>1, <1>4 DEF ReportInv

\* A scan that runs its hooks tells them of every output in which it changed a link,
\* however often links fail and whatever the guard refuses (process_library,
\* changed_outputs), unless the probe cache raised and the result of the library
\* was dropped with what had been changed (scan_libraries).
THEOREM ChangesAreReported == Spec => []ChangesReported
<1>1. ReportInv /\ [Next]_vars => ReportInv'
  BY NextReport
<1>2. ReportInv => ChangesReported
  BY DEF ReportInv, Reported, Reporting, ChangesReported, RunsHooks
<1> QED BY <1>1, <1>2, InitReport, PTL DEF Spec

-----------------------------------------------------------------------------
(***************************************************************************)
(* The unmounted share.  A scan that gets past _input_is_usable then has   *)
(* seen neither a source file nor a link of any output, and no one but it  *)
(* could make one, so that there is nothing for it to link or to remove.   *)
(***************************************************************************)
Checking == {"walk", "clean", "finish"}
Unmounted(s) == ghost[s].quiet /\ mount \in {"missing", "empty"}

Idles(s) ==
  /\ walk[s].files = {}
  /\ pc[s] \notin Checking => ~HasLinks
  /\ pc[s] \notin LinkPCs \ {"link"}
  /\ pc[s] \in PreLink => \A m \in Media : look[s].stamp[m] = 0
  /\ pc[s] \in {"lookup", "probe", "link"} => todo[s] = {}
  /\ pc[s] \in {"remove", "sweep"} => link[s].plan = {}
  /\ pc[s] = "sweep" => link[s].doom = {}

Forgotten(s) == walk[s] = NoWalk /\ look[s] = NoLook

Alone(s) == \A q \in Scanner \ {s} : pc[q] = "idle"

AwayInv ==
  /\ TypeOK /\ BookInv
  /\ \A s \in Scanner :
       /\ pc[s] = "idle" => Forgotten(s)
       /\ ghost[s].quiet => Alone(s)
       /\ Unmounted(s) => ghost[s].touched = {} /\ Idles(s)

LEMMA InitAway == Init => AwayInv
<1> SUFFICES ASSUME Init PROVE AwayInv
  OBVIOUS
<1>1. ASSUME NEW s \in Scanner PROVE ~ghost[s].quiet /\ Forgotten(s)
  BY DEF Init, NoGhost, Forgotten
<1> QED BY <1>1, InitTyped, InitBooks DEF AwayInv, Unmounted

\* Only a process that begins is undisturbed anew, and only one that runs acts.
LEMMA QuietEnds ==
  ASSUME TypeOK, NEW s \in Scanner, Proceeds(s) \/ Cancel(s) \/ Faults(s)
  PROVE  /\ pc[s] # "idle" /\ mount' = mount
         /\ \A r \in Scanner : ghost'[r].quiet => ghost[r].quiet
<1>1. ghost \in [Scanner -> Ghost]
  BY DEF TypeOK
<1>2. NoGhost.quiet = FALSE /\ \A r, gone : Disturb(r, gone).quiet = FALSE
  BY DEF NoGhost, Disturb
<1>3. CASE Discovers(s) \/ Probes(s) \/ Cancel(s)
  <2>1. pc[s] # "idle" /\ UNCHANGED <<mount, ghost>>
    BY <1>3 DEF Discovers, WalkDir, CheckInput, Probes, BeginProbing, AbortProbing,
       EndProbing, Lookup, Probe, StoreProbe, Cancel, Running, input
  <2> QED BY <2>1
<1>4. CASE Reconciles(s) \/ Cleans(s)
  <2>1. mount' = mount /\ pc[s] # "idle"
    BY <1>4 DEF Reconciles, BeginOutput, EnsureLink, MakeDir, CreateLink, UnlinkTmp,
       LinkTmp, ReplaceTmp, PlanRemovals, RemoveLink, PruneDirs, PruneCache, Cleans,
       CheckClean, SweepOutput, SweepLink, UnlinkStale, SweepDirs, EndSweep, input
  <2>2. ghost' = ghost \/ \E o \in Output : ghost' = [ghost EXCEPT ![s].touched = @ \cup {o}]
    BY <1>4, Fields DEF Reconciles, BeginOutput, EnsureLink, MakeDir, CreateLink, UnlinkTmp,
       LinkTmp, ReplaceTmp, PlanRemovals, RemoveLink, PruneDirs, PruneCache, Cleans,
       CheckClean, SweepOutput, SweepLink, UnlinkStale, SweepDirs, EndSweep, Write
  <2>3. ASSUME NEW o \in Output, ghost' = [ghost EXCEPT ![s].touched = @ \cup {o}],
               NEW r \in Scanner
        PROVE  ghost'[r].quiet = ghost[r].quiet
    BY <1>1, <2>3 DEF Ghost
  <2> QED BY <2>1, <2>2, <2>3
<1>5. CASE Finish(s) \/ Crash(s) \/ HookFails(s)
  <2>1. pc[s] # "idle" /\ mount' = mount
    BY <1>5 DEF Finish, Crash, HookFails, Running, input
  <2>2. \A r \in Scanner :
          ghost'[r] = ghost[r] \/ ghost'[r] = NoGhost \/ ghost'[r] = Disturb(r, {})
    BY <1>1, <1>5 DEF Finish, Crash, HookFails
  <2> QED BY <1>2, <2>1, <2>2
<1>6. CASE \/ LinkFails(s) \/ StoreFails(s)
           \/ \E d \in Dir : WalkFails(s, d)
           \/ \E n \in Name : RemoveFails(s, n)
  <2>1. mount' = mount /\ pc[s] # "idle"
    BY <1>6 DEF LinkFails, StoreFails, WalkFails, RemoveFails, LinkPCs, input
  <2>2. \A r \in Scanner : \E gone : ghost'[r] = Disturb(r, gone)
    BY <1>6 DEF LinkFails, StoreFails, WalkFails, RemoveFails, Disturbance
  <2> QED BY <1>2, <2>1, <2>2
<1> QED BY <1>3, <1>4, <1>5, <1>6 DEF Proceeds, Faults

\* A fault ends the quiet of the process that meets it.
LEMMA FaultsAreLoud ==
  ASSUME TypeOK, NEW s \in Scanner, Faults(s) PROVE ghost'[s].quiet = FALSE
<1>1. ghost \in [Scanner -> Ghost]
  BY DEF TypeOK
<1>2. \E gone : ghost'[s] = NoGhost \/ ghost'[s] = Disturb(s, gone)
  BY <1>1 DEF Faults, Crash, LinkFails, StoreFails, HookFails, WalkFails, RemoveFails,
     Disturbance
<1> QED BY <1>2 DEF NoGhost, Disturb

\* What an unmounted share and outputs without links leave to find.
LEMMA NothingFound ==
  ASSUME NEW s \in Scanner, mount \in {"missing", "empty"}
  PROVE  /\ \A d \in Dir : Found(d) = {}
         /\ walk[s].files = {} => MediaFound(s) = {} /\ \A o \in Output : Expected(s, o) = {}
         /\ ~HasLinks => \A o \in Output : Links(o) = {} /\ \A keep : Removals(o, keep) = {}
         /\ \A hasFiles : InputUsable(hasFiles) /\ ~hasFiles => ~HasLinks
         /\ CleanUsable => ~HasLinks
<1>1. \A d \in Dir : Found(d) = {}
  BY DEF Found, Visible
<1>2. walk[s].files = {} => MediaFound(s) = {}
  BY DEF MediaFound
<1>3. MediaFound(s) = {} => \A o \in Output : Expected(s, o) = {}
  BY DEF Expected
<1>4. ~HasLinks => \A o \in Output : Links(o) = {} /\ \A keep : Removals(o, keep) = {}
  BY DEF HasLinks, Removals
<1>5. \A hasFiles : InputUsable(hasFiles) /\ ~hasFiles => ~HasLinks
  BY DEF InputUsable
<1>6. CleanUsable => ~HasLinks
  BY DEF CleanUsable, InputUsable
<1> QED BY <1>1, <1>2, <1>3, <1>4, <1>5, <1>6

\* A step that leaves a process with nothing to do.
LEMMA IdlesFrame ==
  ASSUME TypeOK, NEW s \in Scanner, Idles(s), ghost[s].touched = {},
         UNCHANGED <<out, ghost>>, walk'[s].files = {},
         pc'[s] \notin LinkPCs \ {"link"},
         pc'[s] \notin Checking => ~HasLinks,
         pc'[s] \in PreLink => pc[s] \in PreLink /\ look'[s] = look[s],
         pc'[s] \in {"lookup", "probe", "link"} => todo'[s] = {},
         pc'[s] \in {"remove", "sweep"} => link'[s].plan = {},
         pc'[s] = "sweep" => link'[s].doom = {}
  PROVE  ghost'[s].touched = {} /\ Idles(s)'
<1>1. HasLinks' = HasLinks
  BY DEF HasLinks, Links
<1> QED BY <1>1 DEF Idles

LEMMA AwayStep ==
  ASSUME AwayInv, NEW s \in Scanner, Proceeds(s) \/ Cancel(s), Unmounted(s)'
  PROVE  ghost'[s].touched = {} /\ Idles(s)'
<1>1. /\ pc \in [Scanner -> PC] /\ link \in [Scanner -> Link] /\ link[s] \in Link
      /\ walk \in [Scanner -> Walk] /\ walk[s] \in Walk /\ look \in [Scanner -> Look]
      /\ todo \in [Scanner -> SUBSET Path] /\ TypeOK
  BY DEF AwayInv, TypeOK
<1>2. Unmounted(s) /\ mount \in {"missing", "empty"}
  BY <1>1, QuietEnds DEF Unmounted
<1>3. ghost[s].touched = {} /\ Idles(s) /\ walk[s].files = {}
  BY <1>2 DEF AwayInv, Idles
<1>4. /\ pc[s] \notin Checking => ~HasLinks
      /\ pc[s] \notin LinkPCs \ {"link"}
      /\ pc[s] \in PreLink => \A m \in Media : look[s].stamp[m] = 0
      /\ pc[s] \in {"lookup", "probe", "link"} => todo[s] = {}
      /\ pc[s] \in {"remove", "sweep"} => link[s].plan = {}
      /\ pc[s] = "sweep" => link[s].doom = {}
  BY <1>3 DEF Idles
<1> USE DEF Checking, PreLink, LinkPCs
<1>5. CASE Discovers(s)
  <2>1. ASSUME NEW d \in Dir, WalkDir(s, d) PROVE ghost'[s].touched = {} /\ Idles(s)'
    <3>1. /\ UNCHANGED <<out, ghost, pc, look, todo, link>> /\ pc[s] = "walk"
          /\ walk'[s].files = {}
      BY <1>1, <1>2, <1>3, <2>1, NothingFound DEF WalkDir, Walk, outs
    <3> QED BY <1>1, <1>3, <3>1, IdlesFrame
  <2>2. CASE CheckInput(s)
    <3>1. /\ UNCHANGED <<out, ghost, walk, look>> /\ pc[s] = "walk"
          /\ \/ pc'[s] = "lookup" /\ InputUsable(walk[s].files # {}) /\ todo'[s] = MediaFound(s)
             \/ pc'[s] = "finish"
      BY <1>1, <2>2 DEF CheckInput, Goto, outs
    <3>2. pc'[s] = "lookup" => ~HasLinks /\ todo'[s] = {}
      BY <1>2, <1>3, <3>1, NothingFound
    <3> QED BY <1>1, <1>3, <3>1, <3>2, IdlesFrame
  <2> QED BY <1>5, <2>1, <2>2 DEF Discovers
<1>6. CASE Probes(s)
  <2>1. BeginProbing(s) \/ EndProbing(s)
    BY <1>4, <1>6 DEF Probes, AbortProbing, Lookup, Probe, StoreProbe
  <2>2. /\ UNCHANGED <<out, ghost, walk, look>> /\ pc[s] \in {"lookup", "probe"}
        /\ \/ pc'[s] = "probe" /\ todo'[s] = {m \in Media : look[s].stamp[m] # 0}
           \/ pc'[s] \in {"begin", "finish"}
    BY <1>1, <2>1 DEF BeginProbing, EndProbing, Goto, outs
  <2>3. pc'[s] = "probe" => todo'[s] = {}
    BY <1>4, <2>2
  <2> QED BY <1>1, <1>3, <1>4, <2>2, <2>3, IdlesFrame
<1>7. CASE Reconciles(s)
  <2>1. CASE \E o \in Output : BeginOutput(s, o)
    <3>1. PICK o \in Output : BeginOutput(s, o)
      BY <2>1
    <3>2. /\ UNCHANGED <<out, ghost, walk>> /\ pc[s] = "begin" /\ pc'[s] = "link"
          /\ todo'[s] = Expected(s, o)
      BY <1>1, <3>1 DEF BeginOutput, Goto, outs
    <3>3. todo'[s] = {}
      BY <1>2, <1>3, <3>2, NothingFound
    <3> QED BY <1>1, <1>3, <1>4, <3>2, <3>3, IdlesFrame
  <2>2. CASE PlanRemovals(s)
    <3>1. UNCHANGED <<out, ghost, walk, todo>> /\ pc[s] = "link" /\ ~HasLinks
      BY <1>4, <2>2 DEF PlanRemovals, outs
    <3>2. /\ pc'[s] \in {"begin", "remove"}
          /\ pc'[s] = "remove" =>
               link'[s].plan = Removals(link[s].cur, link[s].expected \cup link[s].preserve)
      BY <1>1, <2>2 DEF PlanRemovals, OutputDone, Goto, Link
    <3>3. pc'[s] = "remove" => link'[s].plan = {}
      BY <1>1, <1>2, <3>1, <3>2, Fields, NothingFound
    <3> QED BY <1>1, <1>3, <3>1, <3>2, <3>3, IdlesFrame
  <2>3. CASE PruneDirs(s) \/ PruneCache(s)
    <3>1. /\ UNCHANGED <<out, ghost, walk>> /\ pc[s] \in {"begin", "remove"}
          /\ pc'[s] \in {"begin", "finish"}
      BY <1>1, <2>3 DEF PruneDirs, PruneCache, OutputDone, Goto, outs
    <3> QED BY <1>1, <1>3, <1>4, <3>1, IdlesFrame
  <2> QED BY <1>4, <1>7, <2>1, <2>2, <2>3 DEF Reconciles, EnsureLink, MakeDir, CreateLink,
          UnlinkTmp, LinkTmp, ReplaceTmp, RemoveLink
<1>8. CASE Cleans(s)
  <2>1. CASE CheckClean(s)
    <3>1. /\ UNCHANGED <<out, ghost, walk>> /\ pc[s] = "clean"
          /\ (pc'[s] = "sweep_next" /\ CleanUsable) \/ pc'[s] = "finish"
      BY <1>1, <2>1 DEF CheckClean, Goto, outs
    <3> QED BY <1>1, <1>2, <1>3, <3>1, NothingFound, IdlesFrame
  <2>2. CASE \E o \in Output : SweepOutput(s, o)
    <3>1. PICK o \in Output : SweepOutput(s, o)
      BY <2>2
    <3>2. /\ UNCHANGED <<out, ghost, walk>> /\ pc[s] = "sweep_next" /\ pc'[s] = "sweep"
          /\ link'[s].plan = Links(o)
      BY <1>1, <3>1 DEF SweepOutput, Goto, outs, Link
    <3>3. ~HasLinks /\ link'[s].plan = {}
      BY <1>2, <1>4, <3>2, NothingFound
    <3>4. link'[s].doom = {}
      BY <1>1, <3>1 DEF SweepOutput, Link, AwayInv, BookInv, Books
    <3> QED BY <1>1, <1>3, <3>2, <3>3, <3>4, IdlesFrame
  <2>3. CASE SweepDirs(s) \/ EndSweep(s)
    <3>1. /\ UNCHANGED <<out, ghost, walk>> /\ pc[s] \in {"sweep", "sweep_next"}
          /\ pc'[s] \in {"sweep_next", "finish"}
      BY <1>1, <2>3 DEF SweepDirs, EndSweep, Goto, outs
    <3> QED BY <1>1, <1>3, <1>4, <3>1, IdlesFrame
  <2> QED BY <1>4, <1>8, <2>1, <2>2, <2>3 DEF Cleans, SweepLink, UnlinkStale
<1>9. CASE Finish(s)
  <2>1. ghost'[s] = NoGhost
    BY <1>1, <1>9 DEF Finish, TypeOK
  <2> QED BY <2>1 DEF Unmounted, NoGhost
<1>10. CASE Cancel(s)
  <2>1. UNCHANGED <<out, ghost, pc, walk, look, todo, link>>
    BY <1>10 DEF Cancel, outs
  <2> QED BY <1>1, <1>3, <1>4, <2>1, IdlesFrame
<1> QED BY <1>5, <1>6, <1>7, <1>8, <1>9, <1>10 DEF Proceeds

LEMMA BeginAway ==
  ASSUME AwayInv, NEW s \in Scanner, Begins(s), NEW r \in Scanner
  PROVE  /\ pc'[r] = "idle" => Forgotten(r)'
         /\ ghost'[r].quiet => Alone(r)'
         /\ Unmounted(r)' => ghost'[r].touched = {} /\ Idles(r)'
<1>1. /\ pc \in [Scanner -> PC] /\ walk \in [Scanner -> Walk] /\ walk[s] \in Walk
      /\ ghost \in [Scanner -> Ghost]
  BY DEF AwayInv, TypeOK
<1>2. /\ pc[s] = "idle" /\ look' = look
      /\ pc'[s] \in {"walk", "clean"} /\ \A q \in Scanner \ {s} : pc'[q] = pc[q]
      /\ \A q \in Scanner \ {s} : walk'[q] = walk[q]
      /\ walk'[s].files = walk[s].files
  BY <1>1 DEF Begins, StartScan, StartClean, Start, Running, Goto, Walk
<1>3. /\ (ghost'[s].quiet => Alone(s)) /\ ghost'[s].touched = {}
      /\ \A q \in Scanner \ {s} : ~ghost'[q].quiet
  <2>1. PICK mode, dry, force : Start(s, mode, dry, force)
    BY DEF Begins, StartScan, StartClean
  <2>2. ghost'[s].quiet = (\A q \in Scanner \ {s} : ~Running(q)) /\ ghost'[s].touched = {}
    BY <2>1 DEF Start
  <2>3. \A q \in Scanner \ {s} : ghost'[q] = [ghost[q] EXCEPT !.quiet = FALSE]
    BY <2>1 DEF Start
  <2>4. \A q \in Scanner \ {s} : ~ghost'[q].quiet
    BY <1>1, <2>3 DEF Ghost
  <2> QED BY <2>2, <2>4 DEF Running, Alone
<1>4. CASE r = s
  <2>1. walk[s].files = {} /\ \A m \in Media : look[s].stamp[m] = 0
    BY <1>2 DEF AwayInv, Forgotten, NoWalk, NoLook
  <2>2. Idles(s)'
    BY <1>2, <2>1 DEF Idles, Checking, PreLink, LinkPCs
  <2>3. Alone(s) => Alone(s)'
    BY <1>2 DEF Alone
  <2> QED BY <1>2, <1>3, <1>4, <2>2, <2>3
<1>5. CASE r # s
  BY <1>2, <1>3, <1>5 DEF AwayInv, Forgotten, Unmounted
<1> QED BY <1>4, <1>5

\* What a process knows goes with it, and no other process touches it.
LEMMA StillForgotten ==
  ASSUME AwayInv, NEW s \in Scanner, Proceeds(s) \/ Cancel(s) \/ Faults(s), NEW r \in Scanner,
         pc'[r] = "idle"
  PROVE  Forgotten(r)'
<1>1. /\ pc \in [Scanner -> PC] /\ walk \in [Scanner -> Walk] /\ look \in [Scanner -> Look]
      /\ pc[s] # "idle" /\ TypeOK
  BY QuietEnds DEF AwayInv, TypeOK
<1>2. CASE r = s
  <2>1. Finish(s) \/ Crash(s) \/ HookFails(s)
    <3>1. CASE Discovers(s) \/ Probes(s) \/ Cancel(s)
      BY <1>1, <1>2, <3>1 DEF Discovers, WalkDir, CheckInput, Probes, BeginProbing,
         AbortProbing, EndProbing, Lookup, Probe, StoreProbe, Cancel, Goto
    <3>2. CASE Reconciles(s)
      BY <1>1, <1>2, <3>2 DEF Reconciles, BeginOutput, EnsureLink, MakeDir, CreateLink,
         UnlinkTmp, LinkTmp, ReplaceTmp, PlanRemovals, RemoveLink, PruneDirs, PruneCache,
         Linked, OutputDone, Goto
    <3>3. CASE Cleans(s)
      BY <1>1, <1>2, <3>3 DEF Cleans, CheckClean, SweepOutput, SweepLink, UnlinkStale, SweepDirs,
         EndSweep, Goto
    <3>4. CASE \/ LinkFails(s) \/ StoreFails(s)
               \/ \E d \in Dir : WalkFails(s, d)
               \/ \E n \in Name : RemoveFails(s, n)
      BY <1>1, <1>2, <3>4 DEF LinkFails, StoreFails, WalkFails, RemoveFails, Linked, Goto
    <3> QED BY <3>1, <3>2, <3>3, <3>4 DEF Proceeds, Faults
  <2> QED BY <1>1, <1>2, <2>1 DEF Finish, Crash, HookFails, Reset, Forgotten
<1>3. CASE r # s
  BY <1>1, <1>3, OthersKept, OthersMinds DEF AwayInv, Kept, Forgotten
<1> QED BY <1>2, <1>3

LEMMA RunAway ==
  ASSUME AwayInv, NEW s \in Scanner, Proceeds(s) \/ Cancel(s) \/ Faults(s), NEW r \in Scanner
  PROVE  /\ pc'[r] = "idle" => Forgotten(r)'
         /\ ghost'[r].quiet => Alone(r)'
         /\ Unmounted(r)' => ghost'[r].touched = {} /\ Idles(r)'
<1>1. TypeOK /\ pc[s] # "idle" /\ (ghost'[r].quiet => ghost[r].quiet)
  BY QuietEnds DEF AwayInv
<1>2. ASSUME ghost'[r].quiet PROVE r = s /\ Alone(r)
  BY <1>1, <1>2 DEF AwayInv, Alone
<1>3. Alone(s) => Alone(s)'
  BY <1>1, OthersKept DEF Alone, Kept
<1>4. Unmounted(r)' => r = s /\ ~Faults(s)
  BY <1>1, <1>2, FaultsAreLoud DEF Unmounted
<1> QED BY <1>2, <1>3, <1>4, AwayStep, StillForgotten

LEMMA NextAway == AwayInv /\ [Next]_vars => AwayInv'
<1> SUFFICES ASSUME AwayInv, [Next]_vars PROVE AwayInv'
  OBVIOUS
<1>1. TypeOK' /\ BookInv'
  BY NextTyped, NextBooks DEF AwayInv
<1>2. ASSUME NEW s \in Scanner, Begins(s) \/ Proceeds(s) \/ Cancel(s) \/ Faults(s)
      PROVE  AwayInv'
  BY <1>1, <1>2, BeginAway, RunAway DEF AwayInv
<1>3. ASSUME Environment, NEW r \in Scanner
      PROVE  ~ghost'[r].quiet /\ UNCHANGED <<pc, walk, look>>
  <2>1. \E gone : ghost'[r] = Disturb(r, gone)
    BY <1>3 DEF Environment, DeleteMedia, PutMedia, EditMedia, ToggleSidecar, Mount,
       ChangeFilters, UserEdit, UserMakeDir, Disturbance
  <2>2. UNCHANGED <<pc, walk, look>>
    BY <1>3 DEF Environment, DeleteMedia, PutMedia, EditMedia, ToggleSidecar, Mount,
       ChangeFilters, UserEdit, UserMakeDir, local
  <2> QED BY <2>1, <2>2 DEF Disturb
<1>4. CASE Environment
  BY <1>1, <1>3, <1>4 DEF AwayInv, Forgotten, Unmounted
<1>5. CASE UNCHANGED vars
  BY <1>1, <1>5 DEF AwayInv, vars, Forgotten, Unmounted, Alone, Idles, HasLinks, Links
<1> QED BY <1>2, <1>4, <1>5 DEF Next

\* A scan or clean that runs undisturbed while the share is away changes no link, in
\* libraries of any size (_input_is_usable, plan_removals, clean_stale).
THEOREM UnmountedLibrariesAreKept == Spec => []UnmountedKeepsLinks
<1>1. AwayInv => UnmountedKeepsLinks
  BY DEF AwayInv, Unmounted, UnmountedKeepsLinks
<1> QED BY <1>1, InitAway, NextAway, PTL DEF Spec

-----------------------------------------------------------------------------
(***************************************************************************)
(* Wanted links.  A path that stays as it is while a process scans is      *)
(* found by its walk; what it then knows of its tracks, from a row that is *)
(* fresh or from a probe, is right or nothing.  So a wanted path is        *)
(* expected or preserved, and no removal plan holds its link.              *)
(***************************************************************************)
Cleaning    == {"clean", "sweep_next", "sweep"}
Reconciling == LinkPCs \cup {"remove"}
Walked      == {"lookup", "probe", "begin"} \cup Reconciling
Stable(s)   == ghost[s].stable

Known(s, m) ==
  /\ m \notin Indexed => look[s].info[m] \in {NoInfo, source[m].content}
  /\ look[s].stamp[m] \in {0, source[m].stamp}

Surveyed(s) ==
  /\ pc[s] \in Cleaning => job[s].mode = "clean"
  /\ \A p \in Stable(s) : Visible(p)
  /\ pc[s] = "walk" => \A p \in Stable(s) : p \in walk[s].files \/ DirOf[p] \in walk[s].left
  /\ pc[s] \in Walked => Stable(s) \subseteq walk[s].files
  /\ pc[s] \in {"walk"} \cup Walked => \A m \in Media \cap Stable(s) : Known(s, m)
  /\ pc[s] = "probe" => \A m \in Media \cap todo[s] : look[s].stamp[m] # 0

Spares(s) ==
  \A p \in Path : Wanted(s, link[s].cur, p) =>
    /\ pc[s] \in Reconciling => p \in link[s].expected \cup link[s].preserve
    /\ pc[s] = "remove" => Dest(p) \notin link[s].plan

WantedInv == FreshInv /\ AwayInv /\ \A s \in Scanner : Surveyed(s) /\ Spares(s)

LEMMA InitWanted == Init => WantedInv
<1> SUFFICES ASSUME Init PROVE WantedInv
  OBVIOUS
<1>1. ASSUME NEW s \in Scanner PROVE Surveyed(s) /\ Spares(s)
  BY DEF Init, Surveyed, Spares, Stable, NoGhost, Wanted, Cleaning, Reconciling, Walked,
     LinkPCs
<1> QED BY <1>1, InitFresh, InitAway DEF WantedInv

\* What stayed as it was for process r goes on doing so.
Undisturbed(r) ==
  /\ Stable(r)' \subseteq Stable(r)
  /\ \A p \in Stable(r)' : /\ Visible(p) => Visible(p)'
                           /\ p \in Media => source'[p] = source[p]

LEMMA WantedBefore ==
  ASSUME NEW r \in Scanner, Undisturbed(r), job'[r] = job[r],
         NEW o, NEW p \in Path, Wanted(r, o, p)'
  PROVE  Wanted(r, o, p)
BY DEF Undisturbed, Stable, Wanted

\* Steps that add nothing to what process r has surveyed.
LEMMA SurveyedFrame ==
  ASSUME NEW r \in Scanner, Surveyed(r), Undisturbed(r), job'[r] = job[r],
         walk'[r] = walk[r], look'[r] = look[r],
         pc'[r] \in Cleaning => pc[r] \in Cleaning,
         pc'[r] = "walk" => pc[r] = "walk",
         pc'[r] \in Walked => pc[r] \in Walked,
         pc'[r] = "probe" => pc[r] = "probe" /\ todo'[r] \subseteq todo[r]
  PROVE  Surveyed(r)'
<1>1. \A p \in Stable(r)' : Visible(p)' /\ p \in Stable(r)
  BY DEF Surveyed, Undisturbed
<1>2. \A m \in Media \cap Stable(r)' : Known(r, m) => Known(r, m)'
  BY DEF Undisturbed, Known
<1> QED BY <1>1, <1>2 DEF Surveyed

\* Steps that add nothing to a removal plan and keep the expected paths.
LEMMA SparesFrame ==
  ASSUME NEW r \in Scanner, Spares(r), Undisturbed(r), job'[r] = job[r],
         pc'[r] \in Reconciling =>
           /\ pc[r] \in Reconciling /\ link'[r].cur = link[r].cur
           /\ link'[r].expected = link[r].expected /\ link'[r].preserve = link[r].preserve,
         pc'[r] = "remove" => pc[r] = "remove" /\ link'[r].plan \subseteq link[r].plan
  PROVE  Spares(r)'
<1>1. ASSUME NEW p \in Path, Wanted(r, link[r].cur, p)', pc'[r] \in Reconciling,
             link'[r].cur = link[r].cur
      PROVE  Wanted(r, link[r].cur, p)
  BY <1>1, WantedBefore DEF Wanted
<1> QED BY <1>1 DEF Spares, Reconciling

LEMMA StepsUndisturb ==
  ASSUME TypeOK, NEW s \in Scanner, Proceeds(s) \/ Cancel(s) \/ Faults(s), NEW r \in Scanner
  PROVE  Undisturbed(r) /\ UNCHANGED <<source, sidecars, mount>>
<1>1. ghost \in [Scanner -> Ghost]
  BY DEF TypeOK
<1>2. UNCHANGED <<source, sidecars, mount>>
  BY DEF Proceeds, Discovers, WalkDir, CheckInput, Probes, BeginProbing,
     AbortProbing, EndProbing, Lookup, Probe, StoreProbe, Cancel, Reconciles, BeginOutput,
     EnsureLink, MakeDir, CreateLink, UnlinkTmp, LinkTmp, ReplaceTmp, PlanRemovals,
     RemoveLink, PruneDirs, PruneCache, Cleans, CheckClean, SweepOutput, SweepLink, UnlinkStale,
     SweepDirs, EndSweep, Finish, Faults, Crash, LinkFails, StoreFails, HookFails,
     WalkFails, RemoveFails, input
<1>3. NoGhost.stable = {} /\ \A q, gone : Disturb(q, gone).stable \subseteq ghost[q].stable
  BY DEF NoGhost, Disturb
<1>4. ghost'[r].stable \subseteq ghost[r].stable
  <2>1. CASE Discovers(s) \/ Probes(s) \/ Cancel(s)
    BY <2>1 DEF Discovers, WalkDir, CheckInput, Probes, BeginProbing, AbortProbing,
       EndProbing, Lookup, Probe, StoreProbe, Cancel
  <2>2. CASE Reconciles(s) \/ Cleans(s)
    <3>1. ghost' = ghost \/ \E o \in Output : ghost' = [ghost EXCEPT ![s].touched = @ \cup {o}]
      BY <2>2, Fields DEF Reconciles, BeginOutput, EnsureLink, MakeDir, CreateLink, UnlinkTmp,
         LinkTmp, ReplaceTmp, PlanRemovals, RemoveLink, PruneDirs, PruneCache, Cleans,
         CheckClean, SweepOutput, SweepLink, UnlinkStale, SweepDirs, EndSweep, Write
    <3>2. ASSUME NEW o \in Output, ghost' = [ghost EXCEPT ![s].touched = @ \cup {o}]
          PROVE  ghost'[r].stable = ghost[r].stable
      BY <1>1, <3>2 DEF Ghost
    <3> QED BY <3>1, <3>2
  <2>3. CASE Finish(s) \/ Crash(s) \/ HookFails(s)
    <3>1. ghost'[r] = ghost[r] \/ ghost'[r] = NoGhost \/ ghost'[r] = Disturb(r, {})
      BY <1>1, <2>3 DEF Finish, Crash, HookFails
    <3> QED BY <1>3, <3>1
  <2>4. CASE \/ LinkFails(s) \/ StoreFails(s)
             \/ \E d \in Dir : WalkFails(s, d)
             \/ \E n \in Name : RemoveFails(s, n)
    <3>1. \E gone : ghost'[r] = Disturb(r, gone)
      BY <2>4 DEF LinkFails, StoreFails, WalkFails, RemoveFails, Disturbance
    <3> QED BY <1>3, <3>1
  <2> QED BY <2>1, <2>2, <2>3, <2>4 DEF Proceeds, Faults
<1> QED BY <1>2, <1>4 DEF Undisturbed, Stable, Visible, Present

\* A process begins with what is visible, and knows nothing.
LEMMA SurveyedBegin ==
  ASSUME WantedInv, NEW s \in Scanner, Begins(s)
  PROVE  Surveyed(s)' /\ Spares(s)'
<1>1. /\ pc \in [Scanner -> PC] /\ walk \in [Scanner -> Walk] /\ walk[s] \in Walk
      /\ job \in [Scanner -> Job] /\ ghost \in [Scanner -> Ghost]
  BY DEF WantedInv, AwayInv, TypeOK
<1>2. PICK mode, dry, force :
        /\ Start(s, mode, dry, force)
        /\ \/ mode = "scan" /\ pc' = [pc EXCEPT ![s] = "walk"]
              /\ walk' = [walk EXCEPT ![s].left = Dir]
           \/ mode = "clean" /\ pc' = [pc EXCEPT ![s] = "clean"]
  BY DEF Begins, StartScan, StartClean, Goto
<1>3. /\ Stable(s)' = {p \in Path : Visible(p)} /\ job'[s].mode = mode
      /\ UNCHANGED <<source, sidecars, mount, look>> /\ pc[s] = "idle"
  BY <1>1, <1>2 DEF Start, Stable, input, Running
<1>4. \A p \in Path : Visible(p)' = Visible(p)
  BY <1>3 DEF Visible, Present
<1>5. \A m \in Media : look'[s].info[m] = NoInfo /\ look'[s].stamp[m] = 0
  BY <1>3 DEF WantedInv, AwayInv, Forgotten, NoLook
<1>6. pc'[s] = "walk" => walk'[s].left = Dir
  BY <1>1, <1>2 DEF Walk
<1>7. \A p \in Path : DirOf[p] \in Dir
  BY PathAssumption
<1>8. pc'[s] = "walk" \/ (pc'[s] = "clean" /\ job'[s].mode = "clean")
  <2>1. pc' = [pc EXCEPT ![s] = "walk"] => pc'[s] = "walk"
    BY <1>1
  <2>2. pc' = [pc EXCEPT ![s] = "clean"] => pc'[s] = "clean"
    BY <1>1
  <2> QED BY <1>2, <1>3, <2>1, <2>2
<1>9. Surveyed(s)'
  BY <1>3, <1>4, <1>5, <1>6, <1>7, <1>8
     DEF Surveyed, Known, Cleaning, Walked, Reconciling, LinkPCs
<1>10. Spares(s)'
  BY <1>8 DEF Spares, Reconciling, LinkPCs
<1> QED BY <1>9, <1>10

\* A directory is read, or cannot be and takes its paths out of the stable ones.
LEMMA SurveyedWalk ==
  ASSUME WantedInv, NEW s \in Scanner, NEW d \in Dir, WalkDir(s, d) \/ WalkFails(s, d)
  PROVE  Surveyed(s)'
<1>1. walk \in [Scanner -> Walk] /\ walk[s] \in Walk /\ Surveyed(s) /\ TypeOK
  BY DEF WantedInv, AwayInv, TypeOK
<1>2. Undisturbed(s)
  BY <1>1, StepsUndisturb DEF Proceeds, Discovers, Faults
<1>3. /\ UNCHANGED <<pc, job, look>> /\ pc[s] = "walk"
      /\ walk'[s].left = walk[s].left \ {d} /\ walk[s].files \subseteq walk'[s].files
      /\ WalkDir(s, d) => walk'[s].files = walk[s].files \cup Found(d)
      /\ WalkFails(s, d) => \A p \in Path : p \in Stable(s)' => DirOf[p] # d
  BY <1>1 DEF WalkDir, WalkFails, Walk, Disturb, Stable
<1>4. Stable(s) \subseteq Path
  BY DEF WantedInv, AwayInv, TypeOK, Ghost, Stable
<1>5. \A p \in Stable(s) : DirOf[p] = d => p \in Found(d)
  BY <1>1, <1>4 DEF Surveyed, Found
<1>6. \A p \in Stable(s)' : p \in walk'[s].files \/ DirOf[p] \in walk'[s].left
  BY <1>1, <1>2, <1>3, <1>4, <1>5 DEF Surveyed, Undisturbed
<1>7. \A p \in Stable(s)' : Visible(p)' /\ p \in Stable(s)
  BY <1>1, <1>2 DEF Surveyed, Undisturbed
<1>8. \A m \in Media \cap Stable(s)' : Known(s, m)'
  BY <1>1, <1>2, <1>3 DEF Surveyed, Undisturbed, Known
<1> QED BY <1>3, <1>6, <1>7, <1>8 DEF Surveyed, Walked, Cleaning, Reconciling, LinkPCs

\* A row that matches the stamp of the file is fresh.
LEMMA SurveyedLookup ==
  ASSUME WantedInv, NEW s \in Scanner, NEW m \in Media, Lookup(s, m)
  PROVE  Surveyed(s)'
<1>1. look \in [Scanner -> Look] /\ look[s] \in Look /\ Surveyed(s) /\ TypeOK /\ CacheFresh
  BY DEF WantedInv, FreshInv, TypeOK
<1>2. Undisturbed(s) /\ UNCHANGED <<source, sidecars, mount>>
  BY <1>1, StepsUndisturb DEF Proceeds, Probes
<1>3. UNCHANGED <<pc, job, walk>> /\ pc[s] = "lookup"
  BY DEF Lookup
<1>4. \/ look' = look
      \/ /\ Visible(m) /\ CacheHit(m, source[m].stamp)
         /\ look' = [look EXCEPT ![s].info[m] = cache[m].content]
      \/ Visible(m) /\ look' = [look EXCEPT ![s].stamp[m] = source[m].stamp]
  BY DEF Lookup
<1>5. m \notin Indexed /\ CacheHit(m, source[m].stamp) /\ Visible(m)
        => cache[m].content = source[m].content
  BY <1>1, VisibleVersion DEF CacheFresh
<1>6. \A x \in Media : Known(s, x) => Known(s, x)'
  <2>1. CASE look' = look
    BY <1>2, <2>1 DEF Known
  <2>2. CASE CacheHit(m, source[m].stamp) /\ Visible(m)
             /\ look' = [look EXCEPT ![s].info[m] = cache[m].content]
    BY <1>1, <1>2, <1>5, <2>2 DEF Known, Look
  <2>3. CASE look' = [look EXCEPT ![s].stamp[m] = source[m].stamp]
    BY <1>1, <1>2, <2>3 DEF Known, Look
  <2> QED BY <1>4, <2>1, <2>2, <2>3
<1>7. \A p \in Stable(s)' : Visible(p)' /\ p \in Stable(s)
  BY <1>1, <1>2 DEF Surveyed, Undisturbed
<1> QED BY <1>1, <1>3, <1>6, <1>7 DEF Surveyed, Walked, Cleaning, Reconciling, LinkPCs

\* An answer whose stamp is still that of the file is what the file holds.
LEMMA SurveyedStore ==
  ASSUME WantedInv, NEW s \in Scanner, NEW m \in Media, Probe(s, m) \/ StoreProbe(s, m)
  PROVE  Surveyed(s)'
<1>1. /\ look \in [Scanner -> Look] /\ look[s] \in Look /\ todo \in [Scanner -> SUBSET Path]
      /\ Surveyed(s) /\ TypeOK /\ (m \notin Indexed => AnswerFresh(s, m))
  BY DEF WantedInv, FreshInv, TypeOK, AnswersFresh
<1>2. Undisturbed(s) /\ UNCHANGED <<source, sidecars, mount>>
  BY <1>1, StepsUndisturb DEF Proceeds, Probes
<1>3. /\ UNCHANGED <<pc, job, walk>> /\ pc[s] = "probe" /\ m \in todo[s]
      /\ todo'[s] \subseteq todo[s]
  BY <1>1 DEF Probe, StoreProbe
<1>4. \A x \in Media : look'[s].stamp[x] = look[s].stamp[x]
  <2>1. CASE Probe(s, m)
    <3>1. PICK answer : look' = [look EXCEPT ![s].got[m] = answer]
      BY <2>1 DEF Probe
    <3> QED BY <1>1, <3>1 DEF Look
  <2>2. CASE StoreProbe(s, m)
    <3>1. look' = look \/ \E answer : look' = [look EXCEPT ![s].info[m] = answer]
      BY <2>2 DEF StoreProbe
    <3> QED BY <1>1, <3>1 DEF Look
  <2> QED BY <2>1, <2>2
<1>5. \A x \in Media : look'[s].info[x] = look[s].info[x] \/
        /\ x = m /\ look'[s].info[m] = look[s].got[m]
        /\ look[s].got[m] \in Content
  <2>1. CASE Probe(s, m)
    <3>1. PICK answer : look' = [look EXCEPT ![s].got[m] = answer]
      BY <2>1 DEF Probe
    <3> QED BY <1>1, <3>1 DEF Look
  <2>2. CASE StoreProbe(s, m)
    BY <1>1, <2>2, Fields DEF StoreProbe, Answered, Look
  <2> QED BY <2>1, <2>2
<1>6. \A p \in Stable(s)' : Visible(p)' /\ p \in Stable(s)
  BY <1>1, <1>2 DEF Surveyed, Undisturbed
<1>7. m \in Stable(s) => look[s].stamp[m] = source[m].stamp /\ source[m] # NoFile
  BY <1>1, <1>3, VisibleVersion DEF Surveyed, Known, Walked
<1>8. \A x \in Media \cap Stable(s)' : Known(s, x)'
  BY <1>1, <1>2, <1>3, <1>4, <1>5, <1>6, <1>7 DEF Surveyed, Known, AnswerFresh, Walked
<1> QED BY <1>1, <1>3, <1>4, <1>6, <1>8
        DEF Surveyed, Walked, Cleaning, Reconciling, LinkPCs

LEMMA SurveyedStep ==
  ASSUME WantedInv, NEW s \in Scanner, Proceeds(s) \/ Cancel(s) \/ Faults(s)
  PROVE  Surveyed(s)'
<1>1. /\ pc \in [Scanner -> PC] /\ walk \in [Scanner -> Walk] /\ look \in [Scanner -> Look]
      /\ todo \in [Scanner -> SUBSET Path] /\ ghost \in [Scanner -> Ghost]
      /\ Surveyed(s) /\ TypeOK
  BY DEF WantedInv, AwayInv, TypeOK
<1>2. Undisturbed(s) /\ UNCHANGED <<source, sidecars, mount>>
  BY <1>1, StepsUndisturb
<1>3. \A p \in Stable(s)' : Visible(p)' /\ p \in Stable(s)
  BY <1>1, <1>2 DEF Surveyed, Undisturbed
<1>4. UNCHANGED look => \A m \in Media : Known(s, m) => Known(s, m)'
  BY <1>2 DEF Known
<1> USE DEF Walked, Cleaning, Reconciling, LinkPCs
<1>5. CASE CheckInput(s)
  <2>1. /\ UNCHANGED <<job, walk, look>> /\ pc[s] = "walk" /\ walk[s].left = {}
        /\ pc'[s] \in {"lookup", "finish"}
    BY <1>1, <1>5 DEF CheckInput, Goto
  <2>2. Stable(s)' \subseteq walk[s].files
    BY <1>1, <1>3, <2>1 DEF Surveyed
  <2> QED BY <1>1, <1>3, <1>4, <2>1, <2>2 DEF Surveyed
<1>6. CASE BeginProbing(s) \/ AbortProbing(s) \/ EndProbing(s)
  <2>1. /\ UNCHANGED <<job, walk, look>> /\ pc[s] \in {"lookup", "probe"}
        /\ pc'[s] \in {"probe", "begin", "finish"}
        /\ pc'[s] = "probe" => todo'[s] = {m \in Media : look[s].stamp[m] # 0}
    BY <1>1, <1>6 DEF BeginProbing, AbortProbing, EndProbing, Goto
  <2> QED BY <1>1, <1>3, <1>4, <2>1 DEF Surveyed
<1>7. CASE Reconciles(s)
  <2>1. UNCHANGED <<job, walk, look>> /\ pc[s] \in {"begin"} \cup Reconciling
    BY <1>7 DEF Reconciles, BeginOutput, EnsureLink, MakeDir, CreateLink, UnlinkTmp,
       LinkTmp, ReplaceTmp, PlanRemovals, RemoveLink, PruneDirs, PruneCache
  <2>2. pc'[s] \in {"begin", "finish"} \cup Reconciling
    BY <1>1, <1>7 DEF Reconciles, BeginOutput, EnsureLink, MakeDir, CreateLink, UnlinkTmp,
       LinkTmp, ReplaceTmp, PlanRemovals, RemoveLink, PruneDirs, PruneCache, Linked,
       OutputDone, Goto
  <2> QED BY <1>1, <1>2, <2>1, <2>2, SurveyedFrame
<1>8. CASE Cleans(s)
  <2>1. UNCHANGED <<job, walk, look>> /\ pc[s] \in Cleaning
    BY <1>8 DEF Cleans, CheckClean, SweepOutput, SweepLink, UnlinkStale, SweepDirs, EndSweep
  <2>2. pc'[s] \in Cleaning \cup {"finish"}
    BY <1>1, <1>8 DEF Cleans, CheckClean, SweepOutput, SweepLink, UnlinkStale, SweepDirs,
       EndSweep, Goto
  <2> QED BY <1>1, <1>2, <2>1, <2>2, SurveyedFrame
<1>9. CASE Finish(s) \/ Crash(s) \/ HookFails(s)
  <2>1. pc'[s] = "idle" /\ ghost'[s] = NoGhost
    BY <1>1, <1>9 DEF Finish, Crash, HookFails, Reset, Goto
  <2> QED BY <2>1 DEF Surveyed, Stable, NoGhost
<1>10. CASE Cancel(s) \/ \E n \in Name : RemoveFails(s, n)
  <2>1. UNCHANGED <<pc, job, walk, look, todo>>
    BY <1>10 DEF Cancel, RemoveFails
  <2> QED BY <1>1, <1>2, <2>1, SurveyedFrame
<1>11. CASE LinkFails(s)
  <2>1. UNCHANGED <<job, walk, look>> /\ pc[s] \in LinkPCs /\ pc'[s] = "link"
    BY <1>1, <1>11 DEF LinkFails, Linked, Goto
  <2> QED BY <1>1, <1>2, <2>1, SurveyedFrame
<1>12. CASE StoreFails(s)
  <2>1. pc'[s] = "finish"
    BY <1>1, <1>12 DEF StoreFails, Goto
  <2> QED BY <1>3, <2>1 DEF Surveyed
<1> QED BY <1>5, <1>6, <1>7, <1>8, <1>9, <1>10, <1>11, <1>12, SurveyedWalk,
           SurveyedLookup, SurveyedStore
        DEF Proceeds, Discovers, Probes, Faults

\* What is wanted is expected, or preserved because its probe failed.
LEMMA WantedIsExpected ==
  ASSUME WantedInv, NEW s \in Scanner, pc[s] = "begin", NEW o \in Output,
         NEW p \in Path, Wanted(s, o, p)
  PROVE  p \in Expected(s, o) \cup Preserved(s)
<1>1. PICK m \in (Media \ Indexed) \cap Stable(s) :
        p \in {m} \cup SidecarsOf[m] /\ source[m].content \in job[s].cfg[o]
  BY DEF Wanted, Stable
<1>2. Surveyed(s) /\ p \in Stable(s)
  BY DEF WantedInv, Wanted, Stable
<1>3. m \in MediaFound(s) /\ p \in Sources(s, m)
  BY <1>1, <1>2 DEF Surveyed, Walked, MediaFound, Sources
<1>4. look[s].info[m] \in {NoInfo, source[m].content}
  BY <1>1, <1>2 DEF Surveyed, Walked, Known
<1> QED BY <1>1, <1>3, <1>4 DEF Expected, Preserved

LEMMA SparesStep ==
  ASSUME WantedInv, NEW s \in Scanner, Proceeds(s) \/ Cancel(s) \/ Faults(s)
  PROVE  Spares(s)'
<1>1. /\ pc \in [Scanner -> PC] /\ link \in [Scanner -> Link] /\ link[s] \in Link
      /\ Spares(s) /\ TypeOK
  BY DEF WantedInv, AwayInv, TypeOK
<1>2. Undisturbed(s)
  BY <1>1, StepsUndisturb
<1> USE DEF Reconciling, LinkPCs
<1>3. CASE Discovers(s) \/ Probes(s) \/ Cleans(s) \/ Finish(s) \/ Crash(s) \/ HookFails(s)
           \/ StoreFails(s) \/ PruneDirs(s) \/ PruneCache(s)
           \/ \E d \in Dir : WalkFails(s, d)
  <2>1. pc'[s] \notin Reconciling
    BY <1>1, <1>3 DEF Discovers, WalkDir, CheckInput, Probes, BeginProbing, AbortProbing,
       EndProbing, Lookup, Probe, StoreProbe, Cleans, CheckClean, SweepOutput, SweepLink,
       UnlinkStale,
       SweepDirs, EndSweep, Finish, Crash, HookFails, StoreFails, PruneDirs, PruneCache,
       WalkFails, Reset, OutputDone, Goto
  <2> QED BY <2>1 DEF Spares
<1>4. ASSUME NEW o \in Output, BeginOutput(s, o) PROVE Spares(s)'
  <2>1. /\ UNCHANGED <<source, job>> /\ pc[s] = "begin" /\ pc'[s] = "link"
        /\ link'[s].cur = o /\ link'[s].expected = Expected(s, o)
        /\ link'[s].preserve = Preserved(s)
    BY <1>1, <1>4 DEF BeginOutput, Goto, Link, input
  <2>2. ASSUME NEW p \in Path, Wanted(s, o, p)'
        PROVE  p \in Expected(s, o) \cup Preserved(s)
    BY <1>2, <2>1, <2>2, WantedBefore, WantedIsExpected
  <2>3. ASSUME NEW p \in Path, Wanted(s, o, p)'
        PROVE  p \in link'[s].expected \cup link'[s].preserve
    BY <2>1, <2>2, <2>3
  <2> QED BY <2>1, <2>3 DEF Spares, Wanted
<1>5. CASE \/ \E p \in Path : EnsureLink(s, p)
           \/ MakeDir(s) \/ CreateLink(s) \/ UnlinkTmp(s) \/ LinkTmp(s) \/ ReplaceTmp(s)
           \/ LinkFails(s)
  <2>1. job' = job /\ pc[s] \in LinkPCs /\ pc'[s] \in LinkPCs
    BY <1>1, <1>5 DEF EnsureLink, MakeDir, CreateLink, UnlinkTmp, LinkTmp, ReplaceTmp,
       LinkFails, Linked, Goto
  <2>2. /\ link'[s].cur = link[s].cur
        /\ link'[s].expected = link[s].expected /\ link'[s].preserve = link[s].preserve
    BY <1>1, <1>5 DEF EnsureLink, MakeDir, CreateLink, UnlinkTmp, LinkTmp, ReplaceTmp,
       LinkFails, Created, Link
  <2> QED BY <1>1, <1>2, <2>1, <2>2, SparesFrame
<1>6. CASE PlanRemovals(s)
  <2>1. CASE pc'[s] # "remove"
    <3>1. pc'[s] = "begin"
      BY <1>1, <1>6, <2>1 DEF PlanRemovals, OutputDone, Goto
    <3> QED BY <3>1 DEF Spares
  <2>2. CASE pc'[s] = "remove"
    <3>1. /\ UNCHANGED <<source, job>> /\ pc[s] = "link"
          /\ link' = [link EXCEPT ![s].plan =
                        Removals(link[s].cur, link[s].expected \cup link[s].preserve)]
      BY <1>1, <1>6, <2>2 DEF PlanRemovals, OutputDone, Goto, input
    <3>2. /\ link'[s].cur = link[s].cur
          /\ link'[s].expected = link[s].expected /\ link'[s].preserve = link[s].preserve
          /\ link'[s].plan = Removals(link[s].cur, link[s].expected \cup link[s].preserve)
      BY <1>1, <3>1 DEF Link
    <3>3. \A p \in link[s].expected \cup link[s].preserve : Dest(p) \notin link'[s].plan
      BY <3>2 DEF Removals
    <3>4. ASSUME NEW p \in Path, Wanted(s, link[s].cur, p)'
          PROVE  Wanted(s, link[s].cur, p)
      BY <1>2, <3>1, <3>2, <3>4 DEF Undisturbed, Stable, Wanted
    <3>5. ASSUME NEW p \in Path, Wanted(s, link[s].cur, p)
          PROVE  p \in link[s].expected \cup link[s].preserve
      BY <1>1, <3>1, <3>5 DEF Spares
    <3> QED BY <2>2, <3>2, <3>3, <3>4, <3>5 DEF Spares
  <2> QED BY <2>1, <2>2
<1>7. ASSUME NEW n \in Name, RemoveLink(s, n) \/ RemoveFails(s, n) PROVE Spares(s)'
  <2>1. UNCHANGED <<pc, job>>
    BY <1>7 DEF RemoveLink, RemoveFails
  <2>2. /\ link'[s].cur = link[s].cur /\ link'[s].plan \subseteq link[s].plan
        /\ link'[s].expected = link[s].expected /\ link'[s].preserve = link[s].preserve
    BY <1>1, <1>7 DEF RemoveLink, RemoveFails, Link
  <2> QED BY <1>1, <1>2, <2>1, <2>2, SparesFrame
<1>8. CASE Cancel(s)
  <2>1. UNCHANGED <<pc, job, link>>
    BY <1>8 DEF Cancel
  <2> QED BY <1>1, <1>2, <2>1, SparesFrame
<1> QED BY <1>3, <1>4, <1>5, <1>6, <1>7, <1>8 DEF Proceeds, Reconciles, Faults

\* A process keeps what it surveyed and planned while another acts.
LEMMA OthersWanted ==
  ASSUME WantedInv, NEW s \in Scanner, NEW r \in Scanner \ {s},
         Proceeds(s) \/ Cancel(s) \/ Faults(s)
  PROVE  Surveyed(r)' /\ Spares(r)'
<1>1. Surveyed(r) /\ Spares(r) /\ TypeOK
  BY DEF WantedInv, AwayInv
<1>2. Undisturbed(r) /\ Kept(r) /\ link'[r] = link[r]
  BY <1>1, StepsUndisturb, OthersKept, LinkKept
<1>3. walk'[r] = walk[r] /\ look'[r] = look[r] /\ todo'[r] = todo[r]
  BY <1>1, OthersMinds
<1> QED BY <1>1, <1>2, <1>3, SurveyedFrame, SparesFrame DEF Kept

\* So it does while another begins.
LEMMA OthersBegin ==
  ASSUME WantedInv, NEW s \in Scanner, NEW r \in Scanner \ {s}, Begins(s)
  PROVE  Surveyed(r)' /\ Spares(r)'
<1>1. /\ Surveyed(r) /\ Spares(r) /\ TypeOK
      /\ walk \in [Scanner -> Walk] /\ ghost \in [Scanner -> Ghost]
  BY DEF WantedInv, AwayInv, TypeOK
<1>2. Kept(r) /\ link'[r] = link[r]
  BY <1>1, OthersKept, LinkKept
<1>3. /\ UNCHANGED <<source, sidecars, mount, look, todo>>
      /\ ghost'[r] = [ghost[r] EXCEPT !.quiet = FALSE] /\ walk'[r] = walk[r]
  BY <1>1 DEF Begins, StartScan, StartClean, Start, input
<1>4. Stable(r)' = Stable(r)
  BY <1>1, <1>3 DEF Stable, Ghost
<1>5. Undisturbed(r)
  BY <1>3, <1>4 DEF Undisturbed, Visible, Present
<1> QED BY <1>1, <1>2, <1>3, <1>5, SurveyedFrame, SparesFrame DEF Kept

\* What the environment edits is no longer stable.
LEMMA EnvironmentUndisturbs ==
  ASSUME WantedInv, NEW r \in Scanner, Environment
  PROVE  Undisturbed(r)
<1>1. ghost \in [Scanner -> Ghost] /\ source \in [Media -> Version \cup {NoFile}]
      /\ Stable(r) \subseteq Path
  BY DEF WantedInv, AwayInv, TypeOK, Ghost, Stable
<1>2. \A gone : Disturb(r, gone).stable = ghost[r].stable \ gone
  BY DEF Disturb
<1>3. ASSUME NEW m \in Media, DeleteMedia(m) \/ \E c \in Content : PutMedia(m, c)
      PROVE  Undisturbed(r)
  <2>1. PICK new : EditMedia(m, new)
    BY <1>3 DEF DeleteMedia, PutMedia
  <2>2. /\ Stable(r)' = Stable(r) \ {m} /\ UNCHANGED <<sidecars, mount>>
        /\ source' = [source EXCEPT ![m] = new]
    BY <1>2, <2>1 DEF EditMedia, Disturbance, Stable
  <2>3. \A x \in Media \ {m} : source'[x] = source[x]
    BY <1>1, <2>2
  <2> QED BY <1>1, <2>2, <2>3 DEF Undisturbed, Visible, Present
<1>4. ASSUME NEW p \in Sidecar, ToggleSidecar(p) PROVE Undisturbed(r)
  <2>1. /\ Stable(r)' = Stable(r) \ {p} /\ UNCHANGED <<source, mount>>
        /\ \A q \in Path \ {p} : q \in sidecars' <=> q \in sidecars
    BY <1>2, <1>4 DEF ToggleSidecar, Disturbance, Stable
  <2> QED BY <1>1, <2>1 DEF Undisturbed, Visible, Present
<1>5. ASSUME NEW state \in MountStates, Mount(state) PROVE Undisturbed(r)
  <2>1. Stable(r)' = {}
    BY <1>1, <1>2, <1>5 DEF Mount, Disturbance, Stable
  <2> QED BY <2>1 DEF Undisturbed
<1>6. CASE \/ \E o \in Output, wanted \in FilterChoices : ChangeFilters(o, wanted)
           \/ \E o \in Output, p \in Path, e \in Entry : UserEdit(o, p, e)
           \/ \E o \in Output, d \in Dir : UserMakeDir(o, d)
  <2>1. UNCHANGED <<source, sidecars, mount>> /\ ghost'[r] = Disturb(r, {})
    BY <1>6 DEF ChangeFilters, UserEdit, UserMakeDir, Disturbance, input
  <2> QED BY <1>2, <2>1 DEF Undisturbed, Visible, Present, Stable
<1> QED BY <1>3, <1>4, <1>5, <1>6 DEF Environment

LEMMA NextWanted == WantedInv /\ [Next]_vars => WantedInv'
<1> SUFFICES ASSUME WantedInv, [Next]_vars PROVE WantedInv'
  OBVIOUS
<1>1. FreshInv' /\ AwayInv'
  BY NextFresh, NextAway DEF WantedInv
<1>2. ASSUME NEW s \in Scanner, Begins(s) \/ Proceeds(s) \/ Cancel(s) \/ Faults(s),
             NEW r \in Scanner
      PROVE  Surveyed(r)' /\ Spares(r)'
  <2>1. CASE r = s
    BY <1>2, <2>1, SurveyedBegin, SurveyedStep, SparesStep
  <2>2. CASE r # s
    BY <1>2, <2>2, OthersBegin, OthersWanted
  <2> QED BY <2>1, <2>2
<1>3. ASSUME Environment \/ UNCHANGED vars, NEW r \in Scanner
      PROVE  Surveyed(r)' /\ Spares(r)'
  <2>1. UNCHANGED <<pc, job, walk, look, todo, link>>
    BY <1>3 DEF Environment, DeleteMedia, PutMedia, EditMedia, ToggleSidecar, Mount,
       ChangeFilters, UserEdit, UserMakeDir, local, vars
  <2>2. Undisturbed(r)
    <3>1. CASE UNCHANGED vars
      BY <3>1 DEF vars, Undisturbed, Visible, Present, Stable
    <3> QED BY <1>3, <3>1, EnvironmentUndisturbs
  <2> QED BY <2>1, <2>2, SurveyedFrame, SparesFrame DEF WantedInv
<1>4. \A r \in Scanner : Surveyed(r)' /\ Spares(r)'
  BY <1>2, <1>3 DEF Next
<1> QED BY <1>1, <1>4 DEF WantedInv

\* No entry of an output is taken away but by these steps of a process.
LEMMA EntriesStay ==
  ASSUME TypeOK, NEW s \in Scanner, Begins(s) \/ Proceeds(s) \/ Cancel(s) \/ Faults(s),
         NEW o \in Output, NEW p \in Path, out[o][Dest(p)] # Absent, out'[o][Dest(p)] = Absent
  PROVE  /\ o = link[s].cur
         /\ \/ pc[s] = "remove" /\ Dest(p) \in link[s].plan
            \/ pc[s] = "sweep" /\ Dest(p) \in link[s].doom
<1> DEFINE c == link[s].cur
           q == link[s].at
<1>1. /\ out \in [Output -> [Name -> Entry]] /\ c \in Output /\ q \in Path
      /\ Dest(p) \in Name /\ Dest(q) \in Name /\ Tmp(q) \in Name
      /\ Dest(p) # Tmp(q) /\ q # Absent
  BY Fields, Names, DistinctNames, PathAssumption DEF TypeOK, Target
<1>2. out' # out
  OBVIOUS
<1>3. ~(Begins(s) \/ Discovers(s) \/ Probes(s) \/ Finish(s) \/ Cancel(s) \/ Faults(s))
  BY <1>2 DEF Begins, StartScan, StartClean, Start, Discovers, WalkDir, CheckInput, Probes,
     BeginProbing, AbortProbing, EndProbing, Lookup, Probe, StoreProbe, Finish, Cancel,
     Faults, Crash, LinkFails, StoreFails, HookFails, WalkFails, RemoveFails, outs
<1>4. ~(CreateLink(s) \/ UnlinkTmp(s) \/ LinkTmp(s) \/ ReplaceTmp(s))
  <2> HIDE DEF c, q
  <2>1. ASSUME NEW e, out' = [out EXCEPT ![c][Tmp(q)] = e] PROVE FALSE
    BY <1>1, <2>1
  <2>2. ASSUME NEW e, e # Absent, out' = [out EXCEPT ![c][Dest(q)] = e] PROVE FALSE
    BY <1>1, <2>2
  <2>3. ASSUME NEW e, e # Absent,
               out' = [out EXCEPT ![c][Dest(q)] = e, ![c][Tmp(q)] = Absent] PROVE FALSE
    BY <1>1, <2>3
  <2>4. ~CreateLink(s) /\ ~UnlinkTmp(s) /\ ~LinkTmp(s)
    BY <1>1, <1>2, <2>1, <2>2 DEF CreateLink, UnlinkTmp, LinkTmp, Write, c, q
  <2>5. ~ReplaceTmp(s)
    BY <1>2, <2>3 DEF ReplaceTmp, c, q
  <2> QED BY <2>4, <2>5
<1>5. PICK n \in Name : RemoveLink(s, n) \/ UnlinkStale(s, n)
  <2>1. ~(PlanRemovals(s) \/ PruneDirs(s) \/ PruneCache(s) \/ MakeDir(s) \/ CheckClean(s)
          \/ SweepDirs(s) \/ EndSweep(s) \/ (\E a \in Path : EnsureLink(s, a))
          \/ (\E a \in Output : BeginOutput(s, a) \/ SweepOutput(s, a))
          \/ (\E a \in Name : SweepLink(s, a)))
    BY <1>2 DEF PlanRemovals, PruneDirs, PruneCache, MakeDir, EnsureLink, BeginOutput,
       SweepOutput, CheckClean, SweepLink, SweepDirs, EndSweep, outs
  <2> QED BY <1>3, <1>4, <2>1 DEF Proceeds, Reconciles, Cleans
<1>6. out' = [out EXCEPT ![c][n] = Absent]
  BY <1>2, <1>5 DEF RemoveLink, UnlinkStale, Write
<1>7. o = c /\ Dest(p) = n
  <2> HIDE DEF c
  <2> QED BY <1>1, <1>6
<1> QED BY <1>5, <1>7 DEF RemoveLink, UnlinkStale

\* The media server never sees a scan take a wanted link away, for any number of
\* processes, files and outputs, whatever fails, is edited or crashes meanwhile
\* (_discover_files, _probe_all, plan_removals, _remove).
THEOREM WantedLinksAreKept == Spec => WantedLinksStay
<1>1. ASSUME WantedInv, [Next]_vars, NEW s \in Scanner, NEW o \in Output, NEW p \in Path,
             Moves(s), job[s].mode = "scan", Wanted(s, o, p), out[o][Dest(p)] # Absent
      PROVE  out'[o][Dest(p)] # Absent
  <2>1. TypeOK /\ Surveyed(s) /\ Spares(s)
    BY <1>1 DEF WantedInv, AwayInv
  <2>2. Begins(s) \/ Proceeds(s) \/ Cancel(s) \/ Faults(s)
    BY <1>1, <2>1, MovesAreOwn
  <2> SUFFICES ASSUME out'[o][Dest(p)] = Absent PROVE FALSE
    OBVIOUS
  <2>3. /\ o = link[s].cur
        /\ \/ pc[s] = "remove" /\ Dest(p) \in link[s].plan
           \/ pc[s] = "sweep" /\ Dest(p) \in link[s].doom
    BY <1>1, <2>1, <2>2, EntriesStay
  <2>4. ~(pc[s] = "remove" /\ Dest(p) \in link[s].plan)
    BY <1>1, <2>1, <2>3 DEF Spares
  <2>5. pc[s] # "sweep"
    BY <1>1, <2>1 DEF Surveyed, Cleaning
  <2> QED BY <2>3, <2>4, <2>5
<1>2. WantedInv /\ [Next]_vars =>
        [\A s \in Scanner, o \in Output, p \in Path :
           Moves(s) /\ job[s].mode = "scan" /\ Wanted(s, o, p) /\ out[o][Dest(p)] # Absent
             => out'[o][Dest(p)] # Absent]_vars
  BY <1>1
<1> QED BY <1>2, InitWanted, NextWanted, PTL DEF Spec, WantedLinksStay

-----------------------------------------------------------------------------
(***************************************************************************)
(* Convergence.  While a real scan runs alone nothing changes but what it  *)
(* changes itself, so what it surveyed is the input as it still is: its     *)
(* walk has found exactly the visible files, and as long as no probe has   *)
(* failed it has an answer for each.  What it expects in an output is then  *)
(* what the output ought to hold, but for the files whose answer may come  *)
(* from an outdated index; an output it is done with is in line unless the *)
(* guard refused its removals.                                             *)
(***************************************************************************)
\* A real scan that has met no trouble so far.
Converging(s) ==
  /\ ghost[s].quiet /\ job[s].mode = "scan" /\ ~job[s].dry
  /\ cancel[s] = "no" /\ ~res[s].errors

\* What it knows of the library.
Informed(s) ==
  /\ Stable(s) = {p \in Path : Visible(p)} /\ job[s].cfg = filters
  /\ pc[s] \in {"walk"} \cup Walked => Path \cap walk[s].files \subseteq Stable(s)
  /\ pc[s] = "lookup" => \A m \in MediaFound(s) \ todo[s] :
                           look[s].info[m] # NoInfo \/ look[s].stamp[m] # 0
  /\ pc[s] = "probe" => \A m \in MediaFound(s) \ todo[s] : look[s].info[m] # NoInfo
  /\ pc[s] \in {"begin"} \cup Reconciling => \A m \in MediaFound(s) : look[s].info[m] # NoInfo

Right(o, p) == out[o][Dest(p)] \in {p, RegularFile}
Gone(o, p)  == ~Broken(out[o][Dest(p)]) /\ out[o][Dest(p)] \notin Path

\* The given paths exist, and the sure ones among them are the desired ones.
Meets(o, paths) ==
  /\ \A p \in paths : p \in Path /\ Visible(p)
  /\ \A p \in Sure : p \in paths <=> p \in Desired(o)

\* What it has linked and planned in the output at hand.
Aligned(s) ==
  LET o    == link[s].cur
      kept == link[s].expected IN
  /\ pc[s] \in Reconciling =>
       Meets(o, kept) /\ link[s].preserve = {} /\ o \notin link[s].outs
  /\ pc[s] \in LinkPCs => \A p \in kept \ todo[s] : Right(o, p)
  /\ pc[s] = "remove" =>
       /\ \A p \in kept : Right(o, p) /\ Dest(p) \notin link[s].plan
       /\ \A p \in Path \ kept : Gone(o, p) \/ Dest(p) \in link[s].plan
       /\ \A p \in Path : out[o][Tmp(p)] = Absent \/ Tmp(p) \in link[s].plan

Settled(s, o) == InLine(o, Sure) \/ o \in res[s].blocked

\* The outputs it is done with.
Handled(s) ==
  IF pc[s] = "finish" THEN Output
  ELSE IF pc[s] = "begin" THEN Output \ link[s].outs
  ELSE IF pc[s] \in Reconciling THEN (Output \ link[s].outs) \ {link[s].cur}
  ELSE {}

\* No version of a file has the stamp of a file that was not looked up.
Stamped == \A m \in Media : source[m] # NoFile => source[m].stamp # 0

ConvergeInv ==
  /\ WantedInv /\ OwnTmps /\ Stamped
  /\ \A s \in Scanner : Converging(s) =>
       Informed(s) /\ Aligned(s) /\ \A o \in Handled(s) : Settled(s, o)

\* An atomic update never leaves anything but its own link at a temporary name.
LEMMA NextTmps ==
  ASSUME TypeOK, OwnTmps, [Next]_vars PROVE OwnTmps'
<1>1. out \in [Output -> [Name -> Entry]]
  BY DEF TypeOK
<1>2. CASE UNCHANGED out
  BY <1>2 DEF OwnTmps
<1>3. ASSUME NEW o \in Output, NEW n \in Name, NEW e,
             out' = [out EXCEPT ![o][n] = e], \A p \in Path : n = Tmp(p) => e \in {Absent, p}
      PROVE  OwnTmps'
  <2>1. \A a \in Output, b \in Name : out'[a][b] = IF a = o /\ b = n THEN e ELSE out[a][b]
    BY <1>1, <1>3
  <2>2. ASSUME NEW a \in Output, NEW q \in Path PROVE out'[a][Tmp(q)] \in {Absent, q}
    <3>1. Tmp(q) \in Name /\ out[a][Tmp(q)] \in {Absent, q}
      BY Names DEF OwnTmps
    <3> QED BY <1>3, <2>1, <3>1
  <2> QED BY <2>2 DEF OwnTmps
<1>4. ASSUME NEW o \in Output, NEW p \in Path, NEW e, out' = [out EXCEPT ![o][Dest(p)] = e]
      PROVE  OwnTmps'
  <2>1. Dest(p) \in Name /\ \A q \in Path : Dest(p) # Tmp(q)
    BY Names, DistinctNames
  <2> QED BY <1>3, <1>4, <2>1
<1>5. ASSUME NEW o \in Output, NEW p \in Path, NEW e \in {Absent, p},
             out' = [out EXCEPT ![o][Tmp(p)] = e]
      PROVE  OwnTmps'
  BY <1>3, <1>5, Names, DistinctNames
<1>6. ASSUME NEW s \in Scanner, ReplaceTmp(s) PROVE OwnTmps'
  <2> DEFINE o == link[s].cur
             p == link[s].at
  <2>1. /\ o \in Output /\ p \in Path /\ Dest(p) \in Name /\ Tmp(p) \in Name
        /\ \A q \in Path : Dest(p) # Tmp(q)
    BY Fields, Names, DistinctNames
  <2>2. CASE out' = [out EXCEPT ![o][Dest(p)] = out[o][Tmp(p)], ![o][Tmp(p)] = Absent]
    <3> HIDE DEF o, p
    <3>1. \A a \in Output, q \in Path : out'[a][Tmp(q)] \in {out[a][Tmp(q)], Absent}
      BY <1>1, <2>1, <2>2, Names
    <3> QED BY <3>1 DEF OwnTmps
  <2> QED BY <1>2, <1>6, <2>2 DEF ReplaceTmp
<1>7. ASSUME NEW s \in Scanner, Begins(s) \/ Proceeds(s) \/ Cancel(s) \/ Faults(s)
      PROVE  OwnTmps'
  <2>1. link[s].cur \in Output /\ link[s].at \in Path
    BY Fields
  <2>2. CASE \/ Begins(s) \/ Discovers(s) \/ Probes(s) \/ Finish(s) \/ Cancel(s) \/ Faults(s)
             \/ PlanRemovals(s) \/ PruneDirs(s) \/ PruneCache(s) \/ MakeDir(s)
             \/ (\E q \in Path : EnsureLink(s, q))
             \/ (\E a \in Output : BeginOutput(s, a) \/ SweepOutput(s, a))
             \/ (\E a \in Name : SweepLink(s, a))
             \/ CheckClean(s) \/ SweepDirs(s) \/ EndSweep(s)
    <3>1. CASE Begins(s) \/ Discovers(s) \/ Probes(s) \/ Finish(s) \/ Cancel(s) \/ Faults(s)
      BY <1>2, <3>1 DEF Begins, StartScan, StartClean, Start, Discovers, WalkDir, CheckInput,
         Probes, BeginProbing, AbortProbing, EndProbing, Lookup, Probe, StoreProbe, Finish,
         Cancel, Faults, Crash, LinkFails, StoreFails, HookFails, WalkFails, RemoveFails, outs
    <3> QED BY <1>2, <2>2, <3>1 DEF PlanRemovals, PruneDirs, PruneCache, MakeDir, EnsureLink,
            BeginOutput, SweepOutput, SweepLink, CheckClean, SweepDirs, EndSweep, outs
  <2>3. CASE CreateLink(s)
    BY <1>2, <1>4, <2>1, <2>3 DEF CreateLink, Write
  <2>4. CASE UnlinkTmp(s) \/ LinkTmp(s)
    BY <1>2, <1>5, <2>1, <2>4 DEF UnlinkTmp, LinkTmp
  <2>5. ASSUME NEW n \in Name, RemoveLink(s, n) \/ UnlinkStale(s, n) PROVE OwnTmps'
    BY <1>2, <1>3, <2>1, <2>5 DEF RemoveLink, UnlinkStale, Write
  <2> QED BY <1>6, <1>7, <2>2, <2>3, <2>4, <2>5 DEF Proceeds, Reconciles, Cleans
<1>8. CASE Environment
  BY <1>2, <1>4, <1>8 DEF Environment, DeleteMedia, PutMedia, EditMedia, ToggleSidecar,
     Mount, ChangeFilters, UserEdit, UserMakeDir, outs
<1>9. CASE UNCHANGED vars
  BY <1>2, <1>9 DEF vars
<1> QED BY <1>7, <1>8, <1>9 DEF Next

LEMMA NextStamped ==
  ASSUME TypeOK, Stamped, [Next]_vars PROVE Stamped'
<1>1. CASE UNCHANGED source
  BY <1>1 DEF Stamped
<1>2. ASSUME NEW s \in Scanner, Begins(s) \/ Proceeds(s) \/ Cancel(s) \/ Faults(s)
      PROVE  UNCHANGED source
  <2>1. CASE Begins(s)
    BY <2>1 DEF Begins, StartScan, StartClean, Start, input
  <2> QED BY <1>2, <2>1, StepsUndisturb
<1>3. CASE Environment
  <2>1. ASSUME NEW m \in Media, NEW c \in Content, PutMedia(m, c) PROVE Stamped'
    <3>1. source' = [source EXCEPT ![m] = [stamp |-> clock + 1, content |-> c]]
      BY <2>1 DEF PutMedia, EditMedia
    <3>2. source \in [Media -> Version \cup {NoFile}] /\ clock \in Nat
      BY DEF TypeOK
    <3>3. \A x \in Media \ {m} : source'[x] = source[x]
      BY <3>1, <3>2
    <3>4. source'[m].stamp # 0
      BY <3>1, <3>2
    <3> QED BY <3>3, <3>4 DEF Stamped
  <2>2. ASSUME NEW m \in Media, DeleteMedia(m) PROVE Stamped'
    <3>1. source' = [source EXCEPT ![m] = NoFile] /\ source \in [Media -> Version \cup {NoFile}]
      BY <2>2 DEF DeleteMedia, EditMedia, TypeOK
    <3> QED BY <3>1 DEF Stamped
  <2> QED BY <1>1, <1>3, <2>1, <2>2 DEF Environment, ToggleSidecar, Mount, ChangeFilters,
          UserEdit, UserMakeDir, input
<1>4. CASE UNCHANGED vars
  BY <1>1, <1>4 DEF vars
<1> QED BY <1>1, <1>2, <1>3, <1>4 DEF Next

\* Only its own steps leave a scan undisturbed.
LEMMA OthersDisturb ==
  ASSUME WantedInv, NEW s \in Scanner, ghost'[s].quiet,
         Environment \/ \E r \in Scanner \ {s} :
                          Begins(r) \/ Proceeds(r) \/ Cancel(r) \/ Faults(r)
  PROVE  FALSE
<1>1. ghost \in [Scanner -> Ghost] /\ TypeOK /\ (ghost[s].quiet => Alone(s))
  BY DEF WantedInv, AwayInv, TypeOK
<1>2. CASE Environment
  <2>1. \E gone : ghost'[s] = Disturb(s, gone)
    BY <1>2 DEF Environment, DeleteMedia, PutMedia, EditMedia, ToggleSidecar, Mount,
       ChangeFilters, UserEdit, UserMakeDir, Disturbance
  <2> QED BY <2>1 DEF Disturb
<1>3. ASSUME NEW r \in Scanner \ {s}, Begins(r) PROVE FALSE
  <2>1. ghost'[s] = [ghost[s] EXCEPT !.quiet = FALSE]
    BY <1>3 DEF Begins, StartScan, StartClean, Start
  <2> QED BY <1>1, <2>1 DEF Ghost
<1>4. ASSUME NEW r \in Scanner \ {s}, Proceeds(r) \/ Cancel(r) \/ Faults(r) PROVE FALSE
  BY <1>1, <1>4, QuietEnds DEF Alone
<1> QED BY <1>2, <1>3, <1>4

\* What a step of a scan that stays out of trouble leaves as it is.
Same(s) ==
  /\ UNCHANGED <<source, sidecars, mount, filters>> /\ job'[s] = job[s]
  /\ Stable(s)' = Stable(s)

LEMMA TroubleFree ==
  ASSUME ConvergeInv, NEW s \in Scanner, Proceeds(s) \/ Cancel(s) \/ Faults(s), Converging(s)'
  PROVE  /\ Converging(s) /\ Same(s)
         /\ Discovers(s) \/ Probes(s) \/ Reconciles(s)
<1>1. /\ pc \in [Scanner -> PC] /\ job \in [Scanner -> Job] /\ res \in [Scanner -> Res]
      /\ res[s] \in Res /\ cancel \in [Scanner -> PC \cup {"no"}]
      /\ ghost \in [Scanner -> Ghost] /\ ghost[s] \in Ghost /\ TypeOK /\ Surveyed(s)
  BY DEF ConvergeInv, WantedInv, AwayInv, TypeOK
<1>2. ghost[s].quiet /\ ~Faults(s)
  BY <1>1, QuietEnds, FaultsAreLoud DEF Converging
<1>3. ~Finish(s)
  BY <1>1 DEF Finish, Converging, NoGhost
<1>4. ~Cancel(s)
  BY <1>1 DEF Cancel, Converging, PC, PreLink, LinkPCs
<1>5. ~Cleans(s)
  <2>1. Cleans(s) => pc[s] \in Cleaning /\ job' = job
    BY DEF Cleans, CheckClean, SweepOutput, SweepLink, UnlinkStale, SweepDirs, EndSweep, Cleaning
  <2> QED BY <1>1, <2>1 DEF Surveyed, Converging
<1>6. Discovers(s) \/ Probes(s) \/ Reconciles(s)
  BY <1>2, <1>3, <1>4, <1>5 DEF Proceeds
<1>7. UNCHANGED <<job, cancel, filters, source, sidecars, mount>>
  <2>1. CASE Discovers(s) \/ Probes(s)
    BY <2>1 DEF Discovers, WalkDir, CheckInput, Probes, BeginProbing, AbortProbing,
       EndProbing, Lookup, Probe, StoreProbe, input
  <2>2. CASE Reconciles(s)
    BY <2>2 DEF Reconciles, BeginOutput, EnsureLink, MakeDir, CreateLink, UnlinkTmp,
       LinkTmp, ReplaceTmp, PlanRemovals, RemoveLink, PruneDirs, PruneCache, input
  <2> QED BY <1>6, <2>1, <2>2
<1>8. Stable(s)' = Stable(s)
  <2>1. CASE Discovers(s) \/ Probes(s)
    BY <2>1 DEF Discovers, WalkDir, CheckInput, Probes, BeginProbing, AbortProbing,
       EndProbing, Lookup, Probe, StoreProbe, Stable
  <2>2. CASE Reconciles(s)
    <3>1. ghost' = ghost \/ \E o \in Output : ghost' = [ghost EXCEPT ![s].touched = @ \cup {o}]
      BY <2>2, Fields, <1>1 DEF Reconciles, BeginOutput, EnsureLink, MakeDir, CreateLink,
         UnlinkTmp, LinkTmp, ReplaceTmp, PlanRemovals, RemoveLink, PruneDirs, PruneCache, Write
    <3> QED BY <1>1, <3>1 DEF Ghost, Stable
  <2> QED BY <1>6, <2>1, <2>2
<1>9. res'[s].errors \/ ~res[s].errors
  <2>1. Fail(s) => res'[s].errors
    BY <1>1 DEF Fail, Res
  <2>2. CASE Discovers(s) \/ Probes(s)
    BY <2>1, <2>2 DEF Discovers, WalkDir, CheckInput, Probes, BeginProbing, AbortProbing,
       EndProbing, Lookup, Probe, StoreProbe
  <2>3. CASE Reconciles(s) /\ ~PlanRemovals(s) /\ ~PruneDirs(s)
    BY <2>1, <2>3 DEF Reconciles, BeginOutput, EnsureLink, MakeDir, CreateLink,
       UnlinkTmp, LinkTmp, ReplaceTmp, RemoveLink, PruneCache
  <2>4. CASE PruneDirs(s) \/ PlanRemovals(s)
    BY <1>1, <2>4 DEF PruneDirs, PlanRemovals, OutputDone, Res
  <2> QED BY <1>6, <2>2, <2>3, <2>4
<1> QED BY <1>2, <1>6, <1>7, <1>8, <1>9 DEF Converging, Same

\* What the input shows and what an output ought to hold are then as before.
LEMMA SameDisk ==
  ASSUME NEW s \in Scanner, Same(s)
  PROVE  /\ \A p \in Path : Visible(p)' = Visible(p)
         /\ \A e : Broken(e)' = Broken(e)
         /\ \A o \in Output : Desired(o)' = Desired(o)
         /\ \A o \in Output : \A paths : Meets(o, paths) => Meets(o, paths)'
         /\ \A m \in Media : Visible(m)' = Visible(m) /\ source'[m] = source[m]
BY DEF Same, Visible, Present, Broken, Live, Desired, Meets, Path

LEMMA InformedFrame ==
  ASSUME NEW s \in Scanner, Informed(s), Same(s), walk'[s] = walk[s], look'[s] = look[s],
         pc'[s] \in {"walk"} \cup Walked => pc[s] \in {"walk"} \cup Walked,
         pc'[s] \in {"lookup", "probe"} => pc'[s] = pc[s] /\ todo'[s] = todo[s],
         pc'[s] \in {"begin"} \cup Reconciling => pc[s] \in {"begin"} \cup Reconciling
  PROVE  Informed(s)'
<1>1. \A p \in Path : Visible(p)' = Visible(p)
  BY SameDisk
<1>2. Stable(s)' = {p \in Path : Visible(p)'} /\ job'[s].cfg = filters'
  BY <1>1 DEF Informed, Same
<1>3. MediaFound(s)' = MediaFound(s)
  BY DEF MediaFound
<1>4. pc'[s] \in {"walk"} \cup Walked => Path \cap walk'[s].files \subseteq Stable(s)'
  BY DEF Informed, Same
<1> QED BY <1>2, <1>3, <1>4 DEF Informed

\* A scan begins with what is visible, under the filters of the moment.
LEMMA InformedBegin ==
  ASSUME WantedInv, NEW s \in Scanner, Begins(s)
  PROVE  pc'[s] \in {"walk", "clean"} /\ Informed(s)'
<1>1. /\ pc \in [Scanner -> PC] /\ walk \in [Scanner -> Walk] /\ walk[s] \in Walk
      /\ job \in [Scanner -> Job] /\ ghost \in [Scanner -> Ghost]
  BY DEF WantedInv, AwayInv, TypeOK
<1>2. PICK mode, dry, force : Start(s, mode, dry, force)
  BY DEF Begins, StartScan, StartClean
<1>3. /\ Stable(s)' = {p \in Path : Visible(p)} /\ job'[s].cfg = filters'
      /\ UNCHANGED <<source, sidecars, mount>> /\ pc[s] = "idle"
  BY <1>1, <1>2 DEF Start, Stable, input, Running
<1>4. \A p \in Path : Visible(p)' = Visible(p)
  BY <1>3 DEF Visible, Present
<1>5. pc'[s] \in {"walk", "clean"} /\ walk'[s].files = {}
  <2>1. walk[s].files = {}
    BY <1>3 DEF WantedInv, AwayInv, Forgotten, NoWalk
  <2> QED BY <1>1, <2>1 DEF Begins, StartScan, StartClean, Goto, Walk
<1> QED BY <1>3, <1>4, <1>5 DEF Informed, Walked, Reconciling, LinkPCs

\* The walk finds nothing that is not there.
LEMMA InformedWalk ==
  ASSUME ConvergeInv, NEW s \in Scanner, Informed(s), Same(s), NEW d \in Dir, WalkDir(s, d)
  PROVE  Informed(s)'
<1>1. walk \in [Scanner -> Walk] /\ walk[s] \in Walk /\ Stray \notin Path
  BY PathAssumption DEF ConvergeInv, WantedInv, AwayInv, TypeOK
<1>2. pc'[s] = "walk" /\ pc[s] = "walk" /\ walk'[s].files = walk[s].files \cup Found(d)
  BY <1>1 DEF WalkDir, Walk
<1>3. \A p \in Path : Visible(p)' = Visible(p)
  BY SameDisk
<1>4. Stable(s)' = {p \in Path : Visible(p)'} /\ job'[s].cfg = filters'
  BY <1>3 DEF Informed, Same
<1>5. Path \cap Found(d) \subseteq Stable(s)
  BY <1>1 DEF Found, Informed
<1>6. Path \cap walk'[s].files \subseteq Stable(s)'
  BY <1>2, <1>5 DEF Informed, Same
<1> QED BY <1>2, <1>4, <1>6 DEF Informed, Walked, Reconciling, LinkPCs

\* A file that is looked up has a row, or its stamp taken for the probe.
LEMMA InformedLookup ==
  ASSUME ConvergeInv, NEW s \in Scanner, Informed(s), Same(s), ~res'[s].errors,
         NEW m \in Media, Lookup(s, m)
  PROVE  Informed(s)'
<1>1. /\ look \in [Scanner -> Look] /\ look[s] \in Look /\ res \in [Scanner -> Res]
      /\ todo \in [Scanner -> SUBSET Path] /\ TypeOK /\ Stamped
  BY DEF ConvergeInv, WantedInv, AwayInv, TypeOK
<1>2. /\ pc[s] = "lookup" /\ pc'[s] = "lookup" /\ walk' = walk
      /\ todo'[s] = todo[s] \ {m}
  BY <1>1 DEF Lookup
<1>3. Visible(m)
  BY <1>1 DEF Lookup, Fail, Res
<1>4. \/ /\ CacheHit(m, source[m].stamp)
         /\ look' = [look EXCEPT ![s].info[m] = cache[m].content]
      \/ look' = [look EXCEPT ![s].stamp[m] = source[m].stamp]
  BY <1>3 DEF Lookup
<1>5. NoInfo \notin Content /\ (CacheHit(m, source[m].stamp) => cache[m].content \in Content)
  BY <1>1, ContentAssumption DEF TypeOK, Version, CacheHit
<1>6. source[m].stamp # 0
  BY <1>1, <1>3, VisibleVersion DEF Stamped
<1>7. /\ look'[s].info[m] # NoInfo \/ look'[s].stamp[m] # 0
      /\ \A x \in Media \ {m} : look'[s].info[x] = look[s].info[x]
                                /\ look'[s].stamp[x] = look[s].stamp[x]
  <2>1. CASE look' = [look EXCEPT ![s].info[m] = cache[m].content]
             /\ CacheHit(m, source[m].stamp)
    BY <1>1, <1>5, <2>1 DEF Look
  <2>2. CASE look' = [look EXCEPT ![s].stamp[m] = source[m].stamp]
    BY <1>1, <1>6, <2>2 DEF Look
  <2> QED BY <1>4, <2>1, <2>2
<1>8. \A p \in Path : Visible(p)' = Visible(p)
  BY SameDisk
<1>9. Stable(s)' = {p \in Path : Visible(p)'} /\ job'[s].cfg = filters'
  BY <1>8 DEF Informed, Same
<1>10. MediaFound(s)' = MediaFound(s) /\ MediaFound(s) \subseteq Media
  BY <1>2 DEF MediaFound
<1>11. \A x \in MediaFound(s)' \ todo'[s] : look'[s].info[x] # NoInfo \/ look'[s].stamp[x] # 0
  BY <1>2, <1>7, <1>10 DEF Informed
<1>12. Path \cap walk'[s].files \subseteq Stable(s)'
  BY <1>2 DEF Informed, Same, Walked
<1> QED BY <1>2, <1>9, <1>11, <1>12 DEF Informed, Reconciling, LinkPCs

\* A probe that was stored has told the tracks.
LEMMA InformedProbe ==
  ASSUME ConvergeInv, NEW s \in Scanner, Informed(s), Same(s), ~res'[s].errors,
         NEW m \in Media, Probe(s, m) \/ StoreProbe(s, m)
  PROVE  Informed(s)'
<1>1. /\ look \in [Scanner -> Look] /\ look[s] \in Look /\ res \in [Scanner -> Res]
      /\ todo \in [Scanner -> SUBSET Path] /\ TypeOK
  BY DEF ConvergeInv, WantedInv, AwayInv, TypeOK
<1>2. pc[s] = "probe" /\ pc'[s] = "probe" /\ walk' = walk
  BY DEF Probe, StoreProbe
<1>3. /\ todo'[s] = IF Probe(s, m) THEN todo[s] ELSE todo[s] \ {m}
      /\ \A x \in Media \ {m} : look'[s].info[x] = look[s].info[x]
      /\ look'[s].info[m] = look[s].info[m] \/ look'[s].info[m] = look[s].got[m]
      /\ ~Probe(s, m) => look'[s].info[m] # NoInfo
      /\ Probe(s, m) => look'[s].info[m] = look[s].info[m]
  <2>1. CASE Probe(s, m)
    <3>1. PICK answer : look' = [look EXCEPT ![s].got[m] = answer]
      BY <2>1 DEF Probe
    <3>2. look'[s].info = look[s].info /\ todo' = todo
      BY <1>1, <2>1, <3>1 DEF Probe, Look
    <3> QED BY <2>1, <3>2
  <2>2. CASE StoreProbe(s, m) /\ ~Probe(s, m)
    <3>1. Answered(look[s].got[m]) /\ look' = [look EXCEPT ![s].info[m] = look[s].got[m]]
      BY <1>1, <2>2 DEF StoreProbe, Fail, Res
    <3>2. todo'[s] = todo[s] \ {m}
      BY <1>1, <2>2 DEF StoreProbe
    <3> QED BY <1>1, <2>2, <3>1, <3>2 DEF Answered, Look
  <2> QED BY <2>1, <2>2
<1>4. \A p \in Path : Visible(p)' = Visible(p)
  BY SameDisk
<1>5. Stable(s)' = {p \in Path : Visible(p)'} /\ job'[s].cfg = filters'
  BY <1>4 DEF Informed, Same
<1>6. MediaFound(s)' = MediaFound(s) /\ MediaFound(s) \subseteq Media
  BY <1>2 DEF MediaFound
<1>7. \A x \in MediaFound(s)' \ todo'[s] : look'[s].info[x] # NoInfo
  BY <1>2, <1>3, <1>6 DEF Informed
<1>8. Path \cap walk'[s].files \subseteq Stable(s)'
  BY <1>2 DEF Informed, Same, Walked
<1> QED BY <1>2, <1>5, <1>7, <1>8 DEF Informed, Reconciling, LinkPCs

LEMMA InformedStep ==
  ASSUME ConvergeInv, NEW s \in Scanner, Proceeds(s) \/ Cancel(s) \/ Faults(s), Converging(s)'
  PROVE  Informed(s)'
<1>1. /\ Converging(s) /\ Same(s) /\ Informed(s)
      /\ Discovers(s) \/ Probes(s) \/ Reconciles(s)
  BY TroubleFree DEF ConvergeInv
<1>2. /\ pc \in [Scanner -> PC] /\ todo \in [Scanner -> SUBSET Path]
      /\ res \in [Scanner -> Res] /\ walk \in [Scanner -> Walk]
  BY DEF ConvergeInv, WantedInv, AwayInv, TypeOK
<1>3. ~res'[s].errors
  BY DEF Converging
<1>4. /\ \A p \in Path : Visible(p)' = Visible(p)
      /\ Stable(s)' = {p \in Path : Visible(p)'} /\ job'[s].cfg = filters'
  BY <1>1, SameDisk DEF Informed, Same
<1> USE DEF Walked, Reconciling, LinkPCs
<1>5. CASE CheckInput(s) \/ BeginProbing(s) \/ AbortProbing(s) \/ EndProbing(s)
  <2>1. /\ UNCHANGED <<walk, look>> /\ pc[s] \in {"walk", "lookup", "probe"}
        /\ pc'[s] \in {"lookup", "probe", "begin", "finish"}
    BY <1>2, <1>5 DEF CheckInput, BeginProbing, AbortProbing, EndProbing, Goto
  <2>2. MediaFound(s)' = MediaFound(s) /\ MediaFound(s) \subseteq Media
    BY <2>1 DEF MediaFound
  <2>3. pc'[s] = "lookup" => todo'[s] = MediaFound(s)
    BY <1>2, <1>5 DEF CheckInput, BeginProbing, AbortProbing, EndProbing, Goto
  <2>4. pc'[s] = "probe" =>
          /\ pc[s] = "lookup" /\ todo[s] = {}
          /\ todo'[s] = {m \in Media : look[s].stamp[m] # 0}
    BY <1>2, <1>5 DEF CheckInput, BeginProbing, AbortProbing, EndProbing, Goto
  <2>5. pc'[s] = "begin" => pc[s] = "probe" /\ todo[s] = {}
    BY <1>2, <1>5 DEF CheckInput, BeginProbing, AbortProbing, EndProbing, Goto
  <2>6. Path \cap walk'[s].files \subseteq Stable(s)'
    BY <1>1, <2>1 DEF Informed, Same
  <2> QED BY <1>1, <1>4, <2>1, <2>2, <2>3, <2>4, <2>5, <2>6 DEF Informed
<1>6. CASE Reconciles(s)
  <2>1. /\ UNCHANGED <<walk, look>> /\ pc[s] \in {"begin"} \cup Reconciling
        /\ pc'[s] \in {"begin", "finish"} \cup Reconciling
    BY <1>2, <1>6 DEF Reconciles, BeginOutput, EnsureLink, MakeDir, CreateLink, UnlinkTmp,
       LinkTmp, ReplaceTmp, PlanRemovals, RemoveLink, PruneDirs, PruneCache, Linked,
       OutputDone, Goto
  <2> QED BY <1>1, <2>1, InformedFrame
<1> QED BY <1>1, <1>3, <1>5, <1>6, InformedWalk, InformedLookup, InformedProbe
        DEF Discovers, Probes

\* What a scan expects in an output is then what the output ought to hold.
LEMMA ExpectedIsDesired ==
  ASSUME ConvergeInv, NEW s \in Scanner, Converging(s), pc[s] = "begin", NEW o \in Output
  PROVE  Meets(o, Expected(s, o)) /\ Preserved(s) = {}
<1>1. Informed(s) /\ Surveyed(s) /\ TypeOK
  BY DEF ConvergeInv, WantedInv, AwayInv
<1>2. MediaFound(s) = {m \in Media : Visible(m)}
  BY <1>1, Names DEF MediaFound, Informed, Surveyed, Walked
<1>3. \A m \in MediaFound(s) : /\ look[s].info[m] # NoInfo
                               /\ m \notin Indexed => look[s].info[m] = source[m].content
  <2>1. \A m \in MediaFound(s) : m \in Media \cap Stable(s)
    BY <1>1, <1>2, Names DEF Informed
  <2> QED BY <1>1, <2>1 DEF Informed, Surveyed, Walked, Known
<1>4. Preserved(s) = {}
  BY <1>3 DEF Preserved
<1>5. \A m \in MediaFound(s) : Sources(s, m) = {m} \cup (SidecarsOf[m] \cap sidecars)
  <2>1. \A p \in Sidecar : p \in walk[s].files <=> Visible(p)
    BY <1>1 DEF Informed, Surveyed, Walked, Path
  <2>2. \A p \in Sidecar : Visible(p) <=> mount = "up" /\ p \in sidecars
    BY PathAssumption DEF Visible, Present
  <2>3. \A m \in MediaFound(s) : mount = "up" /\ SidecarsOf[m] \subseteq Sidecar
    BY <1>2, PathAssumption DEF Visible
  <2> QED BY <2>1, <2>2, <2>3 DEF Sources
<1>6. \A m \in MediaFound(s) \ Indexed :
        /\ look[s].info[m] # NoInfo /\ job[s].cfg[o] = filters[o]
        /\ look[s].info[m] = source[m].content
  BY <1>1, <1>3 DEF Informed
<1>7. \A p \in Expected(s, o) : p \in Path /\ Visible(p)
  <2>1. ASSUME NEW p \in Expected(s, o) PROVE p \in Path /\ Visible(p)
    <3>1. PICK m \in MediaFound(s) : p \in {m} \cup (SidecarsOf[m] \cap walk[s].files)
      BY DEF Expected, Sources
    <3>2. p \in Path /\ p \in walk[s].files
      BY <3>1, PathAssumption DEF MediaFound, Path
    <3> QED BY <1>1, <3>2 DEF Informed, Walked
  <2> QED BY <2>1
<1>8. ASSUME NEW p \in Sure PROVE p \in Expected(s, o) <=> p \in Desired(o)
  <2>1. \A m \in Media : p \in {m} \cup SidecarsOf[m] => m \notin Indexed
    BY <1>8 DEF Sure
  <2>2. p \in Expected(s, o) <=>
          \E m \in MediaFound(s) \ Indexed :
            /\ p \in {m} \cup (SidecarsOf[m] \cap sidecars)
            /\ look[s].info[m] # NoInfo /\ look[s].info[m] \in job[s].cfg[o]
    BY <1>2, <1>5, <2>1 DEF Expected
  <2>3. p \in Desired(o) <=>
          \E m \in MediaFound(s) \ Indexed :
            /\ p \in {m} \cup (SidecarsOf[m] \cap sidecars)
            /\ source[m].content \in filters[o]
    BY <1>2, <2>1 DEF Desired
  <2> QED BY <1>6, <2>2, <2>3
<1> QED BY <1>4, <1>7, <1>8 DEF Meets

\* An output whose entries stay is as settled as it was.
LEMMA SettledFrame ==
  ASSUME NEW s \in Scanner, Same(s), NEW o \in Output, Settled(s, o),
         out'[o] = out[o], res[s].blocked \subseteq res'[s].blocked
  PROVE  Settled(s, o)'
<1>1. Desired(o)' = Desired(o) /\ \A e : Broken(e)' = Broken(e)
  BY SameDisk
<1>2. InLine(o, Sure) => InLine(o, Sure)'
  BY <1>1 DEF InLine
<1> QED BY <1>2 DEF Settled

\* Before it links, a scan is done with no output.
LEMMA AlignedProbes ==
  ASSUME ConvergeInv, NEW s \in Scanner, Discovers(s) \/ Probes(s), Converging(s)', Same(s)
  PROVE  Aligned(s)' /\ Handled(s)' = {}
<1>1. /\ pc \in [Scanner -> PC] /\ res \in [Scanner -> Res]
      /\ link \in [Scanner -> Link] /\ link[s] \in Link
  BY DEF ConvergeInv, WantedInv, AwayInv, TypeOK
<1>2. ~res'[s].errors /\ cancel'[s] = "no"
  BY DEF Converging
<1>3. /\ pc'[s] \in {"walk", "lookup", "probe", "begin", "finish"}
      /\ pc'[s] = "begin" => link' = [link EXCEPT ![s].outs = Output]
      /\ pc'[s] # "finish"
  <2>1. CASE Discovers(s)
    BY <1>1, <1>2, <2>1 DEF Discovers, WalkDir, CheckInput, Goto, Fail, Res
  <2>2. CASE Probes(s)
    BY <1>1, <1>2, <2>2 DEF Probes, BeginProbing, AbortProbing, EndProbing, Lookup, Probe,
       StoreProbe, Goto, Stopped
  <2> QED BY <2>1, <2>2
<1>4. pc'[s] = "begin" => link'[s].outs = Output
  BY <1>1, <1>3 DEF Link
<1> QED BY <1>3, <1>4 DEF Aligned, Handled, Reconciling, LinkPCs

\* Linking: a path leaves the loop with its link, or with a regular file in the way.
LEMMA LinkingFrame ==
  ASSUME ConvergeInv, NEW s \in Scanner, Converging(s), Same(s),
         NEW o \in Output, link[s].cur = o, link'[s].cur = o,
         pc[s] \in LinkPCs, pc'[s] \in LinkPCs, UNCHANGED res,
         link'[s].outs = link[s].outs,
         link'[s].expected = link[s].expected, link'[s].preserve = link[s].preserve,
         \A a \in Output \ {o} : out'[a] = out[a],
         \A p \in Path : out'[o][Dest(p)] \in {out[o][Dest(p)], p},
         \A p \in todo[s] \ todo'[s] : Right(o, p)'
  PROVE  Aligned(s)' /\ \A a \in Handled(s)' : Settled(s, a)'
<1>1. Aligned(s) /\ (\A a \in Handled(s) : Settled(s, a)) /\ TypeOK
  BY DEF ConvergeInv, WantedInv, AwayInv
<1> PICK kept : kept = link[s].expected
  OBVIOUS
<1>2. Meets(o, kept)' /\ kept \subseteq Path
  BY <1>1, SameDisk DEF Aligned, Reconciling, Meets
<1>3. \A p \in Path : Right(o, p) => Right(o, p)'
  BY DEF Right
<1>4. \A p \in kept \ todo'[s] : Right(o, p)'
  BY <1>1, <1>2, <1>3 DEF Aligned
<1>5. Aligned(s)'
  BY <1>1, <1>2, <1>4 DEF Aligned, Reconciling, LinkPCs
<1>6. Handled(s)' = Handled(s) /\ Handled(s) \subseteq Output \ {o}
  BY <1>1 DEF Handled, Reconciling, LinkPCs, Link, TypeOK
<1>7. \A a \in Handled(s)' : Settled(s, a)'
  BY <1>1, <1>6, SettledFrame
<1> QED BY <1>5, <1>7

LEMMA AlignedLinks ==
  ASSUME ConvergeInv, NEW s \in Scanner, Converging(s), Converging(s)', Same(s),
         \/ \E p \in Path : EnsureLink(s, p)
         \/ MakeDir(s) \/ CreateLink(s) \/ UnlinkTmp(s) \/ LinkTmp(s) \/ ReplaceTmp(s)
  PROVE  Aligned(s)' /\ \A a \in Handled(s)' : Settled(s, a)'
<1> PICK o \in Output, q \in Path : link[s].cur = o /\ link[s].at = q
  BY Fields DEF ConvergeInv, WantedInv, AwayInv
<1>1. /\ pc \in [Scanner -> PC] /\ res \in [Scanner -> Res] /\ link \in [Scanner -> Link]
      /\ link[s] \in Link /\ todo \in [Scanner -> SUBSET Path] /\ TypeOK
      /\ out \in [Output -> [Name -> Entry]] /\ OwnTmps
  BY DEF ConvergeInv, WantedInv, AwayInv, TypeOK
<1>2. /\ \A p \in Path : Dest(p) \in Name /\ Tmp(p) \in Name /\ Dest(p) # Tmp(q)
      /\ \A p \in Path : Dest(p) = Dest(q) => p = q
  BY <1>1, Names, DistinctNames DEF Dest
<1>3. ~res'[s].errors /\ ~job[s].dry
  BY DEF Converging
<1>4. ~Fail(s)
  BY <1>1, <1>3 DEF Fail, Res
<1>5. pc[s] \in LinkPCs /\ pc'[s] \in LinkPCs /\ UNCHANGED res
  BY <1>1, <1>4 DEF EnsureLink, MakeDir, CreateLink, UnlinkTmp, LinkTmp, ReplaceTmp, Linked,
     Goto, LinkPCs
<1>6. /\ link'[s].cur = o /\ link'[s].outs = link[s].outs
      /\ link'[s].expected = link[s].expected /\ link'[s].preserve = link[s].preserve
  BY <1>1 DEF EnsureLink, MakeDir, CreateLink, UnlinkTmp, LinkTmp, ReplaceTmp, Created, Link
<1>7. /\ \A a \in Output \ {o} : out'[a] = out[a]
      /\ \A p \in Path : out'[o][Dest(p)] \in {out[o][Dest(p)], p}
      /\ \A p \in todo[s] \ todo'[s] : Right(o, p)'
  <2> USE <1>1, <1>2
  <2>1. ASSUME NEW p \in Path, EnsureLink(s, p)
        PROVE  /\ out' = out
               /\ todo' = todo \/ (todo'[s] = todo[s] \ {p} /\ Right(o, p))
    BY <1>3, <2>1 DEF EnsureLink, Linked, Keeps, Right, outs
  <2>2. CASE \E p \in Path : EnsureLink(s, p)
    BY <2>1, <2>2 DEF Right
  <2>3. CASE MakeDir(s)
    BY <2>3 DEF MakeDir
  <2>4. CASE CreateLink(s)
    <3>1. /\ out' = [out EXCEPT ![o][Dest(q)] = q]
          /\ todo'[s] = todo[s] \ {q}
      BY <1>4, <2>4 DEF CreateLink, Write, Linked
    <3> QED BY <3>1 DEF Right
  <2>5. CASE UnlinkTmp(s) \/ LinkTmp(s)
    <3>1. (\E e : out' = [out EXCEPT ![o][Tmp(q)] = e]) /\ todo' = todo
      BY <1>4, <2>5 DEF UnlinkTmp, LinkTmp
    <3> QED BY <3>1
  <2>6. CASE ReplaceTmp(s)
    <3>1. /\ out[o][Tmp(q)] # Absent /\ todo'[s] = todo[s] \ {q}
          /\ out' = [out EXCEPT ![o][Dest(q)] = out[o][Tmp(q)], ![o][Tmp(q)] = Absent]
      BY <1>4, <2>6 DEF ReplaceTmp, Linked
    <3>2. out[o][Tmp(q)] = q
      BY <3>1 DEF OwnTmps
    <3>3. out' = [out EXCEPT ![o][Dest(q)] = q, ![o][Tmp(q)] = Absent]
      BY <3>1, <3>2
    <3>4. \A p \in Path : out'[o][Dest(p)] = IF p = q THEN q ELSE out[o][Dest(p)]
      BY <3>3
    <3>5. \A a \in Output \ {o} : out'[a] = out[a]
      BY <3>3
    <3> QED BY <3>1, <3>4, <3>5 DEF Right
  <2> QED BY <2>2, <2>3, <2>4, <2>5, <2>6
<1> QED BY <1>5, <1>6, <1>7, LinkingFrame

\* An output is taken up with what it ought to hold.
LEMMA AlignedBegin ==
  ASSUME ConvergeInv, NEW s \in Scanner, Converging(s), Same(s),
         NEW o \in Output, BeginOutput(s, o)
  PROVE  Aligned(s)' /\ \A a \in Handled(s)' : Settled(s, a)'
<1>1. /\ pc \in [Scanner -> PC] /\ link \in [Scanner -> Link] /\ link[s] \in Link
      /\ todo \in [Scanner -> SUBSET Path] /\ \A a \in Handled(s) : Settled(s, a)
  BY DEF ConvergeInv, WantedInv, AwayInv, TypeOK
<1>2. /\ UNCHANGED <<out, res>> /\ pc[s] = "begin" /\ pc'[s] = "link"
      /\ todo'[s] = Expected(s, o)
      /\ link'[s].cur = o /\ link'[s].outs = link[s].outs \ {o}
      /\ link'[s].expected = Expected(s, o) /\ link'[s].preserve = Preserved(s)
  BY <1>1 DEF BeginOutput, Goto, Link, outs
<1> PICK kept : kept = Expected(s, o)
  OBVIOUS
<1>3. Meets(o, kept)' /\ Preserved(s) = {}
  BY <1>2, ExpectedIsDesired, SameDisk
<1>4. Aligned(s)'
  BY <1>2, <1>3 DEF Aligned
<1>5. Handled(s)' \subseteq Handled(s) /\ Handled(s) \subseteq Output
  BY <1>2 DEF Handled, Reconciling, LinkPCs
<1>6. \A a \in Handled(s)' : Settled(s, a)'
  BY <1>1, <1>2, <1>5, SettledFrame
<1> QED BY <1>4, <1>6

\* The plan covers whatever is neither expected nor somebody else's.
LEMMA AlignedPlan ==
  ASSUME ConvergeInv, NEW s \in Scanner, Converging(s), Same(s), PlanRemovals(s)
  PROVE  Aligned(s)' /\ \A a \in Handled(s)' : Settled(s, a)'
<1> PICK o \in Output : link[s].cur = o
  BY Fields DEF ConvergeInv, WantedInv, AwayInv
<1> DEFINE plan == Removals(o, link[s].expected \cup link[s].preserve)
<1>1. /\ pc \in [Scanner -> PC] /\ link \in [Scanner -> Link] /\ link[s] \in Link
      /\ res \in [Scanner -> Res] /\ res[s] \in Res /\ TypeOK /\ OwnTmps
      /\ (\A a \in Handled(s) : Settled(s, a)) /\ Aligned(s)
  BY DEF ConvergeInv, WantedInv, AwayInv, TypeOK
<1>2. out' = out /\ pc[s] = "link" /\ todo[s] = {} /\ ~job[s].dry
  BY DEF PlanRemovals, Converging, outs
<1> PICK kept : kept = link[s].expected
  OBVIOUS
<1>3. /\ link[s].preserve = {} /\ o \notin link[s].outs
      /\ \A p \in kept : Right(o, p)
  BY <1>1, <1>2 DEF Aligned, Reconciling, LinkPCs
<1>4. /\ Handled(s) = (Output \ link[s].outs) \ {o}
      /\ Meets(o, kept)' /\ kept \subseteq Path
  BY <1>1, <1>2, SameDisk DEF Aligned, Handled, Reconciling, LinkPCs, Meets
<1>5. res[s].blocked \subseteq res'[s].blocked
  BY <1>1 DEF PlanRemovals, OutputDone, Res
<1>6. \A a \in Handled(s) : Settled(s, a)'
  BY <1>1, <1>2, <1>4, <1>5, SettledFrame
<1>7. CASE pc'[s] = "begin"
  <2>1. link' = link /\ o \in res'[s].blocked
    BY <1>1, <1>2, <1>7 DEF PlanRemovals, Goto, Res
  <2>2. Handled(s)' \subseteq Handled(s) \cup {o}
    BY <1>4, <1>7, <2>1 DEF Handled
  <2>3. Settled(s, o)'
    BY <2>1 DEF Settled
  <2> QED BY <1>6, <1>7, <2>2, <2>3 DEF Aligned, Reconciling, LinkPCs
<1>8. CASE pc'[s] # "begin"
  <2>1. pc'[s] = "remove" /\ link' = [link EXCEPT ![s].plan = plan] /\ UNCHANGED res
    BY <1>1, <1>2, <1>8 DEF PlanRemovals, OutputDone, Goto
  <2>2. /\ link'[s].cur = o /\ link'[s].plan = plan /\ link'[s].outs = link[s].outs
        /\ link'[s].expected = link[s].expected /\ link'[s].preserve = link[s].preserve
    BY <1>1, <2>1 DEF Link
  <2>3. Handled(s)' = Handled(s)
    BY <1>4, <2>1, <2>2 DEF Handled, Reconciling
  <2>4. plan = {n \in Links(o) : (\A p \in kept : n # Dest(p))
                                 /\ (~Live(out[o][n]) \/ out[o][n] \in Path)}
    BY <1>3 DEF Removals
  <2> HIDE DEF plan
  <2>5. \A p \in Path : Dest(p) \in Name /\ Tmp(p) \in Name
                        /\ \A r \in Path : Dest(r) # Tmp(p) /\ (Dest(r) = Dest(p) => r = p)
    BY Names, DistinctNames DEF Dest
  <2>6. \A p \in kept : Dest(p) \notin plan
    BY <2>4
  <2>7. ASSUME NEW p \in Path \ kept, Dest(p) \notin plan PROVE Gone(o, p)
    <3>1. \A r \in kept : Dest(p) # Dest(r)
      BY <1>4, <2>5, <2>7
    <3>2. ~IsLink(out[o][Dest(p)]) \/ (Live(out[o][Dest(p)]) /\ out[o][Dest(p)] \notin Path)
      BY <2>4, <2>5, <2>7, <3>1 DEF Links
    <3> QED BY <3>2 DEF Gone, Broken, IsLink, Target
  <2>8. ASSUME NEW p \in Path, Tmp(p) \notin plan PROVE out[o][Tmp(p)] = Absent
    <3>1. \A r \in kept : Tmp(p) # Dest(r)
      BY <1>4, <2>5
    <3>2. ~IsLink(out[o][Tmp(p)]) \/ out[o][Tmp(p)] \notin Path
      BY <2>4, <2>5, <2>8, <3>1 DEF Links
    <3>3. out[o][Tmp(p)] \notin Path
      BY <3>2 DEF IsLink, Target
    <3> QED BY <1>1, <3>3 DEF OwnTmps
  <2>9. \A e : Broken(e)' = Broken(e)
    BY SameDisk
  <2>10. /\ \A p \in Path : Right(o, p)' = Right(o, p) /\ Gone(o, p)' = Gone(o, p)
         /\ \A p \in Path : out'[o][Tmp(p)] = out[o][Tmp(p)]
    BY <1>2, <2>9 DEF Right, Gone
  <2>11. Aligned(s)'
    <3>1. /\ link'[s].expected = kept /\ link'[s].preserve = {}
          /\ o \notin link'[s].outs
      BY <1>3, <2>2
    <3>2. \A p \in kept : Right(o, p)' /\ Dest(p) \notin link'[s].plan
      BY <1>3, <1>4, <2>2, <2>6, <2>10
    <3>3. \A p \in Path \ kept : Gone(o, p)' \/ Dest(p) \in link'[s].plan
      BY <2>2, <2>7, <2>10
    <3>4. \A p \in Path : out'[o][Tmp(p)] = Absent \/ Tmp(p) \in link'[s].plan
      BY <2>2, <2>8, <2>10
    <3> QED BY <1>4, <2>1, <2>2, <3>1, <3>2, <3>3, <3>4 DEF Aligned, LinkPCs
  <2> QED BY <1>6, <2>3, <2>11
<1> QED BY <1>7, <1>8

\* A name of the plan is taken away, which brings it in line.
LEMMA AlignedRemove ==
  ASSUME ConvergeInv, NEW s \in Scanner, Converging(s), Same(s),
         NEW n \in Name, RemoveLink(s, n)
  PROVE  Aligned(s)' /\ \A a \in Handled(s)' : Settled(s, a)'
<1> PICK o \in Output : link[s].cur = o
  BY Fields DEF ConvergeInv, WantedInv, AwayInv
<1>1. /\ link \in [Scanner -> Link] /\ link[s] \in Link /\ Absent \notin Path
      /\ out \in [Output -> [Name -> Entry]]
      /\ (\A a \in Handled(s) : Settled(s, a)) /\ Aligned(s)
  BY PathAssumption DEF ConvergeInv, WantedInv, AwayInv, TypeOK, Target
<1>2. /\ UNCHANGED <<res, pc>> /\ pc[s] = "remove" /\ n \in link[s].plan
      /\ out' = [out EXCEPT ![o][n] = Absent]
  <2>1. CASE out[o][n] # Absent
    BY <2>1 DEF RemoveLink, Write
  <2>2. CASE out[o][n] = Absent
    BY <1>1, <2>2 DEF RemoveLink
  <2> QED BY <2>1, <2>2
<1>3. /\ link'[s].cur = o /\ link'[s].plan = link[s].plan \ {n}
      /\ link'[s].outs = link[s].outs
      /\ link'[s].expected = link[s].expected /\ link'[s].preserve = link[s].preserve
  BY <1>1 DEF RemoveLink, Link
<1>4. /\ \A a \in Output \ {o} : out'[a] = out[a]
      /\ \A b \in Name : out'[o][b] = IF b = n THEN Absent ELSE out[o][b]
  BY <1>1, <1>2
<1> PICK kept : kept = link[s].expected
  OBVIOUS
<1>5. /\ Meets(o, kept)' /\ kept \subseteq Path
      /\ \A e : Broken(e)' = Broken(e)
  BY <1>1, <1>2, SameDisk DEF Aligned, Reconciling, Meets
<1>6. /\ link[s].preserve = {} /\ o \notin link[s].outs
      /\ \A p \in kept : Right(o, p) /\ Dest(p) \notin link[s].plan
      /\ \A p \in Path \ kept : Gone(o, p) \/ Dest(p) \in link[s].plan
      /\ \A p \in Path : out[o][Tmp(p)] = Absent \/ Tmp(p) \in link[s].plan
  BY <1>1, <1>2 DEF Aligned, Reconciling
<1>7. \A p \in Path : Dest(p) \in Name /\ Tmp(p) \in Name
  BY Names
<1>8. \A p \in kept : Right(o, p)' /\ Dest(p) \notin link'[s].plan
  BY <1>2, <1>3, <1>4, <1>5, <1>6, <1>7 DEF Right
<1>9. ASSUME NEW p \in Path \ kept PROVE Gone(o, p)' \/ Dest(p) \in link'[s].plan
  <2>1. CASE Dest(p) = n
    <3>1. out'[o][Dest(p)] = Absent
      BY <1>4, <1>7, <2>1
    <3>2. ~Broken(Absent)
      BY PathAssumption DEF Broken, IsLink
    <3> QED BY <1>1, <1>5, <3>1, <3>2 DEF Gone
  <2>2. CASE Dest(p) # n
    BY <1>3, <1>4, <1>5, <1>6, <1>7, <2>2 DEF Gone
  <2> QED BY <2>1, <2>2
<1>10. \A p \in Path : out'[o][Tmp(p)] = Absent \/ Tmp(p) \in link'[s].plan
  BY <1>3, <1>4, <1>6, <1>7
<1>11. Aligned(s)'
  BY <1>2, <1>3, <1>5, <1>6, <1>8, <1>9, <1>10 DEF Aligned, LinkPCs
<1>12. Handled(s)' = Handled(s) /\ Handled(s) \subseteq Output \ {o}
  BY <1>2, <1>3 DEF Handled, Reconciling
<1>13. \A a \in Handled(s)' : Settled(s, a)'
  BY <1>1, <1>2, <1>4, <1>12, SettledFrame
<1> QED BY <1>11, <1>13

\* Once the plan is empty the output is in line.
LEMMA AlignedPrune ==
  ASSUME ConvergeInv, NEW s \in Scanner, Converging(s), Same(s), PruneDirs(s)
  PROVE  Aligned(s)' /\ \A a \in Handled(s)' : Settled(s, a)'
<1> PICK o \in Output : link[s].cur = o
  BY Fields DEF ConvergeInv, WantedInv, AwayInv
<1>1. /\ pc \in [Scanner -> PC] /\ res \in [Scanner -> Res] /\ res[s] \in Res
      /\ (\A a \in Handled(s) : Settled(s, a)) /\ Aligned(s)
  BY DEF ConvergeInv, WantedInv, AwayInv, TypeOK
<1>2. /\ UNCHANGED <<out, link>> /\ pc[s] = "remove" /\ link[s].plan = {}
      /\ pc'[s] = "begin"
      /\ res'[s].blocked = res[s].blocked
  BY <1>1 DEF PruneDirs, OutputDone, Goto, Res
<1> PICK kept : kept = link[s].expected
  OBVIOUS
<1>3. /\ \A p \in kept : Right(o, p)
      /\ \A p \in Path \ kept : Gone(o, p)
      /\ \A p \in Path : out[o][Tmp(p)] = Absent
      /\ Meets(o, kept)
  BY <1>1, <1>2 DEF Aligned, LinkPCs, Reconciling
<1>4. \A p \in kept : ~Broken(out[o][Dest(p)]) /\ out[o][Dest(p)] \notin Path \ {p}
  <2>1. RegularFile \notin Path /\ ~Broken(RegularFile)
    BY PathAssumption DEF Target, Broken, IsLink
  <2>2. \A p \in kept : ~Broken(p)
    BY <1>3 DEF Meets, Broken, Live
  <2> QED BY <1>3, <2>1, <2>2 DEF Right
<1>5. InLine(o, Sure)
  <2>1. Sure \subseteq Path
    BY DEF Sure
  <2>2. \A p \in Sure : p \notin Desired(o) => out[o][Dest(p)] # p
    BY <1>3, <2>1 DEF Meets, Gone
  <2> QED BY <1>3, <1>4, <2>1, <2>2 DEF InLine, Meets, Right, Gone
<1>6. InLine(o, Sure)'
  BY <1>2, <1>5, SameDisk DEF InLine
<1>7. Handled(s)' \subseteq Handled(s) \cup {o} /\ Handled(s) \subseteq Output \ {o}
  BY <1>2 DEF Handled, Reconciling
<1>8. \A a \in Handled(s) : Settled(s, a)'
  BY <1>1, <1>2, <1>7, SettledFrame
<1>9. Aligned(s)'
  BY <1>2 DEF Aligned, Reconciling, LinkPCs
<1> QED BY <1>6, <1>7, <1>8, <1>9 DEF Settled

LEMMA AlignedStep ==
  ASSUME ConvergeInv, NEW s \in Scanner, Proceeds(s) \/ Cancel(s) \/ Faults(s), Converging(s)'
  PROVE  Aligned(s)' /\ \A o \in Handled(s)' : Settled(s, o)'
<1>1. /\ Converging(s) /\ Same(s)
      /\ Discovers(s) \/ Probes(s) \/ Reconciles(s)
  BY TroubleFree
<1>2. CASE PruneCache(s)
  <2>1. /\ UNCHANGED <<out, res, link>> /\ pc[s] = "begin" /\ link[s].outs = {}
        /\ pc'[s] = "finish"
    BY <1>2 DEF PruneCache, Goto, outs, ConvergeInv, WantedInv, AwayInv, TypeOK
  <2>2. Handled(s)' = Output /\ Handled(s) = Output
    BY <2>1 DEF Handled
  <2>3. \A o \in Output : Settled(s, o)
    BY <1>1, <2>2 DEF ConvergeInv
  <2>4. Aligned(s)'
    BY <2>1 DEF Aligned, Reconciling, LinkPCs
  <2> QED BY <1>1, <2>1, <2>2, <2>3, <2>4, SettledFrame
<1> QED BY <1>1, <1>2, AlignedProbes, AlignedBegin, AlignedLinks, AlignedPlan, AlignedRemove,
           AlignedPrune DEF Reconciles

LEMMA InitConverge == Init => ConvergeInv
<1> SUFFICES ASSUME Init PROVE ConvergeInv
  OBVIOUS
<1>1. OwnTmps
  BY Names DEF Init, OwnTmps
<1>2. Stamped
  <2>1. \A m \in Media : source[m] \in {NoFile} \cup [stamp : {1}, content : Content]
    BY DEF Init
  <2> QED BY <2>1 DEF Stamped
<1>3. \A s \in Scanner : ~ghost[s].quiet
  BY DEF Init, NoGhost
<1> QED BY <1>1, <1>2, <1>3, InitWanted DEF ConvergeInv, Converging

LEMMA NextConverge == ConvergeInv /\ [Next]_vars => ConvergeInv'
<1> SUFFICES ASSUME ConvergeInv, [Next]_vars PROVE ConvergeInv'
  OBVIOUS
<1>1. WantedInv' /\ OwnTmps' /\ Stamped'
  BY NextWanted, NextTmps, NextStamped DEF ConvergeInv, WantedInv, AwayInv
<1>2. ASSUME NEW s \in Scanner, Converging(s)'
      PROVE  Informed(s)' /\ Aligned(s)' /\ \A o \in Handled(s)' : Settled(s, o)'
  <2>1. ghost'[s].quiet /\ WantedInv
    BY <1>2 DEF Converging, ConvergeInv
  <2>2. CASE Begins(s)
    <3>1. pc'[s] \in {"walk", "clean"} /\ Informed(s)'
      BY <2>1, <2>2, InformedBegin
    <3> QED BY <3>1 DEF Aligned, Handled, Reconciling, LinkPCs
  <2>3. CASE Proceeds(s) \/ Cancel(s) \/ Faults(s)
    BY <1>2, <2>3, InformedStep, AlignedStep
  <2>4. CASE UNCHANGED vars
    <3>1. UNCHANGED <<source, sidecars, mount, filters, out, pc, job, cancel, walk,
                      todo, look, link, res, ghost>>
      BY <2>4 DEF vars
    <3>2. Same(s) /\ Converging(s)
      BY <1>2, <3>1 DEF Same, Stable, Converging
    <3>3. Informed(s) /\ Aligned(s) /\ \A o \in Handled(s) : Settled(s, o)
      BY <3>2 DEF ConvergeInv
    <3>4. Informed(s)'
      BY <3>1, <3>2, <3>3, InformedFrame
    <3>5. Handled(s)' = Handled(s) /\ Handled(s) \subseteq Output
      BY <3>1 DEF Handled
    <3>6. \A o \in Handled(s)' : Settled(s, o)'
      BY <3>1, <3>2, <3>3, <3>5, SettledFrame
    <3>7. Aligned(s)'
      BY <3>1, <3>3 DEF Aligned, Meets, Desired, Visible, Present, Right, Gone, Broken, Live
    <3> QED BY <3>4, <3>6, <3>7
  <2> QED BY <2>1, <2>2, <2>3, <2>4, OthersDisturb DEF Next
<1> QED BY <1>1, <1>2 DEF ConvergeInv

\* Whatever crashes, hand edits, failed updates and earlier scans have left, a scan that
\* ran alone, met no error and was not refused by the guard leaves every output in line
\* with the sources and the filters: no broken link, no link to another file and no
\* temporary name, and of the files that no index answers for the wanted links and no
\* others (process_library, ensure_link, plan_removals).
THEOREM ScansConverge == Spec => []ScanConverges
<1>1. ConvergeInv => ScanConverges
  <2> SUFFICES ASSUME ConvergeInv, NEW s \in Scanner, EndsWell(s), NEW o \in Output
               PROVE  InLine(o, Sure)
    BY DEF ScanConverges
  <2>1. pc[s] = "finish" /\ Converging(s) /\ res[s].blocked = {}
    BY DEF EndsWell, Converging
  <2> QED BY <2>1 DEF ConvergeInv, Handled, Settled
<1> QED BY <1>1, InitConverge, NextConverge, PTL DEF Spec
=============================================================================
