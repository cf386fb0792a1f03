-------------------------- MODULE StateStoreProofs --------------------------
(***************************************************************************)
(* A database is sound after a kill between any two statements, and what   *)
(* it shows changes as a store in memory does, for any number of           *)
(* processes, files, scans and media files.                                *)
(***************************************************************************)
EXTENDS StateStore, FiniteSetTheorems, SequenceTheorems, WellFoundedInduction, TLAPS

-----------------------------------------------------------------------------
(* The invariant. *)

Labels == {"closed", "reset", "version", "drop", "create", "stamp", "ready", "missed",
           "added", "write", "stored"}
Writing == {"added", "write"}
Opened == {"ready", "missed", "added", "write", "stored"}

Types ==
  /\ path \in 0 .. MaxFiles
  /\ file \in [1 .. MaxFiles -> Content]
  /\ conn \in [Process -> 0 .. MaxFiles]
  /\ pc \in [Process -> Labels]
  /\ draft \in [Process -> Content]
  /\ arg \in [Process -> File \union 1 .. MaxScans \union {None}]
  /\ acked \in [1 .. MaxFiles -> SUBSET (1 .. MaxScans)]

\* Contents c keep what was promised about the scans ids.
Sound(c, ids) ==
  \A id \in ids \union ({c.last} \ {0}) : id + Limit >= c.next => id \in c.scans

\* What is known of a file.
FileInv(i) ==
  /\ Sound(file[i], acked[i])
  /\ file[i].version = "new" => file[i].table # "old"

\* A transaction differs from the file in what it may commit: the id of its scan
\* is promised when it does.
DraftInv(p) ==
  /\ draft[p].version = Mine(p).version /\ draft[p].table = Mine(p).table
  /\ draft[p].next >= Mine(p).next
  /\ Sound(draft[p], acked[conn[p]] \union ({arg[p]} \ {None}))

\* What is known of a process, and of its file.
ProcessInv(p) ==
  /\ pc[p] \notin {"closed", "reset"} => conn[p] \in 1 .. MaxFiles
  /\ pc[p] \in {"closed", "reset", "version", "drop", "create", "stamp", "ready"} => arg[p] = None
  /\ pc[p] = "missed" => arg[p] \in File
  /\ pc[p] = "added" => arg[p] \in 1 .. MaxScans /\ draft[p].next = arg[p] + 1
  /\ pc[p] = "write" => arg[p] \in 1 .. MaxScans \union {None}
  /\ pc[p] = "stored" => arg[p] \in acked[conn[p]]
  /\ pc[p] \in {"create", "stamp"} => Mine(p).table # "old"
  /\ pc[p] \in Opened => Mine(p).version = "new"
  /\ pc[p] \in Writing => DraftInv(p)

\* SQLite lets one process at a time write.
OneWriter ==
  \A p, q \in Process : p # q /\ pc[p] \in Writing /\ pc[q] \in Writing => conn[p] # conn[q]

Inv ==
  /\ Types /\ OneWriter
  /\ \A i \in 1 .. MaxFiles : FileInv(i)
  /\ \A p \in Process : ProcessInv(p)

-----------------------------------------------------------------------------
(* Helpers. *)

LEMMA FreshTyped == Fresh \in Content /\ Sound(Fresh, {})
<1>1. Empty \in [File -> Row]
  BY DEF Empty, Row
<1>2. 1 \in 1 .. MaxScans + 1 /\ 0 \in 0 .. MaxScans
  BY Limits
<1>3. Fresh \in Content
  BY <1>1, <1>2 DEF Fresh, Content, Schemas
<1>4. Sound(Fresh, {})
  BY DEF Fresh, Sound
<1> QED BY <1>3, <1>4

\* A step of p does not disturb what is known of q, if q does not write into the
\* file that the step changes.
LEMMA OthersKeep ==
  ASSUME Inv, NEW q \in Process,
         pc'[q] = pc[q], conn'[q] = conn[q], draft'[q] = draft[q], arg'[q] = arg[q],
         \/ file'[conn[q]] = file[conn[q]] /\ acked'[conn[q]] = acked[conn[q]]
         \/ /\ pc[q] \notin Writing
            /\ file[conn[q]].version = "new" => file'[conn[q]].version = "new"
            /\ file[conn[q]].table # "old" => file'[conn[q]].table # "old"
            /\ acked[conn[q]] \subseteq acked'[conn[q]]
  PROVE  ProcessInv(q)'
<1>1. ProcessInv(q)
  BY DEF Inv
<1>2. CASE file'[conn[q]] = file[conn[q]] /\ acked'[conn[q]] = acked[conn[q]]
  BY <1>1, <1>2 DEF ProcessInv, DraftInv, Mine, Sound
<1>3. CASE /\ pc[q] \notin Writing
           /\ file[conn[q]].version = "new" => file'[conn[q]].version = "new"
           /\ file[conn[q]].table # "old" => file'[conn[q]].table # "old"
           /\ acked[conn[q]] \subseteq acked'[conn[q]]
  BY <1>1, <1>3 DEF ProcessInv, DraftInv, Mine, Writing
<1> QED BY <1>2, <1>3

LEMMA InitInv == Init => Inv
<1> SUFFICES ASSUME Init PROVE Inv
  OBVIOUS
<1>1. PICK r \in [File -> Row], v \in {"old", "new"} :
         file = [i \in 1 .. MaxFiles |->
            IF i = 1 /\ path = 1 THEN [Fresh EXCEPT !.rows = r, !.table = v, !.version = v,
                                       !.scans = {1}, !.next = 2, !.last = 1]
            ELSE Fresh]
  BY DEF Init
<1> DEFINE first == [Fresh EXCEPT !.rows = r, !.table = v, !.version = v,
                                  !.scans = {1}, !.next = 2, !.last = 1]
<1>2. /\ first \in Content
      /\ first.scans = {1} /\ first.next = 2 /\ first.last = 1
      /\ first.table = v /\ first.version = v
  <2>1. 2 \in 1 .. MaxScans + 1 /\ 1 \in 0 .. MaxScans /\ {1} \subseteq 1 .. MaxScans
    BY Limits
  <2> QED BY <2>1, FreshTyped DEF Content, Schemas
<1>4. Sound(first, {1}) /\ (first.version = "new" => first.table # "old")
  BY <1>2, Limits DEF Sound
<1>5. Fresh.version = "old"
  BY DEF Fresh
<1> HIDE DEF first
<1>6. /\ path \in 0 .. MaxFiles /\ 1 \in 1 .. MaxScans /\ 1 .. MaxFiles # {}
  BY Limits DEF Init
<1>7. /\ file \in [1 .. MaxFiles -> Content]
      /\ \A i \in 1 .. MaxFiles : \/ i = path /\ file[i] = first /\ acked[i] = {1}
                                  \/ file[i] = Fresh /\ acked[i] = {}
  BY <1>1, <1>2, FreshTyped DEF Init, first
<1>8. \A i \in 1 .. MaxFiles : FileInv(i)
  BY <1>4, <1>5, <1>7, FreshTyped DEF FileInv
<1>9. Types
  <2>1. acked \in [1 .. MaxFiles -> SUBSET (1 .. MaxScans)]
    BY <1>6 DEF Init
  <2>2. /\ conn \in [Process -> 0 .. MaxFiles] /\ pc \in [Process -> Labels]
        /\ draft \in [Process -> Content]
        /\ arg \in [Process -> File \union 1 .. MaxScans \union {None}]
    BY FreshTyped, Limits DEF Init, Labels
  <2> QED BY <1>6, <1>7, <2>1, <2>2 DEF Types
<1> QED BY <1>8, <1>9 DEF Inv, Init, OneWriter, ProcessInv, Opened, Writing

\* A step of p is safe if it keeps what is known of p and of the files, changes
\* no file but p's, and that only when nobody else writes into it.
LEMMA StepOfOne ==
  ASSUME Inv, NEW p \in Process, Types', ProcessInv(p)',
         \A q \in Process \ {p} : /\ pc'[q] = pc[q] /\ conn'[q] = conn[q]
                                  /\ draft'[q] = draft[q] /\ arg'[q] = arg[q],
         \A i \in 0 .. MaxFiles : i # conn[p] => file'[i] = file[i] /\ acked'[i] = acked[i],
         \A i \in 1 .. MaxFiles : FileInv(i)',
         pc'[p] \in Writing => MayWrite(p) /\ conn'[p] = conn[p],
         \/ UNCHANGED <<file, acked>>
         \/ /\ MayWrite(p)
            /\ Mine(p).version = "new" => file'[conn[p]].version = "new"
            /\ Mine(p).table # "old" => file'[conn[p]].table # "old"
            /\ acked[conn[p]] \subseteq acked'[conn[p]]
  PROVE  Inv'
<1>1. OneWriter'
  BY DEF Inv, OneWriter, MayWrite, Writing
<1>2. ASSUME NEW q \in Process \ {p} PROVE ProcessInv(q)'
  <2>1. conn[q] \in 0 .. MaxFiles
    BY DEF Inv, Types
  <2>2. CASE UNCHANGED <<file, acked>> \/ conn[q] # conn[p]
    BY <2>1, <2>2, OthersKeep
  <2>3. CASE ~(UNCHANGED <<file, acked>>) /\ conn[q] = conn[p]
    <3>1. pc[q] \notin Writing
      BY <2>3 DEF MayWrite, Writing
    <3> QED BY <2>3, <3>1, OthersKeep DEF Mine
  <2> QED BY <2>2, <2>3
<1> QED BY <1>1, <1>2 DEF Inv

\* A writer is the only one.
LEMMA WriterMayWrite == ASSUME Inv, NEW p \in Process, pc[p] \in Writing PROVE MayWrite(p)
BY DEF Inv, OneWriter, MayWrite, Writing

\* What holds of a process of an open database.
LEMMA OpenedFacts ==
  ASSUME Inv, NEW p \in Process, pc[p] \notin {"closed", "reset"}
  PROVE  /\ conn[p] \in 1 .. MaxFiles /\ Mine(p) = file[conn[p]] /\ Mine(p) \in Content
         /\ FileInv(conn[p]) /\ ProcessInv(p)
BY DEF Inv, ProcessInv, Mine, Types

-----------------------------------------------------------------------------
(* The steps. *)

\* Steps that change no file.
LEMMA OpenInv == ASSUME Inv, NEW p \in Process, Connect(p) \/ Reset(p) PROVE Inv'
<1>1. /\ pc[p] \in {"closed", "reset"} /\ path' \in 1 .. MaxFiles
      /\ conn' = [conn EXCEPT ![p] = path'] /\ pc' = [pc EXCEPT ![p] = "version"]
      /\ UNCHANGED <<file, draft, arg, acked>> /\ Types
  BY Limits DEF Connect, Reset, Inv, Types
<1>2. Types'
  BY <1>1 DEF Types, Labels
<1>3. pc'[p] = "version" /\ conn'[p] \in 1 .. MaxFiles /\ arg[p] = None
  BY <1>1 DEF Types, Inv, ProcessInv
<1>4. ProcessInv(p)'
  BY <1>1, <1>3 DEF ProcessInv, Writing, Opened
<1>5. \A i \in 1 .. MaxFiles : FileInv(i)'
  BY <1>1 DEF Inv, FileInv
<1> QED BY <1>1, <1>2, <1>3, <1>4, <1>5, StepOfOne DEF Types, Writing

LEMMA FindInv == ASSUME Inv, NEW p \in Process, FindDamage(p) PROVE Inv'
<1>1. /\ pc[p] = "closed" /\ pc' = [pc EXCEPT ![p] = "reset"]
      /\ UNCHANGED <<path, file, conn, draft, arg, acked>> /\ Types
  BY DEF FindDamage, Inv
<1>2. Types'
  BY <1>1 DEF Types, Labels
<1>3. pc'[p] = "reset" /\ arg[p] = None
  BY <1>1 DEF Types, Inv, ProcessInv
<1>4. ProcessInv(p)'
  BY <1>1, <1>3 DEF ProcessInv, Writing, Opened
<1>5. \A i \in 1 .. MaxFiles : FileInv(i)'
  BY <1>1 DEF Inv, FileInv
<1> QED BY <1>1, <1>2, <1>3, <1>4, <1>5, StepOfOne DEF Types, Writing

LEMMA QuietInv ==
  ASSUME Inv, NEW p \in Process, UNCHANGED <<path, file, conn, draft, acked>>, pc[p] \notin {"closed", "reset"},
         NEW l \in {"create", "drop", "ready", "missed"}, pc' = [pc EXCEPT ![p] = l],
         NEW a \in File \union {None}, arg' = [arg EXCEPT ![p] = a],
         l # "missed" => a = None,
         l = "missed" => a \in File,
         l = "create" => Mine(p).table # "old",
         l \in {"ready", "missed"} => Mine(p).version = "new"
  PROVE  Inv'
<1>1. Types /\ Types'
  BY DEF Inv, Types, Labels
<1>2. pc'[p] = l /\ arg'[p] = a /\ conn'[p] \in 1 .. MaxFiles
  BY <1>1, OpenedFacts DEF Types
<1>3. ProcessInv(p)'
  BY <1>2 DEF ProcessInv, Mine, Writing, Opened
<1>4. \A i \in 1 .. MaxFiles : FileInv(i)'
  BY DEF Inv, FileInv
<1> QED BY <1>1, <1>2, <1>3, <1>4, StepOfOne DEF Types, Writing

LEMMA QuietStepsInv ==
  ASSUME Inv, NEW p \in Process,
         ReadVersion(p) \/ (\E f \in File, s \in Stamp : Get(p, f, s)) \/ SkipLast(p)
  PROVE  Inv'
<1>1. Types /\ pc[p] \notin {"closed", "reset"}
  BY DEF Inv, ReadVersion, Get, SkipLast
<1>3. CASE ReadVersion(p)
  <2> DEFINE l == IF Mine(p).version = "new" THEN "create" ELSE "drop"
  <2>1. /\ UNCHANGED <<path, file, conn, draft, acked>> /\ pc' = [pc EXCEPT ![p] = l]
        /\ arg' = [arg EXCEPT ![p] = None]
    BY <1>1, <1>3, OpenedFacts DEF ReadVersion, Goto, Types, ProcessInv
  <2>2. l = "create" => Mine(p).table # "old"
    BY <1>1, OpenedFacts DEF FileInv
  <2>3. l \in {"create", "drop"}
    OBVIOUS
  <2> HIDE DEF l
  <2> QED BY <1>1, <2>1, <2>2, <2>3, QuietInv
<1>4. ASSUME NEW f \in File, NEW s \in Stamp, Get(p, f, s) PROVE Inv'
  <2>1. /\ UNCHANGED <<path, file, conn, draft, acked>> /\ pc' = [pc EXCEPT ![p] = "missed"]
        /\ arg' = [arg EXCEPT ![p] = f] /\ pc[p] = "ready"
    BY <1>4 DEF Get, Goto
  <2>2. Mine(p).version = "new"
    BY <1>1, <2>1, OpenedFacts DEF ProcessInv, Opened
  <2> QED BY <1>1, <2>1, <2>2, QuietInv
<1>5. CASE SkipLast(p)
  <2>1. /\ UNCHANGED <<path, file, conn, draft, acked>> /\ pc' = [pc EXCEPT ![p] = "ready"]
        /\ arg' = [arg EXCEPT ![p] = None] /\ pc[p] = "stored"
    BY <1>5 DEF SkipLast, Goto
  <2>2. Mine(p).version = "new"
    BY <1>1, <2>1, OpenedFacts DEF ProcessInv, Opened
  <2> QED BY <1>1, <2>1, <2>2, QuietInv
<1> QED BY <1>3, <1>4, <1>5

LEMMA CloseInv == ASSUME Inv, NEW p \in Process, Close(p) PROVE Inv'
<1>1. /\ conn' = [conn EXCEPT ![p] = 0] /\ pc' = [pc EXCEPT ![p] = "closed"]
      /\ arg' = [arg EXCEPT ![p] = None] /\ draft' = [draft EXCEPT ![p] = Fresh]
      /\ UNCHANGED <<path, file, acked>> /\ Types
  BY DEF Close, Goto, Inv
<1>2. Types'
  BY <1>1, FreshTyped, Limits DEF Types, Labels
<1>3. pc'[p] = "closed" /\ arg'[p] = None
  BY <1>1 DEF Types
<1>4. ProcessInv(p)'
  BY <1>3 DEF ProcessInv, Writing, Opened
<1>5. \A i \in 1 .. MaxFiles : FileInv(i)'
  BY <1>1 DEF Inv, FileInv
<1> QED BY <1>1, <1>2, <1>3, <1>4, <1>5, StepOfOne DEF Types, Writing

\* Statements of the opening: each is committed by itself.
LEMMA SchemaInv ==
  ASSUME Inv, NEW p \in Process, pc[p] \notin {"closed", "reset"}, MayWrite(p), NEW c \in Content, Write(p, c),
         NEW l \in {"create", "stamp", "ready"}, Goto(p, l), UNCHANGED <<path, conn, draft, arg, acked>>,
         arg[p] = None,
         c.scans = Mine(p).scans, c.next = Mine(p).next, c.last = Mine(p).last,
         c.version = "new" => c.table # "old",
         Mine(p).version = "new" => c.version = "new",
         Mine(p).table # "old" => c.table # "old",
         l # "ready" => c.table # "old",
         l = "ready" => c.version = "new"
  PROVE  Inv'
<1>1. Types /\ conn[p] \in 1 .. MaxFiles /\ conn[p] \in 0 .. MaxFiles /\ Mine(p) = file[conn[p]]
  BY OpenedFacts DEF Inv, Types
<1>2. /\ pc' = [pc EXCEPT ![p] = l] /\ file' = [file EXCEPT ![conn[p]] = c]
  BY DEF Goto, Write
<1>3. Types'
  BY <1>1, <1>2 DEF Types, Labels
<1>4. pc'[p] = l /\ file'[conn[p]] = c /\ Mine(p)' = c
  BY <1>1, <1>2 DEF Types, Mine
<1>5. ProcessInv(p)'
  BY <1>1, <1>4 DEF ProcessInv, Writing, Opened
<1>6. \A i \in 1 .. MaxFiles : FileInv(i)'
  <2> SUFFICES ASSUME NEW i \in 1 .. MaxFiles PROVE FileInv(i)'
    OBVIOUS
  <2>1. FileInv(i)
    BY DEF Inv
  <2>2. CASE i = conn[p]
    BY <1>1, <1>4, <2>1, <2>2 DEF FileInv, Sound
  <2>3. CASE i # conn[p]
    BY <1>1, <1>2, <2>1, <2>3 DEF FileInv, Types
  <2> QED BY <2>2, <2>3
<1>7. \A i \in 0 .. MaxFiles : i # conn[p] => file'[i] = file[i] /\ acked'[i] = acked[i]
  BY <1>1, <1>2 DEF Types
<1>8. \A q \in Process \ {p} : /\ pc'[q] = pc[q] /\ conn'[q] = conn[q]
                               /\ draft'[q] = draft[q] /\ arg'[q] = arg[q]
  BY <1>1, <1>2 DEF Types
<1>9. l \notin Writing
  BY DEF Writing
<1> QED BY <1>1, <1>3, <1>4, <1>5, <1>6, <1>7, <1>8, <1>9, StepOfOne

LEMMA OpeningInv ==
  ASSUME Inv, NEW p \in Process, DropTable(p) \/ CreateTables(p) \/ SetVersion(p)
  PROVE  Inv'
<1> DEFINE m == Mine(p)
<1>1. /\ pc[p] \in {"drop", "create", "stamp"} /\ MayWrite(p) /\ UNCHANGED <<path, conn, draft, arg, acked>>
  BY DEF DropTable, CreateTables, SetVersion
<1>2. m \in Content /\ FileInv(conn[p]) /\ ProcessInv(p) /\ m = file[conn[p]]
  BY <1>1, OpenedFacts
<1>3. arg[p] = None /\ (pc[p] # "drop" => m.table # "old")
  BY <1>1, <1>2 DEF ProcessInv
<1>4. m.version = "new" => m.table # "old"
  BY <1>2 DEF FileInv
<1>5. CASE DropTable(p)
  <2> DEFINE c == AfterDrop(m)
  <2>1. Write(p, c) /\ Goto(p, "create")
    BY <1>5 DEF DropTable
  <2>2. Empty \in [File -> Row]
    BY DEF Empty, Row
  <2>3. /\ c \in Content /\ c.scans = m.scans /\ c.next = m.next /\ c.last = m.last
        /\ c.version = m.version /\ c.table = "none"
    BY <1>2, <2>2 DEF AfterDrop, Content, Schemas
  <2> HIDE DEF c
  <2> QED BY <1>1, <1>3, <2>1, <2>3, SchemaInv
<1>6. CASE CreateTables(p)
  <2> DEFINE t == IF m.table = "none" THEN "new" ELSE m.table
             c == [m EXCEPT !.table = t]
  <2>1. Write(p, c) /\ Goto(p, "stamp") /\ m.table # "old"
    BY <1>3, <1>6 DEF CreateTables
  <2>2. t \in Schemas /\ t # "old"
    BY <1>2, <2>1 DEF Content, Schemas
  <2> HIDE DEF t, m
  <2>3. /\ c \in Content /\ c.scans = m.scans /\ c.next = m.next /\ c.last = m.last
        /\ c.version = m.version /\ c.table = t
    BY <1>2, <2>2 DEF Content
  <2> HIDE DEF c
  <2> USE DEF m
  <2> QED BY <1>1, <1>3, <2>1, <2>2, <2>3, SchemaInv
<1>7. CASE SetVersion(p)
  <2> DEFINE c == [m EXCEPT !.version = "new"]
  <2>1. Write(p, c) /\ Goto(p, "ready") /\ m.table # "old"
    BY <1>3, <1>7 DEF SetVersion
  <2> HIDE DEF m
  <2>2. /\ c \in Content /\ c.scans = m.scans /\ c.next = m.next /\ c.last = m.last
        /\ c.version = "new" /\ c.table = m.table
    BY <1>2 DEF Content
  <2> HIDE DEF c
  <2> USE DEF m
  <2> QED BY <1>1, <1>3, <2>1, <2>2, SchemaInv
<1> QED BY <1>5, <1>6, <1>7 

\* The first statement of a transaction.
LEMMA BeginInv ==
  ASSUME Inv, NEW p \in Process, pc[p] \in {"ready", "missed", "stored"}, NEW c \in Content,
         NEW l \in Writing, Begin(p, c, l),
         NEW a \in 1 .. MaxScans \union {None}, arg' = [arg EXCEPT ![p] = a],
         c.version = Mine(p).version, c.table = Mine(p).table, c.next >= Mine(p).next,
         Sound(c, acked[conn[p]] \union ({a} \ {None})),
         l = "added" => a \in 1 .. MaxScans /\ c.next = a + 1
  PROVE  Inv'
<1>1. /\ Types /\ conn[p] \in 1 .. MaxFiles /\ Mine(p) = file[conn[p]] /\ ProcessInv(p)
  BY OpenedFacts DEF Inv
<1>2. /\ MayWrite(p) /\ draft' = [draft EXCEPT ![p] = c] /\ pc' = [pc EXCEPT ![p] = l]
      /\ UNCHANGED <<path, file, conn, acked>>
  BY DEF Begin, Goto
<1>3. Types'
  BY <1>1, <1>2 DEF Types, Labels, Writing
<1>4. pc'[p] = l /\ draft'[p] = c /\ arg'[p] = a /\ Mine(p)' = Mine(p)
  BY <1>1, <1>2 DEF Types, Mine
<1>5. DraftInv(p)'
  BY <1>2, <1>4 DEF DraftInv
<1>6. Mine(p).version = "new"
  BY <1>1 DEF ProcessInv, Opened
<1>7. ProcessInv(p)'
  BY <1>1, <1>2, <1>4, <1>5, <1>6 DEF ProcessInv, Writing
<1>8. \A i \in 1 .. MaxFiles : FileInv(i)'
  BY <1>2 DEF Inv, FileInv
<1>9. \A q \in Process \ {p} : /\ pc'[q] = pc[q] /\ conn'[q] = conn[q]
                               /\ draft'[q] = draft[q] /\ arg'[q] = arg[q]
  BY <1>1, <1>2 DEF Types
<1> QED BY <1>2, <1>3, <1>7, <1>8, <1>9, StepOfOne

LEMMA TransactionInv ==
  ASSUME Inv, NEW p \in Process,
         \/ \E f \in File, s \in Stamp : Put(p, f, s)
         \/ \E root, keep \in SUBSET File : Prune(p, root, keep)
         \/ Forget(p) \/ InsertScan(p) \/ SetLast(p)
  PROVE  Inv'
<1> DEFINE m == Mine(p)
           ids == acked[conn[p]]
<1>1. pc[p] \in {"ready", "missed", "stored"}
  BY DEF Put, Prune, Forget, InsertScan, SetLast
<1>2. /\ m \in Content /\ ProcessInv(p) /\ Sound(m, ids) /\ conn[p] \in 1 .. MaxFiles
      /\ m.next \in 1 .. MaxScans + 1 /\ m.scans \subseteq 1 .. MaxScans /\ m.last \in 0 .. MaxScans
      /\ ids \subseteq 1 .. MaxScans /\ arg \in [Process -> File \union 1 .. MaxScans \union {None}]
  BY <1>1, OpenedFacts DEF FileInv, Content, Inv, Types
<1> HIDE DEF m
\* A row is written: nothing that was promised is touched.
<1>3. ASSUME NEW r \in [File -> Row], Begin(p, [m EXCEPT !.rows = r], "write"),
             arg' = [arg EXCEPT ![p] = None]
      PROVE  Inv'
  <2> DEFINE c == [m EXCEPT !.rows = r]
  <2>1. /\ c \in Content /\ c.scans = m.scans /\ c.next = m.next /\ c.last = m.last
        /\ c.version = m.version /\ c.table = m.table
    BY <1>2 DEF Content
  <2>2. Sound(c, ids \union ({None} \ {None}))
    BY <1>2, <2>1 DEF Sound
  <2>3. Begin(p, c, "write") /\ c.next >= m.next
    BY <1>2, <1>3, <2>1
  <2> HIDE DEF c
  <2> QED BY <1>1, <1>3, <2>1, <2>2, <2>3, BeginInv DEF Writing, m
<1>4. ASSUME NEW f \in File, NEW s \in Stamp, Put(p, f, s) PROVE Inv'
  <2>1. arg' = [arg EXCEPT ![p] = None] /\ Begin(p, [m EXCEPT !.rows[f] = s], "write")
    BY <1>2, <1>4 DEF Put, ProcessInv, m
  <2>2. [m.rows EXCEPT ![f] = s] \in [File -> Row]
    BY <1>2 DEF Content, Row
  <2>3. [m EXCEPT !.rows[f] = s] = [m EXCEPT !.rows = [m.rows EXCEPT ![f] = s]]
    OBVIOUS
  <2> QED BY <1>3, <2>1, <2>2, <2>3
<1>5. ASSUME NEW root \in SUBSET File, NEW keep \in SUBSET File, Prune(p, root, keep) PROVE Inv'
  <2> DEFINE r == [f \in File |-> IF f \in root \ keep THEN None ELSE m.rows[f]]
  <2>1. arg' = [arg EXCEPT ![p] = None] /\ Begin(p, [m EXCEPT !.rows = r], "write")
    BY <1>2, <1>5 DEF Prune, ProcessInv, m
  <2>2. r \in [File -> Row]
    BY <1>2 DEF Content, Row
  <2> HIDE DEF r
  <2> QED BY <1>3, <2>1, <2>2
<1>6. CASE Forget(p)
  <2> DEFINE f == arg[p]
  <2>1. /\ arg' = [arg EXCEPT ![p] = None] /\ f \in File
        /\ Begin(p, [m EXCEPT !.rows[f] = None], "write")
    BY <1>2, <1>6 DEF Forget, ProcessInv, m
  <2> HIDE DEF f
  <2>2. [m.rows EXCEPT ![f] = None] \in [File -> Row]
    BY <1>2, <2>1 DEF Content, Row
  <2>3. [m EXCEPT !.rows[f] = None] = [m EXCEPT !.rows = [m.rows EXCEPT ![f] = None]]
    OBVIOUS
  <2> QED BY <1>3, <2>1, <2>2, <2>3
\* The new id is promised once the transaction is committed.
<1>7. CASE InsertScan(p)
  <2> DEFINE n == m.next
             c == [m EXCEPT !.scans = m.scans \union {n}, !.next = n + 1]
  <2>1. /\ pc[p] = "ready" /\ n <= MaxScans /\ Begin(p, c, "added") /\ arg' = [arg EXCEPT ![p] = n]
    BY <1>7 DEF InsertScan, m
  <2>2. n \in 1 .. MaxScans /\ n + 1 \in 1 .. MaxScans + 1 /\ n # None
    BY <1>2, <2>1, Limits, Nothing
  <2>3. /\ c \in Content /\ c.scans = m.scans \union {n} /\ c.next = n + 1 /\ c.last = m.last
        /\ c.version = m.version /\ c.table = m.table
    BY <1>2, <2>2 DEF Content
  <2> HIDE DEF c
  <2>4. ASSUME NEW id \in ids \union {n} \union ({c.last} \ {0}), id + Limit >= n + 1
        PROVE  id \in m.scans \union {n}
    <3>1. CASE id = n
      BY <3>1
    <3>2. CASE id # n
      <4>1. id \in ids \union ({m.last} \ {0}) /\ id \in Nat
        BY <1>2, <2>3, <3>2
      <4>2. id + Limit >= n
        BY <1>2, <2>2, <2>4, <4>1, Limits
      <4> QED BY <1>2, <4>1, <4>2 DEF Sound
    <3> QED BY <3>1, <3>2
  <2>5. Sound(c, ids \union ({n} \ {None}))
    BY <2>2, <2>3, <2>4 DEF Sound
  <2>6. c.next >= m.next
    BY <2>2, <2>3
  <2> HIDE DEF n
  <2> QED BY <1>1, <2>1, <2>2, <2>3, <2>5, <2>6, BeginInv DEF Writing, m
\* The last full scan is one whose id was promised.
<1>8. CASE SetLast(p)
  <2> DEFINE id == arg[p]
             c == [m EXCEPT !.last = id]
  <2>1. Begin(p, c, "write") /\ arg' = [arg EXCEPT ![p] = None] /\ pc[p] = "stored"
    BY <1>8 DEF SetLast, m
  <2>2. id \in ids /\ id \in 0 .. MaxScans
    BY <1>2, <2>1 DEF ProcessInv
  <2> HIDE DEF id
  <2>3. /\ c \in Content /\ c.scans = m.scans /\ c.next = m.next /\ c.last = id
        /\ c.version = m.version /\ c.table = m.table
    BY <1>2, <2>2 DEF Content
  <2> HIDE DEF c
  <2>4. Sound(c, ids \union ({None} \ {None}))
    BY <1>2, <2>2, <2>3 DEF Sound
  <2>5. c.next >= m.next
    BY <1>2, <2>3
  <2> QED BY <1>1, <2>1, <2>3, <2>4, <2>5, BeginInv DEF Writing, m
<1> QED BY <1>4, <1>5, <1>6, <1>7, <1>8

\* The history is trimmed by id: what was promised has an id above the limit.
LEMMA TrimInv == ASSUME Inv, NEW p \in Process, TrimScans(p) PROVE Inv'
<1> DEFINE d == draft[p]
           c == [d EXCEPT !.scans = Kept(d.scans, arg[p])]
<1>1. /\ Types /\ conn[p] \in 1 .. MaxFiles /\ ProcessInv(p) /\ pc[p] = "added"
      /\ pc' = [pc EXCEPT ![p] = "write"] /\ UNCHANGED <<path, file, conn, arg, acked>>
      /\ draft' = [draft EXCEPT ![p] = c]
  BY OpenedFacts DEF TrimScans, Goto, Inv
<1>2. /\ d \in Content /\ DraftInv(p) /\ arg[p] \in 1 .. MaxScans /\ d.next = arg[p] + 1
      /\ Mine(p).version = "new" /\ arg[p] # None
  BY <1>1, Nothing DEF Types, ProcessInv, Writing, Opened
<1>3. Kept(d.scans, arg[p]) \subseteq 1 .. MaxScans
  BY <1>2 DEF Kept, Content
<1> HIDE DEF d
<1>4. /\ c \in Content /\ c.scans = Kept(d.scans, arg[p]) /\ c.next = d.next /\ c.last = d.last
      /\ c.version = d.version /\ c.table = d.table
  BY <1>2, <1>3 DEF Content
<1> HIDE DEF c
<1>5. Types'
  BY <1>1, <1>4 DEF Types, Labels
<1>6. Sound(c, acked[conn[p]] \union {arg[p]})
  <2> SUFFICES ASSUME NEW id \in acked[conn[p]] \union {arg[p]} \union ({d.last} \ {0}),
                      id + Limit >= d.next
               PROVE  id \in c.scans
    BY <1>4 DEF Sound
  <2>1. id \in d.scans
    BY <1>2 DEF DraftInv, Sound, d
  <2>2. id \in Nat
    BY <1>2, <2>1 DEF Content
  <2>3. id + Limit > arg[p]
    BY <1>2, <2>2, Limits
  <2> QED BY <1>4, <2>1, <2>3 DEF Kept
<1>7. pc'[p] = "write" /\ draft'[p] = c /\ Mine(p)' = Mine(p)
  BY <1>1 DEF Types, Mine
<1>8. DraftInv(p)'
  BY <1>1, <1>2, <1>4, <1>6, <1>7 DEF DraftInv, d
<1>9. ProcessInv(p)'
  BY <1>1, <1>2, <1>7, <1>8 DEF ProcessInv
<1>10. \A i \in 1 .. MaxFiles : FileInv(i)'
  BY <1>1 DEF Inv, FileInv
<1>11. \A q \in Process \ {p} : /\ pc'[q] = pc[q] /\ conn'[q] = conn[q]
                                /\ draft'[q] = draft[q] /\ arg'[q] = arg[q]
  BY <1>1 DEF Types
<1>12. MayWrite(p)
  BY <1>1, WriterMayWrite DEF Writing
<1> QED BY <1>1, <1>5, <1>9, <1>10, <1>11, <1>12, StepOfOne

LEMMA CommitInv == ASSUME Inv, NEW p \in Process, Commit(p) PROVE Inv'
<1> DEFINE l == IF arg[p] = None THEN "ready" ELSE "stored"
           i == conn[p]
           ids == acked[i] \union ({arg[p]} \ {None})
<1>1. /\ Types /\ i \in 1 .. MaxFiles /\ i \in 0 .. MaxFiles /\ ProcessInv(p) /\ pc[p] = "write"
      /\ FileInv(i) /\ Mine(p) = file[i]
  BY OpenedFacts DEF Commit, Inv, Types
<1>2. /\ pc' = [pc EXCEPT ![p] = l] /\ file' = [file EXCEPT ![i] = draft[p]]
      /\ acked' = [acked EXCEPT ![i] = ids] /\ UNCHANGED <<path, conn, draft, arg>>
  BY DEF Commit, Goto, Write
<1>3. /\ draft[p] \in Content /\ DraftInv(p) /\ arg[p] \in 1 .. MaxScans \union {None}
      /\ Mine(p).version = "new" /\ MayWrite(p)
  BY <1>1, WriterMayWrite DEF Types, ProcessInv, Writing, Opened
<1>4. ids \in SUBSET (1 .. MaxScans)
  BY <1>1, <1>3 DEF Types
<1>5. Types'
  BY <1>1, <1>2, <1>3, <1>4 DEF Types, Labels
<1>6. /\ pc'[p] = l /\ file'[i] = draft[p] /\ acked'[i] = ids /\ Mine(p)' = draft[p]
      /\ arg[p] # None => arg[p] \in ids
  BY <1>1, <1>2 DEF Types, Mine
<1>7. /\ draft[p].version = "new" /\ draft[p].table = file[i].table /\ Sound(draft[p], ids)
  BY <1>1, <1>3 DEF DraftInv
<1>8. ProcessInv(p)'
  <2>1. l \in {"ready", "stored"} /\ (l = "ready" => arg[p] = None) /\ (l = "stored" => arg[p] \in ids)
    BY <1>6
  <2> HIDE DEF l, ids
  <2> QED BY <1>1, <1>2, <1>6, <1>7, <2>1 DEF ProcessInv, Writing, Opened
<1> HIDE DEF ids
<1>9. \A j \in 1 .. MaxFiles : FileInv(j)'
  <2> SUFFICES ASSUME NEW j \in 1 .. MaxFiles PROVE FileInv(j)'
    OBVIOUS
  <2>1. CASE j = i
    BY <1>1, <1>3, <1>6, <1>7, <2>1 DEF FileInv
  <2>2. CASE j # i
    <3>1. file'[j] = file[j] /\ acked'[j] = acked[j]
      BY <1>1, <1>2, <2>2 DEF Types
    <3> QED BY <3>1 DEF Inv, FileInv
  <2> QED BY <2>1, <2>2
<1>10. \A j \in 0 .. MaxFiles : j # i => file'[j] = file[j] /\ acked'[j] = acked[j]
  BY <1>1, <1>2 DEF Types
<1>11. \A q \in Process \ {p} : /\ pc'[q] = pc[q] /\ conn'[q] = conn[q]
                                /\ draft'[q] = draft[q] /\ arg'[q] = arg[q]
  BY <1>1, <1>2 DEF Types
<1>12. l \notin Writing /\ acked[i] \subseteq acked'[i]
  BY <1>6 DEF Writing, ids
<1> QED BY <1>1, <1>3, <1>5, <1>6, <1>7, <1>8, <1>9, <1>10, <1>11, <1>12, StepOfOne

LEMMA DamageInv == ASSUME Inv, Damage PROVE Inv'
<1>1. /\ Types /\ path \in 1 .. MaxFiles /\ file[path] \in Content
      /\ file' = [file EXCEPT ![path].ok = FALSE] /\ UNCHANGED <<path, conn, pc, draft, arg, acked>>
      /\ \A p \in Process : conn[p] # path
  BY DEF Damage, Inv, Types
<1> DEFINE c == [file[path] EXCEPT !.ok = FALSE]
<1>2. /\ c \in Content /\ c.scans = file[path].scans /\ c.next = file[path].next
      /\ c.last = file[path].last /\ c.version = file[path].version /\ c.table = file[path].table
  BY <1>1 DEF Content
<1> HIDE DEF c
<1>3. file' = [file EXCEPT ![path] = c]
  BY <1>1 DEF c, Types
<1>4. Types'
  BY <1>1, <1>2, <1>3 DEF Types
<1>5. \A i \in 1 .. MaxFiles : FileInv(i)'
  BY <1>1, <1>2, <1>3 DEF Inv, FileInv, Sound, Types
<1>6. \A p \in Process : ProcessInv(p)'
  <2> SUFFICES ASSUME NEW p \in Process PROVE ProcessInv(p)'
    OBVIOUS
  <2>1. file'[conn[p]] = file[conn[p]]
    BY <1>1, <1>3 DEF Types
  <2> QED BY <1>1, <2>1, OthersKeep
<1> QED BY <1>1, <1>4, <1>5, <1>6 DEF Inv, OneWriter

LEMMA NextInv == Inv /\ [Next]_vars => Inv'
<1> SUFFICES ASSUME Inv, [Next]_vars PROVE Inv'
  OBVIOUS
<1>1. ASSUME NEW p \in Process, Opening(p) PROVE Inv'
  BY <1>1, OpenInv, FindInv, QuietStepsInv, OpeningInv DEF Opening
<1>2. ASSUME NEW p \in Process, Scanning(p) PROVE Inv'
  <2>1. ASSUME NEW f \in File, NEW s \in Stamp, Get(p, f, s) \/ Put(p, f, s) PROVE Inv'
    BY <2>1, QuietStepsInv, TransactionInv
  <2> QED BY <1>2, <2>1, QuietStepsInv, TransactionInv, TrimInv, CommitInv DEF Scanning
<1>3. CASE UNCHANGED vars
  BY <1>3 DEF vars, Inv, Types, OneWriter, FileInv, ProcessInv, DraftInv, Mine
<1> QED BY <1>1, <1>2, <1>3, CloseInv, DamageInv DEF Next

LEMMA Correct == Spec => []Inv
BY InitInv, NextInv, PTL DEF Spec

\* A scan whose id was handed out, and the last full scan, are in the history
\* as long as it reaches back, and rows that are read are of this version,
\* wherever processes interleave or are killed (add_scan,
\* _check_schema_version).
THEOREM DatabaseStaysSound == Spec => []DatabaseIsSound
<1>1. Inv => DatabaseIsSound
  <2> SUFFICES ASSUME Inv PROVE DatabaseIsSound
    OBVIOUS
  <2>1. ReportedScansAreStored
    BY DEF Inv, FileInv, Sound, ReportedScansAreStored
  <2>2. RowsMatchSchema
    BY DEF Inv, FileInv, ProcessInv, Opened, RowsMatchSchema
  <2> QED BY <2>1, <2>2 DEF DatabaseIsSound
<1> QED BY <1>1, Correct, PTL

-----------------------------------------------------------------------------
(***************************************************************************)
(* The history.  The store in memory keeps the last Limit scans, the       *)
(* database deletes by id: both are the same because no id below the limit *)
(* is missing.                                                             *)
(***************************************************************************)
\* The ids of a trimmed history whose next id is n.
Window(n) == {i \in 1 .. n - 1 : i + Limit >= n}
First(n) == IF n > Limit THEN n - Limit ELSE 1

LEMMA WindowInterval ==
  ASSUME NEW n \in Nat \ {0}
  PROVE  Window(n) = First(n) .. n - 1 /\ First(n) \in 1 .. n
BY Limits DEF Window, First

\* A set of numbers that is not empty has a least one.
LEMMA LeastNumber ==
  ASSUME NEW T \in SUBSET Nat, T # {}
  PROVE  \E m \in T : \A k \in T : m <= k
<1> DEFINE R == OpToRel(<, Nat)
<1>1. IsWellFoundedOn(R, Nat)
  BY NatLessThanWellFounded
<1>2. \A i, j \in Nat : i < j => <<i, j>> \in R
  BY DEF OpToRel
<1> HIDE DEF R
<1>3. PICK x \in T : \A y \in T : ~(<<y, x>> \in R)
  BY <1>1, WFMin
<1>4. \A y \in T : y \in Nat
  OBVIOUS
<1>5. ASSUME NEW k \in T PROVE x <= k
  <2>1. x \in Nat /\ k \in Nat /\ ~(k < x)
    BY <1>2, <1>3, <1>4
  <2> QED BY <2>1
<1> QED BY <1>5

\* Rising numbers of an interval that are as many as it has are the interval.
LEMMA RisingIsInterval ==
  ASSUME NEW a \in Nat, NEW m \in Nat, NEW s \in [1 .. m -> a .. a + m - 1],
         \A i, j \in 1 .. m : i < j => s[i] < s[j]
  PROVE  \A i \in 1 .. m : s[i] = a + i - 1
<1>1. \A i \in 1 .. m : s[i] \in Nat /\ s[i] >= a /\ s[i] <= a + m - 1
  OBVIOUS
<1>2. \A i \in 1 .. m : s[i] >= a + i - 1
  <2> DEFINE T == {i \in 1 .. m : s[i] < a + i - 1}
  <2>1. ASSUME T # {} PROVE FALSE
    <3>1. T \in SUBSET Nat
      OBVIOUS
    <3> HIDE DEF T
    <3>2. PICK i \in T : \A k \in T : i <= k
      BY <2>1, <3>1, LeastNumber
    <3>3. i \in 1 .. m /\ s[i] < a + i - 1
      BY DEF T
    <3>4. CASE i = 1
      BY <1>1, <3>3, <3>4
    <3>5. CASE i # 1
      <4>1. i - 1 \in 1 .. m /\ i - 1 \notin T
        BY <3>1, <3>2, <3>3, <3>5
      <4>2. ~(s[i - 1] < a + (i - 1) - 1) /\ s[i - 1] < s[i]
        BY <3>3, <4>1 DEF T
      <4>3. s[i - 1] \in Nat /\ s[i] \in Nat
        BY <1>1, <3>3, <4>1
      <4> QED BY <3>3, <4>2, <4>3
    <3> QED BY <3>4, <3>5
  <2>2. ASSUME NEW i \in 1 .. m PROVE s[i] >= a + i - 1
    <3>1. i \notin T /\ s[i] \in Nat
      BY <1>1, <2>1
    <3> QED BY <3>1
  <2> QED BY <2>2
<1>3. \A i \in 1 .. m : s[i] <= a + i - 1
  <2> DEFINE T == {k \in 0 .. m - 1 : s[m - k] > a + (m - k) - 1}
  <2>1. ASSUME T # {} PROVE FALSE
    <3>1. T \in SUBSET Nat
      OBVIOUS
    <3> HIDE DEF T
    <3>2. PICK k \in T : \A l \in T : k <= l
      BY <2>1, <3>1, LeastNumber
    <3>3. k \in 0 .. m - 1 /\ s[m - k] > a + (m - k) - 1 /\ m - k \in 1 .. m
      BY DEF T
    <3>4. s[m - k] \in Nat
      BY <1>1, <3>3
    <3>5. CASE k = 0
      BY <1>1, <3>3, <3>5
    <3>6. CASE k # 0
      <4> DEFINE l == k - 1
      <4>1. l \in 0 .. m - 1 /\ m - l \in 1 .. m /\ m - k < m - l /\ m - l = (m - k) + 1
        BY <3>3, <3>6
      <4>2. l \notin T
        BY <3>1, <3>2, <3>6
      <4> HIDE DEF l
      <4>3. ~(s[m - l] > a + (m - l) - 1)
        BY <4>1, <4>2 DEF T
      <4>4. s[m - k] < s[m - l] /\ s[m - l] \in Nat
        BY <1>1, <3>3, <4>1
      <4> QED BY <3>3, <3>4, <4>1, <4>3, <4>4
    <3> QED BY <3>5, <3>6
  <2>2. ASSUME NEW i \in 1 .. m PROVE s[i] <= a + i - 1
    <3>1. m - i \in 0 .. m - 1 /\ m - (m - i) = i /\ s[i] \in Nat
      BY <1>1
    <3>2. ~(s[m - (m - i)] > a + (m - (m - i)) - 1)
      BY <2>1, <3>1
    <3>3. ~(s[i] > a + i - 1)
      BY <3>1, <3>2
    <3> QED BY <3>1, <3>3
  <2> QED BY <2>2
<1> QED BY <1>1, <1>2, <1>3

\* The history of an interval of ids.
LEMMA HistoryOfInterval ==
  ASSUME NEW a \in Nat \ {0}, NEW m \in Nat
  PROVE  History(a .. a + m - 1) = [i \in 1 .. m |-> a + i - 1]
<1> DEFINE S == a .. a + m - 1
           h == [i \in 1 .. m |-> a + i - 1]
           Rising(s) == \A i, j \in 1 .. Len(s) : i < j => s[i] < s[j]
<1>1. Cardinality(S) = m
  BY FS_Interval
<1>2. SetToSeqs(S) = {f \in [1 .. m -> S] : \A i, j \in 1 .. m : i # j => f[i] # f[j]}
  BY <1>1, Zenon DEF SetToSeqs
<1> HIDE DEF S
<1>3. \A f \in [1 .. m -> S] : Len(f) = m
  <2> SUFFICES ASSUME NEW f \in [1 .. m -> S] PROVE Len(f) = m
    OBVIOUS
  <2>1. f \in Seq(S)
    BY SeqDef
  <2> QED BY <2>1, LenProperties
<1>4. h \in SetToSeqs(S) /\ Rising(h)
  <2>1. h \in [1 .. m -> S]
    BY DEF S
  <2>2. \A i \in 1 .. m : h[i] = a + i - 1
    OBVIOUS
  <2> HIDE DEF h
  <2>3. \A i, j \in 1 .. m : i # j => h[i] # h[j]
    BY <2>2
  <2>4. \A i, j \in 1 .. m : i < j => h[i] < h[j]
    BY <2>2
  <2> QED BY <1>2, <1>3, <2>1, <2>3, <2>4
<1>5. ASSUME NEW s \in SetToSeqs(S), Rising(s) PROVE s = h
  <2>1. s \in [1 .. m -> S] /\ Len(s) = m
    BY <1>2, <1>3
  <2>2. \A i \in 1 .. m : s[i] = a + i - 1
    BY <1>5, <2>1, RisingIsInterval DEF S
  <2> QED BY <2>1, <2>2
<1> HIDE DEF h
<1>6. History(S) = CHOOSE s \in SetToSeqs(S) : Rising(s)
  BY DEF History
<1>7. History(S) = h
  BY <1>4, <1>5, <1>6
<1> QED BY <1>7 DEF S, h

\* A scan that is added is the newest one of both histories.
LEMMA HistoryGrows ==
  ASSUME NEW n \in Nat \ {0}
  PROVE  History(Window(n + 1)) = Memory!Newest(Append(History(Window(n)), n))
<1> DEFINE a == First(n)
           m == n - a
           h == [i \in 1 .. m |-> a + i - 1]
           g == Append(h, n)
           b == First(n + 1)
           k == n + 1 - b
           r == [i \in 1 .. k |-> b + i - 1]
<1>1. a \in Nat \ {0} /\ m \in Nat /\ b \in Nat \ {0} /\ k \in Nat
  BY Limits DEF First
<1>2. Window(n) = a .. a + m - 1 /\ Window(n + 1) = b .. b + k - 1
  <2>1. n + 1 \in Nat \ {0} /\ a + m - 1 = n - 1 /\ b + k - 1 = (n + 1) - 1
    BY <1>1
  <2>2. Window(n) = First(n) .. n - 1 /\ Window(n + 1) = First(n + 1) .. (n + 1) - 1
    BY <2>1, WindowInterval
  <2> HIDE DEF m, k
  <2> QED BY <2>1, <2>2
<1>3. IF n > Limit THEN a = n - Limit /\ m = Limit /\ b = n + 1 - Limit /\ k = Limit
      ELSE a = 1 /\ m = n - 1 /\ b = 1 /\ k = n
  BY Limits DEF First
<1> HIDE DEF a, m, b, k
<1>4. History(Window(n)) = h /\ History(Window(n + 1)) = r
  BY <1>1, <1>2, HistoryOfInterval
<1>5. h \in Seq(Nat) /\ Len(h) = m
  <2>1. h \in [1 .. m -> Nat]
    BY <1>1
  <2>2. h \in Seq(Nat)
    BY <1>1, <2>1, SeqDef
  <2> QED BY <1>1, <2>1, <2>2, LenProperties
<1>6. r \in Seq(Nat) /\ Len(r) = k
  <2>1. r \in [1 .. k -> Nat]
    BY <1>1
  <2>2. r \in Seq(Nat)
    BY <1>1, <2>1, SeqDef
  <2> QED BY <1>1, <2>1, <2>2, LenProperties
<1>7. /\ g \in Seq(Nat) /\ Len(g) = m + 1
      /\ \A i \in 1 .. m + 1 : g[i] = a + i - 1
  <2>1. \A i \in 1 .. m : h[i] = a + i - 1
    OBVIOUS
  <2> HIDE DEF h
  <2>2. g[m + 1] = n /\ Len(g) = m + 1 /\ g \in Seq(Nat) /\ \A i \in 1 .. m : g[i] = h[i]
    BY <1>5, AppendProperties
  <2>3. n = a + (m + 1) - 1
    BY <1>1 DEF m
  <2>4. \A i \in 1 .. m + 1 : i \in 1 .. m \/ i = m + 1
    BY <1>1
  <2> HIDE DEF g
  <2> QED BY <2>1, <2>2, <2>3, <2>4
<1>8. \A i \in 1 .. k : r[i] = b + i - 1
  OBVIOUS
<1> HIDE DEF h, g, r
<1>9. Memory!Newest(g) = r
  <2>1. CASE n > Limit
    <3>1. Memory!Newest(g) = SubSeq(g, 2, Limit + 1)
      BY <1>3, <1>7, <2>1, Limits DEF Memory!Newest
    <3>2. \A i \in 2 .. Limit + 1 : g[i] \in Nat
      BY <1>1, <1>3, <1>7, <2>1, Limits
    <3>3. /\ SubSeq(g, 2, Limit + 1) \in Seq(Nat)
          /\ Len(SubSeq(g, 2, Limit + 1)) = Limit
          /\ \A i \in 1 .. Limit : SubSeq(g, 2, Limit + 1)[i] = g[i + 1]
      BY <3>2, SubSeqProperties, Limits
    <3>4. ASSUME NEW i \in 1 .. Limit PROVE g[i + 1] = r[i]
      <4>1. i + 1 \in 1 .. m + 1 /\ i \in 1 .. k
        BY <1>3, <2>1, Limits
      <4>2. g[i + 1] = a + (i + 1) - 1 /\ r[i] = b + i - 1
        BY <1>7, <1>8, <4>1
      <4> QED BY <1>3, <2>1, <4>2, Limits
    <3> QED BY <1>3, <1>6, <2>1, <3>1, <3>3, <3>4, SeqEqual
  <2>2. CASE ~(n > Limit)
    <3>1. Memory!Newest(g) = SubSeq(g, 1, Len(g))
      BY <1>3, <1>7, <2>2, Limits DEF Memory!Newest
    <3>2. Memory!Newest(g) = g
      BY <1>7, <3>1, SubSeqFull
    <3>3. Len(g) = k /\ \A i \in 1 .. k : g[i] = r[i]
      BY <1>1, <1>3, <1>7, <1>8, <2>2
    <3> QED BY <1>6, <1>7, <3>2, <3>3, SeqEqual
  <2> QED BY <2>1, <2>2
<1> QED BY <1>4, <1>9 DEF g
-----------------------------------------------------------------------------
(***************************************************************************)
(* What a transaction changes, exactly: one operation of a store.          *)
(***************************************************************************)
\* One row is written or deleted, or those of a set of files are.
RowStep(r, s) ==
  \/ \E f \in File, x \in Stamp \union {None} : s = [r EXCEPT ![f] = x]
  \/ \E root, keep \in SUBSET File : s = [f \in File |-> IF f \in root \ keep THEN None ELSE r[f]]

\* The contents d are c after one operation.
Operation(c, d) ==
  /\ d.version = c.version /\ d.table = c.table /\ d.ok = c.ok
  /\ \/ RowStep(c.rows, d.rows) /\ d.scans = c.scans /\ d.next = c.next /\ d.last = c.last
     \/ d.rows = c.rows /\ d.scans = Window(d.next) /\ d.next = c.next + 1 /\ d.last = c.last
     \/ d.rows = c.rows /\ d.scans = c.scans /\ d.next = c.next /\ d.last \in 1 .. c.next - 1

\* A scan is inserted and no other one deleted yet.
Inserted(c, d) ==
  /\ d.version = c.version /\ d.table = c.table /\ d.ok = c.ok
  /\ d.rows = c.rows /\ d.scans = Window(c.next) \union {c.next} /\ d.next = c.next + 1
  /\ d.last = c.last

FileExact(i) ==
  /\ file[i].scans = Window(file[i].next)
  /\ acked[i] \subseteq 1 .. file[i].next - 1
  /\ file[i].version = "old" /\ file[i].table # "old" => file[i].rows = Empty
  /\ i > path => file[i] = Fresh

ProcessExact(p) ==
  /\ conn[p] <= path
  /\ pc[p] = "added" => Inserted(Mine(p), draft[p])
  /\ pc[p] = "write" => /\ Operation(Mine(p), draft[p])
                        /\ arg[p] # None => draft[p].next = arg[p] + 1

Exact ==
  /\ \A i \in 1 .. MaxFiles : FileExact(i)
  /\ \A p \in Process : ProcessExact(p)

LEMMA FreshExact ==
  /\ Fresh.scans = Window(Fresh.next) /\ Fresh.next = 1 /\ Fresh.rows = Empty
  /\ Fresh.last = 0 /\ Fresh.version = "old" /\ Fresh.scans = {} /\ Fresh.ok = TRUE
BY Limits DEF Fresh, Window

LEMMA InitExact == Init => Exact
<1> SUFFICES ASSUME Init PROVE Exact
  OBVIOUS
<1>1. PICK r \in [File -> Row], v \in {"old", "new"} :
         file = [i \in 1 .. MaxFiles |->
            IF i = 1 /\ path = 1 THEN [Fresh EXCEPT !.rows = r, !.table = v, !.version = v,
                                       !.scans = {1}, !.next = 2, !.last = 1]
            ELSE Fresh]
  BY DEF Init
<1> DEFINE first == [Fresh EXCEPT !.rows = r, !.table = v, !.version = v,
                                  !.scans = {1}, !.next = 2, !.last = 1]
<1>2. first.scans = {1} /\ first.next = 2 /\ first.version = v /\ first.table = v
  BY DEF Fresh
<1> HIDE DEF first
<1>3. Window(2) = {1}
  BY Limits DEF Window
<1>4. path \in {0, 1} /\ \A p \in Process : conn[p] = 0 /\ pc[p] = "closed"
  BY DEF Init
<1>5. \A i \in 1 .. MaxFiles : \/ i = path /\ path = 1 /\ file[i] = first /\ acked[i] = {1}
                               \/ file[i] = Fresh /\ acked[i] = {} /\ (i = 1 => path # 1)
  BY <1>1, <1>4 DEF Init, first
<1>6. ASSUME NEW i \in 1 .. MaxFiles PROVE FileExact(i)
  <2>1. CASE i = path /\ path = 1 /\ file[i] = first /\ acked[i] = {1}
    <3>1. file[i].scans = Window(file[i].next)
      BY <1>2, <1>3, <2>1
    <3>2. acked[i] \subseteq 1 .. file[i].next - 1
      BY <1>2, <2>1
    <3>3. file[i].version = file[i].table
      BY <1>2, <2>1
    <3>4. ~(i > path)
      BY <2>1
    <3> QED BY <3>1, <3>2, <3>3, <3>4 DEF FileExact
  <2>2. CASE file[i] = Fresh /\ acked[i] = {}
    BY <2>2, FreshExact DEF FileExact
  <2> QED BY <1>5, <2>1, <2>2
<1> QED BY <1>4, <1>6 DEF Exact, ProcessExact

\* A step of p disturbs nobody else, if it writes into p's file only, and that
\* only when nobody else does.
LEMMA ExactStepOfOne ==
  ASSUME Inv, Exact, Types', NEW p \in Process, ProcessExact(p)', path' >= path,
         \A q \in Process \ {p} : /\ pc'[q] = pc[q] /\ conn'[q] = conn[q]
                                  /\ draft'[q] = draft[q] /\ arg'[q] = arg[q],
         \/ UNCHANGED <<file, acked>>
         \/ /\ MayWrite(p) /\ conn[p] \in 1 .. MaxFiles /\ conn'[p] = conn[p]
            /\ FileExact(conn[p])'
            /\ \A i \in 0 .. MaxFiles : i # conn[p] => file'[i] = file[i] /\ acked'[i] = acked[i]
  PROVE  Exact'
<1>1. Types /\ path \in Nat /\ path' \in Nat
  BY Limits DEF Inv, Types
<1>2. ASSUME NEW i \in 1 .. MaxFiles PROVE FileExact(i)'
  <2>1. FileExact(i) /\ i \in 0 .. MaxFiles /\ i \in Nat
    BY Limits DEF Exact
  <2>2. CASE file'[i] = file[i] /\ acked'[i] = acked[i]
    BY <1>1, <2>1, <2>2 DEF FileExact
  <2>3. CASE ~(file'[i] = file[i] /\ acked'[i] = acked[i])
    BY <2>1, <2>3
  <2> QED BY <2>2, <2>3
<1>3. ASSUME NEW q \in Process \ {p} PROVE ProcessExact(q)'
  <2>1. ProcessExact(q) /\ conn[q] \in 0 .. MaxFiles /\ conn[q] \in Nat
    BY <1>1, Limits DEF Exact, Types
  <2>2. pc[q] \in {"added", "write"} => file'[conn[q]] = file[conn[q]]
    BY <2>1 DEF MayWrite
  <2> QED BY <1>1, <2>1, <2>2 DEF ProcessExact, Mine
<1> QED BY <1>2, <1>3 DEF Exact

\* Steps that begin no transaction and change no file.
LEMMA ExactQuiet ==
  ASSUME Inv, Exact, Types', NEW p \in Process,
         \/ Connect(p) \/ FindDamage(p) \/ Reset(p) \/ ReadVersion(p) \/ SkipLast(p) \/ Close(p)
         \/ \E f \in File, s \in Stamp : Get(p, f, s)
  PROVE  Exact'
<1>1. Types /\ path \in Nat /\ conn[p] <= path /\ conn[p] \in Nat
  BY Limits DEF Inv, Types, Exact, ProcessExact
<1>2. /\ UNCHANGED <<file, acked>> /\ path' >= path /\ path' \in Nat
      /\ conn'[p] <= path' /\ pc'[p] \notin {"added", "write"}
  BY <1>1, Limits DEF Connect, FindDamage, Reset, ReadVersion, SkipLast, Close, Get, Goto, Types
<1>3. \A q \in Process \ {p} : /\ pc'[q] = pc[q] /\ conn'[q] = conn[q]
                               /\ draft'[q] = draft[q] /\ arg'[q] = arg[q]
  BY <1>1 DEF Connect, FindDamage, Reset, ReadVersion, SkipLast, Close, Get, Goto, Types
<1>4. ProcessExact(p)'
  BY <1>2 DEF ProcessExact
<1> QED BY <1>2, <1>3, <1>4, ExactStepOfOne

\* The statements of the opening: the rows of another version go.
LEMMA ExactOpening ==
  ASSUME Inv, Exact, Types', NEW p \in Process, DropTable(p) \/ CreateTables(p) \/ SetVersion(p)
  PROVE  Exact'
<1> DEFINE m == Mine(p)
<1>1. /\ pc[p] \in {"drop", "create", "stamp"} /\ MayWrite(p)
      /\ UNCHANGED <<path, conn, draft, arg, acked>>
  BY DEF DropTable, CreateTables, SetVersion
<1>2. /\ m \in Content /\ m = file[conn[p]] /\ conn[p] \in 1 .. MaxFiles /\ ProcessInv(p)
      /\ FileExact(conn[p]) /\ Types /\ ProcessExact(p) /\ path \in Nat /\ conn[p] \in Nat
  <2>1. Types /\ path \in Nat /\ ProcessExact(p)
    BY Limits DEF Inv, Types, Exact
  <2>2. m \in Content /\ m = file[conn[p]] /\ conn[p] \in 1 .. MaxFiles /\ ProcessInv(p)
    BY <1>1, OpenedFacts
  <2>3. FileExact(conn[p]) /\ conn[p] \in Nat
    BY <2>2, Limits DEF Exact
  <2> QED BY <2>1, <2>2, <2>3
<1>3. PICK c, l :
        /\ Write(p, c) /\ Goto(p, l) /\ l \in {"create", "stamp", "ready"}
        /\ c.scans = m.scans /\ c.next = m.next
        /\ c.version = "old" /\ c.table # "old" => c.rows = Empty
  <2>1. CASE DropTable(p)
    <3> DEFINE c == AfterDrop(m)
    <3>1. Write(p, c) /\ Goto(p, "create")
      BY <2>1 DEF DropTable
    <3>2. c.scans = m.scans /\ c.next = m.next /\ c.rows = Empty
      BY <1>2 DEF AfterDrop, Content
    <3> HIDE DEF c, m
    <3> QED BY <3>1, <3>2
  <2>2. CASE CreateTables(p)
    <3> DEFINE c == [m EXCEPT !.table = IF @ = "none" THEN "new" ELSE @]
    <3>1. Write(p, c) /\ Goto(p, "stamp") /\ m.table # "old"
      BY <1>2, <2>2 DEF CreateTables, ProcessInv
    <3>2. c.scans = m.scans /\ c.next = m.next /\ c.rows = m.rows /\ c.version = m.version
      BY <1>2 DEF Content
    <3>3. m.version = "old" => m.rows = Empty
      BY <1>2, <3>1 DEF FileExact
    <3> HIDE DEF c, m
    <3> QED BY <3>1, <3>2, <3>3
  <2>3. CASE SetVersion(p)
    <3> DEFINE c == [m EXCEPT !.version = "new"]
    <3>1. Write(p, c) /\ Goto(p, "ready")
      BY <2>3 DEF SetVersion
    <3>2. c.scans = m.scans /\ c.next = m.next /\ c.version = "new"
      BY <1>2 DEF Content
    <3> HIDE DEF c, m
    <3> QED BY <3>1, <3>2
  <2> QED BY <2>1, <2>2, <2>3
<1> HIDE DEF m
<1>4. /\ file' = [file EXCEPT ![conn[p]] = c] /\ pc' = [pc EXCEPT ![p] = l]
  BY <1>3 DEF Write, Goto
<1>5. file'[conn[p]] = c /\ pc'[p] = l /\ conn' = conn /\ acked' = acked /\ path' = path
  BY <1>1, <1>2, <1>4 DEF Types
<1>6. FileExact(conn[p])'
  <2>1. ~(conn[p] > path)
    BY <1>2 DEF ProcessExact
  <2> QED BY <1>2, <1>3, <1>5, <2>1 DEF FileExact
<1>7. ProcessExact(p)'
  BY <1>2, <1>3, <1>5 DEF ProcessExact
<1>8. \A q \in Process \ {p} : /\ pc'[q] = pc[q] /\ conn'[q] = conn[q]
                               /\ draft'[q] = draft[q] /\ arg'[q] = arg[q]
  BY <1>1, <1>2, <1>4 DEF Types
<1>9. \A i \in 0 .. MaxFiles : i # conn[p] => file'[i] = file[i] /\ acked'[i] = acked[i]
  BY <1>1, <1>2, <1>4 DEF Types
<1> QED BY <1>1, <1>2, <1>6, <1>7, <1>8, <1>9, ExactStepOfOne

\* A transaction begins with the contents as they are.
LEMMA ExactBegin ==
  ASSUME Inv, Exact, Types', NEW p \in Process, NEW c, NEW l \in {"added", "write"}, Begin(p, c, l),
         \A q \in Process \ {p} : arg'[q] = arg[q],
         l = "added" => Inserted(Mine(p), c),
         l = "write" => Operation(Mine(p), c) /\ arg'[p] = None
  PROVE  Exact'
<1>1. /\ MayWrite(p) /\ draft' = [draft EXCEPT ![p] = c] /\ pc' = [pc EXCEPT ![p] = l]
      /\ UNCHANGED <<path, file, conn, acked>> /\ Types /\ path \in Nat
  BY Limits DEF Begin, Goto, Inv, Types
<1>2. pc'[p] = l /\ draft'[p] = c /\ Mine(p)' = Mine(p) /\ ProcessExact(p)
  BY <1>1 DEF Types, Mine, Exact
<1>3. ProcessExact(p)'
  BY <1>1, <1>2 DEF ProcessExact
<1>4. \A q \in Process \ {p} : /\ pc'[q] = pc[q] /\ conn'[q] = conn[q]
                               /\ draft'[q] = draft[q] /\ arg'[q] = arg[q]
  BY <1>1 DEF Types
<1> QED BY <1>1, <1>3, <1>4, ExactStepOfOne

LEMMA ExactTransaction ==
  ASSUME Inv, Exact, Types', NEW p \in Process,
         \/ \E f \in File, s \in Stamp : Put(p, f, s)
         \/ \E root, keep \in SUBSET File : Prune(p, root, keep)
         \/ Forget(p) \/ InsertScan(p) \/ SetLast(p)
  PROVE  Exact'
<1> DEFINE m == Mine(p)
<1>1. pc[p] \in {"ready", "missed", "stored"}
  BY DEF Put, Prune, Forget, InsertScan, SetLast
<1>2. /\ m \in Content /\ ProcessInv(p) /\ conn[p] \in 1 .. MaxFiles /\ FileExact(conn[p])
      /\ m = file[conn[p]] /\ Types
  BY <1>1, OpenedFacts DEF Inv, Exact
<1>3. \A q \in Process \ {p} : arg'[q] = arg[q]
  BY <1>2 DEF Put, Prune, Forget, InsertScan, SetLast, Types
<1> HIDE DEF m
<1>4. ASSUME NEW r, RowStep(m.rows, r), Begin(p, [m EXCEPT !.rows = r], "write"), arg'[p] = None
      PROVE  Exact'
  <2> DEFINE c == [m EXCEPT !.rows = r]
  <2>1. /\ c.rows = r /\ c.scans = m.scans /\ c.next = m.next /\ c.last = m.last
        /\ c.version = m.version /\ c.table = m.table /\ c.ok = m.ok
    BY <1>2 DEF Content
  <2> HIDE DEF c
  <2>2. Operation(m, c)
    BY <1>4, <2>1 DEF Operation
  <2>3. Begin(p, c, "write")
    BY <1>4 DEF c
  <2> QED BY <1>3, <1>4, <2>2, <2>3, ExactBegin DEF m
<1>5. ASSUME NEW f \in File, NEW s \in Stamp, Put(p, f, s) PROVE Exact'
  <2>1. arg'[p] = None /\ Begin(p, [m EXCEPT !.rows[f] = s], "write")
    BY <1>2, <1>5 DEF Put, ProcessInv, m
  <2>2. [m EXCEPT !.rows[f] = s] = [m EXCEPT !.rows = [m.rows EXCEPT ![f] = s]]
    OBVIOUS
  <2>3. RowStep(m.rows, [m.rows EXCEPT ![f] = s])
    BY DEF RowStep
  <2> QED BY <1>4, <2>1, <2>2, <2>3
<1>6. ASSUME NEW root \in SUBSET File, NEW keep \in SUBSET File, Prune(p, root, keep) PROVE Exact'
  <2> DEFINE r == [f \in File |-> IF f \in root \ keep THEN None ELSE m.rows[f]]
  <2>1. arg'[p] = None /\ Begin(p, [m EXCEPT !.rows = r], "write")
    BY <1>2, <1>6 DEF Prune, ProcessInv, m
  <2>2. RowStep(m.rows, r)
    BY DEF RowStep
  <2> HIDE DEF r
  <2> QED BY <1>4, <2>1, <2>2
<1>7. CASE Forget(p)
  <2>1. arg[p] \in File
    BY <1>2, <1>7 DEF Forget, ProcessInv
  <2>2. arg'[p] = None
    BY <1>2, <1>7 DEF Forget, Types
  <2> DEFINE f == arg[p]
  <2>3. Begin(p, [m EXCEPT !.rows[f] = None], "write")
    BY <1>7 DEF Forget, m
  <2>4. f \in File
    BY <2>1
  <2> HIDE DEF f
  <2>5. [m EXCEPT !.rows[f] = None] = [m EXCEPT !.rows = [m.rows EXCEPT ![f] = None]]
    OBVIOUS
  <2>6. RowStep(m.rows, [m.rows EXCEPT ![f] = None])
    BY <2>4 DEF RowStep
  <2> QED BY <1>4, <2>2, <2>3, <2>5, <2>6
<1>8. CASE InsertScan(p)
  <2> DEFINE c == [m EXCEPT !.scans = m.scans \union {m.next}, !.next = m.next + 1]
  <2>1. Begin(p, c, "added")
    BY <1>8 DEF InsertScan, m
  <2>2. /\ c.scans = m.scans \union {m.next} /\ c.next = m.next + 1 /\ c.rows = m.rows
        /\ c.last = m.last /\ c.version = m.version /\ c.table = m.table /\ c.ok = m.ok
    BY <1>2 DEF Content
  <2> HIDE DEF c
  <2>3. Inserted(m, c)
    BY <1>2, <2>2 DEF Inserted, FileExact
  <2> QED BY <1>3, <2>1, <2>3, ExactBegin DEF m
<1>9. CASE SetLast(p)
  <2> DEFINE c == [m EXCEPT !.last = arg[p]]
  <2>1. Begin(p, c, "write") /\ pc[p] = "stored"
    BY <1>9 DEF SetLast, m
  <2>2. arg'[p] = None
    BY <1>2, <1>9 DEF SetLast, Types
  <2>3. arg[p] \in 1 .. m.next - 1
    BY <1>2, <2>1 DEF ProcessInv, FileExact
  <2>4. /\ c.last = arg[p] /\ c.scans = m.scans /\ c.next = m.next /\ c.rows = m.rows
        /\ c.version = m.version /\ c.table = m.table /\ c.ok = m.ok
    BY <1>2 DEF Content
  <2> HIDE DEF c
  <2>5. Operation(m, c)
    BY <2>3, <2>4 DEF Operation
  <2> QED BY <1>3, <2>1, <2>2, <2>5, ExactBegin DEF m
<1> QED BY <1>5, <1>6, <1>7, <1>8, <1>9

\* The trimmed history reaches as far back as the limit.
LEMMA ExactTrim == ASSUME Inv, Exact, Types', NEW p \in Process, TrimScans(p) PROVE Exact'
<1> DEFINE d == draft[p]
           c == [d EXCEPT !.scans = Kept(d.scans, arg[p])]
<1>1. /\ Types /\ pc[p] = "added" /\ ProcessInv(p) /\ ProcessExact(p) /\ MayWrite(p)
      /\ pc' = [pc EXCEPT ![p] = "write"] /\ UNCHANGED <<path, file, conn, arg, acked>>
      /\ draft' = [draft EXCEPT ![p] = c] /\ conn[p] \in 1 .. MaxFiles
  BY OpenedFacts, WriterMayWrite DEF TrimScans, Goto, Inv, Exact, Writing
<1>2. /\ d \in Content /\ Inserted(Mine(p), d) /\ arg[p] \in 1 .. MaxScans /\ d.next = arg[p] + 1
      /\ Mine(p) \in Content
  BY <1>1, OpenedFacts DEF Types, ProcessInv, ProcessExact
<1>3. arg[p] = Mine(p).next /\ arg[p] \in Nat /\ Mine(p).next \in Nat
  BY <1>2, Limits DEF Inserted, Content
<1> HIDE DEF d
<1>4. /\ c.scans = Kept(d.scans, arg[p]) /\ c.next = d.next /\ c.last = d.last /\ c.rows = d.rows
      /\ c.version = d.version /\ c.table = d.table /\ c.ok = d.ok
  BY <1>2 DEF Content
<1> HIDE DEF c
<1>5. Kept(d.scans, arg[p]) = Window(d.next)
  <2>1. d.scans = Window(arg[p]) \union {arg[p]} /\ d.next = arg[p] + 1
    BY <1>2, <1>3 DEF Inserted
  <2>2. ASSUME NEW n \in Nat \ {0}, NEW ids, ids = Window(n) \union {n}
        PROVE  Kept(ids, n) = Window(n + 1)
    <3>1. \A i : i \in Kept(ids, n) <=> (i \in Window(n) \/ i = n) /\ i + Limit > n
      BY <2>2 DEF Kept
    <3>2. /\ \A i : i \in Window(n) <=> i \in 1 .. n - 1 /\ i + Limit >= n
          /\ \A i : i \in Window(n + 1) <=> i \in 1 .. n /\ i + Limit >= n + 1
      BY DEF Window
    <3>3. \A i : i \in 1 .. n <=> i \in 1 .. n - 1 \/ i = n
      OBVIOUS
    <3>4. \A i \in 1 .. n : i + Limit > n <=> i + Limit >= n + 1
      BY Limits
    <3>5. \A i \in 1 .. n - 1 : i + Limit > n => i + Limit >= n
      BY Limits
    <3>6. n \in 1 .. n
      OBVIOUS
    <3> QED BY <3>1, <3>2, <3>3, <3>4, <3>5, <3>6
  <2>3. arg[p] \in Nat \ {0}
    BY <1>2
  <2> QED BY <2>1, <2>2, <2>3
<1>6. Operation(Mine(p), c)
  BY <1>2, <1>4, <1>5 DEF Operation, Inserted
<1>7. pc'[p] = "write" /\ draft'[p] = c /\ Mine(p)' = Mine(p) /\ arg' = arg
  BY <1>1 DEF Types, Mine
<1>8. ProcessExact(p)'
  BY <1>1, <1>2, <1>4, <1>6, <1>7 DEF ProcessExact
<1>9. \A q \in Process \ {p} : /\ pc'[q] = pc[q] /\ conn'[q] = conn[q]
                               /\ draft'[q] = draft[q] /\ arg'[q] = arg[q]
  BY <1>1 DEF Types
<1>10. path' >= path
  BY <1>1, Limits DEF Types
<1> QED BY <1>1, <1>8, <1>9, <1>10, ExactStepOfOne

LEMMA ExactCommit == ASSUME Inv, Exact, Types', NEW p \in Process, Commit(p) PROVE Exact'
<1> DEFINE i == conn[p]
           m == Mine(p)
           d == draft[p]
           ids == acked[i] \union ({arg[p]} \ {None})
<1>1. /\ Types /\ i \in 1 .. MaxFiles /\ ProcessInv(p) /\ ProcessExact(p) /\ pc[p] = "write"
      /\ FileExact(i) /\ m = file[i] /\ MayWrite(p) /\ m \in Content /\ d \in Content
      /\ path \in Nat /\ i \in Nat
  <2>1. Types /\ path \in Nat /\ ProcessExact(p) /\ pc[p] = "write" /\ d \in Content
    BY Limits DEF Inv, Types, Exact, Commit
  <2>2. m \in Content /\ m = file[i] /\ i \in 1 .. MaxFiles /\ ProcessInv(p)
    BY <2>1, OpenedFacts
  <2>3. FileExact(i) /\ i \in Nat
    BY <2>2, Limits DEF Exact
  <2>4. MayWrite(p)
    BY <2>1, WriterMayWrite DEF Writing
  <2> QED BY <2>1, <2>2, <2>3, <2>4
<1>2. /\ pc'[p] \notin {"added", "write"} /\ file' = [file EXCEPT ![i] = d]
      /\ acked' = [acked EXCEPT ![i] = ids] /\ UNCHANGED <<path, conn, draft, arg>>
      /\ \A q \in Process \ {p} : pc'[q] = pc[q]
  BY <1>1 DEF Commit, Goto, Write, Types
<1>3. Operation(m, d) /\ (arg[p] # None => d.next = arg[p] + 1 /\ arg[p] \in 1 .. MaxScans)
  BY <1>1 DEF ProcessExact, ProcessInv
<1>4. m.next \in Nat /\ d.next \in Nat /\ d.next >= m.next
  BY <1>1, <1>3, Limits DEF Operation, Content
<1>5. d.scans = Window(d.next)
  BY <1>1, <1>3 DEF Operation, FileExact
<1>6. ids \subseteq 1 .. d.next - 1
  <2>1. acked[i] \subseteq 1 .. m.next - 1
    BY <1>1 DEF FileExact
  <2>2. arg[p] # None => arg[p] \in 1 .. d.next - 1
    BY <1>3, <1>4
  <2> QED BY <1>4, <2>1, <2>2
<1>7. d.version = "new"
  BY <1>1, <1>3 DEF Operation, ProcessInv, Opened
<1>8. file'[i] = d /\ acked'[i] = ids /\ ~(i > path)
  BY <1>1, <1>2 DEF Types, ProcessExact
<1> HIDE DEF ids, d
<1>9. FileExact(conn[p])'
  <2>1. conn'[p] = i /\ path' = path
    BY <1>2
  <2> QED BY <1>2, <1>5, <1>6, <1>7, <1>8, <2>1 DEF FileExact
<1>10. ProcessExact(p)'
  BY <1>1, <1>2 DEF ProcessExact
<1>11. \A j \in 0 .. MaxFiles : j # i => file'[j] = file[j] /\ acked'[j] = acked[j]
  BY <1>1, <1>2 DEF Types
<1>12. path' >= path
  BY <1>1, <1>2
<1> QED BY <1>1, <1>2, <1>9, <1>10, <1>11, <1>12, ExactStepOfOne

LEMMA ExactDamage == ASSUME Inv, Exact, Types', Damage PROVE Exact'
<1>1. /\ Types /\ path \in 1 .. MaxFiles /\ file[path] \in Content
      /\ file' = [file EXCEPT ![path].ok = FALSE] /\ UNCHANGED <<path, conn, pc, draft, arg, acked>>
      /\ \A p \in Process : conn[p] # path
  BY DEF Damage, Inv, Types
<1> DEFINE c == [file[path] EXCEPT !.ok = FALSE]
<1>2. /\ c.scans = file[path].scans /\ c.next = file[path].next /\ c.rows = file[path].rows
      /\ c.version = file[path].version /\ c.table = file[path].table
  BY <1>1 DEF Content
<1> HIDE DEF c
<1>3. file' = [file EXCEPT ![path] = c]
  BY <1>1 DEF c, Types
<1>4. ASSUME NEW i \in 1 .. MaxFiles PROVE FileExact(i)'
  <2>1. FileExact(i)
    BY DEF Exact
  <2>2. CASE i = path
    <3>1. file'[i] = c /\ acked'[i] = acked[i] /\ ~(i > path')
      BY <1>1, <1>3, <2>2 DEF Types
    <3> QED BY <1>2, <2>1, <2>2, <3>1 DEF FileExact
  <2>3. CASE i # path
    <3>1. file'[i] = file[i] /\ acked'[i] = acked[i] /\ path' = path
      BY <1>1, <1>3, <2>3 DEF Types
    <3> QED BY <2>1, <3>1 DEF FileExact
  <2> QED BY <2>2, <2>3
<1>5. ASSUME NEW p \in Process PROVE ProcessExact(p)'
  <2>1. file'[conn[p]] = file[conn[p]] /\ ProcessExact(p)
    BY <1>1, <1>3 DEF Types, Exact
  <2> QED BY <1>1, <2>1 DEF ProcessExact, Mine
<1> QED BY <1>4, <1>5 DEF Exact

LEMMA NextExact == Inv /\ Exact /\ [Next]_vars => Exact'
<1> SUFFICES ASSUME Inv, Exact, [Next]_vars PROVE Exact'
  OBVIOUS
<1>1. Types'
  BY NextInv DEF Inv
<1>2. ASSUME NEW p \in Process, Opening(p) PROVE Exact'
  BY <1>1, <1>2, ExactQuiet, ExactOpening DEF Opening
<1>3. ASSUME NEW p \in Process, Scanning(p) PROVE Exact'
  <2>1. ASSUME NEW f \in File, NEW s \in Stamp, Get(p, f, s) \/ Put(p, f, s) PROVE Exact'
    BY <1>1, <2>1, ExactQuiet, ExactTransaction
  <2> QED BY <1>1, <1>3, <2>1, ExactQuiet, ExactTransaction, ExactTrim, ExactCommit DEF Scanning
<1>4. CASE UNCHANGED vars
  BY <1>4 DEF vars, Exact, FileExact, ProcessExact, Mine
<1>5. ASSUME NEW p \in Process, Close(p) PROVE Exact'
  BY <1>1, <1>5, ExactQuiet
<1> QED BY <1>1, <1>2, <1>3, <1>4, <1>5, ExactDamage DEF Next
-----------------------------------------------------------------------------
(***************************************************************************)
(* The store in memory, as the database at the path shows it.              *)
(***************************************************************************)
\* The probe results that can be read.
Results(c) == [f \in File |-> IF c.version = "new" THEN Entry(c.rows[f]) ELSE None]

LEMMA MemoryVars ==
  /\ Memory!vars = <<Results(Current), History(Current.scans), Current.next, Current.last>>
  /\ Memory!vars' = <<Results(Current'), History(Current'.scans), Current'.next, Current'.last>>
BY DEF Memory!vars, Results

LEMMA MemoryStutters ==
  ASSUME Results(Current') = Results(Current), Current'.scans = Current.scans,
         Current'.next = Current.next, Current'.last = Current.last
  PROVE  UNCHANGED Memory!vars
BY DEF Memory!vars, Results

LEMMA FreshIsRenewed ==
  ASSUME Current' = Fresh
  PROVE  Memory!Next
<1>1. Fresh.scans = {} /\ Fresh.next = 1 /\ Fresh.last = 0 /\ Fresh.version = "old"
  BY DEF Fresh
<1>2. History({}) = <<>>
  <2> DEFINE a == 1
             m == 0
  <2>1. a \in Nat \ {0} /\ m \in Nat /\ {} = a .. a + m - 1 /\ 1 .. m = {}
    OBVIOUS
  <2> HIDE DEF a, m
  <2>2. History({}) = [i \in 1 .. m |-> a + i - 1]
    BY <2>1, HistoryOfInterval
  <2>3. <<>> = [i \in 1 .. m |-> a + i - 1]
    BY <2>1
  <2> QED BY <2>2, <2>3
<1>3. Memory!Renew
  BY <1>1, <1>2 DEF Memory!Renew
<1> QED BY <1>3 DEF Memory!Next

LEMMA OperationActs ==
  ASSUME NEW c \in Content, NEW d \in Content, Current = c, Current' = d,
         Operation(c, d), c.version = "new", c.scans = Window(c.next)
  PROVE  Memory!Next
<1>1. d.version = "new" /\ c.rows \in [File -> Row] /\ c.next \in Nat \ {0}
  BY Limits DEF Operation, Content
<1>2. Entry(None) = None
  BY Nothing DEF Entry
<1>3. CASE d.scans = c.scans /\ d.next = c.next /\ d.last = c.last /\ RowStep(c.rows, d.rows)
  <2>1. ASSUME NEW f \in File, NEW x \in Stamp \union {None}, d.rows = [c.rows EXCEPT ![f] = x]
        PROVE  Results(d) = [Results(c) EXCEPT ![f] = x]
    <3>1. Entry(x) = x
      BY <1>2 DEF Entry
    <3> QED BY <1>1, <2>1, <3>1 DEF Results
  <2>2. ASSUME NEW root \in SUBSET File, NEW keep \in SUBSET File,
               d.rows = [f \in File |-> IF f \in root \ keep THEN None ELSE c.rows[f]]
        PROVE  Results(d) = [f \in File |-> IF f \in root \ keep THEN None ELSE Results(c)[f]]
    BY <1>1, <1>2, <2>2 DEF Results
  <2>3. ASSUME NEW f \in File, NEW x \in Stamp \union {None}, d.rows = [c.rows EXCEPT ![f] = x]
        PROVE  Memory!Next
    <3>1. CASE x = None
      <4>1. Memory!Remove(f)
        BY <1>3, <2>1, <2>3, <3>1 DEF Memory!Remove, Results
      <4> QED BY <4>1 DEF Memory!Next
    <3>2. CASE x \in Stamp
      <4>1. Memory!Put(f, x)
        BY <1>3, <2>1, <2>3 DEF Memory!Put, Results
      <4> QED BY <3>2, <4>1 DEF Memory!Next
    <3> QED BY <3>1, <3>2
  <2>4. ASSUME NEW root \in SUBSET File, NEW keep \in SUBSET File,
               d.rows = [f \in File |-> IF f \in root \ keep THEN None ELSE c.rows[f]]
        PROVE  Memory!Next
    <3>1. Memory!Prune(root, keep)
      BY <1>3, <2>2, <2>4 DEF Memory!Prune, Results
    <3> QED BY <3>1 DEF Memory!Next
  <2> QED BY <1>3, <2>3, <2>4 DEF RowStep
<1>4. CASE d.rows = c.rows /\ d.scans = Window(d.next) /\ d.next = c.next + 1 /\ d.last = c.last
  <2>1. Results(d) = Results(c)
    BY <1>1, <1>4 DEF Results
  <2>2. History(d.scans) = Memory!Newest(Append(History(c.scans), c.next))
    BY <1>1, <1>4, HistoryGrows
  <2>3. Memory!AddScan
    BY <1>4, <2>1, <2>2 DEF Memory!AddScan, Results
  <2> QED BY <2>3 DEF Memory!Next
<1>5. CASE d.rows = c.rows /\ d.scans = c.scans /\ d.next = c.next /\ d.last \in 1 .. c.next - 1
  <2>1. Results(d) = Results(c)
    BY <1>1, <1>5 DEF Results
  <2> DEFINE id == d.last
  <2>2. Memory!SetLast(id) /\ id \in 1 .. Current.next - 1
    BY <1>5, <2>1 DEF Memory!SetLast, Results
  <2> QED BY <2>2 DEF Memory!Next
<1> QED BY <1>3, <1>4, <1>5 DEF Operation

\* The statements of the opening: the results go at once, or were gone.
LEMMA OpeningActs ==
  ASSUME Inv, Exact, NEW p \in Process, DropTable(p) \/ CreateTables(p) \/ SetVersion(p)
  PROVE  [Memory!Next]_(Memory!vars)
<1> DEFINE m == Mine(p)
<1>1. /\ pc[p] \in {"drop", "create", "stamp"} /\ UNCHANGED path
  BY DEF DropTable, CreateTables, SetVersion
<1>2. /\ m \in Content /\ m = file[conn[p]] /\ conn[p] \in 1 .. MaxFiles /\ ProcessInv(p)
      /\ FileExact(conn[p]) /\ Types
  BY <1>1, OpenedFacts DEF Inv, Exact
<1>3. CASE path # conn[p]
  <2>1. PICK c : file' = [file EXCEPT ![conn[p]] = c]
    BY DEF DropTable, CreateTables, SetVersion, Write
  <2>2. path # 0 => file'[path] = file[path]
    BY <1>2, <1>3, <2>1 DEF Types
  <2>3. Current' = Current
    BY <1>1, <2>2 DEF Current
  <2> QED BY <2>3, MemoryStutters
<1>4. CASE path = conn[p] /\ ~m.ok
  <2>1. PICK c : file' = [file EXCEPT ![conn[p]] = c] /\ ~c.ok
    <3>1. CASE DropTable(p)
      <4>1. AfterDrop(m).ok = m.ok
        BY <1>2 DEF AfterDrop, Content
      <4> QED BY <1>4, <3>1, <4>1 DEF DropTable, Write
    <3>2. CASE CreateTables(p)
      <4>1. [m EXCEPT !.table = IF @ = "none" THEN "new" ELSE @].ok = m.ok
        BY <1>2 DEF Content
      <4> QED BY <1>4, <3>2, <4>1 DEF CreateTables, Write
    <3>3. CASE SetVersion(p)
      <4>1. [m EXCEPT !.version = "new"].ok = m.ok
        BY <1>2 DEF Content
      <4> QED BY <1>4, <3>3, <4>1 DEF SetVersion, Write
    <3> QED BY <3>1, <3>2, <3>3
  <2>2. file'[path] = c /\ path' = path /\ path # 0 /\ ~file[path].ok
    BY <1>1, <1>2, <1>4, <2>1 DEF Types
  <2>3. Current' = Fresh /\ Current = Fresh
    BY <2>1, <2>2 DEF Current
  <2> QED BY <2>3, MemoryStutters
<1>5. CASE path = conn[p] /\ m.ok /\ DropTable(p)
  <2> DEFINE c == AfterDrop(m)
  <2>1. /\ c.rows = Empty /\ c.scans = m.scans /\ c.next = m.next /\ c.last = m.last
        /\ c.version = m.version /\ c.ok = m.ok
    BY <1>2 DEF AfterDrop, Content
  <2>2. file' = [file EXCEPT ![conn[p]] = c]
    BY <1>5 DEF DropTable, Write
  <2> HIDE DEF c
  <2>3. file'[path] = c /\ path' = path /\ path # 0
    BY <1>1, <1>2, <1>5, <2>2 DEF Types
  <2>4. Current' = c /\ Current = m
    BY <1>2, <1>5, <2>1, <2>3 DEF Current
  <2>5. Entry(None) = None
    BY Nothing DEF Entry
  <2>6. Results(c) = [f \in File |-> None]
    BY <2>1, <2>5 DEF Results, Empty
  <2>7. Results(c) = [f \in File |-> IF f \in File \ {} THEN None ELSE Results(m)[f]]
    BY <2>6
  <2>8. Memory!Prune(File, {})
    BY <2>1, <2>4, <2>7 DEF Memory!Prune, Results
  <2> QED BY <2>8 DEF Memory!Next
<1>6. CASE path = conn[p] /\ m.ok /\ CreateTables(p)
  <2> DEFINE c == [m EXCEPT !.table = IF @ = "none" THEN "new" ELSE @]
  <2>1. /\ c.rows = m.rows /\ c.scans = m.scans /\ c.next = m.next /\ c.last = m.last
        /\ c.version = m.version /\ c.ok = m.ok
    BY <1>2 DEF Content
  <2>2. file' = [file EXCEPT ![conn[p]] = c]
    BY <1>6 DEF CreateTables, Write
  <2> HIDE DEF c
  <2>3. file'[path] = c /\ path' = path /\ path # 0
    BY <1>1, <1>2, <1>6, <2>2 DEF Types
  <2>4. Current' = c /\ Current = m
    BY <1>2, <1>6, <2>1, <2>3 DEF Current
  <2>5. Results(c) = Results(m)
    BY <2>1 DEF Results
  <2> QED BY <2>1, <2>4, <2>5, MemoryStutters
<1>7. CASE path = conn[p] /\ m.ok /\ SetVersion(p)
  <2> DEFINE c == [m EXCEPT !.version = "new"]
  <2>1. /\ c.rows = m.rows /\ c.scans = m.scans /\ c.next = m.next /\ c.last = m.last
        /\ c.version = "new" /\ c.ok = m.ok
    BY <1>2 DEF Content
  <2>2. file' = [file EXCEPT ![conn[p]] = c]
    BY <1>7 DEF SetVersion, Write
  <2> HIDE DEF c
  <2>3. file'[path] = c /\ path' = path /\ path # 0
    BY <1>1, <1>2, <1>7, <2>2 DEF Types
  <2>4. Current' = c /\ Current = m
    BY <1>2, <1>7, <2>1, <2>3 DEF Current
  <2>5. m.version = "old" => m.rows = Empty
    BY <1>2, <1>7 DEF SetVersion, ProcessInv, FileExact
  <2>6. Entry(None) = None /\ m.version \in {"old", "new"}
    BY <1>2, Nothing DEF Entry, Content
  <2>7. Results(c) = Results(m)
    BY <2>1, <2>5, <2>6 DEF Results, Empty
  <2> QED BY <2>1, <2>4, <2>7, MemoryStutters
<1> HIDE DEF m
<1> QED BY <1>3, <1>4, <1>5, <1>6, <1>7

LEMMA CommitActs ==
  ASSUME Inv, Exact, NEW p \in Process, Commit(p)
  PROVE  [Memory!Next]_(Memory!vars)
<1> DEFINE m == Mine(p)
           d == draft[p]
<1>1. /\ m \in Content /\ d \in Content /\ m = file[conn[p]] /\ conn[p] \in 1 .. MaxFiles
      /\ m.scans = Window(m.next) /\ Operation(m, d) /\ m.version = "new" /\ Types
      /\ file' = [file EXCEPT ![conn[p]] = d] /\ path' = path
  BY OpenedFacts DEF Commit, Write, Inv, Types, Exact, FileExact, ProcessExact, ProcessInv, Opened
<1> HIDE DEF m, d
<1>2. CASE path # conn[p]
  <2>1. path # 0 => file'[path] = file[path]
    BY <1>1, <1>2 DEF Types
  <2>2. Current' = Current
    BY <1>1, <2>1 DEF Current
  <2> QED BY <2>2, MemoryStutters
<1>3. CASE path = conn[p]
  <2>1. file'[path] = d /\ path # 0 /\ d.ok = m.ok
    BY <1>1, <1>3 DEF Types, Operation
  <2>2. CASE m.ok
    <3>1. Current = m /\ Current' = d
      BY <1>1, <1>3, <2>1, <2>2 DEF Current
    <3> QED BY <1>1, <3>1, OperationActs
  <2>3. CASE ~m.ok
    <3>1. Current = Fresh /\ Current' = Fresh
      BY <1>1, <1>3, <2>1, <2>3 DEF Current
    <3> QED BY <3>1, MemoryStutters
  <2> QED BY <2>2, <2>3
<1> QED BY <1>2, <1>3

LEMMA StepActs ==
  ASSUME Inv, Exact, [Next]_vars
  PROVE  [Memory!Next]_(Memory!vars)
<1>1. Types /\ path \in Nat
  BY Limits DEF Inv, Types
<1>2. CASE UNCHANGED <<path, file>>
  <2>1. Current' = Current
    BY <1>2 DEF Current
  <2> QED BY <2>1, MemoryStutters
<1>3. ASSUME NEW p \in Process, Connect(p) PROVE [Memory!Next]_(Memory!vars)
  <2>1. CASE path # 0
    BY <1>2, <1>3, <2>1 DEF Connect
  <2>2. CASE path = 0
    <3>1. path' = 1 /\ file' = file /\ 1 \in 1 .. MaxFiles
      BY <1>3, <2>2, Limits DEF Connect
    <3>2. file[1] = Fresh
      BY <2>2, <3>1 DEF Exact, FileExact
    <3>3. Current = Fresh /\ Current' = Fresh
      BY <2>2, <3>1, <3>2, FreshExact DEF Current
    <3> QED BY <3>3, MemoryStutters
  <2> QED BY <2>1, <2>2
<1>4. ASSUME NEW p \in Process, Reset(p) PROVE [Memory!Next]_(Memory!vars)
  <2>1. path' = path + 1 /\ file' = file /\ path + 1 \in 1 .. MaxFiles /\ path + 1 > path
    BY <1>1, <1>4, Limits DEF Reset
  <2>2. file[path + 1] = Fresh
    BY <2>1 DEF Exact, FileExact
  <2>3. Current' = Fresh
    BY <1>1, <2>1, <2>2, FreshExact DEF Current
  <2> QED BY <2>3, FreshIsRenewed
<1>5. ASSUME NEW p \in Process, Opening(p) PROVE [Memory!Next]_(Memory!vars)
  <2>1. CASE ReadVersion(p) \/ FindDamage(p)
    BY <1>2, <2>1 DEF ReadVersion, FindDamage
  <2> QED BY <1>3, <1>4, <1>5, <2>1, OpeningActs DEF Opening
<1>6. ASSUME NEW p \in Process, Scanning(p) PROVE [Memory!Next]_(Memory!vars)
  <2>1. CASE Commit(p)
    BY <2>1, CommitActs
  <2>2. CASE ~Commit(p)
    <3>1. UNCHANGED <<path, file>>
      BY <1>6, <2>2 DEF Scanning, Get, Put, Prune, Forget, InsertScan, TrimScans, SetLast,
                        SkipLast, Begin
    <3> QED BY <1>2, <3>1
  <2> QED BY <2>1, <2>2
<1>7. CASE Damage
  <2>1. path # 0 /\ path \in 1 .. MaxFiles /\ path' = path
        /\ file' = [file EXCEPT ![path].ok = FALSE] /\ file[path] \in Content
    BY <1>1, <1>7 DEF Damage, Types
  <2>2. ~file'[path].ok
    BY <1>1, <2>1 DEF Types, Content
  <2>3. Current' = Fresh
    BY <2>1, <2>2 DEF Current
  <2> QED BY <2>3, FreshIsRenewed
<1>8. ASSUME NEW p \in Process, Close(p) PROVE [Memory!Next]_(Memory!vars)
  BY <1>2, <1>8 DEF Close
<1>9. CASE UNCHANGED vars
  BY <1>2, <1>9 DEF vars
<1> QED BY <1>5, <1>6, <1>7, <1>8, <1>9 DEF Next

(***************************************************************************)
(* The database acts as the store in memory does: every statement of every *)
(* process either shows nothing or completes one whole operation, although *)
(* add_scan trims by id where InMemoryStateStore trims by length, and      *)
(* although databases are rebuilt, damaged and replaced.                   *)
(***************************************************************************)
THEOREM DatabaseActsAsMemory == Spec => ActsAsMemory
<1>1. Spec => []Exact
  BY Correct, InitExact, NextExact, PTL DEF Spec
<1>2. Inv /\ Exact /\ [Next]_vars => [Memory!Next]_(Memory!vars)
  BY StepActs
<1> QED BY <1>1, <1>2, Correct, PTL DEF Spec, ActsAsMemory
=============================================================================
