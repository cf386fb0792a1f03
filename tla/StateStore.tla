----------------------------- MODULE StateStore -----------------------------
(* The SQLite store (state.py, SQLiteStateStore) as the daemon and the commands
   `scan` and `status` use one database at the same time: opening, recovery of
   a corrupt file, rebuild of an outdated schema, and every operation statement
   by statement with its commit.  A process may be killed between any two.

   A connection belongs to the file it was opened on, also after another
   process deleted that file.  SQLite lets one process at a time write and
   drops what was not committed; a commit is atomic.  An operation that fails
   (its table was dropped by another process that opens the database) changes
   nothing. *)
EXTENDS Naturals, FiniteSets, FiniteSetsExt, SequencesExt

CONSTANTS
    File, Stamp, None, Limit,  \* as in MemoryStore
    Process,    \* the daemon and commands
    Unreadable, \* a row whose tracks cannot be decoded
    MaxFiles, MaxScans  \* bounds: files at the path one after another, scans per file

ASSUME Limits == Limit \in Nat \ {0} /\ MaxFiles \in Nat \ {0} /\ MaxScans \in Nat \ {0}
ASSUME Nothing == /\ None \notin Stamp \union Process \union File \union 1 .. MaxScans
                  /\ Unreadable \notin Stamp \union {None}

Row == Stamp \union {None, Unreadable}
Schemas == {"none", "old", "new"}
FileId == 0 .. MaxFiles

VARIABLES
    path,   \* the file that has the name of the database, 0 if none has
    file,   \* contents of the files: what is committed
    conn,   \* per process: the file its connection is on, 0 if closed
    pc,     \* per process: what it does
    draft,  \* per process: contents with the statements of its transaction
    arg,    \* per process: the file its lookup missed, or the id of its scan
    acked   \* history, per file: ids that add_scan returned

vars == <<path, file, conn, pc, draft, arg, acked>>

Content == [rows: [File -> Row], scans: SUBSET (1 .. MaxScans), next: 1 .. MaxScans + 1,
            last: 0 .. MaxScans, table: Schemas, version: {"old", "new"}, ok: BOOLEAN]

Empty == [f \in File |-> None]
\* A database that was just created; user_version is 0, so outdated.
Fresh == [rows |-> Empty, scans |-> {}, next |-> 1, last |-> 0,
          table |-> "none", version |-> "old", ok |-> TRUE]

\* At first there is no database, or one of this version or an older one, with
\* rows and a scan.
Init ==
    /\ path \in {0, 1}
    /\ \E r \in [File -> Row], v \in {"old", "new"} :
         file = [i \in 1 .. MaxFiles |->
            IF i = 1 /\ path = 1 THEN [Fresh EXCEPT !.rows = r, !.table = v, !.version = v,
                                       !.scans = {1}, !.next = 2, !.last = 1]
            ELSE Fresh]
    /\ conn = [p \in Process |-> 0]
    /\ pc = [p \in Process |-> "closed"]
    /\ draft = [p \in Process |-> Fresh]
    /\ arg = [p \in Process |-> None]
    /\ acked = [i \in 1 .. MaxFiles |-> IF i = path THEN {1} ELSE {}]
----------------------------------------------------------------------------
(* Opening.  Definitions whose name ends in Bug are mutants of the definition
   after them. *)

\* _open_or_reset without a file at the path, or with one that passes.
Connect(p) ==
    /\ pc[p] = "closed"
    /\ path # 0 \/ path < MaxFiles
    /\ path # 0 => file[path].ok
    /\ path' = IF path = 0 THEN 1 ELSE path
    /\ conn' = [conn EXCEPT ![p] = path']
    /\ pc' = [pc EXCEPT ![p] = "version"]
    /\ UNCHANGED <<file, draft, arg, acked>>

\* Any sqlite3.DatabaseError while the file is opened and checked: it is damaged,
\* or it is intact but locked for too long or unreadable for the moment.
FindDamage(p) ==
    /\ pc[p] = "closed" /\ path # 0
    /\ pc' = [pc EXCEPT ![p] = "reset"]
    /\ UNCHANGED <<path, file, conn, draft, arg, acked>>

\* Whatever file has the name by now is deleted, with its -wal, -shm and
\* -journal, and a new one is created.
Reset(p) ==
    /\ pc[p] = "reset" /\ path < MaxFiles
    /\ path' = path + 1
    /\ conn' = [conn EXCEPT ![p] = path + 1]
    /\ pc' = [pc EXCEPT ![p] = "version"]
    /\ UNCHANGED <<file, draft, arg, acked>>

\* Nobody else writes into p's file.
MayWrite(p) == \A q \in Process \ {p} : pc[q] \in {"added", "write"} => conn[q] # conn[p]
Mine(p) == file[conn[p]]
Write(p, c) == file' = [file EXCEPT ![conn[p]] = c]
Goto(p, l) == pc' = [pc EXCEPT ![p] = l]

\* _check_schema_version: the table of another version is dropped, the tables
\* are created, the version is set.  Each statement commits by itself.
AfterDrop(c) == [c EXCEPT !.rows = Empty, !.table = "none"]

ReadVersion(p) ==
    /\ pc[p] = "version"
    /\ Goto(p, IF Mine(p).version = "new" THEN "create" ELSE "drop")
    /\ UNCHANGED <<path, file, conn, draft, arg, acked>>

DropTable(p) ==
    /\ pc[p] = "drop" /\ MayWrite(p)
    /\ Write(p, AfterDrop(Mine(p)))
    /\ Goto(p, "create")
    /\ UNCHANGED <<path, conn, draft, arg, acked>>

CreateTables(p) ==
    /\ pc[p] = "create" /\ MayWrite(p)
    /\ Write(p, [Mine(p) EXCEPT !.table = IF @ = "none" THEN "new" ELSE @])
    /\ Goto(p, "stamp")
    /\ UNCHANGED <<path, conn, draft, arg, acked>>

SetVersion(p) ==
    /\ pc[p] = "stamp" /\ MayWrite(p)
    /\ Write(p, [Mine(p) EXCEPT !.version = "new"])
    /\ Goto(p, "ready")
    /\ UNCHANGED <<path, conn, draft, arg, acked>>
----------------------------------------------------------------------------
(* Operations.  A transaction begins with the first statement that writes. *)

Begin(p, c, l) ==
    /\ MayWrite(p)
    /\ draft' = [draft EXCEPT ![p] = c]
    /\ Goto(p, l)
    /\ UNCHANGED <<path, file, conn, acked>>

HasTable(p) == Mine(p).table # "none"

\* get finds the row of this stat: it is returned.  Otherwise the row, if there
\* is one, is deleted by a second statement.
Get(p, f, s) ==
    /\ pc[p] = "ready" /\ HasTable(p)
    /\ Mine(p).rows[f] \notin {None, s}
    /\ Goto(p, "missed")
    /\ arg' = [arg EXCEPT ![p] = f]
    /\ UNCHANGED <<path, file, conn, draft, acked>>

Forget(p) ==
    /\ pc[p] = "missed" /\ HasTable(p)
    /\ Begin(p, [Mine(p) EXCEPT !.rows[arg[p]] = None], "write")
    /\ arg' = [arg EXCEPT ![p] = None]

Put(p, f, s) ==
    /\ pc[p] = "ready" /\ HasTable(p)
    /\ Begin(p, [Mine(p) EXCEPT !.rows[f] = s], "write")
    /\ UNCHANGED arg

Prune(p, root, keep) ==
    /\ pc[p] = "ready"
    /\ \E f \in root \ keep : Mine(p).rows[f] # None
    /\ Begin(p, [Mine(p) EXCEPT !.rows =
                   [f \in File |-> IF f \in root \ keep THEN None ELSE @[f]]], "write")
    /\ UNCHANGED arg

\* add_scan: insert with the next id, delete by id, commit.
InsertScan(p) ==
    /\ pc[p] = "ready" /\ Mine(p).next <= MaxScans
    /\ Begin(p, [Mine(p) EXCEPT !.scans = @ \union {Mine(p).next}, !.next = @ + 1], "added")
    /\ arg' = [arg EXCEPT ![p] = Mine(p).next]

KeptBug(ids, id) == {i \in ids : i + Limit > id + 1}
Kept(ids, id) == {i \in ids : i + Limit > id}

TrimScans(p) ==
    /\ pc[p] = "added"
    /\ draft' = [draft EXCEPT ![p].scans = Kept(@, arg[p])]
    /\ Goto(p, "write")
    /\ UNCHANGED <<path, file, conn, arg, acked>>

\* The lookup is over; a scan has its id.
CommitBug(p) ==
    /\ pc[p] = "write"
    /\ Goto(p, IF arg[p] = None THEN "ready" ELSE "stored")
    /\ acked' = [acked EXCEPT ![conn[p]] = IF arg[p] = None THEN @ ELSE @ \union {arg[p]}]
    /\ UNCHANGED <<path, file, conn, draft, arg>>
Commit(p) ==
    /\ pc[p] = "write"
    /\ Write(p, draft[p])
    /\ Goto(p, IF arg[p] = None THEN "ready" ELSE "stored")
    /\ acked' = [acked EXCEPT ![conn[p]] = IF arg[p] = None THEN @ ELSE @ \union {arg[p]}]
    /\ UNCHANGED <<path, conn, draft, arg>>

\* ScanRunner._record goes on with set_meta; a dry run or a cancelled scan does
\* not.
SetLast(p) ==
    /\ pc[p] = "stored"
    /\ Begin(p, [Mine(p) EXCEPT !.last = arg[p]], "write")
    /\ arg' = [arg EXCEPT ![p] = None]

SkipLast(p) ==
    /\ pc[p] = "stored"
    /\ Goto(p, "ready")
    /\ arg' = [arg EXCEPT ![p] = None]
    /\ UNCHANGED <<path, file, conn, draft, acked>>

\* close, and a kill at any moment: what is not committed is gone.
Close(p) ==
    /\ pc[p] # "closed"
    /\ conn' = [conn EXCEPT ![p] = 0]
    /\ Goto(p, "closed")
    /\ arg' = [arg EXCEPT ![p] = None]
    /\ draft' = [draft EXCEPT ![p] = Fresh]
    /\ UNCHANGED <<path, file, acked>>

\* The disk damages the file; nothing can be read or written any more.
Damage ==
    /\ path # 0 /\ file[path].ok
    /\ \A p \in Process : conn[p] # path
    /\ file' = [file EXCEPT ![path].ok = FALSE]
    /\ UNCHANGED <<path, conn, pc, draft, arg, acked>>

Opening(p) == Connect(p) \/ FindDamage(p) \/ Reset(p) \/ ReadVersion(p) \/ DropTable(p) \/ CreateTables(p) \/ SetVersion(p)
Scanning(p) ==
    \/ \E f \in File, s \in Stamp : Get(p, f, s) \/ Put(p, f, s)
    \/ \E root, keep \in SUBSET File : Prune(p, root, keep)
    \/ Forget(p) \/ InsertScan(p) \/ TrimScans(p) \/ Commit(p) \/ SetLast(p) \/ SkipLast(p)

Next == \/ \E p \in Process : Opening(p) \/ Scanning(p) \/ Close(p)
        \/ Damage

Spec == Init /\ [][Next]_vars
----------------------------------------------------------------------------
(* Properties. *)

TypeOK ==
    /\ path \in FileId
    /\ file \in [1 .. MaxFiles -> Content]
    /\ conn \in [Process -> FileId]
    /\ pc \in [Process -> {"closed", "reset", "version", "drop", "create", "stamp", "ready", "missed",
                           "added", "write", "stored"}]
    /\ draft \in [Process -> Content]
    /\ arg \in [Process -> File \union 1 .. MaxScans \union {None}]
    /\ acked \in [1 .. MaxFiles -> SUBSET (1 .. MaxScans)]

\* The database that is found at the path, as a store in memory would hold it.
\* A damaged file holds nothing, and rows of another schema are not there.
Current == IF path # 0 /\ file[path].ok THEN file[path] ELSE Fresh
Entry(r) == IF r \in Stamp THEN r ELSE None
\* The ids of the history, oldest first.
History(ids) == CHOOSE s \in SetToSeqs(ids) : \A i, j \in 1 .. Len(s) : i < j => s[i] < s[j]
Memory == INSTANCE MemoryStore WITH
    entries <- [f \in File |-> IF Current.version = "new" THEN Entry(Current.rows[f]) ELSE None],
    scans <- History(Current.scans),
    next <- Current.next,
    last <- Current.last

\* Whatever the processes interleave and wherever they are killed, the database
\* changes only as a store in memory does: whole operations, and a history
\* that is trimmed by id as if it were trimmed by length.
ActsAsMemory == [][Memory!Next]_(Memory!vars)

\* A scan whose id was handed out is in the history until Limit newer ones are,
\* and so is the last full scan.
ReportedScansAreStored ==
    \A i \in 1 .. MaxFiles : \A id \in acked[i] \union ({file[i].last} \ {0}) :
        id + Limit >= file[i].next => id \in file[i].scans

\* Rows that are read were written by this version.
RowsMatchSchema ==
    /\ \A i \in 1 .. MaxFiles : file[i].version = "new" => file[i].table # "old"
    /\ \A p \in Process : pc[p] = "ready" => Mine(p).version = "new"
\* What is in the database can be relied on after a kill at any statement.
DatabaseIsSound == ReportedScansAreStored /\ RowsMatchSchema
=============================================================================
