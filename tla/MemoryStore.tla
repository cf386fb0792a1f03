---------------------------- MODULE MemoryStore ----------------------------
(* What a state store promises (state.py, StateStore), as the in-memory store
   keeps it: probe results per file with the stat they belong to, the newest
   scans of the history with rising ids, and the id of the last full scan.
   Every operation is one step under a lock.

   A probe result is represented by the stat it was made from. *)
EXTENDS Naturals, Sequences

CONSTANTS
    File,    \* media files
    Stamp,   \* results of stat: size and mtime
    None,    \* no entry
    Limit    \* SCAN_HISTORY_LIMIT

VARIABLES
    entries,  \* _entries: per file the stat of its probe result, or None
    scans,    \* _scans: ids, oldest first
    next,     \* _next_scan_id
    last      \* _meta[LAST_SCAN_KEY]: id of the last full scan, 0 if none

vars == <<entries, scans, next, last>>

Init ==
    /\ entries = [f \in File |-> None]
    /\ scans = <<>> /\ next = 1 /\ last = 0

Newest(s) == SubSeq(s, IF Len(s) > Limit THEN Len(s) - Limit + 1 ELSE 1, Len(s))

Put(f, s) ==
    /\ entries' = [entries EXCEPT ![f] = s]
    /\ UNCHANGED <<scans, next, last>>

\* remove, and get with another stat than the stored one.
Remove(f) ==
    /\ entries' = [entries EXCEPT ![f] = None]
    /\ UNCHANGED <<scans, next, last>>

Prune(root, keep) ==
    /\ entries' = [f \in File |-> IF f \in root \ keep THEN None ELSE entries[f]]
    /\ UNCHANGED <<scans, next, last>>

AddScan ==
    /\ scans' = Newest(Append(scans, next))
    /\ next' = next + 1
    /\ UNCHANGED <<entries, last>>

SetLast(id) ==
    /\ id \in 1 .. next - 1
    /\ last' = id
    /\ UNCHANGED <<entries, scans, next>>

\* A new store object: nothing is kept.
Renew ==
    /\ entries' = [f \in File |-> None]
    /\ scans' = <<>> /\ next' = 1 /\ last' = 0

Next ==
    \/ \E f \in File : Remove(f) \/ \E s \in Stamp : Put(f, s)
    \/ \E root, keep \in SUBSET File : Prune(root, keep)
    \/ AddScan \/ Renew
    \/ \E id \in 1 .. next - 1 : SetLast(id)

Spec == Init /\ [][Next]_vars
=============================================================================
