---------------------------- MODULE ScanService ----------------------------
(***************************************************************************)
(* What the watch daemon promises to those who ask for a scan, without its *)
(* queue, its debounce window and its threads: every request is taken into *)
(* one scan that starts after it, requests may share a scan, a real request *)
(* is never answered by a dry run, and the removal guard is bypassed only   *)
(* when a request of the kind that runs asked for it.                      *)
(***************************************************************************)
CONSTANTS
  Request,   \* the scan requests (API, web hook, schedule), each made once
  NotMade    \* not a kind: that of a request that was not made yet

Kind == [dry : BOOLEAN, force : BOOLEAN]

VARIABLES
  kind,      \* kind[r]: what request r asked for
  pending,   \* requests waiting for a scan
  active,    \* requests the running scan answers
  running,   \* the kind of the running scan, or NotMade
  closed     \* requests answered, refused by the preflight or dropped at the end

vars == <<kind, pending, active, running, closed>>

Init ==
  /\ kind = [r \in Request |-> NotMade]
  /\ pending = {} /\ active = {} /\ closed = {}
  /\ running = NotMade

Ask(r, k) ==
  /\ kind[r] = NotMade
  /\ kind' = [kind EXCEPT ![r] = k]
  /\ pending' = pending \cup {r}
  /\ UNCHANGED <<active, running, closed>>

\* Dry runs count only when nobody asked for a real scan.
Deciding(batch) ==
  LET real == {r \in batch : ~kind[r].dry} IN IF real = {} THEN batch ELSE real

Merged(batch) ==
  [dry   |-> \A r \in batch : kind[r].dry,
   force |-> \E r \in Deciding(batch) : kind[r].force]

Start(batch) ==
  /\ running = NotMade
  /\ pending' = pending \ batch /\ active' = batch
  /\ running' = Merged(batch)
  /\ UNCHANGED <<kind, closed>>

Finish ==
  /\ running # NotMade
  /\ closed' = closed \cup active /\ active' = {}
  /\ running' = NotMade
  /\ UNCHANGED <<kind, pending>>

\* The preflight refuses a scan, or the daemon ends.
Drop(batch) ==
  /\ running = NotMade
  /\ pending' = pending \ batch /\ closed' = closed \cup batch
  /\ UNCHANGED <<kind, active, running>>

Next ==
  \/ \E r \in Request, k \in Kind : Ask(r, k)
  \/ \E batch \in (SUBSET pending) \ {{}} : Start(batch) \/ Drop(batch)
  \/ Finish

Spec == Init /\ [][Next]_vars
=============================================================================
