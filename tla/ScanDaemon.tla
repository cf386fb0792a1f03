----------------------------- MODULE ScanDaemon -----------------------------
(***************************************************************************)
(* The scan queue of `boomarr watch` (daemon.py) and the scan thread it    *)
(* starts (runner.py): requests are queued, debounced, merged into one     *)
(* scan, refused by the preflight or run in an executor thread over all    *)
(* libraries, then recorded and handed to the hooks.  A cancel and a       *)
(* shutdown may arrive at any moment.                                      *)
(*                                                                         *)
(* All actions but those of the thread run on the event loop; one action   *)
(* is the code between two awaits.                                         *)
(***************************************************************************)
EXTENDS Integers, Sequences, FiniteSets

CONSTANTS
  Request,     \* the scan requests that are made
  NotMade,     \* no request, or no scan
  Libraries    \* number of configured libraries

ASSUME LibrariesAssumption == Libraries \in Nat

Kind == [dry : BOOLEAN, force : BOOLEAN]

ASSUME NotMadeAssumption == NotMade \notin Kind

VARIABLES
  kind,        \* kind[r]: the dry_run and force of request r
  queue,       \* the asyncio queue
  batch,       \* requests taken from it in this debounce window
  worker,      \* where _worker is
  current,     \* the merged event of the running scan (current_scan)
  shutdown,    \* the shutdown event
  cancelled,   \* the cancel event handed to the scan thread
  run,         \* where the scan thread is
  lib,         \* libraries the thread is done with
  report,      \* the cancelled flag of the report
  lastScan,    \* requests of the scan stored as last scan
  hooked,      \* requests of scans whose hooks ran
  closed,      \* requests that were answered, refused or dropped
  aimed        \* somebody cancelled the running scan

loop   == <<kind, queue, batch, worker, current, shutdown>>
thread == <<run, lib, report, lastScan, hooked>>
vars   == <<kind, queue, batch, worker, current, shutdown, cancelled, run, lib,
            report, lastScan, hooked, closed, aimed>>

Members(seq) == {seq[i] : i \in DOMAIN seq}

Init ==
  /\ kind = [r \in Request |-> NotMade]
  /\ queue = <<>> /\ batch = <<>>
  /\ worker = "poll" /\ current = NotMade
  /\ shutdown = FALSE /\ cancelled = FALSE
  /\ run = "none" /\ lib = 0 /\ report = FALSE
  /\ lastScan = {} /\ hooked = {} /\ closed = {}
  /\ aimed = FALSE

-----------------------------------------------------------------------------
(***************************************************************************)
(* The event loop.                                                         *)
(***************************************************************************)
\* request_scan, also used by the schedule trigger
RequestScan(r, k) ==
  /\ worker # "stopped"
  /\ kind[r] = NotMade
  /\ kind' = [kind EXCEPT ![r] = k]
  /\ queue' = Append(queue, r)
  /\ UNCHANGED <<batch, worker, current, shutdown, cancelled, thread, closed, aimed>>

\* cancel_scan refuses when no scan runs.
CancelScan ==
  /\ worker = "scan"
  /\ cancelled' = TRUE /\ aimed' = TRUE
  /\ UNCHANGED <<loop, thread, closed>>

\* request_shutdown: a signal, or the web server that could not listen
RequestShutdown ==
  /\ worker # "stopped"
  /\ shutdown' = TRUE /\ cancelled' = TRUE
  /\ UNCHANGED <<kind, queue, batch, worker, current, thread, closed, aimed>>

\* Definitions whose name ends in Bug are mutants of the definition after them.
WaitEndsBug == FALSE

WaitEnds == shutdown

\* _next_event looks at the shutdown only between two waits of half a second.
Poll ==
  /\ worker = "poll"
  /\ IF WaitEnds
     THEN worker' = "stopped" /\ closed' = closed \cup Members(queue) /\ queue' = <<>>
     ELSE worker' = "wait" /\ UNCHANGED <<closed, queue>>
  /\ UNCHANGED <<kind, batch, current, shutdown, cancelled, thread, aimed>>

WaitTimeout ==
  /\ worker = "wait" /\ queue = <<>>
  /\ worker' = "poll"
  /\ UNCHANGED <<kind, queue, batch, current, shutdown, cancelled, thread, closed,
                 aimed>>

TakeBug ==
  /\ worker \in {"wait", "collect"} /\ queue # <<>>
  /\ batch' = <<Head(queue)>> /\ queue' = Tail(queue)
  /\ worker' = "collect"
  /\ UNCHANGED <<kind, current, shutdown, cancelled, thread, closed, aimed>>

\* One more request of the debounce window; the first one opens it.
Take ==
  /\ worker \in {"wait", "collect"} /\ queue # <<>>
  /\ batch' = Append(batch, Head(queue)) /\ queue' = Tail(queue)
  /\ worker' = "collect"
  /\ UNCHANGED <<kind, current, shutdown, cancelled, thread, closed, aimed>>

\* merge_events
DecidingBug(events) == events

Deciding(events) ==
  LET real == {r \in events : ~kind[r].dry} IN IF real = {} THEN events ELSE real

Merge(events) ==
  [dry   |-> \A r \in events : kind[r].dry,
   force |-> \E r \in Deciding(events) : kind[r].force]

StopsBug == FALSE

\* The worker looks at the shutdown again after the debounce window.
Stops == shutdown

ClearedBug(flag) == flag

\* _run_scan clears the cancel event of an earlier scan.
Cleared(flag) == FALSE

\* The window closes while the daemon shuts down.
GiveUp ==
  /\ worker = "collect" /\ Stops
  /\ worker' = "stopped"
  /\ closed' = closed \cup Members(batch) \cup Members(queue)
  /\ batch' = <<>> /\ queue' = <<>>
  /\ UNCHANGED <<kind, current, shutdown, cancelled, thread, aimed>>

\* The window closes and the preflight refuses the scan.
SkipScan ==
  /\ worker = "collect" /\ ~Stops
  /\ worker' = "poll"
  /\ closed' = closed \cup Members(batch) /\ batch' = <<>>
  /\ UNCHANGED <<kind, queue, current, shutdown, cancelled, thread, aimed>>

\* The window closes and the scan thread is started.
StartScan ==
  /\ worker = "collect" /\ ~Stops
  /\ worker' = "scan"
  /\ current' = Merge(Members(batch))
  /\ cancelled' = Cleared(cancelled) /\ aimed' = FALSE
  /\ run' = "libs" /\ lib' = 0
  /\ UNCHANGED <<kind, queue, batch, shutdown, report, lastScan, hooked, closed>>

\* The executor's future is resolved: the finally block of _run_scan.
EndScan ==
  /\ worker = "scan" /\ run = "done"
  /\ worker' = "poll" /\ current' = NotMade /\ run' = "none"
  /\ closed' = closed \cup Members(batch) /\ batch' = <<>>
  /\ aimed' = FALSE
  /\ UNCHANGED <<kind, queue, shutdown, cancelled, lib, report, lastScan,
                 hooked>>

-----------------------------------------------------------------------------
(***************************************************************************)
(* The scan thread: ScanRunner.run.                                        *)
(***************************************************************************)
ThreadFrame == UNCHANGED <<loop, cancelled, closed, aimed>>

AllDone == lib = Libraries

\* scan_libraries asks for the cancel before every library.
BeginLibrary ==
  /\ run = "libs"
  /\ run' = IF AllDone \/ cancelled THEN "report" ELSE "library"
  /\ UNCHANGED <<lib, report, lastScan, hooked>>
  /\ ThreadFrame

\* A library ends: done, interrupted, or with an exception that drops its result.
EndLibrary ==
  /\ run = "library"
  /\ run' = "libs" /\ lib' = lib + 1
  /\ UNCHANGED <<report, lastScan, hooked>>
  /\ ThreadFrame

MakeReport ==
  /\ run = "report"
  /\ run' = "record" /\ report' = cancelled
  /\ UNCHANGED <<lib, lastScan, hooked>>
  /\ ThreadFrame

RecordsBug == TRUE

\* _record: the last scan is a real one that was not cancelled
Records == ~current.dry /\ ~report

Record ==
  /\ run = "record"
  /\ run' = "hooks"
  /\ lastScan' = IF Records THEN Members(batch) ELSE lastScan
  /\ UNCHANGED <<lib, report, hooked>>
  /\ ThreadFrame

\* The database raises: the scan is not stored, and the hooks follow all the same.
RecordFails ==
  /\ run = "record"
  /\ run' = "hooks"
  /\ UNCHANGED <<lib, report, lastScan, hooked>>
  /\ ThreadFrame

RunsHooksBug == ~current.dry

\* The cancel event is read once more, after the report was made.
RunsHooks == ~cancelled /\ ~current.dry

RunHooks ==
  /\ run = "hooks"
  /\ run' = "done"
  /\ hooked' = IF RunsHooks THEN hooked \cup Members(batch) ELSE hooked
  /\ UNCHANGED <<lib, report, lastScan>>
  /\ ThreadFrame

-----------------------------------------------------------------------------
Ending == GiveUp \/ SkipScan \/ StartScan

Worker == Poll \/ WaitTimeout \/ Take \/ Ending \/ EndScan

Thread ==
  BeginLibrary \/ EndLibrary \/ MakeReport \/ Record \/ RecordFails \/ RunHooks

Next ==
  \/ Worker \/ Thread
  \/ \E r \in Request, k \in Kind : RequestScan(r, k)
  \/ CancelScan \/ RequestShutdown

Spec == Init /\ [][Next]_vars

\* The loop runs, the debounce window closes, and a scan thread is never
\* stalled for ever: probes and hooks have time limits.
FairSpec == Spec /\ WF_vars(Worker) /\ WF_vars(Ending) /\ WF_vars(Thread)

-----------------------------------------------------------------------------
(***************************************************************************)
(* Properties.                                                             *)
(***************************************************************************)
\* Every variable keeps its shape.
TypeOK ==
  /\ kind \in [Request -> Kind \cup {NotMade}]
  /\ queue \in Seq(Request) /\ batch \in Seq(Request)
  /\ worker \in {"poll", "wait", "collect", "scan", "stopped"}
  /\ current \in Kind \cup {NotMade}
  /\ shutdown \in BOOLEAN /\ cancelled \in BOOLEAN
  /\ run \in {"none", "libs", "library", "report", "record", "hooks", "done"}
  /\ lib \in 0 .. Libraries
  /\ report \in BOOLEAN /\ aimed \in BOOLEAN
  /\ lastScan \subseteq Request /\ hooked \subseteq Request
  /\ closed \subseteq Request

\* The queue, the window and the merge keep the promise of ScanService: every
\* request is answered once, by a scan that starts after it, real if one of
\* them is real, forced only if a request that decides asked for it
\* (request_scan, _collect, merge_events, _run_scan).
Service == INSTANCE ScanService WITH
  pending <- Members(queue) \cup (IF worker = "scan" THEN {} ELSE Members(batch)),
  active  <- IF worker = "scan" THEN Members(batch) ELSE {},
  running <- current

ServiceSpec == Service!Spec

\* A shutdown reaches the scan thread: clearing the cancel event of the last
\* scan never loses the one a shutdown has set (_worker, _run_scan,
\* request_shutdown).
ShutdownCancels == shutdown /\ worker = "scan" => cancelled

\* A running scan sees a cancel only if it was meant for it: one that arrives
\* late for a scan does not stop the next (cancel_scan, _run_scan).
CancelIsAimed == worker = "scan" /\ cancelled => aimed \/ shutdown

\* A scan stored as the last scan went through every library (_record,
\* scan_libraries).
LastScanComplete ==
  run \in {"hooks", "done"} /\ lastScan = Members(batch) => lib = Libraries

\* Hooks and metrics are run only for real scans that went through every library,
\* stored or not, although the cancel event is read before each library, for the
\* report and for the hooks (scan_libraries, ScanRunner.run, _record).
HookedIsComplete ==
  run = "done" /\ Members(batch) \subseteq hooked => lib = Libraries /\ ~current.dry

\* Every request is answered by a scan, refused by the preflight or dropped by
\* a shutdown; it is never forgotten in the queue.
EveryRequestCloses == \A r \in Request : kind[r] # NotMade ~> r \in closed

\* A shutdown ends the worker.
ShutdownStops == shutdown ~> worker = "stopped"

-----------------------------------------------------------------------------
\* daemon.py:53-54 (merge_events): "`force` is kept if any of the merged
\* requests asked for it".  That of a dry run merged with a real one is not.
ForceKept ==
  worker = "scan" => (current.force <=> \E r \in Members(batch) : kind[r].force)
=============================================================================
