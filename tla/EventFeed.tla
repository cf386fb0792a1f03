------------------------------ MODULE EventFeed ------------------------------
(* The live dashboard: the event bus (events.py), the event stream and the
   dashboard handler (web/routes/api.py), and the page that folds events into
   what it last fetched (hooks/use-events.ts).

   The daemon publishes on the event loop, where an event reaches every
   subscriber at once, and from the thread of a scan, where it waits for the
   loop.  A page has two channels: the stream, in order but lossy, and the reply
   to its request, which may be older than the events it overtakes.

   Log lines and changes of the configuration take the same way and only fill
   the queues. *)
EXTENDS Naturals, Sequences

CONSTANTS
    Page,         \* open pages of the web interface
    NoView,       \* nothing fetched yet
    QueueSize,    \* _SUBSCRIBER_QUEUE_SIZE
    MaxRequests, MaxProgress, MaxFailures  \* bounds: requests for scans, progress
                                            \* of a scan, lost connections

ASSUME QueueSizeAssumption == QueueSize \in Nat \ {0}

VARIABLES
    daemon,    \* what the snapshot shows
    worker,    \* idle, collecting requests or scanning
    thread,    \* events of the scan thread that wait for the loop
    down,      \* shutting down
    stream,    \* per page: closed, subscribed (before the hello), open
    queue,     \* per page: its subscriber queue
    fetch,     \* per page: no request, asked, or the snapshot of the answer
    view,      \* per page: its dashboard
    missed,    \* history, per page: its dashboard misses an event
    asked, lost  \* bounds: requests for scans, lost connections

vars == <<daemon, worker, thread, down, stream, queue, fetch, view, missed, asked, lost>>
served == <<daemon, worker, thread, down, asked>>
pages == <<stream, view>>

\* A page may count a request twice.
Snapshot == [scanning: BOOLEAN, progress: 0 .. MaxProgress, queued: 0 .. 2 * MaxRequests,
             last: 0 .. MaxRequests]
Event == [type: {"queued", "started", "progress", "finished", "skipped"},
          progress: 0 .. MaxProgress]
\* old: history, the page handled or missed an event since the answer.
Reply == [state: {"no", "asked"}] \union [state: {"answered"}, is: Snapshot, old: BOOLEAN]
NoFetch == [state |-> "no"]
Asked == [state |-> "asked"]

Init ==
    /\ daemon = [scanning |-> FALSE, progress |-> 0, queued |-> 0, last |-> 0]
    /\ worker = "idle" /\ thread = <<>> /\ down = FALSE
    /\ stream = [p \in Page |-> "closed"]
    /\ queue = [p \in Page |-> <<>>]
    /\ fetch = [p \in Page |-> Asked]
    /\ view = [p \in Page |-> NoView]
    /\ missed = [p \in Page |-> FALSE]
    /\ asked = 0 /\ lost = 0
----------------------------------------------------------------------------
(* The bus.  Definitions whose name ends in Bug are mutants of the definition
   after them. *)

Made(type, p) == [type |-> type, progress |-> p]
Subscribed(p) == stream[p] # "closed"
Takes(p) == Subscribed(p) /\ Len(queue[p]) < QueueSize

\* An answer under way that an event overtakes.
Older(f) == IF f.state = "answered" THEN [f EXCEPT !.old = TRUE] ELSE f

\* An event reaches every subscriber whose queue has room.
Deliver(e) ==
    /\ queue' = [p \in Page |-> IF Takes(p) THEN Append(queue[p], e) ELSE queue[p]]
    /\ missed' = [p \in Page |-> ~Takes(p) \/ missed[p]]
    /\ fetch' = [p \in Page |-> IF Takes(p) THEN fetch[p] ELSE Older(fetch[p])]

\* publish, on the event loop.
Publish(type) == Deliver(Made(type, 0))

DeliverThread ==
    /\ thread # <<>>
    /\ thread' = Tail(thread)
    /\ Deliver(Head(thread))
    /\ UNCHANGED <<daemon, worker, down, asked, lost, pages>>
----------------------------------------------------------------------------
(* The daemon. *)

RequestScan ==
    /\ ~down /\ asked < MaxRequests
    /\ asked' = asked + 1
    /\ daemon' = [daemon EXCEPT !.queued = @ + 1]
    /\ Publish("queued")
    /\ UNCHANGED <<worker, thread, down, lost, pages>>

\* The worker takes requests out of the queue until the debounce time is over.
Collect ==
    /\ worker \in {"idle", "collecting"} /\ daemon.queued > 0 /\ ~down
    /\ worker' = "collecting"
    /\ daemon' = [daemon EXCEPT !.queued = @ - 1]
    /\ UNCHANGED <<thread, down, queue, missed, fetch, asked, lost, pages>>

StartScan ==
    /\ worker = "collecting" /\ daemon.queued = 0 /\ ~down
    /\ worker' = "scanning"
    /\ daemon' = [daemon EXCEPT !.scanning = TRUE, !.progress = 0]
    /\ Publish("started")
    /\ UNCHANGED <<thread, down, asked, lost, pages>>

SkipScan ==
    /\ worker = "collecting" /\ daemon.queued = 0 /\ ~down
    /\ worker' = "idle"
    /\ Publish("skipped")
    /\ UNCHANGED <<daemon, thread, down, asked, lost, pages>>

\* on_progress, in the thread of the scan.
Progress ==
    /\ worker = "scanning" /\ daemon.progress < MaxProgress
    /\ daemon' = [daemon EXCEPT !.progress = @ + 1]
    /\ thread' = Append(thread, Made("progress", daemon'.progress))
    /\ UNCHANGED <<worker, down, queue, missed, fetch, asked, lost, pages>>

\* The runner stores its report before it returns.
Report ==
    /\ worker = "scanning"
    /\ worker' = "returned"
    /\ daemon' = [daemon EXCEPT !.last = @ + 1]
    /\ UNCHANGED <<thread, down, queue, missed, fetch, asked, lost, pages>>

FinishScanBug ==
    /\ worker = "returned"
    /\ worker' = "idle"
    /\ daemon' = [daemon EXCEPT !.scanning = FALSE, !.progress = 0]
    /\ Publish("finished")
    /\ UNCHANGED <<thread, down, asked, lost, pages>>
\* The loop hears of the end of the thread after the events of the thread.
FinishScan ==
    /\ worker = "returned" /\ thread = <<>>
    /\ worker' = "idle"
    /\ daemon' = [daemon EXCEPT !.scanning = FALSE, !.progress = 0]
    /\ Publish("finished")
    /\ UNCHANGED <<thread, down, asked, lost, pages>>

RequestShutdown ==
    /\ ~down
    /\ down' = TRUE
    /\ UNCHANGED <<daemon, worker, thread, queue, missed, fetch, asked, lost, pages>>
----------------------------------------------------------------------------
(* The stream. *)

\* The queue is there before the snapshot of the hello is taken.
Subscribe(p) ==
    /\ stream[p] = "closed" /\ ~down
    /\ stream' = [stream EXCEPT ![p] = "subscribed"]
    /\ queue' = [queue EXCEPT ![p] = <<>>]
    /\ missed' = [missed EXCEPT ![p] = view[p] = NoView]
    /\ UNCHANGED <<served, fetch, view, lost>>

\* The page replaces its dashboard, if it has one, by the snapshot.
Hello(p) ==
    /\ stream[p] = "subscribed"
    /\ stream' = [stream EXCEPT ![p] = "open"]
    /\ view' = [view EXCEPT ![p] = IF @ = NoView THEN NoView ELSE daemon]
    /\ fetch' = [fetch EXCEPT ![p] = Older(@)]
    /\ UNCHANGED <<served, queue, missed, lost>>

\* handle: what an event changes in the dashboard.
Fold(v, e) ==
    CASE e.type = "queued"   -> [v EXCEPT !.queued = @ + 1]
      [] e.type = "started"  -> [v EXCEPT !.scanning = TRUE, !.progress = 0, !.queued = 0]
      [] e.type = "progress" -> [v EXCEPT !.progress = e.progress]
      [] e.type = "finished" -> [v EXCEPT !.scanning = FALSE, !.progress = 0]
      [] e.type = "skipped"  -> [v EXCEPT !.queued = IF @ > 0 THEN @ - 1 ELSE 0]

\* The end of a scan makes the page ask again; an answer under way is ignored.
Receive(p) ==
    /\ stream[p] = "open" /\ queue[p] # <<>>
    /\ LET e == Head(queue[p]) IN
       /\ queue' = [queue EXCEPT ![p] = Tail(@)]
       /\ view' = IF view[p] = NoView THEN view ELSE [view EXCEPT ![p] = Fold(@, e)]
       /\ fetch' = [fetch EXCEPT ![p] = IF e.type = "finished" THEN Asked ELSE Older(@)]
    /\ UNCHANGED <<served, stream, missed, lost>>

\* The stream looks for the shutdown after every event and every keep-alive.
EndsBug == FALSE
Ends == down
EndStream(p) ==
    /\ Subscribed(p) /\ Ends
    /\ stream' = [stream EXCEPT ![p] = "closed"]
    /\ queue' = [queue EXCEPT ![p] = <<>>]
    /\ UNCHANGED <<served, fetch, view, missed, lost>>

\* The connections of a page are lost, also its request.
Disconnect(p) ==
    /\ lost < MaxFailures
    /\ lost' = lost + 1
    /\ stream' = [stream EXCEPT ![p] = "closed"]
    /\ queue' = [queue EXCEPT ![p] = <<>>]
    /\ fetch' = [fetch EXCEPT ![p] = NoFetch]
    /\ UNCHANGED <<served, view, missed>>
----------------------------------------------------------------------------
(* The requests of the dashboard. *)

PollBug(p) == FALSE /\ UNCHANGED vars
\* refetchInterval.
Poll(p) ==
    /\ fetch[p] = NoFetch /\ ~down
    /\ fetch' = [fetch EXCEPT ![p] = Asked]
    /\ UNCHANGED <<served, stream, queue, view, missed, lost>>

\* The handler waits for the statistics and then takes the snapshot.
Answer(p) ==
    /\ fetch[p].state = "asked" /\ ~down
    /\ fetch' = [fetch EXCEPT ![p] = [state |-> "answered", is |-> daemon, old |-> FALSE]]
    /\ UNCHANGED <<served, stream, queue, view, missed, lost>>

\* The reply replaces the dashboard, also if newer events came in the meantime.
Show(p) ==
    /\ fetch[p].state = "answered"
    /\ view' = [view EXCEPT ![p] = fetch[p].is]
    /\ missed' = [missed EXCEPT ![p] = fetch[p].old \/ (@ /\ queue[p] # <<>>)]
    /\ fetch' = [fetch EXCEPT ![p] = NoFetch]
    /\ UNCHANGED <<served, stream, queue, lost>>

Worker == Collect \/ StartScan \/ SkipScan \/ Progress \/ Report \/ FinishScan
Stream(p) == Hello(p) \/ Receive(p) \/ EndStream(p)
Request(p) == Poll(p) \/ Answer(p) \/ Show(p)

Next ==
    \/ RequestScan \/ Worker \/ DeliverThread \/ RequestShutdown
    \/ \E p \in Page : Subscribe(p) \/ Stream(p) \/ Request(p) \/ Disconnect(p)

\* The worker, the loop, the stream and the browser go on.
Fairness ==
    /\ WF_vars(Worker) /\ WF_vars(DeliverThread)
    /\ \A p \in Page : WF_vars(Stream(p)) /\ WF_vars(Subscribe(p)) /\ WF_vars(Request(p))

Spec == Init /\ [][Next]_vars
FairSpec == Spec /\ Fairness
----------------------------------------------------------------------------
(* Properties. *)

TypeOK ==
    /\ daemon \in Snapshot
    /\ worker \in {"idle", "collecting", "scanning", "returned"}
    /\ thread \in Seq(Event) /\ down \in BOOLEAN
    /\ stream \in [Page -> {"closed", "subscribed", "open"}]
    /\ queue \in [Page -> Seq(Event)] /\ fetch \in [Page -> Reply]
    /\ view \in [Page -> Snapshot \union {NoView}]
    /\ missed \in [Page -> BOOLEAN]
    /\ asked \in 0 .. MaxRequests /\ lost \in 0 .. MaxFailures

\* A page that handled every event it was sent shows the scan of now and its
\* progress, unless its dashboard misses an event: one its full queue dropped, or
\* one that overtook the reply it shows.
CaughtUpIsCurrent ==
    \A p \in Page :
        /\ stream[p] = "open" /\ view[p] # NoView
        /\ queue[p] = <<>> /\ thread = <<>> /\ ~missed[p]
        => /\ view[p].scanning = daemon.scanning
           /\ view[p].progress = daemon.progress

\* Whatever was dropped, overtaken or counted twice: once nothing happens any
\* more, every dashboard shows what the daemon has.
DashboardsConverge == <>down \/ <>[](\A p \in Page : view[p] = daemon)

\* A shutdown ends every stream: no page holds up the server.
StreamsEnd == down ~> \A p \in Page : stream[p] = "closed"
=============================================================================
