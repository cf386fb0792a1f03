--------------------------- MODULE EventFeedProofs ---------------------------
(***************************************************************************)
(* A dashboard that has caught up, in EventFeed, for any number of pages,  *)
(* scans and events and a queue of any size.                               *)
(*                                                                         *)
(* The events still to come need not be folded one after another to tell   *)
(* where they lead: the last event that tells whether a scan runs, and the *)
(* last that tells its progress, say it all.  So the invariant has two     *)
(* parts.  The last such event of a queue that missed none agrees with the *)
(* daemon; and if the queue holds none, the dashboard (or the reply under  *)
(* way) agrees with the daemon already.                                    *)
(***************************************************************************)
EXTENDS EventFeed, TLAPS

Message == [type: {"queued", "started", "progress", "finished", "skipped"}, progress: Nat]
Dashboard == [scanning: BOOLEAN, progress: Nat, queued: Nat, last: Nat]

\* The events that tell whether a scan runs, and what they tell.
ScanTypes == {"started", "finished"}
Runs == [e \in Message |-> e.type = "started"]

\* The events that tell the progress of a scan, and what they tell.
CountTypes == {"started", "progress", "finished"}
Told == [e \in Message |-> IF e.type = "progress" THEN e.progress ELSE 0]

\* The last event of a queue whose type is one of types tells x.
Tells(q, types, told, x) ==
    \A i \in 1 .. Len(q) :
        q[i].type \in types /\ (\A j \in i + 1 .. Len(q) : q[j].type \notin types)
        => told[q[i]] = x

\* No event of a queue is of these types.
Silent(q, types) == \A i \in 1 .. Len(q) : q[i].type \notin types

\* Queue q leads to the daemon d whose thread has sent t.
Tracks(q, d, t) ==
    /\ Tells(q, ScanTypes, Runs, d.scanning)
    /\ t = <<>> => Tells(q, CountTypes, Told, d.progress)

\* Where queue q tells nothing, dashboard v shows that daemon already.
Fits(v, q, d, t) ==
    /\ Silent(q, ScanTypes) => v.scanning = d.scanning
    /\ t = <<>> /\ Silent(q, CountTypes) => v.progress = d.progress

Shapes ==
    /\ daemon \in Dashboard
    /\ thread \in Seq(Message)
    /\ stream \in [Page -> {"closed", "subscribed", "open"}]
    /\ queue \in [Page -> Seq(Message)]
    /\ fetch \in [Page -> [state: {"no", "asked"}]
                          \union [state: {"answered"}, is: Dashboard, old: BOOLEAN]]
    /\ view \in [Page -> Dashboard \union {NoView}]
    /\ missed \in [Page -> BOOLEAN]

\* The scan thread sends nothing but its progress, and nothing once it is over.
ThreadTells ==
    /\ \A i \in 1 .. Len(thread) : thread[i].type = "progress"
    /\ thread # <<>> => thread[Len(thread)].progress = daemon.progress
    /\ thread # <<>> => worker \in {"scanning", "returned"}

\* A reply under way that will make the dashboard of p current.
Promising(p) ==
    /\ fetch[p].state = "answered" /\ ~fetch[p].old
    /\ ~missed[p] \/ queue[p] = <<>>

Caught(p) ==
    /\ stream[p] = "closed" => queue[p] = <<>>
    /\ ~missed[p] => Tracks(queue[p], daemon, thread)
    /\ stream[p] = "open" /\ view[p] # NoView /\ ~missed[p]
       => Fits(view[p], queue[p], daemon, thread)
    /\ stream[p] = "open" /\ Promising(p)
       => Fits(fetch[p].is, queue[p], daemon, thread)

FeedInv == Shapes /\ ThreadTells /\ \A p \in Page : Caught(p)

----------------------------------------------------------------------------
(***************************************************************************)
(* Queues.                                                                 *)
(***************************************************************************)
LEMMA EmptyTells ==
    /\ Silent(<<>>, ScanTypes) /\ Silent(<<>>, CountTypes)
    /\ \A types, told, x : Tells(<<>>, types, told, x)
BY DEF Silent, Tells

\* What an event at the end of a queue changes.
LEMMA AppendTells ==
    ASSUME NEW q \in Seq(Message), NEW e \in Message, NEW types, NEW told, NEW x
    PROVE  /\ e.type \in types => /\ Tells(Append(q, e), types, told, told[e])
                                  /\ ~Silent(Append(q, e), types)
           /\ e.type \notin types => /\ Tells(q, types, told, x)
                                        => Tells(Append(q, e), types, told, x)
                                     /\ Silent(Append(q, e), types) <=> Silent(q, types)
<1> DEFINE r == Append(q, e)
<1>1. /\ Len(q) \in Nat /\ Len(r) = Len(q) + 1 /\ r[Len(q) + 1] = e
      /\ \A i \in 1 .. Len(q) : r[i] = q[i]
  OBVIOUS
<1> HIDE DEF r
<1>2. ASSUME e.type \in types
      PROVE  Tells(r, types, told, told[e]) /\ ~Silent(r, types)
  <2>1. ASSUME NEW i \in 1 .. Len(r), \A j \in i + 1 .. Len(r) : r[j].type \notin types
        PROVE  r[i] = e
    <3>1. i = Len(q) + 1 \/ Len(q) + 1 \in i + 1 .. Len(r)
      BY <1>1
    <3> QED BY <1>1, <1>2, <2>1, <3>1
  <2>2. Len(q) + 1 \in 1 .. Len(r)
    BY <1>1
  <2> QED BY <1>1, <1>2, <2>1, <2>2 DEF Tells, Silent
<1>3. ASSUME e.type \notin types
      PROVE  /\ Tells(q, types, told, x) => Tells(r, types, told, x)
             /\ Silent(r, types) <=> Silent(q, types)
  <2>1. \A i \in 1 .. Len(r) : i \in 1 .. Len(q) \/ i = Len(q) + 1
    BY <1>1
  <2>2. \A i \in 1 .. Len(q) : i \in 1 .. Len(r)
    BY <1>1
  <2>3. Silent(r, types) <=> Silent(q, types)
    BY <1>1, <1>3, <2>1, <2>2 DEF Silent
  <2>4. ASSUME Tells(q, types, told, x), NEW i \in 1 .. Len(r), r[i].type \in types,
               \A j \in i + 1 .. Len(r) : r[j].type \notin types
        PROVE  told[r[i]] = x
    <3>1. i \in 1 .. Len(q) /\ r[i] = q[i]
      BY <1>1, <1>3, <2>1, <2>4
    <3>2. \A j \in i + 1 .. Len(q) : j \in i + 1 .. Len(r) /\ r[j] = q[j]
      BY <1>1, <3>1
    <3> QED BY <2>4, <3>1, <3>2 DEF Tells
  <2> QED BY <2>3, <2>4 DEF Tells
<1> QED BY <1>2, <1>3 DEF r

\* What the first event of a queue tells if no other one does.
LEMMA TailTells ==
    ASSUME NEW q \in Seq(Message), q # <<>>, NEW types, NEW told, NEW x,
           Tells(q, types, told, x)
    PROVE  /\ Tells(Tail(q), types, told, x)
           /\ Silent(Tail(q), types) /\ Head(q).type \in types => told[Head(q)] = x
           /\ Silent(Tail(q), types) /\ Head(q).type \notin types => Silent(q, types)
<1> DEFINE r == Tail(q)
<1>1. /\ Len(q) \in Nat \ {0} /\ Len(r) = Len(q) - 1 /\ Head(q) = q[1]
      /\ \A i \in 1 .. Len(r) : r[i] = q[i + 1]
  OBVIOUS
<1> HIDE DEF r
<1>2. \A i \in 2 .. Len(q) : i - 1 \in 1 .. Len(r) /\ q[i] = r[i - 1]
  BY <1>1
<1>3. Tells(r, types, told, x)
  <2> SUFFICES ASSUME NEW i \in 1 .. Len(r), r[i].type \in types,
                      \A j \in i + 1 .. Len(r) : r[j].type \notin types
               PROVE  told[r[i]] = x
    BY DEF Tells
  <2>1. i + 1 \in 1 .. Len(q) /\ r[i] = q[i + 1]
    BY <1>1
  <2>2. \A j \in i + 2 .. Len(q) : j - 1 \in i + 1 .. Len(r) /\ q[j] = r[j - 1]
    BY <1>1
  <2>3. \A j \in (i + 1) + 1 .. Len(q) : q[j].type \notin types
    BY <2>2
  <2> QED BY <2>1, <2>3 DEF Tells
<1>4. ASSUME Silent(r, types) PROVE \A j \in 2 .. Len(q) : q[j].type \notin types
  BY <1>2, <1>4 DEF Silent
<1>5. Silent(r, types) /\ Head(q).type \in types => told[Head(q)] = x
  BY <1>1, <1>4 DEF Tells
<1>6. Silent(r, types) /\ Head(q).type \notin types => Silent(q, types)
  <2>1. \A j \in 1 .. Len(q) : j = 1 \/ j \in 2 .. Len(q)
    BY <1>1
  <2> QED BY <1>1, <1>4, <2>1 DEF Silent
<1> QED BY <1>3, <1>5, <1>6 DEF r
----------------------------------------------------------------------------
(***************************************************************************)
(* The shape of the state, and what the scan thread has sent.              *)
(***************************************************************************)
LEMMA DashboardEdits ==
    ASSUME NEW d \in Dashboard, NEW n \in Nat
    PROVE  /\ [d EXCEPT !.queued = n] \in Dashboard
           /\ [d EXCEPT !.progress = n] \in Dashboard
           /\ [d EXCEPT !.last = n] \in Dashboard
           /\ [d EXCEPT !.scanning = TRUE, !.progress = 0] \in Dashboard
           /\ [d EXCEPT !.scanning = FALSE, !.progress = 0] \in Dashboard
           /\ [d EXCEPT !.scanning = TRUE, !.progress = 0, !.queued = 0] \in Dashboard
           /\ d.queued \in Nat /\ d.progress \in Nat /\ d.last \in Nat
BY DEF Dashboard

LEMMA FoldShape ==
    ASSUME NEW v \in Dashboard, NEW e \in Message
    PROVE  Fold(v, e) \in Dashboard
<1>1. v.queued \in Nat /\ e.progress \in Nat
  BY DEF Dashboard, Message
<1>2. v.queued + 1 \in Nat /\ (IF v.queued > 0 THEN v.queued - 1 ELSE 0) \in Nat
  BY <1>1
<1>3. e.type \in {"queued", "started", "progress", "finished", "skipped"}
  BY DEF Message
<1>4. CASE e.type = "queued"
  BY <1>2, <1>4, DashboardEdits DEF Fold
<1>5. CASE e.type = "started"
  BY <1>5, DashboardEdits DEF Fold
<1>6. CASE e.type = "progress"
  BY <1>1, <1>6, DashboardEdits DEF Fold
<1>7. CASE e.type = "finished"
  BY <1>7, DashboardEdits DEF Fold
<1>8. CASE e.type = "skipped"
  BY <1>2, <1>8, DashboardEdits DEF Fold
<1> QED BY <1>3, <1>4, <1>5, <1>6, <1>7, <1>8

\* A delivery leaves the queues and the replies what they are.
LEMMA DeliverShape ==
    ASSUME Shapes, NEW e \in Message, Deliver(e)
    PROVE  /\ queue' \in [Page -> Seq(Message)]
           /\ fetch' \in [Page -> [state: {"no", "asked"}]
                              \union [state: {"answered"}, is: Dashboard, old: BOOLEAN]]
           /\ missed' \in [Page -> BOOLEAN]
<1>1. ASSUME NEW p \in Page PROVE Append(queue[p], e) \in Seq(Message)
  BY DEF Shapes
<1>2. ASSUME NEW p \in Page
      PROVE  Older(fetch[p]) \in [state: {"no", "asked"}]
                                 \union [state: {"answered"}, is: Dashboard, old: BOOLEAN]
  BY DEF Shapes, Older
<1>3. queue' \in [Page -> Seq(Message)]
  BY <1>1 DEF Shapes, Deliver
<1>4. fetch' \in [Page -> [state: {"no", "asked"}]
                          \union [state: {"answered"}, is: Dashboard, old: BOOLEAN]]
  BY <1>2 DEF Shapes, Deliver
<1>5. missed' \in [Page -> BOOLEAN]
  BY DEF Shapes, Deliver, Takes, Subscribed
<1> QED BY <1>3, <1>4, <1>5

LEMMA InitShapes == Init => Shapes
BY DEF Init, Shapes, Dashboard, Asked

LEMMA MadeMessage ==
    ASSUME NEW type \in {"queued", "started", "progress", "finished", "skipped"},
           NEW n \in Nat
    PROVE  /\ Made(type, n) \in Message
           /\ Made(type, n).type = type /\ Made(type, n).progress = n
BY DEF Made, Message

LEMMA NextShapes == Shapes /\ [Next]_vars => Shapes'
<1> SUFFICES ASSUME Shapes, [Next]_vars PROVE Shapes'
  OBVIOUS
<1>1. CASE UNCHANGED vars
  BY <1>1 DEF Shapes, vars
<1>2. CASE RequestScan
  <2>1. daemon' \in Dashboard
    <3>1. daemon.queued + 1 \in Nat
      BY DEF Shapes, Dashboard
    <3> QED BY <1>2, <3>1, DashboardEdits DEF RequestScan, Shapes
  <2> QED BY <1>2, <2>1, MadeMessage, DeliverShape DEF RequestScan, Publish, Shapes, pages
<1>3. CASE Collect
  <2>1. daemon.queued - 1 \in Nat
    BY <1>3 DEF Collect, Shapes, Dashboard
  <2>2. daemon' \in Dashboard
    BY <1>3, <2>1 DEF Collect, Shapes, Dashboard
  <2> QED BY <1>3, <2>2 DEF Collect, Shapes, pages
<1>4. CASE StartScan
  <2>1. daemon' \in Dashboard
    <3>1. daemon' = [daemon EXCEPT !.scanning = TRUE, !.progress = 0]
      BY <1>4 DEF StartScan
    <3>2. daemon \in Dashboard
      BY DEF Shapes
    <3> QED BY <3>1, <3>2 DEF Dashboard
  <2>2. Made("started", 0) \in Message
    BY MadeMessage
  <2>3. Deliver(Made("started", 0))
    BY <1>4 DEF StartScan, Publish
  <2> QED BY <1>4, <2>1, <2>2, <2>3, DeliverShape DEF StartScan, Shapes, pages
<1>5. CASE SkipScan
  BY <1>5, MadeMessage, DeliverShape DEF SkipScan, Publish, Shapes, pages
<1>6. CASE Progress
  <2>1. daemon' \in Dashboard
    <3>1. daemon.progress + 1 \in Nat
      BY DEF Shapes, Dashboard
    <3> QED BY <1>6, <3>1, DashboardEdits DEF Progress, Shapes
  <2>2. Made("progress", daemon'.progress) \in Message
    BY <2>1, MadeMessage DEF Dashboard
  <2>3. thread' \in Seq(Message)
    BY <1>6, <2>2 DEF Progress, Shapes
  <2> QED BY <1>6, <2>1, <2>3 DEF Progress, Shapes, pages
<1>7. CASE Report
  <2>1. daemon' \in Dashboard
    <3>1. daemon.last + 1 \in Nat
      BY DEF Shapes, Dashboard
    <3> QED BY <1>7, <3>1, DashboardEdits DEF Report, Shapes
  <2> QED BY <1>7, <2>1 DEF Report, Shapes, pages
<1>8. CASE FinishScan
  <2>1. daemon' \in Dashboard
    BY <1>8, DashboardEdits DEF FinishScan, Shapes
  <2> QED BY <1>8, <2>1, MadeMessage, DeliverShape DEF FinishScan, Publish, Shapes, pages
<1>9. CASE DeliverThread
  <2>1. Head(thread) \in Message /\ Tail(thread) \in Seq(Message)
    BY <1>9 DEF DeliverThread, Shapes
  <2> QED BY <1>9, <2>1, DeliverShape DEF DeliverThread, Shapes, pages
<1>10. CASE RequestShutdown
  BY <1>10 DEF RequestShutdown, Shapes, pages
<1>11. ASSUME NEW p \in Page, Subscribe(p) \/ EndStream(p) \/ Disconnect(p) PROVE Shapes'
  <2>1. queue' = [queue EXCEPT ![p] = <<>>]
    BY <1>11 DEF Subscribe, EndStream, Disconnect
  <2>2. queue' \in [Page -> Seq(Message)]
    <3>1. <<>> \in Seq(Message)
      OBVIOUS
    <3> QED BY <2>1, <3>1 DEF Shapes
  <2>3. CASE Subscribe(p)
    <3>1. missed' \in [Page -> BOOLEAN]
      BY <2>3 DEF Subscribe, Shapes
    <3> QED BY <2>2, <2>3, <3>1 DEF Subscribe, Shapes, served
  <2>4. CASE EndStream(p)
    BY <2>2, <2>4 DEF EndStream, Shapes, served
  <2>5. CASE Disconnect(p)
    BY <2>2, <2>5 DEF Disconnect, Shapes, served, NoFetch
  <2> QED BY <1>11, <2>3, <2>4, <2>5
<1>12. ASSUME NEW p \in Page, Hello(p) PROVE Shapes'
  <2>1. Older(fetch[p]) \in [state: {"no", "asked"}]
                            \union [state: {"answered"}, is: Dashboard, old: BOOLEAN]
    BY DEF Shapes, Older
  <2> QED BY <1>12, <2>1 DEF Hello, Shapes, served
<1>13. ASSUME NEW p \in Page, Receive(p) PROVE Shapes'
  <2>1. Head(queue[p]) \in Message /\ Tail(queue[p]) \in Seq(Message)
    BY <1>13 DEF Receive, Shapes
  <2>2. Older(fetch[p]) \in [state: {"no", "asked"}]
                            \union [state: {"answered"}, is: Dashboard, old: BOOLEAN]
    BY DEF Shapes, Older
  <2>3. view[p] # NoView => Fold(view[p], Head(queue[p])) \in Dashboard
    BY <2>1, FoldShape DEF Shapes
  <2>4. queue' \in [Page -> Seq(Message)]
    BY <1>13, <2>1 DEF Receive, Shapes
  <2>5. view' \in [Page -> Dashboard \union {NoView}]
    BY <1>13, <2>3 DEF Receive, Shapes
  <2>6. fetch' \in [Page -> [state: {"no", "asked"}]
                            \union [state: {"answered"}, is: Dashboard, old: BOOLEAN]]
    BY <1>13, <2>2 DEF Receive, Shapes, Asked
  <2> QED BY <1>13, <2>4, <2>5, <2>6 DEF Receive, Shapes, served
<1>14. ASSUME NEW p \in Page, Request(p) PROVE Shapes'
  <2>1. CASE Poll(p)
    BY <2>1 DEF Poll, Shapes, served, Asked
  <2>2. CASE Answer(p)
    BY <2>2 DEF Answer, Shapes, served
  <2>3. CASE Show(p)
    <3>1. fetch[p].is \in Dashboard /\ fetch[p].old \in BOOLEAN
      BY <2>3 DEF Show, Shapes
    <3>2. view' \in [Page -> Dashboard \union {NoView}]
      BY <2>3, <3>1 DEF Show, Shapes
    <3>3. missed' \in [Page -> BOOLEAN]
      BY <2>3, <3>1 DEF Show, Shapes
    <3> QED BY <2>3, <3>2, <3>3 DEF Show, Shapes, served, NoFetch
  <2> QED BY <1>14, <2>1, <2>2, <2>3 DEF Request
<1> QED
  BY <1>1, <1>2, <1>3, <1>4, <1>5, <1>6, <1>7, <1>8, <1>9, <1>10, <1>11, <1>12, <1>13, <1>14
  DEF Next, Worker, Stream

LEMMA NextThreadTells == Shapes /\ ThreadTells /\ [Next]_vars => ThreadTells'
<1> SUFFICES ASSUME Shapes, ThreadTells, [Next]_vars PROVE ThreadTells'
  OBVIOUS
<1>1. CASE thread' = thread /\ daemon'.progress = daemon.progress
           /\ (worker \in {"scanning", "returned"} => worker' \in {"scanning", "returned"})
  BY <1>1 DEF ThreadTells
<1>2. CASE StartScan \/ FinishScan
  <2>1. thread' = <<>>
    BY <1>2 DEF StartScan, FinishScan, ThreadTells
  <2>2. Len(thread') = 0
    BY <2>1
  <2> QED BY <2>1, <2>2 DEF ThreadTells
<1>3. CASE Progress
  <2> DEFINE e == Made("progress", daemon'.progress)
  <2>1. daemon'.progress \in Nat
    BY NextShapes DEF Shapes, Dashboard
  <2>2. e \in Message /\ e.type = "progress" /\ e.progress = daemon'.progress
    BY <2>1, MadeMessage
  <2> HIDE DEF e
  <2>3. thread' = Append(thread, e) /\ worker' = "scanning"
    BY <1>3 DEF Progress, e
  <2>4. /\ Len(thread) \in Nat /\ Len(thread') = Len(thread) + 1
        /\ thread'[Len(thread) + 1] = e
        /\ \A i \in 1 .. Len(thread) : thread'[i] = thread[i]
    BY <2>2, <2>3 DEF Shapes
  <2>5. \A i \in 1 .. Len(thread') : i \in 1 .. Len(thread) \/ i = Len(thread) + 1
    BY <2>4
  <2> QED BY <2>2, <2>3, <2>4, <2>5 DEF ThreadTells
<1>4. CASE DeliverThread
  <2>1. /\ Len(thread) \in Nat \ {0} /\ Len(thread') = Len(thread) - 1
        /\ \A i \in 1 .. Len(thread') : thread'[i] = thread[i + 1]
        /\ thread # <<>> /\ (thread' # <<>> => Len(thread') # 0)
    BY <1>4 DEF DeliverThread, Shapes
  <2>2. \A i \in 1 .. Len(thread') : i + 1 \in 1 .. Len(thread)
    BY <2>1
  <2>3. daemon' = daemon /\ worker' = worker
    BY <1>4 DEF DeliverThread
  <2>4. thread' # <<>> => thread'[Len(thread')] = thread[Len(thread)]
    BY <2>1
  <2> QED BY <2>1, <2>2, <2>3, <2>4 DEF ThreadTells
<1>5. CASE RequestScan \/ Report
  <2>1. daemon'.progress = daemon.progress
    BY <1>5 DEF RequestScan, Report, Shapes, Dashboard
  <2> QED BY <1>1, <1>5, <2>1 DEF RequestScan, Report
<1>6. CASE Collect
  <2>1. daemon'.progress = daemon.progress
    BY <1>6 DEF Collect, Shapes, Dashboard
  <2> QED BY <1>1, <1>6, <2>1 DEF Collect
<1>7. CASE SkipScan \/ RequestShutdown
  BY <1>1, <1>7 DEF SkipScan, RequestShutdown
<1>8. ASSUME NEW p \in Page, Subscribe(p) \/ Stream(p) \/ Request(p) \/ Disconnect(p)
      PROVE  ThreadTells'
  BY <1>1, <1>8 DEF Subscribe, Stream, Hello, Receive, EndStream, Request, Poll, Answer, Show,
                    Disconnect, served
<1>9. CASE UNCHANGED vars
  BY <1>1, <1>9 DEF vars
<1> QED BY <1>2, <1>3, <1>4, <1>5, <1>6, <1>7, <1>8, <1>9 DEF Next, Worker
----------------------------------------------------------------------------
(***************************************************************************)
(* What an event does to a page that takes it.                             *)
(***************************************************************************)
LEMMA LongerNonempty ==
    ASSUME NEW q \in Seq(Message), NEW e \in Message
    PROVE  Append(q, e) # <<>>
<1>1. Len(Append(q, e)) = Len(q) + 1 /\ Len(q) \in Nat
  OBVIOUS
<1>2. Len(<<>>) = 0
  OBVIOUS
<1> QED BY <1>1, <1>2

LEMMA EmptyTracks == \A d, t : Tracks(<<>>, d, t)
BY EmptyTells DEF Tracks

LEMMA CurrentFits == \A d, q, t : Fits(d, q, d, t)
BY DEF Fits

\* What an event must be for a queue that tracked the daemon d to track d1.
Announces(e, d, t, d1, t1) ==
    /\ IF e.type \in ScanTypes THEN Runs[e] = d1.scanning ELSE d1.scanning = d.scanning
    /\ t1 = <<>> => IF e.type \in CountTypes THEN Told[e] = d1.progress
                    ELSE t = <<>> /\ d1.progress = d.progress

LEMMA AppendTracks ==
    ASSUME NEW q \in Seq(Message), NEW e \in Message, NEW d, NEW t, NEW d1, NEW t1,
           Announces(e, d, t, d1, t1)
    PROVE  /\ Tracks(q, d, t) => Tracks(Append(q, e), d1, t1)
           /\ \A v : Fits(v, q, d, t) => Fits(v, Append(q, e), d1, t1)
<1> DEFINE r == Append(q, e)
<1>1. CASE e.type \in ScanTypes
  <2>1. Tells(r, ScanTypes, Runs, d1.scanning) /\ ~Silent(r, ScanTypes)
    BY <1>1, AppendTells DEF Announces
  <2> HIDE DEF r
  <2>2. t1 = <<>> => Tells(r, CountTypes, Told, d1.progress) /\ ~Silent(r, CountTypes)
    <3>1. e.type \in CountTypes
      BY <1>1 DEF ScanTypes, CountTypes
    <3> QED BY <3>1, AppendTells DEF Announces, r
  <2> QED BY <2>1, <2>2 DEF Tracks, Fits, r
<1>2. CASE e.type \notin ScanTypes
  <2>1. /\ d1.scanning = d.scanning
        /\ Tells(q, ScanTypes, Runs, d.scanning) => Tells(r, ScanTypes, Runs, d.scanning)
        /\ Silent(r, ScanTypes) <=> Silent(q, ScanTypes)
    BY <1>2, AppendTells DEF Announces
  <2>2. CASE e.type \in CountTypes
    <3>1. t1 = <<>> => Tells(r, CountTypes, Told, d1.progress) /\ ~Silent(r, CountTypes)
      BY <2>2, AppendTells DEF Announces
    <3> HIDE DEF r
    <3> QED BY <2>1, <3>1 DEF Tracks, Fits, r
  <2>3. CASE e.type \notin CountTypes
    <3>1. /\ t1 = <<>> => t = <<>> /\ d1.progress = d.progress
          /\ Tells(q, CountTypes, Told, d.progress) => Tells(r, CountTypes, Told, d.progress)
          /\ Silent(r, CountTypes) <=> Silent(q, CountTypes)
      BY <2>3, AppendTells DEF Announces
    <3> HIDE DEF r
    <3> QED BY <2>1, <3>1 DEF Tracks, Fits, r
  <2> QED BY <2>2, <2>3
<1> QED BY <1>1, <1>2

\* Every page that takes the event goes on to track the daemon; every other
\* one misses it from now on.
LEMMA DeliverCaught ==
    ASSUME Shapes, NEW e \in Message, Deliver(e), UNCHANGED pages,
           Announces(e, daemon, thread, daemon', thread'),
           NEW p \in Page, Caught(p)
    PROVE  Caught(p)'
<1>1. /\ stream'[p] = stream[p] /\ view'[p] = view[p]
      /\ queue'[p] = IF Takes(p) THEN Append(queue[p], e) ELSE queue[p]
      /\ missed'[p] = (~Takes(p) \/ missed[p])
      /\ fetch'[p] = IF Takes(p) THEN fetch[p] ELSE Older(fetch[p])
  BY DEF Deliver, pages, Shapes
<1>2. stream[p] = "closed" => queue[p] = <<>> /\ ~Takes(p)
  BY DEF Caught, Takes, Subscribed
<1>3. CASE ~Takes(p)
  <2>1. missed'[p] /\ queue'[p] = queue[p]
    BY <1>1, <1>3
  <2>2. ~Promising(p)'
    <3>1. fetch'[p] = Older(fetch[p])
      BY <1>1, <1>3
    <3>2. fetch[p] \in [state: {"no", "asked"}]
                       \union [state: {"answered"}, is: Dashboard, old: BOOLEAN]
      BY DEF Shapes
    <3>3. fetch'[p].state = "answered" => fetch'[p].old
      BY <3>1, <3>2 DEF Older
    <3> QED BY <3>3 DEF Promising
  <2> QED BY <1>1, <1>2, <2>1, <2>2 DEF Caught
<1>4. CASE Takes(p)
  <2>1. queue'[p] = Append(queue[p], e) /\ queue[p] \in Seq(Message) /\ queue'[p] # <<>>
    BY <1>1, <1>4, LongerNonempty DEF Shapes
  <2>2. missed'[p] = missed[p] /\ fetch'[p] = fetch[p]
    BY <1>1, <1>4 DEF Shapes
  <2>3. Promising(p)' => Promising(p) /\ ~missed[p]
    BY <2>1, <2>2 DEF Promising
  <2>4. /\ Tracks(queue[p], daemon, thread) => Tracks(queue'[p], daemon', thread')
        /\ \A v : Fits(v, queue[p], daemon, thread) => Fits(v, queue'[p], daemon', thread')
    BY <2>1, AppendTracks
  <2> QED BY <1>1, <1>2, <1>4, <2>2, <2>3, <2>4 DEF Caught
<1> QED BY <1>3, <1>4

\* A page that nothing happens to, while the thread only sends more.
LEMMA AloneCaught ==
    ASSUME NEW p \in Page, Caught(p), daemon'.scanning = daemon.scanning,
           thread' = <<>> => thread = <<>> /\ daemon'.progress = daemon.progress,
           stream'[p] = stream[p], queue'[p] = queue[p], fetch'[p] = fetch[p],
           view'[p] = view[p], missed'[p] = missed[p]
    PROVE  Caught(p)'
BY DEF Caught, Promising, Tracks, Fits

LEMMA ReceiveCaught ==
    ASSUME Shapes, NEW p \in Page, Caught(p), Receive(p)
    PROVE  Caught(p)'
<1> DEFINE e == Head(queue[p])
<1>1. /\ queue[p] \in Seq(Message) /\ queue[p] # <<>> /\ stream[p] = "open"
      /\ daemon' = daemon /\ thread' = thread /\ stream' = stream /\ missed' = missed
      /\ queue'[p] = Tail(queue[p]) /\ e \in Message
      /\ view'[p] = IF view[p] = NoView THEN NoView ELSE Fold(view[p], e)
      /\ fetch'[p] = IF e.type = "finished" THEN Asked ELSE Older(fetch[p])
  BY DEF Receive, served, Shapes
<1> HIDE DEF e
<1>2. ~Promising(p)'
  <2>1. fetch[p] \in [state: {"no", "asked"}]
                     \union [state: {"answered"}, is: Dashboard, old: BOOLEAN]
    BY DEF Shapes
  <2>2. fetch'[p].state = "answered" => fetch'[p].old
    BY <1>1, <2>1 DEF Older, Asked
  <2> QED BY <2>2 DEF Promising
<1>3. ~missed[p] => Tracks(queue'[p], daemon', thread')
  BY <1>1, TailTells DEF Caught, Tracks
<1>4. ASSUME view'[p] # NoView, ~missed[p]
      PROVE  Fits(view'[p], queue'[p], daemon', thread')
  <2>1. /\ view[p] \in Dashboard /\ view'[p] = Fold(view[p], e)
        /\ Tracks(queue[p], daemon, thread) /\ Fits(view[p], queue[p], daemon, thread)
    BY <1>1, <1>4 DEF Shapes, Caught
  <2>2. /\ e.type \in ScanTypes => view'[p].scanning = Runs[e]
        /\ e.type \notin ScanTypes => view'[p].scanning = view[p].scanning
        /\ e.type \in CountTypes => view'[p].progress = Told[e]
        /\ e.type \notin CountTypes => view'[p].progress = view[p].progress
    <3>1. e.type \in {"queued", "started", "progress", "finished", "skipped"}
      BY <1>1 DEF Message
    <3>2. Runs[e] = (e.type = "started")
          /\ Told[e] = IF e.type = "progress" THEN e.progress ELSE 0
      BY <1>1 DEF Runs, Told
    <3>3. CASE e.type = "queued"
      BY <2>1, <3>3 DEF Fold, ScanTypes, CountTypes, Dashboard
    <3>4. CASE e.type = "started"
      BY <2>1, <3>2, <3>4 DEF Fold, ScanTypes, CountTypes, Dashboard
    <3>5. CASE e.type = "progress"
      BY <2>1, <3>2, <3>5 DEF Fold, ScanTypes, CountTypes, Dashboard
    <3>6. CASE e.type = "finished"
      BY <2>1, <3>2, <3>6 DEF Fold, ScanTypes, CountTypes, Dashboard
    <3>7. CASE e.type = "skipped"
      BY <2>1, <3>7 DEF Fold, ScanTypes, CountTypes, Dashboard
    <3> QED BY <3>1, <3>3, <3>4, <3>5, <3>6, <3>7
  <2>3. Silent(queue'[p], ScanTypes) => view'[p].scanning = daemon.scanning
    <3>1. /\ Silent(queue'[p], ScanTypes) /\ e.type \in ScanTypes
             => Runs[e] = daemon.scanning
          /\ Silent(queue'[p], ScanTypes) /\ e.type \notin ScanTypes
             => Silent(queue[p], ScanTypes)
      BY <1>1, <2>1, TailTells DEF Tracks, e
    <3> QED BY <2>1, <2>2, <3>1 DEF Fits
  <2>4. thread = <<>> /\ Silent(queue'[p], CountTypes) => view'[p].progress = daemon.progress
    <3>1. thread = <<>>
          => /\ Silent(queue'[p], CountTypes) /\ e.type \in CountTypes
                => Told[e] = daemon.progress
             /\ Silent(queue'[p], CountTypes) /\ e.type \notin CountTypes
                => Silent(queue[p], CountTypes)
      BY <1>1, <2>1, TailTells DEF Tracks, e
    <3> QED BY <2>1, <2>2, <3>1 DEF Fits
  <2> QED BY <1>1, <2>3, <2>4 DEF Fits
<1> QED BY <1>1, <1>2, <1>3, <1>4 DEF Caught

LEMMA PageCaught ==
    ASSUME Shapes, NEW p \in Page, Caught(p),
           Subscribe(p) \/ Stream(p) \/ Request(p) \/ Disconnect(p)
    PROVE  Caught(p)'
<1>1. CASE Subscribe(p)
  <2>1. stream'[p] = "subscribed" /\ queue'[p] = <<>>
    BY <1>1 DEF Subscribe, Shapes
  <2> QED BY <2>1, EmptyTracks DEF Caught
<1>2. CASE Hello(p)
  <2>1. /\ stream[p] = "subscribed" /\ stream'[p] = "open" /\ queue' = queue
        /\ missed' = missed /\ daemon' = daemon /\ thread' = thread
        /\ view'[p] = IF view[p] = NoView THEN NoView ELSE daemon
        /\ fetch'[p] = Older(fetch[p])
    BY <1>2 DEF Hello, Shapes, served
  <2>2. fetch[p] \in [state: {"no", "asked"}]
                     \union [state: {"answered"}, is: Dashboard, old: BOOLEAN]
    BY DEF Shapes
  <2>3. fetch'[p].state = "answered" => fetch'[p].old
    BY <2>1, <2>2 DEF Older
  <2>4. ~Promising(p)'
    BY <2>3 DEF Promising
  <2> QED BY <2>1, <2>4, CurrentFits DEF Caught
<1>3. CASE Receive(p)
  BY <1>3, ReceiveCaught
<1>4. CASE EndStream(p) \/ Disconnect(p)
  <2>1. stream'[p] = "closed" /\ queue'[p] = <<>>
    BY <1>4 DEF EndStream, Disconnect, Shapes
  <2> QED BY <2>1, EmptyTracks DEF Caught
<1>5. CASE Poll(p)
  <2>1. /\ fetch'[p].state = "asked" /\ daemon' = daemon /\ thread' = thread
        /\ stream' = stream /\ queue' = queue /\ view' = view /\ missed' = missed
    BY <1>5 DEF Poll, Shapes, served, Asked
  <2> QED BY <2>1 DEF Caught, Promising
<1>6. CASE Answer(p)
  <2>1. /\ fetch'[p].is = daemon /\ daemon' = daemon /\ thread' = thread
        /\ stream' = stream /\ queue' = queue /\ view' = view /\ missed' = missed
    BY <1>6 DEF Answer, Shapes, served
  <2> QED BY <2>1, CurrentFits DEF Caught
<1>7. CASE Show(p)
  <2>1. /\ fetch[p].state = "answered" /\ view'[p] = fetch[p].is
        /\ fetch'[p].state = "no"
        /\ daemon' = daemon /\ thread' = thread /\ stream' = stream /\ queue' = queue
        /\ missed'[p] = (fetch[p].old \/ (missed[p] /\ queue[p] # <<>>))
    BY <1>7 DEF Show, Shapes, served, NoFetch
  <2>2. ~missed'[p] => Promising(p)
    BY <2>1 DEF Promising
  <2>3. ~missed'[p] => Tracks(queue[p], daemon, thread)
    BY <2>1, EmptyTracks DEF Caught
  <2>4. ~Promising(p)'
    BY <2>1 DEF Promising
  <2> QED BY <2>1, <2>2, <2>3, <2>4 DEF Caught
<1> QED BY <1>1, <1>2, <1>3, <1>4, <1>5, <1>6, <1>7 DEF Stream, Request
----------------------------------------------------------------------------
(***************************************************************************)
(* The invariant.                                                          *)
(***************************************************************************)
LEMMA InitFeed == Init => FeedInv
<1> SUFFICES ASSUME Init PROVE FeedInv
  OBVIOUS
<1>1. thread = <<>> /\ Len(thread) = 0
  BY DEF Init
<1>2. ThreadTells
  BY <1>1 DEF ThreadTells
<1>3. ASSUME NEW p \in Page PROVE Caught(p)
  <2>1. stream[p] = "closed" /\ queue[p] = <<>>
    BY DEF Init
  <2> QED BY <2>1, EmptyTracks DEF Caught
<1> QED BY <1>2, <1>3, InitShapes DEF FeedInv

LEMMA NextCaught ==
    ASSUME FeedInv, [Next]_vars, NEW p \in Page
    PROVE  Caught(p)'
<1>1. Shapes /\ Caught(p) /\ ThreadTells
  BY DEF FeedInv
<1>2. CASE RequestScan
  <2> DEFINE e == Made("queued", 0)
  <2>1. e \in Message /\ e.type = "queued"
    BY MadeMessage
  <2>2. Deliver(e) /\ thread' = thread /\ UNCHANGED pages
    BY <1>2 DEF RequestScan, Publish
  <2>3. daemon'.scanning = daemon.scanning /\ daemon'.progress = daemon.progress
    BY <1>1, <1>2 DEF RequestScan, Shapes, Dashboard
  <2> HIDE DEF e
  <2>4. Announces(e, daemon, thread, daemon', thread')
    BY <2>1, <2>2, <2>3 DEF Announces, ScanTypes, CountTypes
  <2> QED BY <1>1, <2>1, <2>2, <2>4, DeliverCaught
<1>3. CASE StartScan
  <2> DEFINE e == Made("started", 0)
  <2>1. e \in Message /\ e.type = "started"
    BY MadeMessage
  <2>2. Deliver(e) /\ UNCHANGED pages
    BY <1>3 DEF StartScan, Publish
  <2>3. daemon'.scanning = TRUE /\ daemon'.progress = 0
    BY <1>1, <1>3 DEF StartScan, Shapes, Dashboard
  <2> HIDE DEF e
  <2>4. Announces(e, daemon, thread, daemon', thread')
    BY <2>1, <2>3 DEF Announces, ScanTypes, CountTypes, Runs, Told
  <2> QED BY <1>1, <2>1, <2>2, <2>4, DeliverCaught
<1>4. CASE SkipScan
  <2> DEFINE e == Made("skipped", 0)
  <2>1. e \in Message /\ e.type = "skipped"
    BY MadeMessage
  <2>2. Deliver(e) /\ thread' = thread /\ daemon' = daemon /\ UNCHANGED pages
    BY <1>4 DEF SkipScan, Publish
  <2> HIDE DEF e
  <2>3. Announces(e, daemon, thread, daemon', thread')
    BY <2>1, <2>2 DEF Announces, ScanTypes, CountTypes
  <2> QED BY <1>1, <2>1, <2>2, <2>3, DeliverCaught
<1>5. CASE FinishScan
  <2> DEFINE e == Made("finished", 0)
  <2>1. e \in Message /\ e.type = "finished"
    BY MadeMessage
  <2>2. Deliver(e) /\ UNCHANGED pages
    BY <1>5 DEF FinishScan, Publish
  <2>3. daemon'.scanning = FALSE /\ daemon'.progress = 0
    BY <1>1, <1>5 DEF FinishScan, Shapes, Dashboard
  <2> HIDE DEF e
  <2>4. Announces(e, daemon, thread, daemon', thread')
    BY <2>1, <2>3 DEF Announces, ScanTypes, CountTypes, Runs, Told
  <2> QED BY <1>1, <2>1, <2>2, <2>4, DeliverCaught
<1>6. CASE DeliverThread
  <2> DEFINE e == Head(thread)
  <2>1. /\ thread \in Seq(Message) /\ thread # <<>> /\ thread' = Tail(thread)
        /\ Deliver(e) /\ daemon' = daemon /\ UNCHANGED pages
    BY <1>1, <1>6 DEF DeliverThread, Shapes
  <2>2. e \in Message /\ e = thread[1] /\ Len(thread) \in Nat \ {0}
        /\ (thread' = <<>> => Len(thread) = 1)
    <3>1. Len(thread') = Len(thread) - 1 /\ Len(thread) \in Nat \ {0} /\ e = thread[1]
      BY <2>1
    <3>2. Len(<<>>) = 0
      OBVIOUS
    <3> QED BY <2>1, <3>1, <3>2
  <2>3. e.type = "progress" /\ (thread' = <<>> => e.progress = daemon'.progress)
    BY <1>1, <2>1, <2>2 DEF ThreadTells
  <2> HIDE DEF e
  <2>4. Told[e] = e.progress
    BY <2>2, <2>3 DEF Told
  <2>5. Announces(e, daemon, thread, daemon', thread')
    BY <2>1, <2>3, <2>4 DEF Announces, ScanTypes, CountTypes
  <2> QED BY <1>1, <2>1, <2>2, <2>5, DeliverCaught
<1>7. CASE Collect \/ Report \/ RequestShutdown
  <2>1. daemon'.scanning = daemon.scanning /\ daemon'.progress = daemon.progress
    BY <1>1, <1>7 DEF Collect, Report, RequestShutdown, Shapes, Dashboard
  <2> QED BY <1>1, <1>7, <2>1, AloneCaught DEF Collect, Report, RequestShutdown, pages
<1>8. CASE Progress
  <2>1. daemon'.scanning = daemon.scanning
    BY <1>1, <1>8 DEF Progress, Shapes, Dashboard
  <2>2. thread' # <<>>
    <3>1. daemon'.progress \in Nat
      BY <1>1, NextShapes DEF Shapes, Dashboard
    <3>2. Made("progress", daemon'.progress) \in Message
      BY <3>1, MadeMessage
    <3>3. thread \in Seq(Message) /\ thread' = Append(thread, Made("progress", daemon'.progress))
      BY <1>1, <1>8 DEF Progress, Shapes
    <3> QED BY <3>2, <3>3, LongerNonempty
  <2> QED BY <1>1, <1>8, <2>1, <2>2, AloneCaught DEF Progress, pages
<1>9. ASSUME NEW q \in Page, Subscribe(q) \/ Stream(q) \/ Request(q) \/ Disconnect(q)
      PROVE  Caught(p)'
  <2>1. CASE q = p
    BY <1>1, <1>9, <2>1, PageCaught
  <2>2. CASE q # p
    <3>1. /\ daemon' = daemon /\ thread' = thread
          /\ stream'[p] = stream[p] /\ queue'[p] = queue[p] /\ fetch'[p] = fetch[p]
          /\ view'[p] = view[p] /\ missed'[p] = missed[p]
      BY <1>1, <1>9, <2>2
      DEF Subscribe, Stream, Hello, Receive, EndStream, Request, Poll, Answer, Show, Disconnect,
          served, Shapes
    <3> QED BY <1>1, <3>1, AloneCaught
  <2> QED BY <2>1, <2>2
<1>10. CASE UNCHANGED vars
  BY <1>1, <1>10, AloneCaught DEF vars
<1> QED BY <1>2, <1>3, <1>4, <1>5, <1>6, <1>7, <1>8, <1>9, <1>10 DEF Next, Worker

LEMMA NextFeed == FeedInv /\ [Next]_vars => FeedInv'
<1> SUFFICES ASSUME FeedInv, [Next]_vars PROVE FeedInv'
  OBVIOUS
<1>1. Shapes'
  BY NextShapes DEF FeedInv
<1>2. ThreadTells'
  BY NextThreadTells DEF FeedInv
<1>3. \A p \in Page : Caught(p)'
  BY NextCaught
<1> QED BY <1>1, <1>2, <1>3 DEF FeedInv

(***************************************************************************)
(* A page that handled every event it was sent shows whether a scan runs   *)
(* and how far it is, unless its dashboard misses an event: whatever the   *)
(* size of the subscriber queues, and however the events of the scan       *)
(* thread (_publish_from_thread), the replies to the page's requests and   *)
(* lost connections interleave.                                            *)
(***************************************************************************)
THEOREM CaughtUpPagesAreCurrent == Spec => []CaughtUpIsCurrent
<1>1. FeedInv => CaughtUpIsCurrent
  <2> SUFFICES ASSUME FeedInv, NEW p \in Page,
                      stream[p] = "open", view[p] # NoView,
                      queue[p] = <<>>, thread = <<>>, ~missed[p]
               PROVE  /\ view[p].scanning = daemon.scanning
                      /\ view[p].progress = daemon.progress
    BY DEF CaughtUpIsCurrent
  <2>1. Fits(view[p], <<>>, daemon, thread)
    BY DEF FeedInv, Caught
  <2> QED BY <2>1, EmptyTells DEF Fits
<1> QED BY <1>1, InitFeed, NextFeed, PTL DEF Spec
=============================================================================
