-------------------------- MODULE ScanDaemonProofs --------------------------
(***************************************************************************)
(* The safety properties of ScanDaemon, and that it implements ScanService, *)
(* for any number of requests and of libraries.                            *)
(***************************************************************************)
EXTENDS ScanDaemon, TLAPS

(***************************************************************************)
(* Sequences of requests as sets.                                          *)
(***************************************************************************)
Distinct(seq) == \A i, j \in DOMAIN seq : seq[i] = seq[j] => i = j

\* The empty queue holds nobody.
LEMMA EmptyMembers == Members(<<>>) = {} /\ Distinct(<<>>)
BY DEF Members, Distinct

\* Enqueuing adds one request (request_scan, _collect).
LEMMA AppendMembers ==
  ASSUME NEW S, NEW seq \in Seq(S), NEW e \in S
  PROVE  /\ Append(seq, e) \in Seq(S) /\ Append(seq, e) # <<>>
         /\ Members(Append(seq, e)) = Members(seq) \cup {e}
         /\ Distinct(seq) /\ e \notin Members(seq) => Distinct(Append(seq, e))
<1>1. /\ Append(seq, e) \in Seq(S) /\ Len(Append(seq, e)) = Len(seq) + 1
      /\ \A i \in 1 .. Len(seq) : Append(seq, e)[i] = seq[i]
      /\ Append(seq, e)[Len(seq) + 1] = e
  OBVIOUS
<1>2. /\ Len(seq) \in Nat /\ DOMAIN seq = 1 .. Len(seq)
      /\ DOMAIN Append(seq, e) = 1 .. Len(seq) + 1
  BY <1>1
<1>3. Members(Append(seq, e)) = Members(seq) \cup {e}
  BY <1>1, <1>2 DEF Members
<1>4. Distinct(seq) /\ e \notin Members(seq) => Distinct(Append(seq, e))
  BY <1>1, <1>2 DEF Members, Distinct
<1> QED BY <1>1, <1>3, <1>4

\* Dequeuing removes one request (_next_event, _collect).
LEMMA TailMembers ==
  ASSUME NEW S, NEW seq \in Seq(S), seq # <<>>
  PROVE  /\ Head(seq) \in S /\ Tail(seq) \in Seq(S)
         /\ Members(seq) = {Head(seq)} \cup Members(Tail(seq))
         /\ Distinct(seq) => Distinct(Tail(seq)) /\ Head(seq) \notin Members(Tail(seq))
<1>1. /\ Len(seq) \in Nat /\ Len(seq) > 0 /\ DOMAIN seq = 1 .. Len(seq)
      /\ Head(seq) = seq[1] /\ Head(seq) \in S
      /\ Tail(seq) \in Seq(S) /\ Len(Tail(seq)) = Len(seq) - 1
      /\ \A i \in 1 .. Len(seq) - 1 : Tail(seq)[i] = seq[i + 1]
  OBVIOUS
<1>2. DOMAIN Tail(seq) = 1 .. Len(seq) - 1
  BY <1>1
<1>3. Members(seq) = {Head(seq)} \cup Members(Tail(seq))
  <2>1. ASSUME NEW i \in 1 .. Len(seq)
        PROVE  seq[i] \in {Head(seq)} \cup Members(Tail(seq))
    <3>1. CASE i = 1
      BY <1>1, <3>1
    <3>2. CASE i # 1
      <4>1. i - 1 \in 1 .. Len(seq) - 1 /\ Tail(seq)[i - 1] = seq[i]
        BY <1>1, <3>2
      <4> QED BY <1>2, <4>1 DEF Members
    <3> QED BY <3>1, <3>2
  <2>2. ASSUME NEW i \in 1 .. Len(seq) - 1
        PROVE  Tail(seq)[i] \in Members(seq)
    <3>1. i + 1 \in DOMAIN seq /\ Tail(seq)[i] = seq[i + 1]
      BY <1>1
    <3> QED BY <3>1 DEF Members
  <2>3. Head(seq) \in Members(seq)
    BY <1>1 DEF Members
  <2>4. Members(seq) \subseteq {Head(seq)} \cup Members(Tail(seq))
    BY <1>1, <2>1 DEF Members
  <2>5. Members(Tail(seq)) \subseteq Members(seq)
    BY <1>2, <2>2 DEF Members
  <2> QED BY <2>3, <2>4, <2>5
<1>4. Distinct(seq) => Distinct(Tail(seq)) /\ Head(seq) \notin Members(Tail(seq))
  BY <1>1, <1>2 DEF Members, Distinct
<1> QED BY <1>1, <1>3, <1>4

\* A queue that is not empty holds somebody.
LEMMA SomeMember ==
  ASSUME NEW S, NEW seq \in Seq(S)
  PROVE  Members(seq) \subseteq S /\ (seq # <<>> => Members(seq) # {})
BY DEF Members

-----------------------------------------------------------------------------
(***************************************************************************)
(* The inductive invariant.                                                *)
(***************************************************************************)
\* A scan runs exactly while the worker waits for its thread, and a window
\* that is open holds a request.
WorkerState ==
  /\ worker = "scan" <=> run # "none"
  /\ worker = "scan" <=> current # NotMade
  /\ worker \in {"collect", "scan"} <=> batch # <<>>

\* A request is in one place only, and those that are not made are nowhere.
OnePlace ==
  /\ Distinct(queue) /\ Distinct(batch)
  /\ Members(queue) \cap Members(batch) = {}
  /\ \A r \in Members(queue) \cup Members(batch) \cup lastScan \cup hooked :
       kind[r] # NotMade

\* Requests that wait were not part of the last scan, nor is the running one
\* before it is recorded.
NotYetScanned ==
  /\ (lastScan \cup hooked) \cap Members(queue) = {}
  /\ run \notin {"hooks", "done"} => lastScan \cap Members(batch) = {}
  /\ run # "done" => hooked \cap Members(batch) = {}

\* What the thread knows of the cancel, at each of the places it reads it.
ThreadState ==
  /\ run = "library" => lib < Libraries
  /\ run = "report" => cancelled \/ lib = Libraries
  /\ run \in {"record", "hooks", "done"} => report \/ lib = Libraries
  /\ run \in {"record", "hooks"} /\ report => cancelled
  /\ run \in {"hooks", "done"} =>
       \/ lastScan \cap Members(batch) = {}
       \/ lastScan = Members(batch) /\ ~current.dry /\ ~report
  /\ run = "done" /\ hooked \cap Members(batch) # {} => ~current.dry /\ lib = Libraries

IInv == TypeOK /\ WorkerState /\ OnePlace /\ NotYetScanned /\ ThreadState

\* What every action needs to know of the state it starts in.
USE DEF Kind, WorkerState, OnePlace, NotYetScanned, ThreadState

\* The daemon starts with nothing to do (Daemon.__init__).
LEMMA InitInvariant == Init => IInv
<1> SUFFICES ASSUME Init PROVE IInv
  OBVIOUS
<1>1. TypeOK
  <2>1. {shutdown, cancelled, report, aimed} \subseteq BOOLEAN
    BY Zenon DEF Init
  <2>2. kind \in [Request -> Kind \cup {NotMade}] /\ lib \in 0 .. Libraries
    BY LibrariesAssumption DEF Init
  <2>3. queue \in Seq(Request) /\ batch \in Seq(Request)
    BY DEF Init
  <2> QED BY <2>1, <2>2, <2>3, Zenon DEF Init, TypeOK
<1>2. WorkerState /\ OnePlace /\ NotYetScanned /\ ThreadState
  BY EmptyMembers DEF Init
<1> QED BY <1>1, <1>2 DEF IInv

\* request_scan: the new request is nowhere else.
LEMMA RequestScanInvariant ==
  ASSUME IInv, NEW r \in Request, NEW k \in Kind, RequestScan(r, k)
  PROVE  IInv'
<1> USE DEF IInv, RequestScan, loop, thread
<1>1. /\ queue' \in Seq(Request)
      /\ Members(queue') = Members(queue) \cup {r}
      /\ r \notin Members(queue) \cup Members(batch) \cup lastScan \cup hooked
      /\ Distinct(queue')
  BY AppendMembers DEF TypeOK
<1>2. TypeOK'
  BY <1>1 DEF TypeOK
<1>3. WorkerState' /\ ThreadState' /\ NotYetScanned'
  BY <1>1
<1>4. OnePlace'
  BY <1>1, NotMadeAssumption, SomeMember DEF TypeOK
<1> QED BY <1>2, <1>3, <1>4

\* cancel_scan and request_shutdown only raise the flags.
LEMMA CancelInvariant == IInv /\ (CancelScan \/ RequestShutdown) => IInv'
<1> SUFFICES ASSUME IInv, CancelScan \/ RequestShutdown PROVE IInv'
  OBVIOUS
<1> USE DEF IInv, CancelScan, RequestShutdown, loop, thread
<1>1. TypeOK'
  BY DEF TypeOK
<1>2. WorkerState' /\ OnePlace' /\ NotYetScanned' /\ ThreadState'
  OBVIOUS
<1> QED BY <1>1, <1>2

\* _next_event between two waits, and at the end of the daemon.
LEMMA PollInvariant == IInv /\ (Poll \/ WaitTimeout) => IInv'
<1> SUFFICES ASSUME IInv, Poll \/ WaitTimeout PROVE IInv'
  OBVIOUS
<1> USE DEF IInv, thread
<1>1. CASE WaitTimeout
  BY <1>1 DEF WaitTimeout, TypeOK
<1>2. CASE Poll
  <2>1. TypeOK'
    BY <1>2, SomeMember DEF Poll, TypeOK
  <2>2. WorkerState' /\ ThreadState'
    BY <1>2 DEF Poll
  <2>3. OnePlace' /\ NotYetScanned'
    BY <1>2, EmptyMembers DEF Poll
  <2> QED BY <2>1, <2>2, <2>3
<1> QED BY <1>1, <1>2

\* One request moves from the queue into the window (_next_event, _collect).
LEMMA TakeInvariant == IInv /\ Take => IInv'
<1> SUFFICES ASSUME IInv, Take PROVE IInv'
  OBVIOUS
<1> USE DEF IInv, Take, thread
<1> DEFINE r == Head(queue)
<1>1. /\ r \in Request /\ queue' \in Seq(Request)
      /\ Members(queue) = {r} \cup Members(queue')
      /\ Distinct(queue') /\ r \notin Members(queue')
  BY TailMembers DEF TypeOK
<1>2. /\ batch' \in Seq(Request) /\ batch' # <<>>
      /\ Members(batch') = Members(batch) \cup {r} /\ Distinct(batch')
  BY <1>1, AppendMembers DEF TypeOK
<1> HIDE DEF r
<1>3. TypeOK'
  BY <1>1, <1>2 DEF TypeOK
<1>4. WorkerState' /\ ThreadState'
  BY <1>2
<1>5. OnePlace' /\ NotYetScanned'
  BY <1>1, <1>2
<1> QED BY <1>3, <1>4, <1>5

\* The window closes: the daemon ends, the preflight refuses, or a scan starts.
LEMMA EndingInvariant == IInv /\ Ending => IInv'
<1> SUFFICES ASSUME IInv, Ending PROVE IInv'
  OBVIOUS
<1> USE DEF IInv, thread
<1>1. CASE GiveUp
  <2>1. TypeOK'
    BY <1>1, SomeMember DEF GiveUp, TypeOK
  <2> QED BY <1>1, <2>1, EmptyMembers DEF GiveUp
<1>2. CASE SkipScan
  <2>1. TypeOK'
    BY <1>2, SomeMember DEF SkipScan, TypeOK
  <2> QED BY <1>2, <2>1, EmptyMembers DEF SkipScan
<1>3. CASE StartScan
  <2>1. Merge(Members(batch)) \in Kind
    BY DEF Merge
  <2>2. TypeOK'
    <3>1. cancelled' \in BOOLEAN /\ aimed' \in BOOLEAN
      BY <1>3, Zenon DEF StartScan, Cleared
    <3>2. current' \in Kind /\ lib' \in 0 .. Libraries
      BY <1>3, <2>1, LibrariesAssumption DEF StartScan
    <3> QED BY <1>3, <3>1, <3>2 DEF StartScan, TypeOK
  <2>3. WorkerState'
    BY <1>3, <2>1, NotMadeAssumption DEF StartScan
  <2>4. OnePlace' /\ NotYetScanned' /\ ThreadState'
    BY <1>3 DEF StartScan
  <2> QED BY <2>2, <2>3, <2>4
<1> QED BY <1>1, <1>2, <1>3 DEF Ending

\* The scan is over and its requests are closed (_run_scan).
LEMMA EndScanInvariant == IInv /\ EndScan => IInv'
<1> SUFFICES ASSUME IInv, EndScan PROVE IInv'
  OBVIOUS
<1> USE DEF IInv, EndScan
<1>1. TypeOK'
  <2>1. Members(batch) \subseteq Request
    BY SomeMember DEF TypeOK
  <2>2. aimed' \in BOOLEAN
    BY Zenon
  <2> QED BY <2>1, <2>2 DEF TypeOK
<1>2. WorkerState' /\ ThreadState'
  BY DEF TypeOK
<1>3. OnePlace' /\ NotYetScanned'
  BY EmptyMembers
<1> QED BY <1>1, <1>2, <1>3

\* The thread goes through the libraries, makes the report, stores it and runs
\* the hooks (scan_libraries, ScanRunner.run, _record).
LEMMA ThreadInvariant == IInv /\ Thread => IInv'
<1> SUFFICES ASSUME IInv, Thread PROVE IInv'
  OBVIOUS
<1> USE LibrariesAssumption DEF IInv, loop, ThreadFrame
<1>1. CASE BeginLibrary
  BY <1>1 DEF BeginLibrary, AllDone, TypeOK
<1>2. CASE EndLibrary
  BY <1>2 DEF EndLibrary, TypeOK
<1>3. CASE MakeReport
  BY <1>3 DEF MakeReport, TypeOK
<1>4. CASE Record
  <2>1. TypeOK'
    BY <1>4, SomeMember DEF Record, TypeOK
  <2>2. WorkerState' /\ OnePlace' /\ NotYetScanned' /\ ThreadState'
    BY <1>4 DEF Record, Records
  <2> QED BY <2>1, <2>2
<1>6. CASE RecordFails
  BY <1>6 DEF RecordFails, TypeOK
<1>5. CASE RunHooks
  <2>1. TypeOK'
    BY <1>5, SomeMember DEF RunHooks, TypeOK
  <2>2. WorkerState' /\ OnePlace' /\ NotYetScanned' /\ ThreadState'
    BY <1>5 DEF RunHooks, RunsHooks
  <2> QED BY <2>1, <2>2
<1> QED BY <1>1, <1>2, <1>3, <1>4, <1>5, <1>6 DEF Thread

\* Every step keeps the invariant.
LEMMA NextInvariant == IInv /\ [Next]_vars => IInv'
<1> SUFFICES ASSUME IInv, [Next]_vars PROVE IInv'
  OBVIOUS
<1>1. CASE UNCHANGED vars
  BY <1>1 DEF vars, IInv, TypeOK
<1>2. CASE Worker
  BY <1>2, PollInvariant, TakeInvariant, EndingInvariant, EndScanInvariant DEF Worker
<1>3. CASE Thread
  BY <1>3, ThreadInvariant
<1>4. CASE \E r \in Request, k \in Kind : RequestScan(r, k)
  BY <1>4, RequestScanInvariant
<1>5. CASE CancelScan \/ RequestShutdown
  BY <1>5, CancelInvariant
<1> QED BY <1>1, <1>2, <1>3, <1>4, <1>5 DEF Next

\* IInv holds in every reachable state.
THEOREM Invariant == Spec => []IInv
BY InitInvariant, NextInvariant, PTL DEF Spec

\* The daemon keeps the shape of its state, for any number of requests.
THEOREM TypeCorrect == Spec => []TypeOK
BY Invariant, PTL DEF IInv

-----------------------------------------------------------------------------
(***************************************************************************)
(* Cancels, shutdowns and the record of a scan.                            *)
(***************************************************************************)
\* A shutdown always reaches the scan thread: the worker looks at the shutdown
\* in the same step in which it clears the cancel event (_worker, _run_scan).
THEOREM ShutdownReachesScan == Spec => []ShutdownCancels
<1>1. Init => ShutdownCancels
  BY DEF Init, ShutdownCancels
<1>2. ShutdownCancels /\ [Next]_vars => ShutdownCancels'
  <2> SUFFICES ASSUME ShutdownCancels, [Next]_vars PROVE ShutdownCancels'
    OBVIOUS
  <2> USE DEF ShutdownCancels, loop, thread
  <2>1. CASE RequestShutdown
    BY <2>1 DEF RequestShutdown
  <2>2. CASE StartScan
    BY <2>2 DEF StartScan, Stops
  <2>3. CASE Poll \/ WaitTimeout \/ Take \/ GiveUp \/ SkipScan \/ EndScan
    BY <2>3 DEF Poll, WaitTimeout, Take, GiveUp, SkipScan, EndScan
  <2>4. CASE Thread
    BY <2>4 DEF Thread, ThreadFrame, BeginLibrary, EndLibrary, MakeReport, Record,
                RecordFails, RunHooks
  <2>5. CASE CancelScan \/ \E r \in Request, k \in Kind : RequestScan(r, k)
    BY <2>5 DEF CancelScan, RequestScan
  <2>6. CASE UNCHANGED vars
    BY <2>6 DEF vars
  <2> QED BY <2>1, <2>2, <2>3, <2>4, <2>5, <2>6 DEF Next, Worker, Ending
<1> QED BY <1>1, <1>2, PTL DEF Spec

\* A cancel never hits a scan that nobody meant: it is cleared before the scan
\* starts (cancel_scan, _run_scan).
THEOREM CancelHitsItsScan == Spec => []CancelIsAimed
<1>1. Init => CancelIsAimed
  BY DEF Init, CancelIsAimed
<1>2. CancelIsAimed /\ [Next]_vars => CancelIsAimed'
  <2> SUFFICES ASSUME CancelIsAimed, [Next]_vars PROVE CancelIsAimed'
    OBVIOUS
  <2> USE DEF CancelIsAimed, loop, thread
  <2>1. CASE CancelScan \/ RequestShutdown
    BY <2>1 DEF CancelScan, RequestShutdown
  <2>2. CASE StartScan
    BY <2>2 DEF StartScan, Cleared
  <2>3. CASE Poll \/ WaitTimeout \/ Take \/ GiveUp \/ SkipScan \/ EndScan
    BY <2>3 DEF Poll, WaitTimeout, Take, GiveUp, SkipScan, EndScan
  <2>4. CASE Thread
    BY <2>4 DEF Thread, ThreadFrame, BeginLibrary, EndLibrary, MakeReport, Record,
                RecordFails, RunHooks
  <2>5. CASE \E r \in Request, k \in Kind : RequestScan(r, k)
    BY <2>5 DEF RequestScan
  <2>6. CASE UNCHANGED vars
    BY <2>6 DEF vars
  <2> QED BY <2>1, <2>2, <2>3, <2>4, <2>5, <2>6 DEF Next, Worker, Ending
<1> QED BY <1>1, <1>2, PTL DEF Spec

\* A scan that is stored as the last scan was not cut short, although the
\* cancel event may rise between any two of its readings (_record).
THEOREM StoredScanIsComplete == Spec => []LastScanComplete
<1>1. IInv => LastScanComplete
  <2> SUFFICES ASSUME IInv, run \in {"hooks", "done"}, lastScan = Members(batch)
               PROVE  lib = Libraries
    BY DEF LastScanComplete
  <2>1. Members(batch) # {}
    BY SomeMember DEF IInv, TypeOK
  <2> QED BY <2>1 DEF IInv
<1> QED BY <1>1, Invariant, PTL

\* Hooks run only for real scans that were not cut short: the report may be made
\* before a cancel that the hooks still see, but not the other way round
\* (ScanRunner.run, _record).
THEOREM HookedScanIsComplete == Spec => []HookedIsComplete
<1>1. IInv => HookedIsComplete
  <2> SUFFICES ASSUME IInv, run = "done", Members(batch) \subseteq hooked
               PROVE  lib = Libraries /\ ~current.dry
    BY DEF HookedIsComplete
  <2>1. Members(batch) # {}
    BY SomeMember DEF IInv, TypeOK
  <2> QED BY <2>1 DEF IInv
<1> QED BY <1>1, Invariant, PTL

-----------------------------------------------------------------------------
(***************************************************************************)
(* ScanDaemon implements ScanService.                                      *)
(***************************************************************************)
waiting == Members(queue) \cup (IF worker = "scan" THEN {} ELSE Members(batch))
serving == IF worker = "scan" THEN Members(batch) ELSE {}

\* The daemon starts as the service does.
LEMMA RefinesInit == Init => Service!Init
BY EmptyMembers DEF Init, Service!Init

\* A request is accepted once, and waits from then on (request_scan).
LEMMA RefinesAsk ==
  ASSUME IInv, NEW r \in Request, NEW k \in Kind, RequestScan(r, k)
  PROVE  Service!Ask(r, k)
<1>1. Members(queue') = Members(queue) \cup {r}
  BY AppendMembers DEF IInv, TypeOK, RequestScan
<1> QED BY <1>1 DEF RequestScan, thread, Service!Ask

\* The worker ends while it polls: what is in the queue is dropped (_worker).
LEMMA RefinesPoll == IInv /\ Poll => [Service!Next]_(Service!vars)
<1> SUFFICES ASSUME IInv, Poll PROVE [Service!Next]_(Service!vars)
  OBVIOUS
<1> USE DEF thread
<1>1. batch = <<>> /\ Members(batch) = {} /\ current = NotMade
  BY EmptyMembers DEF IInv, Poll
<1>2. CASE WaitEnds
  <2>1. /\ waiting = Members(queue) /\ waiting' = {} /\ serving' = serving
        /\ closed' = closed \cup waiting
    BY <1>1, <1>2, EmptyMembers DEF Poll, waiting, serving
  <2>2. CASE waiting = {}
    BY <1>1, <1>2, <2>1, <2>2 DEF Poll, waiting, serving, Service!vars
  <2>3. CASE waiting # {}
    <3>1. Service!Drop(waiting)
      BY <1>1, <1>2, <2>1 DEF Poll, waiting, serving, Service!Drop
    <3>2. waiting \in (SUBSET waiting) \ {{}}
      BY <2>3
    <3> QED BY <3>1, <3>2 DEF Service!Next, waiting
  <2> QED BY <2>2, <2>3
<1>3. CASE ~WaitEnds
  BY <1>1, <1>3 DEF Poll, Service!vars
<1> QED BY <1>2, <1>3

\* A request that moves into the window still waits (_next_event, _collect).
LEMMA RefinesTake == IInv /\ Take => UNCHANGED Service!vars
<1> SUFFICES ASSUME IInv, Take PROVE UNCHANGED Service!vars
  OBVIOUS
<1>1. /\ Members(queue) = {Head(queue)} \cup Members(queue')
      /\ Members(batch') = Members(batch) \cup {Head(queue)}
  BY TailMembers, AppendMembers DEF IInv, TypeOK, Take
<1> QED BY <1>1 DEF Take, thread, Service!vars

\* The window closes: the service drops the batch or starts one scan for it,
\* of the kind merge_events computes (_worker, _run_scan).
LEMMA RefinesEnding == IInv /\ Ending => [Service!Next]_(Service!vars)
<1> SUFFICES ASSUME IInv, Ending PROVE [Service!Next]_(Service!vars)
  OBVIOUS
<1> USE DEF thread
<1>1. /\ worker = "collect" /\ current = NotMade
      /\ waiting = Members(queue) \cup Members(batch) /\ serving = {}
  BY DEF IInv, Ending, GiveUp, SkipScan, StartScan, waiting, serving
<1>2. Members(batch) # {} /\ Members(queue) \cap Members(batch) = {}
  BY <1>1, SomeMember DEF IInv, TypeOK
<1>3. CASE GiveUp
  <2>1. waiting' = {} /\ serving' = {} /\ closed' = closed \cup waiting
    BY <1>1, <1>3, EmptyMembers DEF GiveUp, waiting, serving
  <2>2. Service!Drop(waiting)
    BY <1>1, <1>3, <2>1 DEF GiveUp, waiting, serving, Service!Drop
  <2>3. waiting \in (SUBSET waiting) \ {{}}
    BY <1>1, <1>2
  <2> QED BY <2>2, <2>3 DEF Service!Next, waiting
<1>4. CASE SkipScan
  <2>1. /\ waiting' = waiting \ Members(batch) /\ serving' = {}
        /\ closed' = closed \cup Members(batch)
    BY <1>1, <1>2, <1>4, EmptyMembers DEF SkipScan, waiting, serving
  <2>2. Service!Drop(Members(batch))
    BY <1>1, <1>4, <2>1 DEF SkipScan, waiting, serving, Service!Drop
  <2>3. Members(batch) \in (SUBSET waiting) \ {{}}
    BY <1>1, <1>2
  <2> QED BY <2>2, <2>3 DEF Service!Next, waiting
<1>5. CASE StartScan
  <2>1. waiting' = waiting \ Members(batch) /\ serving' = Members(batch)
    BY <1>1, <1>2, <1>5 DEF StartScan, waiting, serving
  <2>2. current' = Service!Merged(Members(batch))
    BY <1>5 DEF StartScan, Merge, Deciding, Service!Merged, Service!Deciding
  <2>3. Service!Start(Members(batch))
    BY <1>1, <1>5, <2>1, <2>2 DEF StartScan, waiting, serving, Service!Start
  <2>4. Members(batch) \in (SUBSET waiting) \ {{}}
    BY <1>1, <1>2
  <2> QED BY <2>3, <2>4 DEF Service!Next, waiting
<1> QED BY <1>3, <1>4, <1>5 DEF Ending

\* The end of the scan answers its requests (_run_scan).
LEMMA RefinesEndScan == IInv /\ EndScan => Service!Finish
<1> SUFFICES ASSUME IInv, EndScan PROVE Service!Finish
  OBVIOUS
<1>1. current # NotMade /\ batch' = <<>> /\ Members(batch') = {}
  BY EmptyMembers DEF IInv, EndScan
<1> QED BY <1>1 DEF EndScan, Service!Finish

\* Every step of the daemon is a step of the service or none.
LEMMA RefinesNext == IInv /\ [Next]_vars => [Service!Next]_(Service!vars)
<1> SUFFICES ASSUME IInv, [Next]_vars PROVE [Service!Next]_(Service!vars)
  OBVIOUS
<1>1. CASE UNCHANGED vars \/ CancelScan \/ RequestShutdown \/ WaitTimeout \/ Thread
  <2>1. UNCHANGED <<kind, queue, batch, current, closed>>
    BY <1>1 DEF vars, loop, thread, CancelScan, RequestShutdown, WaitTimeout, Thread,
                ThreadFrame, BeginLibrary, EndLibrary, MakeReport, Record,
                RecordFails, RunHooks
  <2>2. (worker = "scan")' = (worker = "scan")
    BY <1>1 DEF vars, loop, thread, CancelScan, RequestShutdown, WaitTimeout, Thread,
                ThreadFrame, BeginLibrary, EndLibrary, MakeReport, Record,
                RecordFails, RunHooks
  <2> QED BY <2>1, <2>2 DEF Service!vars
<1>2. CASE \E r \in Request, k \in Kind : RequestScan(r, k)
  BY <1>2, RefinesAsk DEF Service!Next, Service!Kind
<1>3. CASE Poll
  BY <1>3, RefinesPoll
<1>4. CASE Take
  BY <1>4, RefinesTake
<1>5. CASE Ending
  BY <1>5, RefinesEnding
<1>6. CASE EndScan
  BY <1>6, RefinesEndScan DEF Service!Next
<1> QED BY <1>1, <1>2, <1>3, <1>4, <1>5, <1>6 DEF Next, Worker

\* The scan queue keeps its promise: every request is taken into one scan that
\* starts after it, real if one of them is real and forced only if a request
\* that decides asked for it, or is dropped (request_scan, _worker, merge_events).
THEOREM DaemonImplementsService == Spec => ServiceSpec
BY RefinesInit, RefinesNext, Invariant, PTL DEF Spec, ServiceSpec, Service!Spec
=============================================================================
