------------------------ MODULE ServerShutdownTheorems ------------------------
(***************************************************************************)
(* The invariant of ServerShutdownInvariant is inductive: at every stage   *)
(* of Run and Shutdown, of a server that could be started and of one that  *)
(* could not, with any number of threads, slots and failures.  What        *)
(* Shutdown leaves behind and what it frees follow from it.                *)
(***************************************************************************)
EXTENDS ServerShutdownInvariant, TCPServerTheorems

\* The steps of the server are expanded wherever a leaf mentions them.
USE DEF flag, session, port, server, app, local, Goto, Return, AddRef, AddRecvRef, AddStartRef,
  Deref, TryRelease, Releasable, PostJob,
  Enter, CheckReleased, PassesReleased, CheckId, PassesId, Body, ReadAddress, SetCancel, CancelIoEx,
  Push, DisconnectFull, TakeFlag, WasSending, CheckCancelSend, Peek, ClearFlag, WithoutFlag,
  RefSend, Started, Refused, WSASend, CheckSendPending, RefRecv, AfterWSARecv, WSARecv,
  CheckRecvPending, Received, CheckCancelRecv, TakeCompletion, DequeueRecv, DequeueSend, DequeueJob,
  PopSent, ClearPending, DropFlag, CheckMore, LoadReadCursor, LoadWriteCursor, Disconnected, Drain,
  Drained, CloseSocket, Uncount, Uncounted, PushReady, Accept, PopReady, Setup, PushBack,
  StartFields, StartProtect, StartPublish, CountSession, Connected, Complete, PeerReset

----------------------------------------------------------------------------
(***************************************************************************)
(* What the server's steps do to application threads, sockets and threads  *)
(* at rest.                                                                *)
(***************************************************************************)

\* A slot has no socket from CloseSocket until Start gives it one.
LEMMA SocketsClosedStep ==
  ASSUME ThreadTypes, SessionTypes, ServerTypes, Located, OwnersApart, SocketsClosed, [AnyNext]_vars
  PROVE  SocketsClosed'
<1> USE DEF ThreadTypes, SessionTypes, ServerTypes, Located, SocketsClosed, Threads
<1>1. CASE UNCHANGED vars
  BY SMTT(40), <1>1 DEF vars
<1>2. ASSUME NEW t \in Threads, SharedStep(t) PROVE SocketsClosed'
  BY <1>2 DEF SharedStep, ReleaseStep, ApiStep, SendStep, RecvStep
<1>3. ASSUME NEW w \in Workers, DequeueStep(w) \/ Received(w) \/ SentStep(w) PROVE SocketsClosed'
  <2>1. CASE DequeueStep(w)
    BY <2>1 DEF DequeueStep
  <2>2. CASE Received(w) \/ PopSent(w) \/ ClearPending(w) \/ DropFlag(w)
    BY ZenonT(60), <2>2
  <2>3. CASE CheckMore(w) \/ LoadReadCursor(w) \/ LoadWriteCursor(w)
    BY <2>3
  <2>q. QED
    BY <1>3, <2>1, <2>2, <2>3 DEF SentStep
<1>4. ASSUME NEW w \in Workers, RecycleStep(w) PROVE SocketsClosed'
  <2>1. CASE Disconnected(w) \/ Drain(w)
    BY <2>1
  <2>2. CASE CloseSocket(w)
    BY <2>2
  <2>3. CASE Uncount(w)
    BY <2>3
  <2>4. CASE PushReady(w)
    BY <2>4
  <2>q. QED
    BY <1>4, <2>1, <2>2, <2>3, <2>4 DEF RecycleStep
<1>5. CASE StartFields(Acceptor)
  <2>1. \A t \in Threads : pc[t] \in Owning /\ cur[t] = cur[Acceptor] => t = Acceptor
    BY <1>5 DEF OwnersApart, Owning
  <2>2. cur[Acceptor] \in Slots /\ cur[Acceptor] \notin ready
    BY <1>5 DEF OwnersApart, Owning
  <2>q. QED
    BY <1>5, <2>1, <2>2 DEF Owning
<1>6. CASE Accept(Acceptor) \/ (AcceptStep(Acceptor) /\ ~StartFields(Acceptor))
  BY <1>6 DEF AcceptStep
<1>7. ASSUME NEW t \in Callers, AnyCall(t) PROVE SocketsClosed'
  BY <1>7 DEF AnyCall
<1>8. CASE NetworkStep
  BY <1>8 DEF NetworkStep
<1>q. QED
  BY <1>1, <1>2, <1>3, <1>4, <1>5, <1>6, <1>7, <1>8 DEF AnyNext, WorkerStep

\* A server without sessions, whose accept thread starts none.
Quiet == sessionCount = 0 /\ pc[Acceptor] = "idle"

\* A quiet server has no session that is not released, no operation and no job: a slot is on the ready
\* list, or with the thread that is about to put it there.
LEMMA QuietIsEmpty ==
  ASSUME IInv, CallerRoles, Quiet
  PROVE  /\ \A s \in Slots : released[s] /\ recvIo[s] = "none" /\ sendIo[s] = "none" /\ jobs[s] = 0
         /\ \A t \in Threads : pc[t] \notin (Owning \ Uncounting) \cup Using
<1>1. /\ ThreadTypes /\ PortTypes /\ ServerTypes /\ Located /\ Alive /\ Roles
      /\ NoUseAfterRelease /\ SessionCountExact /\ OwnersApart
  BY ApartByThread DEF IInv, TypeOK, Placed
<1>2. Occupied = {}
  BY <1>1, OccupiedIsFinite, FS_EmptySet DEF Quiet, SessionCountExact
<1>3. ASSUME NEW t \in Threads PROVE pc[t] # "countSession"
  BY <1>1, ThreadAssumption DEF Threads, Roles, CallerRoles, Quiet
<1>4. ASSUME NEW s \in Slots
      PROVE  s \in ready \/ \E t \in Threads : cur[t] = s /\ pc[t] \in Owning \cap Uncounting
  BY <1>2, <1>3 DEF Occupied, Free, Uncounting, Owning
<1>5. ASSUME NEW s \in Slots PROVE released[s] /\ jobs[s] = 0
  BY <1>1, <1>4 DEF OwnersApart
<1>6. ASSUME NEW s \in Slots PROVE recvIo[s] = "none" /\ sendIo[s] = "none"
  BY <1>1, <1>5 DEF NoUseAfterRelease
<1>7. ASSUME NEW t \in Threads, pc[t] \in Owning \ Uncounting PROVE FALSE
  <2>1. cur[t] \in Slots /\ cur[t] \notin ready
    BY <1>1, <1>7 DEF Located, Owning, OwnersApart
  <2>2. PICK u \in Threads : cur[u] = cur[t] /\ pc[u] \in Owning \cap Uncounting
    BY <1>4, <2>1
  <2>q. QED
    BY <1>1, <1>7, <2>2 DEF OwnersApart
<1>8. ASSUME NEW t \in Threads, pc[t] \in Using PROVE FALSE
  BY <1>1, <1>5, <1>8 DEF Alive, Using, Located
<1>q. QED
  BY <1>5, <1>6, <1>7, <1>8

----------------------------------------------------------------------------
(***************************************************************************)
(* The steps of Run and Shutdown, seen from the server.                    *)
(***************************************************************************)

\* Run and Shutdown leave the server alone but for the calls of Disconnect, and with them every step is one
\* of the server's.
LEMMA StepsAreServerSteps ==
  ASSUME IInv, ShutdownTypeOK, Scanning, [NextAll]_allVars
  PROVE  [AnyNext]_vars
<1>1. CASE UNCHANGED allVars
  BY <1>1 DEF allVars
<1>2. CASE RunStep
  BY <1>2 DEF RunStep, StartRun, Acquire, CreateThread, RunFails, ResumeAll
<1>3. CASE Listen \/ EnterAccept
  BY <1>3 DEF Listen, EnterAccept
<1>4. CASE LeaveAccept
  <2>1. Accept(Acceptor)
    BY <1>4, Zenon DEF LeaveAccept
  <2>q. QED
    BY <2>1, Zenon DEF AnyNext
<1>5. CASE ScanDisconnect
  <2>1. target.id \in Nat /\ target.slot \in Slots
    BY <1>5 DEF ShutdownTypeOK, Scanning, ScanDisconnect
  <2>2. calls' \in Nat
    BY <1>5 DEF ScanDisconnect, IInv, TypeOK, ServerTypes
  <2>3. Enter(Main, "disconnect", target.id, target.slot)
    BY <1>5, Zenon DEF ScanDisconnect
  <2>4. AnyCall(Main)
    BY <2>1, <2>2, <2>3, Zenon DEF AnyCall
  <2>q. QED
    BY <2>4, ShutdownAssumption, Zenon DEF AnyNext
<1>6. CASE ShutdownStep /\ ~ScanDisconnect
  BY <1>6 DEF ShutdownStep, CloseListen, ScanDone, ScanGetId, ScanSlot, ResumeToJoin, JoinAccept, ClosePort,
    JoinWorkers, FreeAll
<1>7. ASSUME NEW w \in Workers, WorkerExit(w) PROVE UNCHANGED vars
  BY <1>7 DEF WorkerExit
<1>8. ASSUME NEW t \in Callers, CallStep(t) PROVE [AnyNext]_vars
  <2>1. Next
    BY <1>8, Zenon DEF Next
  <2>q. QED
    BY <2>1, NextIsAny
<1>q. QED
  BY <1>1, <1>2, <1>3, <1>4, <1>5, <1>6, <1>7, <1>8, Zenon DEF NextAll, AnyNext, RunningWorkerStep

\* The accept thread at the top of its loop stays there as long as accept() does not return.
LEMMA AcceptorStaysIdle ==
  ASSUME ThreadTypes, pc[Acceptor] = "idle", acceptAt # "blocked" \/ acceptAt' = "blocked", [NextAll]_allVars
  PROVE  pc'[Acceptor] = "idle"
<1> USE ThreadAssumption, ShutdownAssumption DEF ThreadTypes, Threads
<1>1. CASE UNCHANGED allVars
  BY <1>1 DEF allVars, vars
<1>2. CASE RunStep
  BY <1>2 DEF RunStep, StartRun, Acquire, CreateThread, RunFails, ResumeAll, vars
<1>3. CASE Listen \/ EnterAccept \/ LeaveAccept
  BY <1>3 DEF Listen, EnterAccept, LeaveAccept, vars
<1>4. CASE ShutdownStep
  BY <1>4 DEF ShutdownStep, ScanDisconnect, CloseListen, ScanDone, ScanGetId, ScanSlot, ResumeToJoin,
    JoinAccept, ClosePort, JoinWorkers, FreeAll, vars
<1>5. ASSUME NEW w \in Workers, WorkerExit(w) PROVE pc'[Acceptor] = "idle"
  BY SMTT(40), <1>5 DEF WorkerExit, vars
<1>6. ASSUME NEW t \in Threads, SharedStep(t) PROVE pc'[Acceptor] = "idle"
  BY <1>6 DEF SharedStep, ReleaseStep, ApiStep, SendStep, RecvStep
<1>7. ASSUME NEW w \in Workers, WorkerStep(w) PROVE pc'[Acceptor] = "idle"
  BY <1>7 DEF WorkerStep, DequeueStep, SentStep, RecycleStep
<1>8. CASE AcceptStep(Acceptor)
  BY <1>8 DEF AcceptStep
<1>9. ASSUME NEW t \in Callers, CallStep(t) PROVE pc'[Acceptor] = "idle"
  BY <1>9 DEF CallStep, Call
<1>10. CASE NetworkStep
  BY <1>10 DEF NetworkStep
<1>q. QED
  BY <1>1, <1>2, <1>3, <1>4, <1>5, <1>6, <1>7, <1>8, <1>9, <1>10 DEF NextAll, RunningWorkerStep

\* There is nothing to take from the completion port.
NoCompletions == \A s \in Slots : recvIo[s] = "none" /\ sendIo[s] = "none" /\ jobs[s] = 0

\* A worker at the top of its loop stays there when the port is closed or has nothing for it.
LEMMA WorkersStayIdle ==
  ASSUME ThreadTypes, NEW w \in Workers, pc[w] = "idle", ~portOpen \/ NoCompletions, [NextAll]_allVars
  PROVE  pc'[w] = "idle"
<1> USE ThreadAssumption, ShutdownAssumption DEF ThreadTypes, Threads
<1>1. CASE UNCHANGED allVars
  BY <1>1 DEF allVars, vars
<1>2. CASE RunStep
  BY <1>2 DEF RunStep, StartRun, Acquire, CreateThread, RunFails, ResumeAll, vars
<1>3. CASE Listen \/ EnterAccept \/ LeaveAccept
  BY <1>3 DEF Listen, EnterAccept, LeaveAccept, vars
<1>4. CASE ShutdownStep
  BY <1>4 DEF ShutdownStep, ScanDisconnect, CloseListen, ScanDone, ScanGetId, ScanSlot, ResumeToJoin,
    JoinAccept, ClosePort, JoinWorkers, FreeAll, vars
<1>5. ASSUME NEW u \in Workers, WorkerExit(u) PROVE pc'[w] = "idle"
  BY SMTT(40), <1>5 DEF WorkerExit, vars
<1>6. ASSUME NEW t \in Threads, SharedStep(t) PROVE pc'[w] = "idle"
  BY <1>6 DEF SharedStep, ReleaseStep, ApiStep, SendStep, RecvStep
<1>7. ASSUME NEW u \in Workers, RunningWorkerStep(u) PROVE pc'[w] = "idle"
  <2>1. CASE DequeueStep(u)
    <3>1. pc[u] = "idle" /\ ~NoCompletions
      BY <2>1 DEF DequeueStep, NoCompletions
    <3>2. portOpen
      BY <1>7, <3>1 DEF RunningWorkerStep
    <3>q. QED
      BY <3>1, <3>2
  <2>2. CASE Received(u) \/ SentStep(u)
    BY <2>2 DEF SentStep
  <2>3. CASE RecycleStep(u)
    BY <2>3 DEF RecycleStep
  <2>q. QED
    BY <1>7, <2>1, <2>2, <2>3 DEF RunningWorkerStep, WorkerStep
<1>8. CASE AcceptStep(Acceptor)
  BY <1>8 DEF AcceptStep
<1>9. ASSUME NEW t \in Callers, CallStep(t) PROVE pc'[w] = "idle"
  BY <1>9 DEF CallStep, Call
<1>10. CASE NetworkStep
  BY <1>10 DEF NetworkStep
<1>q. QED
  BY <1>1, <1>2, <1>3, <1>4, <1>5, <1>6, <1>7, <1>8, <1>9, <1>10 DEF NextAll

\* A quiet server stays quiet: nobody starts a session, and there is none to be counted out.
LEMMA QuietStaysQuiet ==
  ASSUME IInv, CallerRoles, Quiet, acceptAt # "blocked" \/ acceptAt' = "blocked", [AnyNext]_vars,
         [NextAll]_allVars
  PROVE  Quiet'
<1>1. ThreadTypes
  BY DEF IInv, TypeOK
<1>2. pc'[Acceptor] = "idle"
  BY <1>1, AcceptorStaysIdle DEF Quiet
<1>3. \A t \in Threads : pc[t] # "uncount" /\ pc[t] # "countSession"
  BY QuietIsEmpty DEF Owning, Uncounting, Using
<1>4. sessionCount' = sessionCount
  <2> USE <1>3 DEF Threads
  <2>1. CASE UNCHANGED vars
    BY <2>1 DEF vars
  <2>2. ASSUME NEW t \in Threads, SharedStep(t) PROVE sessionCount' = sessionCount
    BY <2>2 DEF SharedStep, ReleaseStep, ApiStep, SendStep, RecvStep
  <2>3. ASSUME NEW w \in Workers, WorkerStep(w) PROVE sessionCount' = sessionCount
    BY <2>3 DEF WorkerStep, DequeueStep, SentStep, RecycleStep
  <2>4. CASE Accept(Acceptor) \/ AcceptStep(Acceptor)
    BY <2>4 DEF AcceptStep
  <2>5. ASSUME NEW t \in Callers, AnyCall(t) PROVE sessionCount' = sessionCount
    BY <2>5 DEF AnyCall
  <2>6. CASE NetworkStep
    BY <2>6 DEF NetworkStep
  <2>q. QED
    BY <2>1, <2>2, <2>3, <2>4, <2>5, <2>6 DEF AnyNext
<1>q. QED
  BY <1>2, <1>4 DEF Quiet

\* Only the accept thread and the workers move slots to and from the ready list.
LEMMA ReadyIsKept ==
  ASSUME CallerRoles, \A t \in ServerThreads : pc[t] = "idle", [AnyNext]_vars
  PROVE  ready' = ready
<1> USE DEF ServerThreads, Threads
<1>1. CASE UNCHANGED vars
  BY <1>1 DEF vars
<1>2. ASSUME NEW t \in Threads, SharedStep(t) PROVE ready' = ready
  BY <1>2 DEF SharedStep, ReleaseStep, ApiStep, SendStep, RecvStep
<1>3. ASSUME NEW w \in Workers, WorkerStep(w) PROVE ready' = ready
  BY <1>3 DEF WorkerStep, DequeueStep, SentStep, RecycleStep
<1>4. CASE Accept(Acceptor) \/ AcceptStep(Acceptor)
  BY <1>4 DEF AcceptStep
<1>5. ASSUME NEW t \in Callers, AnyCall(t) PROVE ready' = ready
  BY <1>5 DEF AnyCall
<1>6. CASE NetworkStep
  BY <1>6 DEF NetworkStep
<1>q. QED
  BY <1>1, <1>2, <1>3, <1>4, <1>5, <1>6 DEF AnyNext

----------------------------------------------------------------------------
(***************************************************************************)
(* What is held at each stage, and by which threads.                       *)
(***************************************************************************)

Names == {"log", "recvBufs", "sendQueues", "sessions", "port", "listenSock"}

LEMMA ResourceNames ==
  /\ Len(Resources) = 6
  /\ {Resources[i] : i \in 1..Len(Resources)} = Names
  /\ ServerThreads \cap Names = {}
<1>1. Len(Resources) = 6
  BY DEF Resources
<1>2. /\ Resources[1] = "log" /\ Resources[2] = "recvBufs" /\ Resources[3] = "sendQueues"
      /\ Resources[4] = "sessions" /\ Resources[5] = "port" /\ Resources[6] = "listenSock"
  BY DEF Resources
<1>3. 1..6 = {1, 2, 3, 4, 5, 6}
  OBVIOUS
<1>4. {Resources[i] : i \in 1..Len(Resources)} = Names
  BY <1>1, <1>2, <1>3 DEF Names
<1>q. QED
  BY <1>1, <1>4, ShutdownAssumption DEF ServerThreads, Threads, Names

\* Run acquires memory before the port, and the port before the listening socket.
LEMMA AcquiredInOrder ==
  ASSUME NEW i \in 1..Len(Resources), Acquire(i)
  PROVE  /\ held \subseteq Names /\ held' \subseteq Names /\ held \subseteq held'
         /\ "listenSock" \in held' => Names \subseteq held'
         /\ stage' = "createThreads" => Names \subseteq held'
         /\ stage' \in {"acquire", "createThreads"}
<1>1. i \in {1, 2, 3, 4, 5, 6}
  BY ResourceNames
<1>2. /\ Resources[1] = "log" /\ Resources[2] = "recvBufs" /\ Resources[3] = "sendQueues"
      /\ Resources[4] = "sessions" /\ Resources[5] = "port" /\ Resources[6] = "listenSock"
  BY DEF Resources
<1>3. held' = {Resources[j] : j \in 1..i}
  BY <1>1 DEF Acquire
<1>4. /\ 1..1 = {1} /\ 1..2 = {1, 2} /\ 1..3 = {1, 2, 3} /\ 1..4 = {1, 2, 3, 4} /\ 1..5 = {1, 2, 3, 4, 5}
      /\ 1..6 = {1, 2, 3, 4, 5, 6}
  OBVIOUS
<1>5. held \subseteq held'
  BY DEF Acquire
<1>6. held' \subseteq Names
  BY <1>1, <1>2, <1>3, <1>4 DEF Names
<1>7. i = 6 => Names \subseteq held'
  BY <1>2, <1>3, <1>4 DEF Names
<1>8. "listenSock" \in held' => i = 6
  BY <1>1, <1>2, <1>3, <1>4
<1>9. stage' = "createThreads" => i = 6
  BY ResourceNames DEF Acquire
<1>10. stage' \in {"acquire", "createThreads"}
  BY DEF Acquire
<1>q. QED
  BY <1>5, <1>6, <1>7, <1>8, <1>9, <1>10

\* Every thread that has not returned has its handle, the memory stays as long as a thread does, and the
\* port outlives the listening socket.
LEMMA HeldStep ==
  ASSUME ShutdownTypeOK, Held, AcceptThread, [NextAll]_allVars
  PROVE  Held'
<1> USE DEF Held, listening, portOpen
<1>0. ServerThreads \cap Names = {} /\ Memory \subseteq Names /\ exited \subseteq ServerThreads
      /\ {Resources[i] : i \in 1..Len(Resources)} = Names
  BY ResourceNames DEF Memory, Names, ShutdownTypeOK
<1>1. CASE UNCHANGED shutdown
  BY <1>1 DEF shutdown
<1>2. CASE StartRun \/ RunFails \/ ResumeAll
  BY <1>2 DEF StartRun, RunFails, ResumeAll, ShutdownStages
<1>3. ASSUME NEW i \in 1..Len(Resources), Acquire(i) PROVE Held'
  <2>1. /\ held \subseteq Names /\ held' \subseteq Names /\ held \subseteq held'
        /\ "listenSock" \in held' => Names \subseteq held'
        /\ stage' = "createThreads" => Names \subseteq held'
        /\ stage' \in {"acquire", "createThreads"}
    BY <1>3, AcquiredInOrder
  <2>2. exited' = exited
    BY <1>3 DEF Acquire
  <2>3. "port" \in Names
    BY DEF Names
  <2>q. QED
    BY <1>0, <2>1, <2>2, <2>3 DEF ShutdownStages
<1>4. ASSUME NEW t \in ServerThreads, CreateThread(t) PROVE Held'
  BY <1>0, <1>4 DEF CreateThread, Names, ShutdownStages
<1>5. CASE Listen
  BY <1>5 DEF Listen, AcceptIdle, AcceptThread, BeforeResume
<1>6. CASE EnterAccept \/ LeaveAccept
  BY <1>6 DEF EnterAccept, LeaveAccept
<1>7. CASE CloseListen
  BY <1>0, <1>7 DEF CloseListen, ExitsOnInterrupt, ShutdownStages, Memory, Names, ServerThreads
<1>8. CASE ScanGetId \/ ScanDisconnect \/ ScanDone
  BY <1>8 DEF ScanGetId, ScanDisconnect, ScanDone, ShutdownStages
<1>9. ASSUME NEW s \in Slots, ScanSlot(s) PROVE Held'
  BY <1>9 DEF ScanSlot, ShutdownStages
<1>10. ASSUME NEW t \in ServerThreads, ResumeToJoin(t) PROVE Held'
  BY <1>10 DEF ResumeToJoin
<1>11. CASE JoinAccept
  BY <1>0, <1>11 DEF JoinAccept, ServerThreads, Names, Memory, ShutdownStages
<1>12. CASE ClosePort
  BY <1>0, <1>12 DEF ClosePort, Names, Memory, ShutdownStages
<1>13. CASE JoinWorkers
  BY <1>0, <1>13 DEF JoinWorkers, AllJoined, ServerThreads, Names, Memory, ShutdownStages
<1>14. CASE FreeAll
  BY <1>14 DEF FreeAll, ShutdownTypeOK
<1>15. ASSUME NEW w \in Workers, WorkerExit(w) PROVE Held'
  BY <1>0, <1>15 DEF WorkerExit, Names
<1>q. QED
  BY <1>1, <1>2, <1>3, <1>4, <1>5, <1>6, <1>7, <1>8, <1>9, <1>10, <1>11, <1>12, <1>13, <1>14, <1>15
  DEF NextAll, RunStep, ShutdownStep, allVars

\* m_init is set exactly while every thread of the server has been resumed and nothing it uses is freed.
LEMMA InitialisedStep ==
  ASSUME ShutdownTypeOK, Held, Initialised, [NextAll]_allVars
  PROVE  Initialised'
<1> USE DEF Initialised, portOpen
<1>0. ServerThreads \cap Names = {} /\ Memory \subseteq Names
      /\ {Resources[i] : i \in 1..Len(Resources)} = Names
  BY ResourceNames DEF Memory, Names
<1>1. CASE UNCHANGED shutdown
  BY <1>1 DEF shutdown
<1>2. CASE StartRun \/ RunFails
  BY <1>2 DEF StartRun, RunFails, InitialisedOnly, AfterScan
<1>3. CASE ResumeAll
  BY <1>0, <1>3 DEF ResumeAll, Held, InitialisedOnly, AfterScan, ServerThreads
<1>4. ASSUME NEW i \in 1..Len(Resources), Acquire(i) PROVE Initialised'
  BY <1>0, <1>4 DEF Acquire, InitialisedOnly, AfterScan
<1>5. ASSUME NEW t \in ServerThreads, CreateThread(t) PROVE Initialised'
  BY <1>0, <1>5 DEF CreateThread, InitialisedOnly, AfterScan
<1>6. CASE Listen
  BY ThreadAssumption, <1>6 DEF Listen
<1>7. CASE EnterAccept \/ LeaveAccept
  BY <1>7 DEF EnterAccept, LeaveAccept
<1>8. CASE CloseListen
  BY <1>0, ThreadAssumption, <1>8 DEF CloseListen, InitialisedOnly, AfterScan, ExitsOnInterrupt, Memory
<1>9. CASE ScanGetId \/ ScanDisconnect \/ ScanDone
  BY <1>9 DEF ScanGetId, ScanDisconnect, ScanDone, InitialisedOnly, AfterScan
<1>10. ASSUME NEW s \in Slots, ScanSlot(s) PROVE Initialised'
  BY <1>10 DEF ScanSlot, InitialisedOnly, AfterScan
<1>11. ASSUME NEW t \in ServerThreads, ResumeToJoin(t) PROVE Initialised'
  BY <1>11 DEF ResumeToJoin
<1>12. CASE JoinAccept
  BY <1>0, <1>12 DEF JoinAccept, InitialisedOnly, AfterScan, ServerThreads
<1>13. CASE ClosePort
  BY <1>0, <1>13 DEF ClosePort, InitialisedOnly, AfterScan, Memory
<1>14. CASE JoinWorkers
  BY <1>0, <1>14 DEF JoinWorkers, InitialisedOnly, AfterScan, ServerThreads
<1>15. CASE FreeAll
  BY <1>15 DEF FreeAll, InitialisedOnly, AfterScan
<1>16. ASSUME NEW w \in Workers, WorkerExit(w) PROVE Initialised'
  BY <1>16 DEF WorkerExit
<1>q. QED
  BY <1>1, <1>2, <1>3, <1>4, <1>5, <1>6, <1>7, <1>8, <1>9, <1>10, <1>11, <1>12, <1>13, <1>14, <1>15, <1>16
  DEF NextAll, RunStep, ShutdownStep, allVars

\* The accept thread cannot listen unless the server is initialised: it is resumed by ResumeAll, or when the
\* listening socket is closed.
LEMMA AcceptThreadStep ==
  ASSUME ShutdownTypeOK, Held, Initialised, AcceptThread, [NextAll]_allVars
  PROVE  AcceptThread'
<1> USE DEF AcceptThread
<1>1. CASE UNCHANGED shutdown
  BY <1>1 DEF shutdown
<1>2. CASE StartRun \/ RunFails
  BY <1>2 DEF StartRun, RunFails, BeforeResume
<1>3. CASE ResumeAll
  BY <1>3 DEF ResumeAll, BeforeResume
<1>4. ASSUME NEW i \in 1..Len(Resources), Acquire(i) PROVE AcceptThread'
  BY <1>4 DEF Acquire, BeforeResume
<1>5. ASSUME NEW t \in ServerThreads, CreateThread(t) PROVE AcceptThread'
  BY <1>5 DEF CreateThread, BeforeResume, ServerThreads
<1>6. CASE Listen
  BY <1>6 DEF Listen, AcceptIdle, listening, Held, Initialised, InitialisedOnly, BeforeResume, ShutdownStages, ShutdownTypeOK, Stages
<1>7. CASE EnterAccept \/ LeaveAccept
  BY <1>7 DEF EnterAccept, LeaveAccept, AcceptIdle, listening, Held, Initialised, InitialisedOnly, BeforeResume, ShutdownStages, ShutdownTypeOK, Stages
<1>8. CASE CloseListen
  BY <1>8 DEF CloseListen, BeforeResume
<1>9. CASE ScanGetId \/ ScanDisconnect \/ ScanDone
  BY <1>9 DEF ScanGetId, ScanDisconnect, ScanDone, BeforeResume
<1>10. ASSUME NEW s \in Slots, ScanSlot(s) PROVE AcceptThread'
  BY <1>10 DEF ScanSlot, BeforeResume
<1>11. ASSUME NEW t \in ServerThreads, ResumeToJoin(t) PROVE AcceptThread'
  BY <1>11 DEF ResumeToJoin, BeforeResume
<1>12. CASE JoinAccept
  BY <1>12 DEF JoinAccept, BeforeResume
<1>13. CASE ClosePort
  BY <1>13 DEF ClosePort, BeforeResume
<1>14. CASE JoinWorkers
  BY <1>14 DEF JoinWorkers, BeforeResume
<1>15. CASE FreeAll
  BY <1>15 DEF FreeAll, BeforeResume, ShutdownTypeOK, ServerThreads
<1>16. ASSUME NEW w \in Workers, WorkerExit(w) PROVE AcceptThread'
  BY <1>16 DEF WorkerExit
<1>q. QED
  BY <1>1, <1>2, <1>3, <1>4, <1>5, <1>6, <1>7, <1>8, <1>9, <1>10, <1>11, <1>12, <1>13, <1>14, <1>15, <1>16
  DEF NextAll, RunStep, ShutdownStep, allVars

----------------------------------------------------------------------------
(***************************************************************************)
(* How quiet the server is at each stage.                                  *)
(***************************************************************************)

\* A server that is not initialised, or whose port is closed, has nothing for its workers.
LEMMA NothingToDo ==
  ASSUME IInv, CallerRoles, AtRest, PortClosed, ~init \/ ~portOpen
  PROVE  NoCompletions /\ Quiet
<1>1. Quiet
  BY DEF AtRest, PortClosed, Quiet, ServerThreads
<1>q. QED
  BY <1>1, QuietIsEmpty DEF NoCompletions

\* A quiet server whose threads are all at the top of their loops has every slot on the ready list.
LEMMA AllSlotsReady ==
  ASSUME IInv, CallerRoles, Quiet, \A t \in ServerThreads : pc[t] = "idle"
  PROVE  ready = Slots
<1>1. ServerTypes /\ SessionCountExact
  BY DEF IInv, TypeOK
<1>2. Occupied = {}
  BY <1>1, OccupiedIsFinite, FS_EmptySet DEF Quiet, SessionCountExact
<1>3. ASSUME NEW t \in Threads PROVE pc[t] \notin Uncounting
  BY DEF Threads, ServerThreads, CallerRoles, Uncounting
<1>4. \A s \in Slots : s \in ready
  BY <1>2, <1>3 DEF Occupied, Free
<1>q. QED
  BY <1>1, <1>4 DEF ServerTypes


\* A thread is created and resumed before it returns.
LEMMA SuspendedStep ==
  ASSUME ShutdownTypeOK, AcceptThread, Initialised, Exited, [NextAll]_allVars
  PROVE  (suspended \cap exited = {})'
<1> USE DEF Exited
<1>1. CASE UNCHANGED shutdown
  BY <1>1 DEF shutdown
<1>2. CASE StartRun \/ RunFails
  BY <1>2 DEF StartRun, RunFails
<1>3. CASE ResumeAll
  BY <1>3 DEF ResumeAll, ShutdownTypeOK
<1>4. ASSUME NEW i \in 1..Len(Resources), Acquire(i) PROVE (suspended \cap exited = {})'
  BY <1>4 DEF Acquire
<1>5. ASSUME NEW t \in ServerThreads, CreateThread(t) PROVE (suspended \cap exited = {})'
  BY <1>5 DEF CreateThread
<1>6. CASE Listen
  BY <1>6 DEF Listen, AcceptIdle
<1>7. CASE EnterAccept \/ LeaveAccept
  BY <1>7 DEF EnterAccept, LeaveAccept
<1>8. CASE CloseListen
  BY <1>8 DEF CloseListen, ExitsOnInterrupt, ShutdownTypeOK, AcceptThread, Initialised
<1>9. CASE ScanGetId \/ ScanDisconnect \/ ScanDone
  BY <1>9 DEF ScanGetId, ScanDisconnect, ScanDone
<1>10. ASSUME NEW s \in Slots, ScanSlot(s) PROVE (suspended \cap exited = {})'
  BY <1>10 DEF ScanSlot
<1>11. ASSUME NEW t \in ServerThreads, ResumeToJoin(t) PROVE (suspended \cap exited = {})'
  BY <1>11 DEF ResumeToJoin
<1>12. CASE JoinAccept
  BY <1>12 DEF JoinAccept
<1>13. CASE ClosePort
  BY <1>13 DEF ClosePort
<1>14. CASE JoinWorkers
  BY <1>14 DEF JoinWorkers
<1>15. CASE FreeAll
  BY <1>15 DEF FreeAll, ShutdownTypeOK
<1>16. ASSUME NEW w \in Workers, WorkerExit(w) PROVE (suspended \cap exited = {})'
  BY <1>16 DEF WorkerExit
<1>q. QED
  BY <1>1, <1>2, <1>3, <1>4, <1>5, <1>6, <1>7, <1>8, <1>9, <1>10, <1>11, <1>12, <1>13, <1>14, <1>15, <1>16
  DEF NextAll, RunStep, ShutdownStep, allVars

\* A thread that has returned, or was not started, stays at rest: no accept() returns to it, and the port has
\* nothing for it.
LEMMA ExitedStep ==
  ASSUME IInv, ShutdownTypeOK, Initialised, AcceptThread, Exited, AtRest, PortClosed, CallerRoles,
         [NextAll]_allVars
  PROVE  Exited'
<1>0. ThreadTypes
  BY DEF IInv, TypeOK
<1>1. ASSUME NEW t \in exited PROVE pc'[t] = "idle"
  <2>1. pc[t] = "idle" /\ t \in ServerThreads
    BY DEF Exited, ShutdownTypeOK
  <2>2. CASE t = Acceptor
    BY <1>0, <2>1, <2>2, AcceptorStaysIdle DEF ShutdownTypeOK
  <2>3. CASE t \in Workers
    <3>1. ~init \/ ~portOpen
      BY <2>3 DEF Initialised
    <3>2. NoCompletions
      BY <3>1, NothingToDo
    <3>q. QED
      BY <1>0, <2>1, <2>3, <3>2, WorkersStayIdle
  <2>q. QED
    BY <2>1, <2>2, <2>3 DEF ServerThreads
<1>2. ASSUME NEW t \in exited', t \notin exited PROVE pc'[t] = "idle"
  <2>1. CASE UNCHANGED exited
    BY <1>2, <2>1
  <2>2. CASE Listen
    BY <1>2, <2>2 DEF Listen, AcceptIdle, vars
  <2>3. CASE CloseListen
    BY <1>2, <2>3 DEF CloseListen, ExitsOnInterrupt, ShutdownTypeOK, vars
  <2>4. ASSUME NEW w \in Workers, WorkerExit(w) PROVE pc'[t] = "idle"
    BY <1>2, <2>4 DEF WorkerExit, vars
  <2>5. ASSUME NEW u \in ServerThreads, CreateThread(u) PROVE FALSE
    BY <1>2, <2>5 DEF CreateThread
  <2>q. QED
    BY <2>1, <2>2, <2>3, <2>4, <2>5
    DEF NextAll, RunStep, StartRun, Acquire, RunFails, ResumeAll, EnterAccept, LeaveAccept, ShutdownStep,
      ScanGetId, ScanDisconnect, ScanDone, ScanSlot, ResumeToJoin, JoinAccept, ClosePort, JoinWorkers, FreeAll,
      shutdown, allVars
<1>3. \A t \in exited' : pc'[t] = "idle"
  BY <1>1, <1>2
<1>4. (suspended \cap exited = {})'
  BY SuspendedStep
<1>q. QED
  BY <1>3, <1>4 DEF Exited

\* A server is left at rest by Shutdown, and stays so until Run has resumed its threads.
LEMMA AtRestStep ==
  ASSUME IInv, ShutdownTypeOK, Held, AcceptThread, Exited, AtRest, PortClosed, CallerRoles, Scanning,
         [NextAll]_allVars
  PROVE  AtRest'
<1>0. ThreadTypes /\ [AnyNext]_vars
  BY StepsAreServerSteps DEF IInv, TypeOK
<1>1. CASE ~init
  <2>1. /\ ready = Slots /\ Quiet /\ NoCompletions /\ acceptAt # "blocked"
        /\ \A t \in ServerThreads : pc[t] = "idle"
    BY <1>1, NothingToDo DEF AtRest, AcceptThread
  <2>2. Quiet'
    BY <1>0, <2>1, QuietStaysQuiet
  <2>3. ready' = Slots
    BY <1>0, <2>1, ReadyIsKept
  <2>4. ASSUME NEW t \in ServerThreads PROVE pc'[t] = "idle"
    BY <1>0, <2>1, AcceptorStaysIdle, WorkersStayIdle DEF ServerThreads
  <2>q. QED
    BY <2>2, <2>3, <2>4 DEF AtRest, Quiet
<1>2. CASE init /\ ~init'
  <2>1. FreeAll
    BY <1>2 DEF NextAll, RunStep, StartRun, Acquire, CreateThread, RunFails, ResumeAll, Listen, EnterAccept,
      LeaveAccept, ShutdownStep, CloseListen, ScanGetId, ScanDisconnect, ScanDone, ScanSlot, ResumeToJoin,
      JoinAccept, ClosePort, JoinWorkers, WorkerExit, shutdown, allVars
  <2>2. Quiet /\ \A t \in ServerThreads : pc[t] = "idle"
    BY <2>1 DEF FreeAll, Held, PortClosed, Quiet, ShutdownTypeOK, Exited
  <2>3. ready = Slots
    BY <2>2, AllSlotsReady
  <2>4. pc' = pc /\ ready' = ready /\ sessionCount' = sessionCount
    BY <2>1 DEF FreeAll, vars
  <2>q. QED
    BY <2>2, <2>3, <2>4 DEF AtRest, Quiet
<1>q. QED
  BY <1>1, <1>2 DEF AtRest

\* Shutdown closes the port when m_sessionCount has reached zero and the accept thread has been joined, and
\* no session starts after that.
LEMMA PortClosedStep ==
  ASSUME IInv, ShutdownTypeOK, Held, Exited, PortClosed, CallerRoles, Scanning, [NextAll]_allVars
  PROVE  PortClosed'
<1>1. CASE ~portOpen
  <2>1. Quiet /\ acceptAt # "blocked"
    BY <1>1 DEF PortClosed, Quiet, ShutdownTypeOK, Held
  <2>2. Quiet'
    BY <2>1, StepsAreServerSteps, QuietStaysQuiet
  <2>q. QED
    BY <2>2 DEF PortClosed, Quiet
<1>2. CASE portOpen /\ ~portOpen'
  <2>0. "port" \notin ServerThreads
    BY ResourceNames DEF Names
  <2>1. ClosePort
    BY <1>2, <2>0 DEF portOpen, NextAll, RunStep, StartRun, Acquire, CreateThread, RunFails, ResumeAll, Listen,
      EnterAccept, LeaveAccept, ShutdownStep, CloseListen, ScanGetId, ScanDisconnect, ScanDone, ScanSlot,
      ResumeToJoin, JoinAccept, ClosePort, JoinWorkers, FreeAll, WorkerExit, shutdown, allVars, Held, ServerThreads
  <2>2. Quiet
    BY <1>2, <2>1 DEF ClosePort, AllReleased, Quiet, ShutdownTypeOK, Exited
  <2>3. pc' = pc /\ sessionCount' = sessionCount
    BY <2>1 DEF ClosePort, vars
  <2>q. QED
    BY <2>2, <2>3 DEF PortClosed, Quiet
<1>q. QED
  BY <1>1, <1>2 DEF PortClosed

\* DisconnectAllSessions reads the id of a slot it has looked at.
LEMMA ScanningStep ==
  ASSUME ShutdownTypeOK, Scanning, [NextAll]_allVars
  PROVE  Scanning'
<1> USE DEF Scanning
<1>1. CASE UNCHANGED shutdown
  BY <1>1 DEF shutdown
<1>2. CASE StartRun \/ RunFails
  BY <1>2 DEF StartRun, RunFails
<1>3. CASE ResumeAll
  BY <1>3 DEF ResumeAll
<1>4. ASSUME NEW i \in 1..Len(Resources), Acquire(i) PROVE Scanning'
  BY <1>4 DEF Acquire
<1>5. ASSUME NEW t \in ServerThreads, CreateThread(t) PROVE Scanning'
  BY <1>5 DEF CreateThread
<1>6. CASE Listen
  BY <1>6 DEF Listen
<1>7. CASE EnterAccept \/ LeaveAccept
  BY <1>7 DEF EnterAccept, LeaveAccept
<1>8. CASE CloseListen
  BY <1>8 DEF CloseListen
<1>9. CASE ScanGetId \/ ScanDisconnect \/ ScanDone
  BY <1>9 DEF ShutdownTypeOK, ScanGetId, ScanDisconnect, ScanDone
<1>10. ASSUME NEW s \in Slots, ScanSlot(s) PROVE Scanning'
  BY <1>10 DEF ScanSlot
<1>11. ASSUME NEW t \in ServerThreads, ResumeToJoin(t) PROVE Scanning'
  BY <1>11 DEF ResumeToJoin
<1>12. CASE JoinAccept
  BY <1>12 DEF JoinAccept
<1>13. CASE ClosePort
  BY <1>13 DEF ClosePort
<1>14. CASE JoinWorkers
  BY <1>14 DEF JoinWorkers
<1>15. CASE FreeAll
  BY <1>15 DEF FreeAll
<1>16. ASSUME NEW w \in Workers, WorkerExit(w) PROVE Scanning'
  BY <1>16 DEF WorkerExit
<1>q. QED
  BY <1>1, <1>2, <1>3, <1>4, <1>5, <1>6, <1>7, <1>8, <1>9, <1>10, <1>11, <1>12, <1>13, <1>14, <1>15, <1>16
  DEF NextAll, RunStep, ShutdownStep, allVars

----------------------------------------------------------------------------
(***************************************************************************)
(* Where Run and Shutdown are.                                             *)
(***************************************************************************)

\* The parts of ShutdownTypeOK: the types, the thread blocked in accept(), the joins.
StageTypes ==
  /\ stage \in Stages
  /\ init \in BOOLEAN
  /\ held \subseteq Names \cup ServerThreads
  /\ suspended \subseteq held \cap ServerThreads
  /\ exited \subseteq ServerThreads
  /\ acceptAt \in {"entry", "blocked", "loop"}
  /\ unscanned \subseteq Slots
  /\ target \in [slot : Slots \cup {NoSlot}, id : Nat]
  /\ failures \in 0..MaxFailures

Blocked == acceptAt = "blocked" => listening /\ Acceptor \notin exited /\ pc[Acceptor] = "idle"

Joined ==
  /\ stage \in {"waitCount", "joinWorkers", "free"} => Acceptor \in exited
  /\ stage \in {"stopped", "free", "done"} => exited = ServerThreads /\ suspended = {}

LEMMA TypeByParts == ShutdownTypeOK <=> StageTypes /\ Blocked /\ Joined
BY ResourceNames DEF ShutdownTypeOK, StageTypes, Blocked, Joined

LEMMA TypeByPartsNext == ShutdownTypeOK' <=> StageTypes' /\ Blocked' /\ Joined'
BY TypeByParts, PTL

\* The accept thread is blocked only on an open listening socket, and between two sessions.
LEMMA BlockedStep ==
  ASSUME ThreadTypes, Blocked, Held, StageTypes, [NextAll]_allVars
  PROVE  Blocked'
<1> USE DEF Blocked, listening
<1>0. acceptAt = "blocked" /\ acceptAt' = "blocked" /\ pc[Acceptor] = "idle" => pc'[Acceptor] = "idle"
  BY AcceptorStaysIdle
<1>1. CASE UNCHANGED shutdown
  BY <1>0, <1>1 DEF shutdown
<1>2. CASE StartRun \/ RunFails
  BY <1>0, <1>2 DEF StartRun, RunFails
<1>3. CASE ResumeAll
  BY <1>0, <1>3 DEF ResumeAll
<1>4. ASSUME NEW i \in 1..Len(Resources), Acquire(i) PROVE Blocked'
  BY <1>0, <1>4 DEF Acquire
<1>5. ASSUME NEW t \in ServerThreads, CreateThread(t) PROVE Blocked'
  BY <1>0, <1>5 DEF CreateThread
<1>6. CASE Listen
  BY <1>0, <1>6 DEF Listen
<1>7. CASE EnterAccept \/ LeaveAccept
  BY <1>0, <1>7 DEF EnterAccept, LeaveAccept, AcceptIdle, vars
<1>8. CASE CloseListen
  BY <1>0, <1>8 DEF CloseListen
<1>9. CASE ScanGetId \/ ScanDisconnect \/ ScanDone
  BY <1>0, <1>9 DEF ScanGetId, ScanDisconnect, ScanDone
<1>10. ASSUME NEW s \in Slots, ScanSlot(s) PROVE Blocked'
  BY <1>0, <1>10 DEF ScanSlot
<1>11. ASSUME NEW t \in ServerThreads, ResumeToJoin(t) PROVE Blocked'
  BY <1>0, <1>11 DEF ResumeToJoin
<1>12. CASE JoinAccept
  BY <1>0, <1>12 DEF JoinAccept
<1>13. CASE ClosePort
  BY <1>0, <1>13 DEF ClosePort
<1>14. CASE JoinWorkers
  BY <1>0, <1>14 DEF JoinWorkers, Held, listening, ShutdownStages
<1>15. CASE FreeAll
  BY <1>0, <1>15 DEF FreeAll
<1>16. ASSUME NEW w \in Workers, WorkerExit(w) PROVE Blocked'
  BY <1>0, ThreadAssumption, <1>16 DEF WorkerExit
<1>q. QED
  BY <1>1, <1>2, <1>3, <1>4, <1>5, <1>6, <1>7, <1>8, <1>9, <1>10, <1>11, <1>12, <1>13, <1>14, <1>15, <1>16
  DEF NextAll, RunStep, ShutdownStep, allVars

\* Past a join, Shutdown relies on threads that have returned.
LEMMA JoinedStep ==
  ASSUME Joined, StageTypes, Exited, [NextAll]_allVars
  PROVE  Joined'
<1> USE DEF Joined, ShutdownStages
<1>1. CASE UNCHANGED shutdown
  BY <1>1 DEF shutdown
<1>2. CASE StartRun \/ RunFails
  BY <1>2 DEF StartRun, RunFails
<1>3. CASE ResumeAll
  BY <1>3 DEF ResumeAll
<1>4. ASSUME NEW i \in 1..Len(Resources), Acquire(i) PROVE Joined'
  BY <1>4 DEF Acquire
<1>5. ASSUME NEW t \in ServerThreads, CreateThread(t) PROVE Joined'
  BY <1>5 DEF CreateThread
<1>6. CASE Listen
  BY <1>6 DEF Listen, StageTypes, AcceptIdle, ServerThreads
<1>7. CASE EnterAccept \/ LeaveAccept
  BY <1>7 DEF EnterAccept, LeaveAccept
<1>8. CASE CloseListen
  BY <1>8 DEF CloseListen
<1>9. CASE ScanGetId \/ ScanDisconnect \/ ScanDone
  BY <1>9 DEF ScanGetId, ScanDisconnect, ScanDone
<1>10. ASSUME NEW s \in Slots, ScanSlot(s) PROVE Joined'
  BY <1>10 DEF ScanSlot
<1>11. ASSUME NEW t \in ServerThreads, ResumeToJoin(t) PROVE Joined'
  BY <1>11 DEF ResumeToJoin
<1>12. CASE JoinAccept
  BY <1>12 DEF JoinAccept
<1>13. CASE ClosePort
  BY <1>13 DEF ClosePort
<1>14. CASE JoinWorkers
  BY <1>14 DEF JoinWorkers, AllJoined, StageTypes, Exited, ServerThreads
<1>15. CASE FreeAll
  BY <1>15 DEF FreeAll
<1>16. ASSUME NEW w \in Workers, WorkerExit(w) PROVE Joined'
  BY <1>16 DEF WorkerExit, StageTypes, ServerThreads
<1>q. QED
  BY <1>1, <1>2, <1>3, <1>4, <1>5, <1>6, <1>7, <1>8, <1>9, <1>10, <1>11, <1>12, <1>13, <1>14, <1>15, <1>16
  DEF NextAll, RunStep, ShutdownStep, allVars

\* Every step of Run and Shutdown keeps the types.
LEMMA StageTypesStep ==
  ASSUME StageTypes, SessionTypes, Scanning, Held, Joined, Exited, [NextAll]_allVars
  PROVE  StageTypes'
<1> USE DEF StageTypes
<1>0. /\ ServerThreads \cap Names = {} /\ {"listenSock", "port"} \subseteq Names
      /\ Len(Resources) = 6
      /\ \A i \in 1..Len(Resources) : Resources[i] \in Names
  BY ResourceNames DEF Names
<1>1. CASE UNCHANGED shutdown
  BY <1>1 DEF shutdown
<1>2. CASE StartRun \/ RunFails
  BY ShutdownAssumption, <1>2 DEF StartRun, RunFails, Stages, ShutdownStages
<1>3. CASE ResumeAll
  BY ShutdownAssumption, <1>3 DEF ResumeAll, Stages, ShutdownStages
<1>4. ASSUME NEW i \in 1..Len(Resources), Acquire(i) PROVE StageTypes'
  BY <1>0, <1>4 DEF Acquire, Stages
<1>5. ASSUME NEW t \in ServerThreads, CreateThread(t) PROVE StageTypes'
  BY <1>5 DEF CreateThread
<1>6. CASE Listen
  BY <1>6 DEF Listen, ServerThreads, Stages, ShutdownStages
<1>7. CASE EnterAccept \/ LeaveAccept
  BY <1>7 DEF EnterAccept, LeaveAccept
<1>8. CASE CloseListen
  BY <1>0, <1>8 DEF CloseListen, ExitsOnInterrupt, ServerThreads, Stages, ShutdownStages
<1>9. CASE ScanGetId \/ ScanDisconnect \/ ScanDone
  BY <1>9 DEF ScanGetId, ScanDisconnect, ScanDone, Scanning, SessionTypes, NoTarget, Stages, ShutdownStages
<1>10. ASSUME NEW s \in Slots, ScanSlot(s) PROVE StageTypes'
  BY <1>10 DEF ScanSlot, Stages, ShutdownStages
<1>11. ASSUME NEW t \in ServerThreads, ResumeToJoin(t) PROVE StageTypes'
  BY <1>11 DEF ResumeToJoin
<1>12. CASE JoinAccept
  BY <1>0, <1>12 DEF JoinAccept, Exited, Stages, ShutdownStages
<1>13. CASE ClosePort
  BY <1>0, <1>13 DEF ClosePort, Names, Stages, ShutdownStages
<1>14. CASE JoinWorkers
  BY <1>0, <1>14 DEF JoinWorkers, AllJoined, Exited, Stages, ShutdownStages
<1>15. CASE FreeAll
  BY <1>15 DEF FreeAll, Joined, Stages, ShutdownStages
<1>16. ASSUME NEW w \in Workers, WorkerExit(w) PROVE StageTypes'
  BY <1>16 DEF WorkerExit, ServerThreads, Stages, ShutdownStages
<1>q. QED
  BY <1>1, <1>2, <1>3, <1>4, <1>5, <1>6, <1>7, <1>8, <1>9, <1>10, <1>11, <1>12, <1>13, <1>14, <1>15, <1>16
  DEF NextAll, RunStep, ShutdownStep, allVars

----------------------------------------------------------------------------
(***************************************************************************)
(* The invariant, and the properties of Shutdown.                          *)
(***************************************************************************)

\* The invariant holds before Run is called.
LEMMA InitiallyStopped == InitAll => SInv
<1> SUFFICES ASSUME InitAll PROVE SInv
  OBVIOUS
<1> USE DEF InitAll
<1>1. IInv
  BY InitialInvariant
<1>2. ready = Slots /\ sessionCount = 0 /\ sock = [s \in Slots |-> "closed"] /\ pc = [t \in Threads |-> "idle"]
  BY DEF Init
<1>3. ShutdownTypeOK
  <2>1. StageTypes
    <3>1. NoTarget \in [slot : Slots \cup {NoSlot}, id : Nat]
      BY DEF NoTarget
    <3>2. target \in [slot : Slots \cup {NoSlot}, id : Nat]
      BY <3>1
    <3>3. failures \in 0..MaxFailures
      BY ShutdownAssumption
    <3>q. QED
      BY <3>2, <3>3 DEF StageTypes, Stages
  <2>2. Blocked /\ Joined
    BY DEF Blocked, Joined
  <2>q. QED
    BY <2>1, <2>2, TypeByParts
<1>4. Held
  BY DEF Held, listening, portOpen
<1>5. Initialised /\ AcceptThread
  BY DEF Initialised, AcceptThread, InitialisedOnly, ServerThreads
<1>6. Exited /\ AtRest /\ PortClosed
  BY <1>2 DEF Exited, AtRest, PortClosed, ServerThreads, Threads
<1>7. SocketsClosed /\ Scanning
  BY <1>2 DEF SocketsClosed, Scanning
<1>q. QED
  BY <1>1, <1>3, <1>4, <1>5, <1>6, <1>7 DEF SInv

\* Every step of Run, Shutdown and the server keeps the invariant.
LEMMA ShutdownInvariantStep == SInv /\ [NextAll]_allVars => SInv'
<1> SUFFICES ASSUME SInv, [NextAll]_allVars PROVE SInv'
  OBVIOUS
<1>1. /\ IInv /\ ShutdownTypeOK /\ Held /\ Initialised /\ AcceptThread /\ Exited /\ AtRest /\ PortClosed
      /\ CallerRoles /\ SocketsClosed /\ Scanning
  BY DEF SInv, IInv
<1>2. ThreadTypes /\ SessionTypes /\ ServerTypes /\ Located /\ OwnersApart
  BY <1>1, ApartByThread DEF IInv, TypeOK, Placed
<1>3. StageTypes /\ Blocked /\ Joined
  BY <1>1, TypeByParts
<1>4. [AnyNext]_vars
  BY <1>1, StepsAreServerSteps
<1>5. IInv'
  BY <1>1, <1>4, InvariantStep
<1>6. ShutdownTypeOK'
  <2>1. StageTypes' /\ Blocked' /\ Joined'
    BY <1>1, <1>2, <1>3, StageTypesStep, BlockedStep, JoinedStep
  <2>q. QED
    BY <2>1, TypeByPartsNext
<1>7. Held' /\ Initialised' /\ AcceptThread'
  BY <1>1, HeldStep, InitialisedStep, AcceptThreadStep
<1>8. Exited' /\ AtRest' /\ PortClosed'
  BY <1>1, ExitedStep, AtRestStep, PortClosedStep
<1>9. SocketsClosed'
  BY <1>1, <1>2, <1>4, SocketsClosedStep
<1>10. Scanning'
  BY <1>1, ScanningStep
<1>q. QED
  BY <1>5, <1>6, <1>7, <1>8, <1>9, <1>10 DEF SInv

\* The invariant of Run and Shutdown holds in every reachable state, through any number of failed attempts
\* to start the server, and with it the invariant of the connection engine.
THEOREM ShutdownInvariance == SafeSpecAll => []SInv
BY InitiallyStopped, ShutdownInvariantStep, PTL DEF SafeSpecAll

\* The server's inductive invariant, and so each of its safety properties, holds while the server is started
\* and shut down.
THEOREM ServerStaysSafe == SafeSpecAll => []IInv
<1>1. SInv => IInv
  BY DEF SInv
<1>q. QED
  BY <1>1, ShutdownInvariance, PTL

\* Run and Shutdown keep their types; the accept thread blocks only on an open listening socket, and past a
\* join the threads joined have returned.
THEOREM ShutdownTypes == SafeSpecAll => []ShutdownTypeOK
<1>1. SInv => ShutdownTypeOK
  BY DEF SInv
<1>q. QED
  BY <1>1, ShutdownInvariance, PTL

\* When the completion port is closed no session, operation, job or callback is left: Shutdown's wait for
\* m_sessionCount to reach zero is enough (TCPServer.cpp, Shutdown).
THEOREM NothingIsLeftBehind == SafeSpecAll => []NothingLeftBehind
<1>1. SInv => NothingLeftBehind
  <2> SUFFICES ASSUME SInv, ~portOpen PROVE /\ Quiet
                                            /\ \A s \in Slots :
                                                 released[s] /\ recvIo[s] = "none" /\ sendIo[s] = "none" /\ jobs[s] = 0
                                            /\ \A w \in Workers : pc[w] \notin {"onReceive", "onDisconnect"}
    BY DEF NothingLeftBehind, Quiet
  <2>1. IInv /\ CallerRoles /\ Quiet
    BY DEF SInv, IInv, PortClosed, Quiet
  <2>q. QED
    BY <2>1, QuietIsEmpty DEF Owning, Uncounting, Using, Threads
<1>q. QED
  BY <1>1, ShutdownInvariance, PTL

\* The sessions and their buffers are freed when every thread of the server has returned, every queue is
\* empty and every socket closed, also when Run fails half-way (TCPServer.cpp, Run and Shutdown).
THEOREM FreedMemoryIsUnused == SafeSpecAll => []FreedUnused
<1>1. SInv => FreedUnused
  <2> SUFFICES ASSUME SInv, held \cap Memory = {}
               PROVE  /\ ready = Slots
                      /\ \A s \in Slots : queue[s] = <<>> /\ sock[s] = "closed"
                      /\ \A t \in ServerThreads : t \in exited /\ pc[t] = "idle"
    BY DEF FreedUnused, Memory
  <2>1. "log" \in Memory /\ "log" \notin held
    BY DEF Memory
  <2>2. ~init
    BY <2>1 DEF SInv, Initialised
  <2>3. ready = Slots /\ \A t \in ServerThreads : pc[t] = "idle"
    BY <2>2 DEF SInv, AtRest
  <2>4. ServerThreads \subseteq exited
    BY <2>1 DEF SInv, Held
  <2>5. \A s \in Slots : queue[s] = <<>> /\ sock[s] = "closed"
    BY <2>3 DEF SInv, IInv, Queues, SocketsClosed
  <2>q. QED
    BY <2>3, <2>4, <2>5
<1>q. QED
  BY <1>1, ShutdownInvariance, PTL

\* The derived class sees its callbacks in the order SessionCallbacks promises also while the server is shut
\* down, and when it is started again after a failed attempt (Run, Shutdown, DisconnectAllSessions).
THEOREM CallbacksInOrderThroughShutdown == JobsArePosted => (SafeSpecAll => CallbackContract)
<1> SUFFICES ASSUME JobsArePosted PROVE SafeSpecAll => CallbackContract
  OBVIOUS
<1>1. InitAll => Callbacks!Init
  BY ContractInit DEF InitAll
<1>2. SInv /\ SInv' /\ [NextAll]_allVars => [Callbacks!Next]_Phases
  <2> SUFFICES ASSUME SInv, SInv', [NextAll]_allVars PROVE [Callbacks!Next]_Phases
    OBVIOUS
  <2>1. IInv /\ IInv' /\ [AnyNext]_vars
    BY StepsAreServerSteps DEF SInv
  <2>q. QED
    BY <2>1, ContractStep
<1>q. QED
  BY <1>1, <1>2, ShutdownInvariance, PTL DEF SafeSpecAll, CallbackContract, Callbacks!Spec, Phases
====
