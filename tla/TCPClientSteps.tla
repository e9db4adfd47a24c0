---------------------------- MODULE TCPClientSteps ----------------------------
(***************************************************************************)
(* Every part of IInv of TCPClientInvariant is preserved by every step of  *)
(* a client that is intact after it.                                       *)
(***************************************************************************)
EXTENDS TCPClientInvariant, FiniteSetTheorems, TLAPS

\* The groups of variables and the building blocks of steps are expanded everywhere.
USE DEF flag, sending, packets, port, history, app, local, Goto, Branch, Return, AddRef, AddRecvRef

----------------------------------------------------------------------------
(***************************************************************************)
(* Exclusion, thread by thread.                                            *)
(***************************************************************************)

Owning(t) == pc[t] \in OwningPoints /\ op[t] # "refused"

\* OneOwner: no two owners.
OwnersApart ==
  /\ \A t, u \in Threads : Owning(t) /\ Owning(u) => t = u
  /\ \A t \in Threads : Owning(t) => state # "idle" /\ connIo = "none" /\ released /\ jobs = 0
  /\ state = "idle" => connIo = "none" /\ released /\ jobs = 0
  /\ connIo # "none" => released /\ jobs = 0
  /\ ~released => jobs = 0
  /\ jobs <= 1

\* OneOwner: an owner.
Owned ==
  "post" \notin Faults =>
    \/ \E t \in Threads : Owning(t)
    \/ state = "idle" \/ connIo # "none" \/ ~released \/ jobs # 0

\* OneOwner restated.
LEMMA OwnersByThread ==
  ASSUME PortTypes
  PROVE  OneOwner <=> OwnersApart /\ Owned
<1> USE ThreadAssumption DEF PortTypes, Owners, Owning
<1>1. \A t \in Threads : t \notin {"idle", "attempt", "live", "job"}
  BY DEF Tokens
<1>2. OneOwner => OwnersApart
  BY <1>1 DEF OneOwner, OwnersApart
<1>3. OwnersApart => jobs <= 1 /\ \A a, b \in Owners : a = b
  BY <1>1 DEF OwnersApart
<1>4. ("post" \notin Faults => Owners # {}) <=> Owned
  BY DEF Owned
<1>q. QED
  BY <1>2, <1>3, <1>4 DEF OneOwner

ReceiversApart ==
  /\ \A t, u \in Threads : pc[t] \in Receiving /\ pc[u] \in Receiving => t = u
  /\ \A t \in Threads : pc[t] \in Receiving => recvIo = "none"

\* OneReceiver restated.
LEMMA ReceiversByThread == OneReceiver <=> ReceiversApart
<1>1. \A t \in Threads : t # "recvIo"
  BY ThreadAssumption DEF Tokens
<1>q. QED
  BY <1>1 DEF OneReceiver, Receivers, ReceiversApart

\* Between filling m_wsaBuffers and popping what they refer to.
Batching == {"refSend", "wsaSend", "popSent"}

SendersApart ==
  /\ \A t, u \in Threads : pc[t] \in SendingPoints /\ pc[u] \in SendingPoints => t = u
  /\ \A t \in Threads : pc[t] \in SendingPoints => sendIo = "none" /\ isSending
  /\ sendIo # "none" => isSending

\* The batch that is being sent is at the head of the queue.
BatchQueued ==
  sendIo # "none" \/ (\E t \in Threads : pc[t] \in Batching) => pending \in 1..Len(queue)

\* OneSender restated.
LEMMA SendersByThread == OneSender <=> SendersApart /\ BatchQueued
<1>1. \A t \in Threads : t # "sendIo"
  BY ThreadAssumption DEF Tokens
<1>2. OneSender => SendersApart
  BY <1>1 DEF OneSender, SendOwners, SendersApart
<1>3. OneSender => BatchQueued
  BY DEF OneSender, BatchQueued, Batching
<1>4. SendersApart /\ BatchQueued => OneSender
  BY <1>1 DEF OneSender, SendOwners, SendersApart, BatchQueued, Batching
<1>q. QED
  BY <1>2, <1>3, <1>4

\* What the count says: at zero nobody relies on the client.
Counted ==
  refCount = 0 => recvIo = "none" /\ sendIo = "none" /\ \A t \in Threads : pc[t] \in Unreferenced

\* An exact reference count is not zero while anything relies on the client.
LEMMA CountedByCardinality ==
  ASSUME RefCountExact
  PROVE  Counted
<1>1. /\ IsFiniteSet(Holders) /\ IsFiniteSet(SecondHolders)
      /\ Cardinality(Holders) \in Nat /\ Cardinality(SecondHolders) \in Nat
      /\ Outstanding(recvIo) \in Nat /\ Outstanding(sendIo) \in Nat
  BY ThreadAssumption, FS_Subset, FS_CardinalityType DEF Holders, SecondHolders, Outstanding
<1>2. refCount = 0 => Cardinality(Holders) = 0 /\ Outstanding(recvIo) = 0 /\ Outstanding(sendIo) = 0
  BY <1>1 DEF RefCountExact
<1>3. Cardinality(Holders) = 0 => Holders = {}
  BY <1>1, FS_EmptySet
<1>q. QED
  BY <1>2, <1>3 DEF Counted, Holders, Outstanding

----------------------------------------------------------------------------
(***************************************************************************)
(* One step: what each point says of its thread.                           *)
(***************************************************************************)

\* Every step keeps the second reference to the stretch of code between taking it and giving it up.
LEMMA SecondReferencesStep ==
  ASSUME ThreadTypes, SecondReferences, [Next]_vars
  PROVE  SecondReferences'
<1> USE ThreadAssumption DEF Threads, ThreadTypes, SecondReferences
<1>1. CASE UNCHANGED vars
  BY <1>1 DEF vars
<1>2. CASE Connect(Connector)
  BY <1>2 DEF Connect
<1>3. CASE ConnectStep(Connector)
  BY <1>3 DEF ConnectStep, CreateSocket, Prepare, ConnectEx, Cleanup, ResetState
<1>4. ASSUME NEW t \in Threads, SharedStep(t) PROVE SecondReferences'
  <2>1. CASE SocketStep(t)
    BY <2>1 DEF SocketStep, CloseSocket, ClearSocket, CancelAll
  <2>2. CASE ReleaseStep(t)
    BY <2>2 DEF ReleaseStep, Deref, TryRelease, Releasable, PostJob
  <2>3. CASE ApiStep(t)
    BY ZenonT(60), <2>3 DEF ApiStep, CheckReleased, PassesReleased, SetCancel, CancelIoEx, CancelAll, Push, DisconnectFull
  <2>4. CASE SendStep(t)
    BY <2>4 DEF SendStep, TakeFlag, WasSending, CheckCancelSend, Peek, ClearFlag, RefSend, WSASend, Started, CheckSendPending
  <2>5. CASE RecvStep(t)
    BY <2>5 DEF RecvStep, RefRecv, WSARecv, Started, CheckRecvPending, CheckCancelRecv
  <2>q. QED
    BY <1>4, <2>1, <2>2, <2>3, <2>4, <2>5 DEF SharedStep
<1>5. ASSUME NEW w \in Workers, WorkerStep(w) PROVE SecondReferences'
  <2>1. CASE DequeueStep(w)
    BY <2>1 DEF DequeueStep, DequeueConnect, DequeueRecv, DequeueSend, DequeueJob, TakeCompletion
  <2>2. CASE StartStep(w)
    BY <2>2 DEF StartStep, StartFields, Publish, StartRef, Connected
  <2>3. CASE SentStep(w)
    BY ZenonT(60), <2>3 DEF SentStep, PopSent, ClearPending, DropFlag, LoadReadCursor, LoadWriteCursor, CheckMore
  <2>4. CASE Received(w) \/ Disconnected(w) \/ Drain(w) \/ SetIdle(w)
    BY SMTT(40), <2>4 DEF Received, Disconnected, Drain, AfterDrain, SetIdle
  <2>q. QED
    BY <1>5, <2>1, <2>2, <2>3, <2>4 DEF WorkerStep
<1>6. ASSUME NEW t \in Callers, NEW o \in Ops, Call(t, o) PROVE SecondReferences'
  BY <1>6 DEF Call
<1>7. CASE NetworkStep
  BY <1>7 DEF NetworkStep, CompleteConnect, Complete, PeerReset
<1> HIDE DEF ThreadTypes, SecondReferences
<1>q. QED
  BY <1>1, <1>2, <1>3, <1>4, <1>5, <1>6, <1>7 DEF Next

\* No step takes a thread into another's part of the program, and only a Connect that lost the exchange is marked
\* as refused, while no attempt is in progress.
LEMMA RolesStep ==
  ASSUME ~spoiled', ThreadTypes, Roles, Stages, [Next]_vars
  PROVE  Roles'
<1> USE ThreadAssumption, UseAssumption DEF Threads, ThreadTypes, Roles, Stages, Attempting, Starting, Releasing
<1>1. CASE UNCHANGED vars
  BY <1>1 DEF vars
<1>2. CASE Connect(Connector)
  BY ZenonT(60), <1>2 DEF Connect
<1>3. CASE ConnectStep(Connector)
  BY <1>3 DEF ConnectStep, CreateSocket, Prepare, ConnectEx, Cleanup, ResetState
<1>4. ASSUME NEW t \in Threads, SharedStep(t) PROVE Roles'
  <2>1. CASE SocketStep(t)
    BY <2>1 DEF SocketStep, CloseSocket, ClearSocket, CancelAll
  <2>2. CASE ReleaseStep(t)
    BY <2>2 DEF ReleaseStep, Deref, TryRelease, Releasable, PostJob
  <2>3. CASE ApiStep(t)
    BY <2>3 DEF ApiStep, CheckReleased, PassesReleased, SetCancel, CancelIoEx, CancelAll, Push, DisconnectFull
  <2>4. CASE SendStep(t)
    BY <2>4 DEF SendStep, TakeFlag, WasSending, CheckCancelSend, Peek, ClearFlag, RefSend, WSASend, Started, CheckSendPending
  <2>5. CASE RecvStep(t)
    BY <2>5 DEF RecvStep, RefRecv, WSARecv, Started, CheckRecvPending, CheckCancelRecv
  <2>q. QED
    BY <1>4, <2>1, <2>2, <2>3, <2>4, <2>5 DEF SharedStep
<1>5. ASSUME NEW w \in Workers, WorkerStep(w) PROVE Roles'
  <2>1. CASE DequeueStep(w)
    BY <2>1 DEF DequeueStep, DequeueConnect, DequeueRecv, DequeueSend, DequeueJob, TakeCompletion
  <2>2. CASE StartStep(w)
    BY <2>2 DEF StartStep, StartFields, Publish, StartRef, Connected
  <2>3. CASE SentStep(w)
    BY <2>3 DEF SentStep, PopSent, ClearPending, DropFlag, LoadReadCursor, LoadWriteCursor, CheckMore
  <2>4. CASE Received(w) \/ Disconnected(w) \/ Drain(w) \/ SetIdle(w)
    BY <2>4 DEF Received, Disconnected, Drain, AfterDrain, SetIdle
  <2>q. QED
    BY <1>5, <2>1, <2>2, <2>3, <2>4 DEF WorkerStep
<1>6. ASSUME NEW t \in Callers, NEW o \in Ops, Call(t, o) PROVE Roles'
  BY <1>6 DEF Call
<1>7. CASE NetworkStep
  BY <1>7 DEF NetworkStep, CompleteConnect, Complete, PeerReset
<1> HIDE DEF ThreadTypes, Roles, Stages, Attempting, Starting, Releasing
<1>q. QED
  BY <1>1, <1>2, <1>3, <1>4, <1>5, <1>6, <1>7 DEF Next

----------------------------------------------------------------------------
(***************************************************************************)
(* One step: the client has one owner.                                     *)
(***************************************************************************)

\* Every step keeps m_state and m_released what they are to be at each point.
LEMMA StagesStep ==
  ASSUME ~spoiled', ThreadTypes, ClientTypes, PortTypes, Roles, Stages, Counted, OwnersApart, [Next]_vars
  PROVE  Stages'
<1> USE ThreadAssumption, UseAssumption DEF Threads, ThreadTypes, ClientTypes, PortTypes, Roles, Stages, Counted, OwnersApart, Attempting, Starting, Releasing, Using, Unreferenced, OwningPoints, Owning, Cancelled, RecheckCancel, IoStates
<1>1. CASE UNCHANGED vars
  BY <1>1 DEF vars
<1>2. CASE Connect(Connector)
  BY <1>2 DEF Connect
<1>3. CASE ConnectStep(Connector)
  BY <1>3 DEF ConnectStep, CreateSocket, Prepare, ConnectEx, Cleanup, ResetState
<1>4. ASSUME NEW t \in Threads, SharedStep(t) PROVE Stages'
  <2>1. CASE SocketStep(t)
    BY <2>1 DEF SocketStep, CloseSocket, ClearSocket, CancelAll
  <2>2. CASE ReleaseStep(t)
    <3>1. CASE Deref(t)
      BY <3>1 DEF Deref
    <3>2. CASE TryRelease(t) /\ Releasable
      <4>1. \A u \in Threads : pc[u] # "startRef"
        BY ZenonT(60), <3>2 DEF TryRelease, StartUncounted
      <4>2. \A u \in Threads : pc[u] \in Unreferenced
        BY <3>2 DEF Releasable
      <4>3. state = "connected" /\ recvIo = "none" /\ sendIo = "none"
        BY <3>2 DEF Releasable
      <4>q. QED
        BY <3>2, <4>1, <4>2, <4>3 DEF TryRelease, Releasable
    <3>3. CASE TryRelease(t) /\ ~Releasable
      BY <3>3 DEF TryRelease
    <3>4. CASE PostJob(t)
      BY <3>4 DEF PostJob
    <3>q. QED
      BY <2>2, <3>1, <3>2, <3>3, <3>4 DEF ReleaseStep
  <2>3. CASE ApiStep(t)
    <3>1. CASE CheckReleased(t)
      BY <3>1 DEF CheckReleased, PassesReleased
    <3>2. CASE SetCancel(t)
      BY <3>2 DEF SetCancel
    <3>3. CASE CancelIoEx(t)
      BY <3>3 DEF CancelIoEx, CancelAll
    <3>4. CASE Push(t)
      BY <3>4 DEF Push
    <3>5. CASE DisconnectFull(t)
      BY <3>5 DEF DisconnectFull
    <3>q. QED
      BY <2>3, <3>1, <3>2, <3>3, <3>4, <3>5 DEF ApiStep
  <2>4. CASE SendStep(t)
    BY <2>4 DEF SendStep, TakeFlag, WasSending, CheckCancelSend, Peek, ClearFlag, RefSend, WSASend, Started, CheckSendPending
  <2>5. CASE RecvStep(t)
    BY <2>5 DEF RecvStep, RefRecv, WSARecv, Started, CheckRecvPending, CheckCancelRecv
  <2>q. QED
    BY <1>4, <2>1, <2>2, <2>3, <2>4, <2>5 DEF SharedStep
<1>5. ASSUME NEW w \in Workers, WorkerStep(w) PROVE Stages'
  <2>1. CASE DequeueStep(w)
    BY <2>1 DEF DequeueStep, DequeueConnect, DequeueRecv, DequeueSend, DequeueJob, TakeCompletion
  <2>2. CASE StartStep(w)
    BY <2>2 DEF StartStep, StartFields, Publish, StartRef, Connected
  <2>3. CASE SentStep(w)
    BY SMTT(40), <2>3 DEF SentStep, PopSent, ClearPending, DropFlag, LoadReadCursor, LoadWriteCursor, CheckMore
  <2>4. CASE Received(w) \/ Disconnected(w) \/ Drain(w) \/ SetIdle(w)
    <3>1. CASE SetIdle(w)
      BY <3>1 DEF SetIdle
    <3>2. CASE Received(w) \/ Disconnected(w)
      BY <3>2 DEF Received, Disconnected
    <3>3. CASE Drain(w)
      BY <3>3 DEF Drain, AfterDrain
    <3>q. QED
      BY <2>4, <3>1, <3>2, <3>3
  <2>q. QED
    BY <1>5, <2>1, <2>2, <2>3, <2>4 DEF WorkerStep
<1>6. ASSUME NEW t \in Callers, NEW o \in Ops, Call(t, o) PROVE Stages'
  BY <1>6 DEF Call
<1>7. CASE NetworkStep
  BY <1>7 DEF NetworkStep, CompleteConnect, Complete, PeerReset
<1> HIDE DEF ThreadTypes, ClientTypes, PortTypes, Roles, Stages, Counted, OwnersApart, Attempting, Starting, Releasing, Using, Unreferenced, OwningPoints, Owning, Cancelled, RecheckCancel, IoStates
<1>q. QED
  BY <1>1, <1>2, <1>3, <1>4, <1>5, <1>6, <1>7 DEF Next

\* Every step keeps the owners apart: the client passes from one to the next, and the race to zero has one winner.
LEMMA OwnersApartStep ==
  ASSUME ThreadTypes, ClientTypes, PortTypes, Roles, Stages, Counted, OwnersApart, [Next]_vars
  PROVE  OwnersApart'
<1> USE ThreadAssumption, UseAssumption DEF Threads, ThreadTypes, ClientTypes, PortTypes, Roles, Stages, Counted, OwnersApart, Attempting, Starting, Releasing, Using, Unreferenced, OwningPoints, Owning, Cancelled, RecheckCancel, IoStates
<1>1. CASE UNCHANGED vars
  BY <1>1 DEF vars
<1>2. CASE Connect(Connector)
  BY <1>2 DEF Connect
<1>3. CASE ConnectStep(Connector)
  BY <1>3 DEF ConnectStep, CreateSocket, Prepare, ConnectEx, Cleanup, ResetState
<1>4. ASSUME NEW t \in Threads, SharedStep(t) PROVE OwnersApart'
  <2>1. CASE SocketStep(t)
    BY <2>1 DEF SocketStep, CloseSocket, ClearSocket, CancelAll
  <2>2. CASE ReleaseStep(t)
    BY <2>2 DEF ReleaseStep, Deref, TryRelease, Releasable, PostJob
  <2>3. CASE ApiStep(t)
    <3>1. CASE CheckReleased(t)
      BY <3>1 DEF CheckReleased, PassesReleased
    <3>2. CASE SetCancel(t)
      BY <3>2 DEF SetCancel
    <3>3. CASE CancelIoEx(t)
      BY <3>3 DEF CancelIoEx, CancelAll
    <3>4. CASE Push(t)
      BY <3>4 DEF Push
    <3>5. CASE DisconnectFull(t)
      BY <3>5 DEF DisconnectFull
    <3>q. QED
      BY <2>3, <3>1, <3>2, <3>3, <3>4, <3>5 DEF ApiStep
  <2>4. CASE SendStep(t)
    BY <2>4 DEF SendStep, TakeFlag, WasSending, CheckCancelSend, Peek, ClearFlag, RefSend, WSASend, Started, CheckSendPending
  <2>5. CASE RecvStep(t)
    BY <2>5 DEF RecvStep, RefRecv, WSARecv, Started, CheckRecvPending, CheckCancelRecv
  <2>q. QED
    BY <1>4, <2>1, <2>2, <2>3, <2>4, <2>5 DEF SharedStep
<1>5. ASSUME NEW w \in Workers, WorkerStep(w) PROVE OwnersApart'
  <2>1. CASE DequeueStep(w)
    BY <2>1 DEF DequeueStep, DequeueConnect, DequeueRecv, DequeueSend, DequeueJob, TakeCompletion
  <2>2. CASE StartStep(w)
    BY <2>2 DEF StartStep, StartFields, Publish, StartRef, Connected
  <2>3. CASE SentStep(w)
    BY SMTT(40), <2>3 DEF SentStep, PopSent, ClearPending, DropFlag, LoadReadCursor, LoadWriteCursor, CheckMore
  <2>4. CASE Received(w) \/ Disconnected(w) \/ Drain(w) \/ SetIdle(w)
    <3>1. CASE SetIdle(w)
      BY <3>1 DEF SetIdle
    <3>2. CASE Received(w) \/ Disconnected(w)
      BY <3>2 DEF Received, Disconnected
    <3>3. CASE Drain(w)
      BY <3>3 DEF Drain, AfterDrain
    <3>q. QED
      BY <2>4, <3>1, <3>2, <3>3
  <2>q. QED
    BY <1>5, <2>1, <2>2, <2>3, <2>4 DEF WorkerStep
<1>6. ASSUME NEW t \in Callers, NEW o \in Ops, Call(t, o) PROVE OwnersApart'
  BY <1>6 DEF Call
<1>7. CASE NetworkStep
  BY <1>7 DEF NetworkStep, CompleteConnect, Complete, PeerReset
<1> HIDE DEF ThreadTypes, ClientTypes, PortTypes, Roles, Stages, Counted, OwnersApart, Attempting, Starting, Releasing, Using, Unreferenced, OwningPoints, Owning, Cancelled, RecheckCancel, IoStates
<1>q. QED
  BY <1>1, <1>2, <1>3, <1>4, <1>5, <1>6, <1>7 DEF Next

\* Every step keeps the client owned: whoever gives it up hands it on, unless the release job cannot be posted.
LEMMA OwnedStep ==
  ASSUME ThreadTypes, ClientTypes, PortTypes, Roles, Stages, OwnersApart, Owned, [Next]_vars
  PROVE  Owned'
<1> USE ThreadAssumption, UseAssumption DEF Threads, ThreadTypes, ClientTypes, PortTypes, Roles, Stages, OwnersApart, Owned, Attempting, Starting, Releasing, Using, Unreferenced, OwningPoints, Owning, Cancelled, RecheckCancel, IoStates
<1>1. CASE UNCHANGED vars
  BY <1>1 DEF vars
<1>2. CASE Connect(Connector)
  BY <1>2 DEF Connect
<1>3. CASE ConnectStep(Connector)
  BY <1>3 DEF ConnectStep, CreateSocket, Prepare, ConnectEx, Cleanup, ResetState
<1>4. ASSUME NEW t \in Threads, SharedStep(t) PROVE Owned'
  <2>1. CASE SocketStep(t)
    <3>1. CASE CloseSocket(t)
      BY <3>1 DEF CloseSocket, CancelAll
    <3>2. CASE ClearSocket(t)
      BY <3>2 DEF ClearSocket
    <3>q. QED
      BY <2>1, <3>1, <3>2 DEF SocketStep
  <2>2. CASE ReleaseStep(t)
    BY <2>2 DEF ReleaseStep, Deref, TryRelease, Releasable, PostJob
  <2>3. CASE ApiStep(t)
    <3>1. CASE CheckReleased(t)
      BY <3>1 DEF CheckReleased, PassesReleased
    <3>2. CASE SetCancel(t)
      BY <3>2 DEF SetCancel
    <3>3. CASE CancelIoEx(t)
      BY <3>3 DEF CancelIoEx, CancelAll
    <3>4. CASE Push(t)
      BY <3>4 DEF Push
    <3>5. CASE DisconnectFull(t)
      BY <3>5 DEF DisconnectFull
    <3>q. QED
      BY <2>3, <3>1, <3>2, <3>3, <3>4, <3>5 DEF ApiStep
  <2>4. CASE SendStep(t)
    BY <2>4 DEF SendStep, TakeFlag, WasSending, CheckCancelSend, Peek, ClearFlag, RefSend, WSASend, Started, CheckSendPending
  <2>5. CASE RecvStep(t)
    BY <2>5 DEF RecvStep, RefRecv, WSARecv, Started, CheckRecvPending, CheckCancelRecv
  <2>q. QED
    BY <1>4, <2>1, <2>2, <2>3, <2>4, <2>5 DEF SharedStep
<1>5. ASSUME NEW w \in Workers, WorkerStep(w) PROVE Owned'
  <2>1. CASE DequeueStep(w)
    BY <2>1 DEF DequeueStep, DequeueConnect, DequeueRecv, DequeueSend, DequeueJob, TakeCompletion
  <2>2. CASE StartStep(w)
    BY <2>2 DEF StartStep, StartFields, Publish, StartRef, Connected
  <2>3. CASE SentStep(w)
    <3>1. CASE PopSent(w)
      BY <3>1 DEF PopSent
    <3>2. CASE ClearPending(w) \/ DropFlag(w) \/ LoadReadCursor(w) \/ CheckMore(w)
      BY <3>2 DEF ClearPending, DropFlag, LoadReadCursor, CheckMore
    <3>3. CASE LoadWriteCursor(w)
      BY <3>3 DEF LoadWriteCursor
    <3>q. QED
      BY <2>3, <3>1, <3>2, <3>3 DEF SentStep
  <2>4. CASE Received(w) \/ Disconnected(w) \/ Drain(w) \/ SetIdle(w)
    <3>1. CASE SetIdle(w)
      BY <3>1 DEF SetIdle
    <3>2. CASE Received(w) \/ Disconnected(w)
      BY <3>2 DEF Received, Disconnected
    <3>3. CASE Drain(w)
      BY <3>3 DEF Drain, AfterDrain
    <3>q. QED
      BY <2>4, <3>1, <3>2, <3>3
  <2>q. QED
    BY <1>5, <2>1, <2>2, <2>3, <2>4 DEF WorkerStep
<1>6. ASSUME NEW t \in Callers, NEW o \in Ops, Call(t, o) PROVE Owned'
  BY <1>6 DEF Call
<1>7. CASE NetworkStep
  BY <1>7 DEF NetworkStep, CompleteConnect, Complete, PeerReset
<1> HIDE DEF ThreadTypes, ClientTypes, PortTypes, Roles, Stages, OwnersApart, Owned, Attempting, Starting, Releasing, Using, Unreferenced, OwningPoints, Owning, Cancelled, RecheckCancel, IoStates
<1>q. QED
  BY <1>1, <1>2, <1>3, <1>4, <1>5, <1>6, <1>7 DEF Next

\* Every step keeps m_sock what it is to be at each point.
LEMMA SocketsStep ==
  ASSUME ThreadTypes, ClientTypes, PortTypes, Roles, Stages, OwnersApart, Sockets, [Next]_vars
  PROVE  Sockets'
<1> USE ThreadAssumption, UseAssumption DEF Threads, ThreadTypes, ClientTypes, PortTypes, Roles, Stages, OwnersApart, Sockets, Attempting, Starting, Releasing, Using, Unreferenced, OwningPoints, Owning, Cancelled, RecheckCancel, IoStates
<1>1. CASE UNCHANGED vars
  BY <1>1 DEF vars
<1>2. CASE Connect(Connector)
  BY <1>2 DEF Connect
<1>3. CASE ConnectStep(Connector)
  BY <1>3 DEF ConnectStep, CreateSocket, Prepare, ConnectEx, Cleanup, ResetState
<1>4. ASSUME NEW t \in Threads, SharedStep(t) PROVE Sockets'
  <2>1. CASE SocketStep(t)
    <3>1. CASE CloseSocket(t)
      <4>1. CASE t \in Workers
        BY <3>1, <4>1 DEF CloseSocket, CancelAll
      <4>2. CASE t = Connector /\ op[t] = "refused"
        <5>1. state # "connecting" /\ connIo = "none" /\ ConnectsWhile # {}
          BY <4>2
        <5>2. \A u \in Threads : pc[u] \notin {"prepare", "connectEx", "connectFailed", "startFields"}
          BY <4>2, <5>1
        <5>3. /\ state' = state /\ released' = released /\ op' = op /\ connIo' = "none"
              /\ pc' = [pc EXCEPT ![t] = "clearSocket"]
          BY <3>1, <4>2, <5>1 DEF CloseSocket, CancelAll
        <5>4. sock' \in {"none", "closed"} /\ (sock = "none" => sock' = "none")
          BY <3>1 DEF CloseSocket
        <5>q. QED
          BY ZenonT(60), <4>2, <5>1, <5>2, <5>3, <5>4
      <4>3. CASE t = Connector /\ op[t] # "refused"
        BY <3>1, <4>3 DEF CloseSocket, CancelAll
      <4>4. CASE t \in Callers
        BY <3>1, <4>4 DEF CloseSocket
      <4>q. QED
        BY <4>1, <4>2, <4>3, <4>4
    <3>2. CASE ClearSocket(t)
      <4>1. CASE t \in Workers
        BY <3>2, <4>1 DEF ClearSocket
      <4>2. CASE t = Connector /\ op[t] = "refused"
        <5>1. state # "connecting" /\ connIo = "none" /\ ConnectsWhile # {}
          BY <4>2
        <5>2. \A u \in Threads : pc[u] \notin {"prepare", "connectEx", "connectFailed", "startFields"}
          BY <4>2, <5>1
        <5>3. /\ state' = state /\ released' = released /\ op' = op /\ connIo' = "none"
              /\ pc' = [pc EXCEPT ![t] = "resetState"]
          BY <3>2, <4>2, <5>1 DEF ClearSocket
        <5>4. sock' \in {"none", "closed"} /\ (sock = "none" => sock' = "none")
          BY <3>2 DEF ClearSocket
        <5>q. QED
          BY ZenonT(60), <4>2, <5>1, <5>2, <5>3, <5>4
      <4>3. CASE t = Connector /\ op[t] # "refused"
        BY <3>2, <4>3 DEF ClearSocket
      <4>4. CASE t \in Callers
        BY <3>2, <4>4 DEF ClearSocket
      <4>q. QED
        BY <4>1, <4>2, <4>3, <4>4
    <3>q. QED
      BY <2>1, <3>1, <3>2 DEF SocketStep
  <2>2. CASE ReleaseStep(t)
    BY <2>2 DEF ReleaseStep, Deref, TryRelease, Releasable, PostJob
  <2>3. CASE ApiStep(t)
    <3>1. CASE CheckReleased(t)
      BY <3>1 DEF CheckReleased, PassesReleased
    <3>2. CASE SetCancel(t)
      BY <3>2 DEF SetCancel
    <3>3. CASE CancelIoEx(t)
      BY <3>3 DEF CancelIoEx, CancelAll
    <3>4. CASE Push(t)
      BY <3>4 DEF Push
    <3>5. CASE DisconnectFull(t)
      BY <3>5 DEF DisconnectFull
    <3>q. QED
      BY <2>3, <3>1, <3>2, <3>3, <3>4, <3>5 DEF ApiStep
  <2>4. CASE SendStep(t)
    BY <2>4 DEF SendStep, TakeFlag, WasSending, CheckCancelSend, Peek, ClearFlag, RefSend, WSASend, Started, CheckSendPending
  <2>5. CASE RecvStep(t)
    BY <2>5 DEF RecvStep, RefRecv, WSARecv, Started, CheckRecvPending, CheckCancelRecv
  <2>q. QED
    BY <1>4, <2>1, <2>2, <2>3, <2>4, <2>5 DEF SharedStep
<1>5. ASSUME NEW w \in Workers, WorkerStep(w) PROVE Sockets'
  <2>1. CASE DequeueStep(w)
    BY <2>1 DEF DequeueStep, DequeueConnect, DequeueRecv, DequeueSend, DequeueJob, TakeCompletion
  <2>2. CASE StartStep(w)
    BY <2>2 DEF StartStep, StartFields, Publish, StartRef, Connected
  <2>3. CASE SentStep(w)
    <3>1. CASE PopSent(w)
      BY <3>1 DEF PopSent
    <3>2. CASE ClearPending(w) \/ DropFlag(w) \/ LoadReadCursor(w) \/ CheckMore(w)
      BY <3>2 DEF ClearPending, DropFlag, LoadReadCursor, CheckMore
    <3>3. CASE LoadWriteCursor(w)
      BY <3>3 DEF LoadWriteCursor
    <3>q. QED
      BY <2>3, <3>1, <3>2, <3>3 DEF SentStep
  <2>4. CASE Received(w) \/ Disconnected(w) \/ Drain(w) \/ SetIdle(w)
    BY SMTT(40), <2>4 DEF Received, Disconnected, Drain, AfterDrain, SetIdle
  <2>q. QED
    BY <1>5, <2>1, <2>2, <2>3, <2>4 DEF WorkerStep
<1>6. ASSUME NEW t \in Callers, NEW o \in Ops, Call(t, o) PROVE Sockets'
  BY <1>6 DEF Call
<1>7. CASE NetworkStep
  BY <1>7 DEF NetworkStep, CompleteConnect, Complete, PeerReset
<1> HIDE DEF ThreadTypes, ClientTypes, PortTypes, Roles, Stages, OwnersApart, Sockets, Attempting, Starting, Releasing, Using, Unreferenced, OwningPoints, Owning, Cancelled, RecheckCancel, IoStates
<1>q. QED
  BY <1>1, <1>2, <1>3, <1>4, <1>5, <1>6, <1>7 DEF Next

\* Every step keeps the queue of a client that is not connected empty: the release drains it and nobody pushes after that.
LEMMA EmptiedStep ==
  ASSUME ThreadTypes, ClientTypes, PortTypes, Roles, Stages, OwnersApart, Emptied, [Next]_vars
  PROVE  Emptied'
<1> USE ThreadAssumption, UseAssumption DEF Threads, ThreadTypes, ClientTypes, PortTypes, Roles, Stages, OwnersApart, Emptied, Attempting, Starting, Releasing, Using, Unreferenced, OwningPoints, Owning
<1>1. CASE UNCHANGED vars
  BY <1>1 DEF vars
<1>2. CASE Connect(Connector)
  BY <1>2 DEF Connect
<1>3. CASE ConnectStep(Connector)
  BY SMTT(40), <1>3 DEF ConnectStep, CreateSocket, Prepare, ConnectEx, Cleanup, ResetState
<1>4. ASSUME NEW t \in Threads, SharedStep(t) PROVE Emptied'
  <2>1. CASE SocketStep(t)
    <3>1. CASE CloseSocket(t)
      BY <3>1 DEF CloseSocket, CancelAll
    <3>2. CASE ClearSocket(t)
      BY <3>2 DEF ClearSocket
    <3>q. QED
      BY <2>1, <3>1, <3>2 DEF SocketStep
  <2>2. CASE ReleaseStep(t)
    BY SMTT(40), <2>2 DEF ReleaseStep, Deref, TryRelease, Releasable, PostJob
  <2>3. CASE ApiStep(t)
    <3>1. CASE CheckReleased(t)
      BY <3>1 DEF CheckReleased, PassesReleased
    <3>2. CASE SetCancel(t)
      BY <3>2 DEF SetCancel
    <3>3. CASE CancelIoEx(t)
      BY <3>3 DEF CancelIoEx, CancelAll
    <3>4. CASE Push(t)
      <4>1. ~released /\ state = "connected"
        BY <3>4 DEF Push
      <4>2. \A u \in Threads : pc[u] \notin {"publish", "setIdle"}
        <5>1. ASSUME NEW u \in Threads, pc[u] \in {"publish", "setIdle"} PROVE FALSE
          <6>1. op[u] # "refused"
            BY <5>1
          <6>q. QED
            BY <4>1, <5>1, <6>1
        <5>q. QED
          BY <5>1
      <4>3. \A u \in Workers : pc[u] \notin {"closeSocket", "clearSocket"}
        BY <3>4, <4>1 DEF Push
      <4>4. /\ state' = state
            /\ \A u \in Threads : pc'[u] = pc[u] \/ pc'[u] \in {"takeFlag", "disconnectFull"}
        BY <3>4 DEF Push
      <4>q. QED
        BY <4>1, <4>2, <4>3, <4>4
    <3>5. CASE DisconnectFull(t)
      BY <3>5 DEF DisconnectFull
    <3>q. QED
      BY <2>3, <3>1, <3>2, <3>3, <3>4, <3>5 DEF ApiStep
  <2>4. CASE SendStep(t)
    <3>1. UNCHANGED <<state, queue>>
      BY <2>4 DEF SendStep, TakeFlag, WasSending, CheckCancelSend, Peek, ClearFlag, RefSend, WSASend, Started, CheckSendPending
    <3>2. \A u \in Threads : pc'[u] \in {"publish", "setIdle", "closeSocket", "clearSocket"} => pc'[u] = pc[u]
      BY <2>4 DEF SendStep, TakeFlag, WasSending, CheckCancelSend, Peek, ClearFlag, RefSend, WSASend, Started, CheckSendPending
    <3>q. QED
      BY <3>1, <3>2
  <2>5. CASE RecvStep(t)
    <3>1. UNCHANGED <<state, queue>>
      BY <2>5 DEF RecvStep, RefRecv, WSARecv, Started, CheckRecvPending, CheckCancelRecv
    <3>2. \A u \in Threads : pc'[u] \in {"publish", "setIdle", "closeSocket", "clearSocket"} => pc'[u] = pc[u]
      BY <2>5 DEF RecvStep, RefRecv, WSARecv, Started, CheckRecvPending, CheckCancelRecv
    <3>q. QED
      BY <3>1, <3>2
  <2>q. QED
    BY <1>4, <2>1, <2>2, <2>3, <2>4, <2>5 DEF SharedStep
<1>5. ASSUME NEW w \in Workers, WorkerStep(w) PROVE Emptied'
  <2>1. CASE DequeueStep(w)
    BY SMTT(40), <2>1 DEF DequeueStep, DequeueConnect, DequeueRecv, DequeueSend, DequeueJob, TakeCompletion
  <2>2. CASE StartStep(w)
    BY <2>2 DEF StartStep, StartFields, Publish, StartRef, Connected
  <2>3. CASE SentStep(w)
    <3>1. CASE PopSent(w)
      BY <3>1 DEF PopSent
    <3>2. CASE ClearPending(w) \/ DropFlag(w) \/ LoadReadCursor(w) \/ CheckMore(w)
      BY <3>2 DEF ClearPending, DropFlag, LoadReadCursor, CheckMore
    <3>3. CASE LoadWriteCursor(w)
      BY <3>3 DEF LoadWriteCursor
    <3>q. QED
      BY <2>3, <3>1, <3>2, <3>3 DEF SentStep
  <2>4. CASE Received(w) \/ Disconnected(w) \/ Drain(w) \/ SetIdle(w)
    BY <2>4 DEF Received, Disconnected, Drain, AfterDrain, SetIdle
  <2>q. QED
    BY <1>5, <2>1, <2>2, <2>3, <2>4 DEF WorkerStep
<1>6. ASSUME NEW t \in Callers, NEW o \in Ops, Call(t, o) PROVE Emptied'
  BY <1>6 DEF Call
<1>7. CASE NetworkStep
  BY <1>7 DEF NetworkStep, CompleteConnect, Complete, PeerReset
<1> HIDE DEF ThreadTypes, ClientTypes, PortTypes, Roles, Stages, OwnersApart, Emptied, Attempting, Starting, Releasing, Using, Unreferenced, OwningPoints, Owning
<1>q. QED
  BY <1>1, <1>2, <1>3, <1>4, <1>5, <1>6, <1>7 DEF Next

\* Every step keeps the receivers apart: only OnConnect and a completed WSARecv lead to the next one.
LEMMA ReceiversApartStep ==
  ASSUME ThreadTypes, ClientTypes, PortTypes, Roles, Stages, OwnersApart, ReceiversApart, [Next]_vars
  PROVE  ReceiversApart'
<1> USE ThreadAssumption, UseAssumption DEF Threads, ThreadTypes, ClientTypes, PortTypes, Roles, Stages, OwnersApart, ReceiversApart, Attempting, Starting, Releasing, Using, Unreferenced, OwningPoints, Owning, Receiving, Cancelled, RecheckCancel, IoStates
<1>1. CASE UNCHANGED vars
  BY <1>1 DEF vars
<1>2. CASE Connect(Connector)
  BY <1>2 DEF Connect
<1>3. CASE ConnectStep(Connector)
  BY <1>3 DEF ConnectStep, CreateSocket, Prepare, ConnectEx, Cleanup, ResetState
<1>4. ASSUME NEW t \in Threads, SharedStep(t) PROVE ReceiversApart'
  <2>1. CASE SocketStep(t)
    <3>1. CASE CloseSocket(t)
      BY <3>1 DEF CloseSocket, CancelAll
    <3>2. CASE ClearSocket(t)
      BY <3>2 DEF ClearSocket
    <3>q. QED
      BY <2>1, <3>1, <3>2 DEF SocketStep
  <2>2. CASE ReleaseStep(t)
    BY <2>2 DEF ReleaseStep, Deref, TryRelease, Releasable, PostJob
  <2>3. CASE ApiStep(t)
    <3>1. CASE CheckReleased(t)
      BY <3>1 DEF CheckReleased, PassesReleased
    <3>2. CASE SetCancel(t)
      BY <3>2 DEF SetCancel
    <3>3. CASE CancelIoEx(t)
      BY <3>3 DEF CancelIoEx, CancelAll
    <3>4. CASE Push(t)
      BY <3>4 DEF Push
    <3>5. CASE DisconnectFull(t)
      BY <3>5 DEF DisconnectFull
    <3>q. QED
      BY <2>3, <3>1, <3>2, <3>3, <3>4, <3>5 DEF ApiStep
  <2>4. CASE SendStep(t)
    BY <2>4 DEF SendStep, TakeFlag, WasSending, CheckCancelSend, Peek, ClearFlag, RefSend, WSASend, Started, CheckSendPending
  <2>5. CASE RecvStep(t)
    BY <2>5 DEF RecvStep, RefRecv, WSARecv, Started, CheckRecvPending, CheckCancelRecv
  <2>q. QED
    BY <1>4, <2>1, <2>2, <2>3, <2>4, <2>5 DEF SharedStep
<1>5. ASSUME NEW w \in Workers, WorkerStep(w) PROVE ReceiversApart'
  <2>1. CASE DequeueStep(w)
    BY <2>1 DEF DequeueStep, DequeueConnect, DequeueRecv, DequeueSend, DequeueJob, TakeCompletion
  <2>2. CASE StartStep(w)
    BY <2>2 DEF StartStep, StartFields, Publish, StartRef, Connected
  <2>3. CASE SentStep(w)
    <3>1. CASE PopSent(w)
      BY <3>1 DEF PopSent
    <3>2. CASE ClearPending(w) \/ DropFlag(w) \/ LoadReadCursor(w) \/ CheckMore(w)
      BY <3>2 DEF ClearPending, DropFlag, LoadReadCursor, CheckMore
    <3>3. CASE LoadWriteCursor(w)
      BY <3>3 DEF LoadWriteCursor
    <3>q. QED
      BY <2>3, <3>1, <3>2, <3>3 DEF SentStep
  <2>4. CASE Received(w) \/ Disconnected(w) \/ Drain(w) \/ SetIdle(w)
    <3>1. CASE SetIdle(w)
      BY <3>1 DEF SetIdle
    <3>2. CASE Received(w) \/ Disconnected(w)
      BY <3>2 DEF Received, Disconnected
    <3>3. CASE Drain(w)
      BY <3>3 DEF Drain, AfterDrain
    <3>q. QED
      BY <2>4, <3>1, <3>2, <3>3
  <2>q. QED
    BY <1>5, <2>1, <2>2, <2>3, <2>4 DEF WorkerStep
<1>6. ASSUME NEW t \in Callers, NEW o \in Ops, Call(t, o) PROVE ReceiversApart'
  BY <1>6 DEF Call
<1>7. CASE NetworkStep
  BY <1>7 DEF NetworkStep, CompleteConnect, Complete, PeerReset
<1> HIDE DEF ThreadTypes, ClientTypes, PortTypes, Roles, Stages, OwnersApart, ReceiversApart, Attempting, Starting, Releasing, Using, Unreferenced, OwningPoints, Owning, Receiving, Cancelled, RecheckCancel, IoStates
<1>q. QED
  BY <1>1, <1>2, <1>3, <1>4, <1>5, <1>6, <1>7 DEF Next

\* Every step keeps the senders apart: m_isSending is taken by the thread that finds it clear, and dropped by its owner.
LEMMA SendersApartStep ==
  ASSUME ThreadTypes, ClientTypes, PortTypes, Roles, Stages, OwnersApart, SendersApart, [Next]_vars
  PROVE  SendersApart'
<1> USE ThreadAssumption, UseAssumption DEF Threads, ThreadTypes, ClientTypes, PortTypes, Roles, Stages, OwnersApart, SendersApart, Attempting, Starting, Releasing, Using, Unreferenced, OwningPoints, Owning, SendingPoints, Cancelled, RecheckCancel, IoStates
<1>1. CASE UNCHANGED vars
  BY <1>1 DEF vars
<1>2. CASE Connect(Connector)
  BY <1>2 DEF Connect
<1>3. CASE ConnectStep(Connector)
  BY <1>3 DEF ConnectStep, CreateSocket, Prepare, ConnectEx, Cleanup, ResetState
<1>4. ASSUME NEW t \in Threads, SharedStep(t) PROVE SendersApart'
  <2>1. CASE SocketStep(t)
    <3>1. CASE CloseSocket(t)
      BY <3>1 DEF CloseSocket, CancelAll
    <3>2. CASE ClearSocket(t)
      BY <3>2 DEF ClearSocket
    <3>q. QED
      BY <2>1, <3>1, <3>2 DEF SocketStep
  <2>2. CASE ReleaseStep(t)
    BY <2>2 DEF ReleaseStep, Deref, TryRelease, Releasable, PostJob
  <2>3. CASE ApiStep(t)
    <3>1. CASE CheckReleased(t)
      BY <3>1 DEF CheckReleased, PassesReleased
    <3>2. CASE SetCancel(t)
      BY <3>2 DEF SetCancel
    <3>3. CASE CancelIoEx(t)
      BY <3>3 DEF CancelIoEx, CancelAll
    <3>4. CASE Push(t)
      BY <3>4 DEF Push
    <3>5. CASE DisconnectFull(t)
      BY <3>5 DEF DisconnectFull
    <3>q. QED
      BY <2>3, <3>1, <3>2, <3>3, <3>4, <3>5 DEF ApiStep
  <2>4. CASE SendStep(t)
    BY <2>4 DEF SendStep, TakeFlag, WasSending, CheckCancelSend, Peek, ClearFlag, RefSend, WSASend, Started, CheckSendPending
  <2>5. CASE RecvStep(t)
    BY <2>5 DEF RecvStep, RefRecv, WSARecv, Started, CheckRecvPending, CheckCancelRecv
  <2>q. QED
    BY <1>4, <2>1, <2>2, <2>3, <2>4, <2>5 DEF SharedStep
<1>5. ASSUME NEW w \in Workers, WorkerStep(w) PROVE SendersApart'
  <2>1. CASE DequeueStep(w)
    BY <2>1 DEF DequeueStep, DequeueConnect, DequeueRecv, DequeueSend, DequeueJob, TakeCompletion
  <2>2. CASE StartStep(w)
    BY <2>2 DEF StartStep, StartFields, Publish, StartRef, Connected
  <2>3. CASE SentStep(w)
    <3>1. CASE PopSent(w)
      BY <3>1 DEF PopSent
    <3>2. CASE ClearPending(w) \/ DropFlag(w) \/ LoadReadCursor(w) \/ CheckMore(w)
      BY <3>2 DEF ClearPending, DropFlag, LoadReadCursor, CheckMore
    <3>3. CASE LoadWriteCursor(w)
      BY <3>3 DEF LoadWriteCursor
    <3>q. QED
      BY <2>3, <3>1, <3>2, <3>3 DEF SentStep
  <2>4. CASE Received(w) \/ Disconnected(w) \/ Drain(w) \/ SetIdle(w)
    BY SMTT(40), <2>4 DEF Received, Disconnected, Drain, AfterDrain, SetIdle
  <2>q. QED
    BY <1>5, <2>1, <2>2, <2>3, <2>4 DEF WorkerStep
<1>6. ASSUME NEW t \in Callers, NEW o \in Ops, Call(t, o) PROVE SendersApart'
  BY <1>6 DEF Call
<1>7. CASE NetworkStep
  BY <1>7 DEF NetworkStep, CompleteConnect, Complete, PeerReset
<1> HIDE DEF ThreadTypes, ClientTypes, PortTypes, Roles, Stages, OwnersApart, SendersApart, Attempting, Starting, Releasing, Using, Unreferenced, OwningPoints, Owning, SendingPoints, Cancelled, RecheckCancel, IoStates
<1>q. QED
  BY <1>1, <1>2, <1>3, <1>4, <1>5, <1>6, <1>7 DEF Next

----------------------------------------------------------------------------
(***************************************************************************)
(* One step: the packets.                                                  *)
(***************************************************************************)

\* Every step keeps the packets of a batch queued: they are popped by the thread that handles its completion.
LEMMA BatchQueuedStep ==
  ASSUME ThreadTypes, ClientTypes, PortTypes, Roles, QueueTypes, Stages, OwnersApart, SendersApart, BatchQueued, [Next]_vars
  PROVE  BatchQueued'
<1> USE ThreadAssumption, UseAssumption DEF Threads, ThreadTypes, ClientTypes, PortTypes, Roles, Stages, OwnersApart, SendersApart, BatchQueued, SendingPoints, Batching, OwningPoints, Owning, Using, Attempting, Releasing, Cancelled, RecheckCancel, IoStates
<1>1. CASE UNCHANGED vars
  BY <1>1 DEF vars
<1>2. CASE Connect(Connector)
  BY <1>2 DEF Connect
<1>3. CASE ConnectStep(Connector)
  BY <1>3 DEF ConnectStep, CreateSocket, Prepare, ConnectEx, Cleanup, ResetState
<1>4. ASSUME NEW t \in Threads, SharedStep(t) PROVE BatchQueued'
  <2>1. CASE SocketStep(t)
    BY <2>1 DEF SocketStep, CloseSocket, ClearSocket, CancelAll
  <2>2. CASE ReleaseStep(t)
    BY <2>2 DEF ReleaseStep, Deref, TryRelease, Releasable, PostJob
  <2>3. CASE ApiStep(t)
    <3>1. CASE CheckReleased(t) \/ SetCancel(t) \/ DisconnectFull(t)
      BY SMTT(40), <3>1 DEF CheckReleased, SetCancel, DisconnectFull
    <3>2. CASE CancelIoEx(t)
      BY <3>2 DEF CancelIoEx, CancelAll
    <3>3. CASE Push(t)
      <4>1. /\ sendIo' = sendIo /\ pending' = pending
            /\ \A u \in Threads : pc'[u] \in Batching => pc[u] \in Batching
        BY <3>3 DEF Push
      <4>2. Len(queue') >= Len(queue) /\ Len(queue') \in Nat
        BY <3>3 DEF Push, QueueTypes
      <4>3. pending \in 1..Len(queue) => pending \in 1..Len(queue')
        BY <4>2 DEF QueueTypes
      <4>q. QED
        BY <4>1, <4>3
    <3>q. QED
      BY <2>3, <3>1, <3>2, <3>3 DEF ApiStep
  <2>4. CASE SendStep(t)
    <3>1. CASE Peek(t)
      <4>1. BatchSize # 0 => BatchSize \in 1..Len(queue)
        BY SizeAssumption DEF BatchSize, QueueTypes
      <4>2. CASE BatchSize = 0
        BY <3>1, <4>2 DEF Peek
      <4>3. CASE BatchSize # 0
        BY <3>1, <4>1, <4>3 DEF Peek
      <4>q. QED
        BY <4>2, <4>3
    <3>2. CASE ~Peek(t)
      BY SMTT(40), <2>4, <3>2 DEF SendStep, TakeFlag, WasSending, CheckCancelSend, ClearFlag, RefSend, WSASend, Started, CheckSendPending
    <3>q. QED
      BY <3>1, <3>2
  <2>5. CASE RecvStep(t)
    BY SMTT(40), <2>5 DEF RecvStep, RefRecv, WSARecv, Started, CheckRecvPending, CheckCancelRecv
  <2>q. QED
    BY <1>4, <2>1, <2>2, <2>3, <2>4, <2>5 DEF SharedStep
<1>5. ASSUME NEW w \in Workers, WorkerStep(w) PROVE BatchQueued'
  <2>1. CASE DequeueStep(w)
    BY <2>1 DEF DequeueStep, DequeueConnect, DequeueRecv, DequeueSend, DequeueJob, TakeCompletion
  <2>2. CASE StartStep(w)
    BY SMTT(40), <2>2 DEF StartStep, StartFields, Publish, StartRef, Connected
  <2>3. CASE SentStep(w)
    <3>1. CASE PopSent(w)
      <4>1. sendIo' = "none" /\ \A u \in Threads : pc'[u] \notin Batching
        BY <3>1 DEF PopSent
      <4>q. QED
        BY <4>1
    <3>2. CASE ClearPending(w)
      <4>1. sendIo' = "none" /\ \A u \in Threads : pc'[u] \notin Batching
        BY <3>2 DEF ClearPending
      <4>q. QED
        BY <4>1
    <3>3. CASE DropFlag(w) \/ LoadReadCursor(w) \/ CheckMore(w)
      BY <3>3 DEF DropFlag, LoadReadCursor, CheckMore
    <3>4. CASE LoadWriteCursor(w)
      BY <3>4 DEF LoadWriteCursor
    <3>q. QED
      BY <2>3, <3>1, <3>2, <3>3, <3>4 DEF SentStep
  <2>4. CASE Received(w) \/ Disconnected(w) \/ Drain(w) \/ SetIdle(w)
    <3>1. CASE Drain(w)
      <4>1. sendIo' = "none" /\ \A u \in Threads : pc'[u] \notin Batching
        BY <3>1 DEF Drain, AfterDrain
      <4>q. QED
        BY <4>1
    <3>2. CASE Received(w) \/ Disconnected(w) \/ SetIdle(w)
      BY <3>2 DEF Received, Disconnected, SetIdle
    <3>q. QED
      BY <2>4, <3>1, <3>2
  <2>q. QED
    BY <1>5, <2>1, <2>2, <2>3, <2>4 DEF WorkerStep
<1>6. ASSUME NEW t \in Callers, NEW o \in Ops, Call(t, o) PROVE BatchQueued'
  BY <1>6 DEF Call
<1>7. CASE NetworkStep
  BY <1>7 DEF NetworkStep, CompleteConnect, Complete, PeerReset
<1> HIDE DEF ThreadTypes, ClientTypes, PortTypes, Roles, Stages, OwnersApart, SendersApart, BatchQueued, SendingPoints, Batching, OwningPoints, Owning, Using, Attempting, Releasing, Cancelled, RecheckCancel, IoStates
<1>q. QED
  BY <1>1, <1>2, <1>3, <1>4, <1>5, <1>6, <1>7 DEF Next

\* A call works on the connection it has found alive.
OnItsConnection == \A t \in Callers : pc[t] \in Using => arg[t] = conn

\* No step establishes a connection under a call that uses the previous one.
LEMMA OnItsConnectionStep ==
  ASSUME ThreadTypes, ClientTypes, PortTypes, Roles, Stages, OwnersApart, OnItsConnection, [Next]_vars
  PROVE  OnItsConnection'
<1> USE ThreadAssumption, UseAssumption DEF Threads, ThreadTypes, ClientTypes, PortTypes, Roles, Stages, OwnersApart, OnItsConnection, OwningPoints, Owning, Using, Attempting, Starting, Releasing
<1>1. CASE UNCHANGED vars
  BY <1>1 DEF vars
<1>2. CASE Connect(Connector)
  BY <1>2 DEF Connect
<1>3. CASE ConnectStep(Connector)
  BY <1>3 DEF ConnectStep, CreateSocket, Prepare, ConnectEx, Cleanup, ResetState
<1>4. ASSUME NEW t \in Threads, SharedStep(t) PROVE OnItsConnection'
  <2>1. CASE SocketStep(t)
    <3>1. CASE CloseSocket(t)
      BY <3>1 DEF CloseSocket, CancelAll
    <3>2. CASE ClearSocket(t)
      BY <3>2 DEF ClearSocket
    <3>q. QED
      BY <2>1, <3>1, <3>2 DEF SocketStep
  <2>2. CASE ReleaseStep(t)
    BY <2>2 DEF ReleaseStep, Deref, TryRelease, Releasable, PostJob
  <2>3. CASE ApiStep(t)
    <3>1. CASE CheckReleased(t)
      BY <3>1 DEF CheckReleased, PassesReleased
    <3>2. CASE SetCancel(t)
      BY <3>2 DEF SetCancel
    <3>3. CASE CancelIoEx(t)
      BY <3>3 DEF CancelIoEx, CancelAll
    <3>4. CASE Push(t)
      BY <3>4 DEF Push
    <3>5. CASE DisconnectFull(t)
      BY <3>5 DEF DisconnectFull
    <3>q. QED
      BY <2>3, <3>1, <3>2, <3>3, <3>4, <3>5 DEF ApiStep
  <2>4. CASE SendStep(t)
    BY <2>4 DEF SendStep, TakeFlag, WasSending, CheckCancelSend, Peek, ClearFlag, RefSend, WSASend, Started, CheckSendPending
  <2>5. CASE RecvStep(t)
    BY <2>5 DEF RecvStep, RefRecv, WSARecv, Started, CheckRecvPending, CheckCancelRecv
  <2>q. QED
    BY <1>4, <2>1, <2>2, <2>3, <2>4, <2>5 DEF SharedStep
<1>5. ASSUME NEW w \in Workers, WorkerStep(w) PROVE OnItsConnection'
  <2>1. CASE DequeueStep(w)
    BY <2>1 DEF DequeueStep, DequeueConnect, DequeueRecv, DequeueSend, DequeueJob, TakeCompletion
  <2>2. CASE StartStep(w)
    BY <2>2 DEF StartStep, StartFields, Publish, StartRef, Connected
  <2>3. CASE SentStep(w)
    <3>1. CASE PopSent(w)
      BY <3>1 DEF PopSent
    <3>2. CASE ClearPending(w) \/ DropFlag(w) \/ LoadReadCursor(w) \/ CheckMore(w)
      BY <3>2 DEF ClearPending, DropFlag, LoadReadCursor, CheckMore
    <3>3. CASE LoadWriteCursor(w)
      BY <3>3 DEF LoadWriteCursor
    <3>q. QED
      BY <2>3, <3>1, <3>2, <3>3 DEF SentStep
  <2>4. CASE Received(w) \/ Disconnected(w) \/ Drain(w) \/ SetIdle(w)
    BY SMTT(40), <2>4 DEF Received, Disconnected, Drain, AfterDrain, SetIdle
  <2>q. QED
    BY <1>5, <2>1, <2>2, <2>3, <2>4 DEF WorkerStep
<1>6. ASSUME NEW t \in Callers, NEW o \in Ops, Call(t, o) PROVE OnItsConnection'
  BY <1>6 DEF Call
<1>7. CASE NetworkStep
  BY <1>7 DEF NetworkStep, CompleteConnect, Complete, PeerReset
<1> HIDE DEF ThreadTypes, ClientTypes, PortTypes, Roles, Stages, OwnersApart, OnItsConnection, OwningPoints, Owning, Using, Attempting, Starting, Releasing
<1>q. QED
  BY <1>1, <1>2, <1>3, <1>4, <1>5, <1>6, <1>7 DEF Next

\* The packets in the queue belong to the connection.
Queued == \A i \in 1..Len(queue) : queue[i] = conn

\* Every step keeps packets on their connection: the next one is established with an empty queue.
LEMMA QueuedStep ==
  ASSUME ThreadTypes, ClientTypes, PortTypes, Roles, QueueTypes, Stages, OnItsConnection, Emptied, BatchQueued, Queued, [Next]_vars
  PROVE  Queued'
<1> USE DEF Queued
<1>1. CASE UNCHANGED vars
  BY <1>1 DEF vars
<1>2. CASE Connect(Connector)
  <2>1. UNCHANGED <<queue, conn>>
    BY <1>2 DEF Connect
  <2>q. QED
    BY <2>1
<1>3. CASE ConnectStep(Connector)
  <2>1. UNCHANGED <<queue, conn>>
    BY <1>3 DEF ConnectStep, CreateSocket, Prepare, ConnectEx, Cleanup, ResetState
  <2>q. QED
    BY <2>1
<1>4. ASSUME NEW t \in Threads, SharedStep(t) PROVE Queued'
  <2>1. CASE SocketStep(t)
    <3>1. UNCHANGED <<queue, conn>>
      BY <2>1 DEF SocketStep, CloseSocket, ClearSocket, CancelAll
    <3>q. QED
      BY <3>1
  <2>2. CASE ReleaseStep(t)
    <3>1. UNCHANGED <<queue, conn>>
      BY <2>2 DEF ReleaseStep, Deref, TryRelease, Releasable, PostJob
    <3>q. QED
      BY <3>1
  <2>3. CASE ApiStep(t)
    <3>1. CASE Push(t)
      <4>1. t \in Callers /\ arg[t] = conn
        BY <3>1 DEF Push, Roles, Threads, Attempting, OnItsConnection, Using
      <4>2. conn' = conn /\ (queue' = queue \/ queue' = Append(queue, conn))
        BY <3>1, <4>1 DEF Push
      <4>q. QED
        BY SMTT(40), <4>2 DEF QueueTypes, ClientTypes
    <3>2. CASE ~Push(t)
      <4>1. UNCHANGED <<queue, conn>>
        BY <2>3, <3>2 DEF ApiStep, CheckReleased, SetCancel, CancelIoEx, DisconnectFull
      <4>q. QED
        BY <4>1
    <3>q. QED
      BY <3>1, <3>2
  <2>4. CASE SendStep(t)
    <3>1. UNCHANGED <<queue, conn>>
      BY <2>4 DEF SendStep, TakeFlag, WasSending, CheckCancelSend, Peek, ClearFlag, RefSend, WSASend, Started, CheckSendPending
    <3>q. QED
      BY <3>1
  <2>5. CASE RecvStep(t)
    <3>1. UNCHANGED <<queue, conn>>
      BY <2>5 DEF RecvStep, RefRecv, WSARecv, Started, CheckRecvPending, CheckCancelRecv
    <3>q. QED
      BY <3>1
  <2>q. QED
    BY <1>4, <2>1, <2>2, <2>3, <2>4, <2>5 DEF SharedStep
<1>5. ASSUME NEW w \in Workers, WorkerStep(w) PROVE Queued'
  <2>1. CASE DequeueStep(w)
    <3>1. UNCHANGED <<queue, conn>>
      BY <2>1 DEF DequeueStep, DequeueConnect, DequeueRecv, DequeueSend, DequeueJob, TakeCompletion
    <3>q. QED
      BY <3>1
  <2>2. CASE StartStep(w)
    <3>1. CASE Publish(w)
      <4>1. queue = <<>> /\ queue' = queue
        BY <3>1 DEF Publish, Emptied, Threads
      <4>q. QED
        BY <4>1
    <3>2. CASE ~Publish(w)
      <4>1. UNCHANGED <<queue, conn>>
        BY <2>2, <3>2 DEF StartStep, StartFields, StartRef, Connected
      <4>q. QED
        BY <4>1
    <3>q. QED
      BY <3>1, <3>2
  <2>3. CASE SentStep(w)
    <3>1. CASE PopSent(w)
      <4>1. conn' = conn /\ queue' = SubSeq(queue, pending + 1, Len(queue))
        BY <3>1 DEF PopSent
      <4>2. pending \in 1..Len(queue) /\ queue \in Seq(Nat)
        BY <3>1 DEF PopSent, BatchQueued, Batching, Threads, QueueTypes
      <4>3. Len(queue') = Len(queue) - pending /\ \A i \in 1..Len(queue') : queue'[i] = queue[i + pending]
        BY <4>1, <4>2
      <4>q. QED
        BY <4>1, <4>2, <4>3
    <3>2. CASE ~PopSent(w)
      <4>1. UNCHANGED <<queue, conn>>
        BY <2>3, <3>2 DEF SentStep, ClearPending, DropFlag, LoadReadCursor, LoadWriteCursor, CheckMore
      <4>q. QED
        BY <4>1
    <3>q. QED
      BY <3>1, <3>2
  <2>4. CASE Received(w) \/ Disconnected(w) \/ Drain(w) \/ SetIdle(w)
    <3>1. CASE Drain(w)
      BY <3>1 DEF Drain
    <3>2. CASE Received(w) \/ Disconnected(w) \/ SetIdle(w)
      <4>1. UNCHANGED <<queue, conn>>
        BY <3>2 DEF Received, Disconnected, SetIdle
      <4>q. QED
        BY <4>1
    <3>q. QED
      BY <2>4, <3>1, <3>2
  <2>q. QED
    BY <1>5, <2>1, <2>2, <2>3, <2>4 DEF WorkerStep
<1>6. ASSUME NEW t \in Callers, NEW o \in Ops, Call(t, o) PROVE Queued'
  <2>1. UNCHANGED <<queue, conn>>
    BY <1>6 DEF Call
  <2>q. QED
    BY <2>1
<1>7. CASE NetworkStep
  <2>1. UNCHANGED <<queue, conn>>
    BY <1>7 DEF NetworkStep, CompleteConnect, Complete, PeerReset
  <2>q. QED
    BY <2>1
<1> HIDE DEF Queued
<1>q. QED
  BY <1>1, <1>2, <1>3, <1>4, <1>5, <1>6, <1>7 DEF Next

----------------------------------------------------------------------------
(***************************************************************************)
(* One step: m_isSending is not left behind on a healthy connection.       *)
(***************************************************************************)

\* Every step that makes a send fail has set m_cancelIo or found the connection lost; m_cancelIo is only
\* reset, and a socket only opened, while there is no connection.
LEMMA FailuresAreCancelledStep ==
  ASSUME ThreadTypes, ClientTypes, PortTypes, Roles, Stages, FailuresAreCancelled, [Next]_vars
  PROVE  FailuresAreCancelled'
<1> USE ThreadAssumption DEF Threads, ThreadTypes, PortTypes, IoStates
<1> DEFINE Kept == /\ cancelIo => cancelIo'
                   /\ sock' = "open" => sock = "open"
                   /\ sendIo' = "fail" => sendIo = "fail"
                   /\ \A u \in Threads : pc'[u] = "cancelIoEx" => pc[u] = "cancelIoEx"
           NoConnection == sendIo = "none" /\ \A u \in Threads : pc[u] # "cancelIoEx"
<1>k. Kept => FailuresAreCancelled'
  BY DEF FailuresAreCancelled
<1>n. state = "connecting" => NoConnection
  BY DEF Stages, Using
<1>1. CASE UNCHANGED vars
  BY <1>k, <1>1 DEF vars
<1>2. CASE Connect(Connector)
  BY <1>k, <1>2 DEF Connect
<1>3. CASE ConnectStep(Connector)
  <2>1. CASE ConnectEx(Connector)
    <3>1. state = "connecting"
      BY <2>1 DEF ConnectEx, Roles, Stages, Attempting
    <3>q. QED
      BY <1>n, <2>1, <3>1 DEF ConnectEx, FailuresAreCancelled
  <2>2. CASE CreateSocket(Connector) \/ Prepare(Connector) \/ Cleanup(Connector) \/ ResetState(Connector)
    BY <1>k, <2>2 DEF CreateSocket, Prepare, Cleanup, ResetState
  <2>q. QED
    BY <1>3, <2>1, <2>2 DEF ConnectStep
<1>4. ASSUME NEW t \in Threads, SharedStep(t) PROVE FailuresAreCancelled'
  <2>1. CASE SocketStep(t)
    BY <2>1 DEF SocketStep, CloseSocket, ClearSocket, CancelAll, FailuresAreCancelled
  <2>2. CASE ReleaseStep(t)
    BY <1>k, <2>2 DEF ReleaseStep, Deref, TryRelease, PostJob
  <2>3. CASE SetCancel(t) \/ CancelIoEx(t)
    BY <2>3 DEF SetCancel, CancelIoEx, FailuresAreCancelled
  <2>4. CASE CheckReleased(t) \/ Push(t) \/ DisconnectFull(t)
    BY <1>k, <2>4 DEF CheckReleased, Push, DisconnectFull
  <2>5. CASE WSASend(t) \/ CheckSendPending(t)
    BY <2>5 DEF WSASend, Started, CheckSendPending, RecheckCancel, FailuresAreCancelled
  <2>6. CASE TakeFlag(t) \/ CheckCancelSend(t) \/ Peek(t) \/ ClearFlag(t) \/ RefSend(t)
    BY <1>k, <2>6 DEF TakeFlag, CheckCancelSend, Peek, ClearFlag, RefSend
  <2>7. CASE RecvStep(t)
    BY <1>k, <2>7 DEF RecvStep, RefRecv, WSARecv, CheckRecvPending, CheckCancelRecv
  <2>q. QED
    BY <1>4, <2>1, <2>2, <2>3, <2>4, <2>5, <2>6, <2>7 DEF SharedStep, ApiStep, SendStep
<1>5. ASSUME NEW w \in Workers, WorkerStep(w) PROVE FailuresAreCancelled'
  <2>1. CASE DequeueStep(w)
    BY <1>k, <2>1 DEF DequeueStep, DequeueConnect, DequeueRecv, DequeueSend, DequeueJob, TakeCompletion
  <2>2. CASE StartFields(w)
    <3>1. state = "connecting"
      BY <2>2 DEF StartFields, Roles, Stages, Attempting
    <3>q. QED
      BY <1>n, <2>2, <3>1 DEF StartFields, FailuresAreCancelled
  <2>3. CASE Publish(w) \/ StartRef(w) \/ Connected(w)
    BY <1>k, <2>3 DEF Publish, StartRef, Connected
  <2>4. CASE SentStep(w)
    BY <1>k, <2>4 DEF SentStep, PopSent, ClearPending, DropFlag, LoadReadCursor, LoadWriteCursor, CheckMore
  <2>5. CASE Received(w) \/ Disconnected(w) \/ Drain(w) \/ SetIdle(w)
    BY <1>k, <2>5 DEF Received, Disconnected, Drain, AfterDrain, SetIdle
  <2>q. QED
    BY <1>5, <2>1, <2>2, <2>3, <2>4, <2>5 DEF WorkerStep, StartStep
<1>6. ASSUME NEW t \in Callers, NEW o \in Ops, Call(t, o) PROVE FailuresAreCancelled'
  BY <1>k, <1>6 DEF Call
<1>7. CASE NetworkStep
  <2>1. CASE CompleteConnect
    <3>1. state = "connecting"
      BY <2>1 DEF CompleteConnect, Stages
    <3>q. QED
      BY <1>n, <2>1, <3>1 DEF CompleteConnect, FailuresAreCancelled
  <2>2. CASE Complete
    BY <1>k, <2>2 DEF Complete
  <2>3. CASE PeerReset
    BY <2>3 DEF PeerReset, FailuresAreCancelled
  <2>q. QED
    BY <1>7, <2>1, <2>2, <2>3 DEF NetworkStep
<1>q. QED
  BY <1>1, <1>2, <1>3, <1>4, <1>5, <1>6, <1>7 DEF Next

\* Who is to clear m_isSending, or to have the client disconnected: a sending thread, or one whose send failed.
Clears(t) == pc[t] \in SendingPoints \/ (pc[t] = "setCancel" /\ extra[t])

Healthy == isSending /\ ~cancelIo /\ sock = "open"

\* Mute restated.
LEMMA MuteByThread == Mute <=> Healthy /\ ~released /\ sendIo = "none" /\ \A t \in Threads : ~Clears(t)
BY DEF Mute, Healthy, Clears, SendOwners

\* Every step of an established connection keeps the flag in somebody's hands, or clears it, or has the
\* connection disconnected.
LEMMA MuteStep ==
  ASSUME ThreadTypes, ClientTypes, PortTypes, Roles, SecondReferences, Stages, SendersApart, FailuresAreCancelled,
         [Next]_vars, ~released, Mute'
  PROVE  Mute
<1> USE ThreadAssumption DEF Threads, ThreadTypes, ClientTypes, PortTypes, IoStates
<1> DEFINE Kept == /\ Healthy' => Healthy
                   /\ sendIo # "none" => sendIo' # "none"
                   /\ \A u \in Threads : Clears(u) => Clears(u)'
<1>a. Healthy' /\ sendIo' = "none" /\ \A u \in Threads : ~Clears(u)'
  <2>1. Mute' <=> (Healthy /\ ~released /\ sendIo = "none" /\ \A t \in Threads : ~Clears(t))'
    BY MuteByThread, PTL
  <2>q. QED
    BY <2>1
<1>k. Kept => Mute
  BY <1>a, MuteByThread
<1>s. state = "connected"
  BY DEF Stages
<1> USE DEF Healthy, Clears, SendingPoints
<1>1. CASE UNCHANGED vars
  BY <1>k, <1>1 DEF vars
<1>2. CASE Connect(Connector)
  BY <1>k, <1>2 DEF Connect
<1>3. CASE ConnectStep(Connector)
  <2>1. ~ConnectEx(Connector)
    BY <1>s DEF ConnectEx, Roles, Stages, Attempting
  <2>q. QED
    BY <1>k, <1>3, <2>1 DEF ConnectStep, CreateSocket, Prepare, Cleanup, ResetState
<1>4. ASSUME NEW t \in Threads, SharedStep(t) PROVE Mute
  <2>1. CASE SocketStep(t)
    BY <1>k, <2>1 DEF SocketStep, CloseSocket, ClearSocket, CancelAll, Cancelled
  <2>2. CASE ReleaseStep(t)
    BY <1>k, <2>2 DEF ReleaseStep, Deref, TryRelease, PostJob
  <2>3. CASE SetCancel(t)
    BY <1>a, <2>3 DEF SetCancel
  <2>4. CASE CancelIoEx(t)
    BY <1>k, <2>4 DEF CancelIoEx, CancelAll, Cancelled
  <2>5. CASE CheckReleased(t) \/ Push(t) \/ DisconnectFull(t)
    BY <1>k, <2>5 DEF CheckReleased, Push, DisconnectFull
  <2>6. CASE TakeFlag(t)
    <3>1. isSending
      BY <1>a, <2>6 DEF TakeFlag, WasSending
    <3>q. QED
      BY <1>k, <2>6, <3>1 DEF TakeFlag
  <2>7. CASE CheckCancelSend(t) \/ ClearFlag(t)
    BY <1>a, <2>7 DEF CheckCancelSend, ClearFlag
  <2>8. CASE Peek(t) \/ RefSend(t)
    BY <1>a, <2>8 DEF Peek, RefSend
  <2>9. CASE WSASend(t)
    BY <1>a, <2>9 DEF WSASend, Started, SecondReferences
  <2>10. CASE CheckSendPending(t)
    BY <1>k, <2>10 DEF CheckSendPending, RecheckCancel, Cancelled
  <2>11. CASE RecvStep(t)
    BY <1>k, <2>11 DEF RecvStep, RefRecv, WSARecv, CheckRecvPending, CheckCancelRecv
  <2>q. QED
    BY <1>4, <2>1, <2>2, <2>3, <2>4, <2>5, <2>6, <2>7, <2>8, <2>9, <2>10, <2>11 DEF SharedStep, ApiStep, SendStep
<1>5. ASSUME NEW w \in Workers, WorkerStep(w) PROVE Mute
  <2>1. CASE DequeueSend(w)
    <3>1. sendIo = "ok"
      BY <1>a, <2>1 DEF DequeueSend, TakeCompletion, FailuresAreCancelled
    <3>q. QED
      BY <1>a, <2>1, <3>1 DEF DequeueSend, TakeCompletion
  <2>2. CASE DequeueConnect(w) \/ DequeueRecv(w) \/ DequeueJob(w)
    BY <1>k, <2>2 DEF DequeueConnect, DequeueRecv, DequeueJob, TakeCompletion
  <2>3. CASE StartStep(w)
    <3>1. ~StartFields(w)
      BY <1>s DEF StartFields, Roles, Stages, Attempting
    <3>q. QED
      BY <1>k, <2>3, <3>1 DEF StartStep, Publish, StartRef, Connected
  <2>4. CASE PopSent(w) \/ ClearPending(w) \/ DropFlag(w)
    BY <1>a, <2>4 DEF PopSent, ClearPending, DropFlag
  <2>5. CASE LoadReadCursor(w) \/ LoadWriteCursor(w) \/ CheckMore(w)
    BY <1>k, <2>5 DEF LoadReadCursor, LoadWriteCursor, CheckMore
  <2>6. CASE Received(w) \/ Disconnected(w) \/ Drain(w) \/ SetIdle(w)
    BY <1>k, <2>6 DEF Received, Disconnected, Drain, AfterDrain, SetIdle
  <2>q. QED
    BY <1>5, <2>1, <2>2, <2>3, <2>4, <2>5, <2>6 DEF WorkerStep, DequeueStep, SentStep
<1>6. ASSUME NEW t \in Callers, NEW o \in Ops, Call(t, o) PROVE Mute
  BY <1>k, <1>6 DEF Call
<1>7. CASE NetworkStep
  <2>1. ~CompleteConnect
    BY <1>s DEF CompleteConnect, Stages
  <2>q. QED
    BY <1>k, <1>7, <2>1 DEF NetworkStep, Complete, PeerReset, Cancelled
<1> HIDE DEF Healthy, Clears, SendingPoints
<1>q. QED
  BY <1>1, <1>2, <1>3, <1>4, <1>5, <1>6, <1>7 DEF Next

----------------------------------------------------------------------------
(***************************************************************************)
(* One step: the reference count.                                          *)
(***************************************************************************)

\* There are finitely many threads, so finitely many hold a reference.
LEMMA HoldersAreFinite ==
  /\ IsFiniteSet(Holders) /\ Cardinality(Holders) \in Nat
  /\ IsFiniteSet(SecondHolders) /\ Cardinality(SecondHolders) \in Nat
BY ThreadAssumption, FS_Subset, FS_CardinalityType DEF Holders, SecondHolders

\* Adding a thread to the holders.
LEMMA OneMore ==
  ASSUME NEW S, NEW T, NEW x, IsFiniteSet(S), x \notin S, T = S \cup {x}
  PROVE  Cardinality(T) = Cardinality(S) + 1
BY FS_AddElement

\* Removing a thread from the holders.
LEMMA OneLess ==
  ASSUME NEW S, NEW T, NEW x, IsFiniteSet(S), x \in S, T = S \ {x}
  PROVE  Cardinality(T) = Cardinality(S) - 1
BY FS_RemoveElement

\* A thread holds a first reference.
Holds(t) == pc[t] \notin Unreferenced

\* A step that moves no reference keeps the count.
LEMMA CountKept ==
  ASSUME RefCountExact, refCount' = refCount,
         \A u \in Threads : Holds(u)' <=> Holds(u),
         \A u \in Threads : extra'[u] <=> extra[u],
         recvIo' = "none" <=> recvIo = "none",
         sendIo' = "none" <=> sendIo = "none"
  PROVE  RefCountExact'
<1>1. Holders' = Holders /\ SecondHolders' = SecondHolders
  BY DEF Holders, SecondHolders, Holds
<1>2. Outstanding(recvIo)' = Outstanding(recvIo) /\ Outstanding(sendIo)' = Outstanding(sendIo)
  BY DEF Outstanding
<1>q. QED
  BY <1>1, <1>2 DEF RefCountExact

\* A thread takes its first reference: one of its own, or the one of a completed operation.
LEMMA CountFirst ==
  ASSUME RefCountExact, NEW t \in Threads, ~Holds(t),
         \A u \in Threads : Holds(u)' <=> u = t \/ Holds(u),
         \A u \in Threads : extra'[u] <=> extra[u],
         \/ refCount' = refCount + 1 /\ recvIo' = recvIo /\ sendIo' = sendIo
         \/ refCount' = refCount /\ recvIo # "none" /\ recvIo' = "none" /\ sendIo' = sendIo
         \/ refCount' = refCount /\ sendIo # "none" /\ sendIo' = "none" /\ recvIo' = recvIo
  PROVE  RefCountExact'
<1>1. Holders' = Holders \cup {t} /\ t \notin Holders
  BY DEF Holders, Holds
<1>2. Cardinality(Holders') = Cardinality(Holders) + 1
  BY <1>1, HoldersAreFinite, OneMore
<1>3. SecondHolders' = SecondHolders
  BY DEF SecondHolders
<1>q. QED
  BY <1>2, <1>3, HoldersAreFinite DEF RefCountExact, Outstanding

\* A thread takes a second reference.
LEMMA CountSecond ==
  ASSUME RefCountExact, NEW t \in Threads, ~extra[t], refCount' = refCount + 1,
         \A u \in Threads : Holds(u)' <=> Holds(u),
         \A u \in Threads : extra'[u] <=> u = t \/ extra[u],
         recvIo' = recvIo, sendIo' = sendIo
  PROVE  RefCountExact'
<1>1. SecondHolders' = SecondHolders \cup {t} /\ t \notin SecondHolders
  BY DEF SecondHolders
<1>2. Cardinality(SecondHolders') = Cardinality(SecondHolders) + 1
  BY <1>1, HoldersAreFinite, OneMore
<1>3. Holders' = Holders
  BY DEF Holders, Holds
<1>q. QED
  BY <1>2, <1>3, HoldersAreFinite DEF RefCountExact, Outstanding

\* A thread gives its first reference up.
LEMMA CountDropped ==
  ASSUME RefCountExact, NEW t \in Threads, Holds(t), refCount' = refCount - 1,
         \A u \in Threads : Holds(u)' <=> u # t /\ Holds(u),
         \A u \in Threads : extra'[u] <=> extra[u],
         recvIo' = recvIo, sendIo' = sendIo
  PROVE  RefCountExact'
<1>1. Holders' = Holders \ {t} /\ t \in Holders
  BY DEF Holders, Holds
<1>2. Cardinality(Holders') = Cardinality(Holders) - 1
  BY <1>1, HoldersAreFinite, OneLess
<1>3. SecondHolders' = SecondHolders
  BY DEF SecondHolders
<1>q. QED
  BY <1>2, <1>3, HoldersAreFinite DEF RefCountExact, Outstanding

\* A thread gives its second reference up, or hands it to the operation it starts.
LEMMA CountSecondDropped ==
  ASSUME RefCountExact, NEW t \in Threads, extra[t],
         \A u \in Threads : Holds(u)' <=> Holds(u),
         \A u \in Threads : extra'[u] <=> u # t /\ extra[u],
         \/ refCount' = refCount - 1 /\ recvIo' = recvIo /\ sendIo' = sendIo
         \/ refCount' = refCount /\ recvIo = "none" /\ recvIo' # "none" /\ sendIo' = sendIo
         \/ refCount' = refCount /\ sendIo = "none" /\ sendIo' # "none" /\ recvIo' = recvIo
  PROVE  RefCountExact'
<1>1. SecondHolders' = SecondHolders \ {t} /\ t \in SecondHolders
  BY DEF SecondHolders
<1>2. Cardinality(SecondHolders') = Cardinality(SecondHolders) - 1
  BY <1>1, HoldersAreFinite, OneLess
<1>3. Holders' = Holders
  BY DEF Holders, Holds
<1>q. QED
  BY <1>2, <1>3, HoldersAreFinite DEF RefCountExact, Outstanding

\* Every step keeps the count exact: a reference is taken before it is relied on, handed over with an operation, and
\* given up once.
LEMMA RefCountExactStep ==
  ASSUME ThreadTypes, PortTypes, SecondReferences, ReceiversApart, SendersApart, RefCountExact, [Next]_vars
  PROVE  RefCountExact'
<1> USE ThreadAssumption DEF Threads, ThreadTypes, PortTypes, SecondReferences, Holds, Unreferenced, Attempting, Starting, Releasing
<1>1. CASE UNCHANGED vars
  BY <1>1, CountKept DEF vars
<1>2. CASE Connect(Connector)
  <2>1. refCount' = refCount /\ recvIo' = recvIo /\ sendIo' = sendIo
    BY <1>2 DEF Connect
  <2>2. \A u \in Threads : (Holds(u)' <=> Holds(u)) /\ (extra'[u] <=> extra[u])
    BY <1>2 DEF Connect
  <2>q. QED
    BY <2>1, <2>2, CountKept
<1>3. CASE ConnectStep(Connector)
  <2>1. refCount' = refCount /\ recvIo' = recvIo /\ sendIo' = sendIo
    BY <1>3 DEF ConnectStep, CreateSocket, Prepare, ConnectEx, Cleanup, ResetState
  <2>2. \A u \in Threads : (Holds(u)' <=> Holds(u)) /\ (extra'[u] <=> extra[u])
    BY <1>3 DEF ConnectStep, CreateSocket, Prepare, ConnectEx, Cleanup, ResetState
  <2>q. QED
    BY <2>1, <2>2, CountKept
<1>4. ASSUME NEW t \in Threads, SharedStep(t) PROVE RefCountExact'
  <2>1. CASE SocketStep(t)
    <3>1. /\ refCount' = refCount
          /\ recvIo' = "none" <=> recvIo = "none"
          /\ sendIo' = "none" <=> sendIo = "none"
      BY <2>1 DEF SocketStep, CloseSocket, ClearSocket, CancelAll, Cancelled, RecheckCancel, IoStates
    <3>2. \A u \in Threads : (Holds(u)' <=> Holds(u)) /\ (extra'[u] <=> extra[u])
      BY <2>1 DEF SocketStep, CloseSocket, ClearSocket, CancelAll
    <3>q. QED
      BY <3>1, <3>2, CountKept
  <2>2. CASE ReleaseStep(t)
    <3>1. CASE Deref(t) /\ extra[t]
      <4>1. refCount' = refCount - 1 /\ recvIo' = recvIo /\ sendIo' = sendIo
        BY <3>1 DEF Deref
      <4>2. \A u \in Threads : (Holds(u)' <=> Holds(u)) /\ (extra'[u] <=> u # t /\ extra[u])
        BY <3>1 DEF Deref
      <4>q. QED
        BY <3>1, <4>1, <4>2, CountSecondDropped
    <3>2. CASE Deref(t) /\ ~extra[t]
      <4>1. refCount' = refCount - 1 /\ recvIo' = recvIo /\ sendIo' = sendIo
        BY <3>2 DEF Deref
      <4>2. Holds(t) /\ \A u \in Threads : (Holds(u)' <=> u # t /\ Holds(u)) /\ (extra'[u] <=> extra[u])
        BY <3>2 DEF Deref
      <4>q. QED
        BY <4>1, <4>2, CountDropped
    <3>3. CASE TryRelease(t) \/ PostJob(t)
      <4>1. refCount' = refCount /\ recvIo' = recvIo /\ sendIo' = sendIo
        BY <3>3 DEF TryRelease, PostJob
      <4>2. \A u \in Threads : (Holds(u)' <=> Holds(u)) /\ (extra'[u] <=> extra[u])
        BY <3>3 DEF TryRelease, PostJob
      <4>q. QED
        BY <4>1, <4>2, CountKept
    <3>q. QED
      BY <2>2, <3>1, <3>2, <3>3 DEF ReleaseStep
  <2>3. CASE ApiStep(t)
    <3>1. CASE DisconnectFull(t)
      <4>1. refCount' = refCount + 1 /\ recvIo' = recvIo /\ sendIo' = sendIo
        BY <3>1 DEF DisconnectFull
      <4>2. ~extra[t] /\ \A u \in Threads : (Holds(u)' <=> Holds(u)) /\ (extra'[u] <=> u = t \/ extra[u])
        BY <3>1 DEF DisconnectFull
      <4>q. QED
        BY <4>1, <4>2, CountSecond
    <3>2. CASE CheckReleased(t) \/ SetCancel(t) \/ Push(t)
      <4>1. refCount' = refCount /\ recvIo' = recvIo /\ sendIo' = sendIo
        BY <3>2 DEF CheckReleased, SetCancel, Push
      <4>2. \A u \in Threads : (Holds(u)' <=> Holds(u)) /\ (extra'[u] <=> extra[u])
        BY <3>2 DEF CheckReleased, SetCancel, Push
      <4>q. QED
        BY <4>1, <4>2, CountKept
    <3>3. CASE CancelIoEx(t)
      <4>1. /\ refCount' = refCount
            /\ recvIo' = "none" <=> recvIo = "none"
            /\ sendIo' = "none" <=> sendIo = "none"
        BY <3>3 DEF CancelIoEx, CancelAll, Cancelled, RecheckCancel, IoStates
      <4>2. \A u \in Threads : (Holds(u)' <=> Holds(u)) /\ (extra'[u] <=> extra[u])
        BY <3>3 DEF CancelIoEx, CancelAll
      <4>q. QED
        BY <4>1, <4>2, CountKept
    <3>q. QED
      BY <2>3, <3>1, <3>2, <3>3 DEF ApiStep
  <2>4. CASE SendStep(t)
    <3>1. CASE RefSend(t)
      <4>1. refCount' = refCount + 1 /\ recvIo' = recvIo /\ sendIo' = sendIo
        BY <3>1 DEF RefSend
      <4>2. ~extra[t] /\ \A u \in Threads : (Holds(u)' <=> Holds(u)) /\ (extra'[u] <=> u = t \/ extra[u])
        BY <3>1 DEF RefSend
      <4>q. QED
        BY <4>1, <4>2, CountSecond
    <3>2. CASE WSASend(t)
      <4>1. CASE extra' = extra
        <5>1. refCount' = refCount /\ recvIo' = recvIo /\ sendIo' = sendIo
          BY <3>2, <4>1 DEF WSASend, Started
        <5>2. \A u \in Threads : (Holds(u)' <=> Holds(u)) /\ (extra'[u] <=> extra[u])
          BY <3>2, <4>1 DEF WSASend, Started
        <5>q. QED
          BY <5>1, <5>2, CountKept
      <4>2. CASE extra' # extra
        <5>1. refCount' = refCount /\ sendIo = "none" /\ sendIo' # "none" /\ recvIo' = recvIo
          BY <3>2, <4>2 DEF WSASend, Started, SendersApart, SendingPoints, IoStates
        <5>2. extra[t] /\ \A u \in Threads : (Holds(u)' <=> Holds(u)) /\ (extra'[u] <=> u # t /\ extra[u])
          BY <3>2, <4>2 DEF WSASend, Started
        <5>q. QED
          BY <5>1, <5>2, CountSecondDropped
      <4>q. QED
        BY <4>1, <4>2
    <3>3. CASE TakeFlag(t) \/ CheckCancelSend(t) \/ Peek(t) \/ ClearFlag(t)
      <4>1. refCount' = refCount /\ recvIo' = recvIo /\ sendIo' = sendIo
        BY <3>3 DEF TakeFlag, WasSending, CheckCancelSend, Peek, ClearFlag
      <4>2. \A u \in Threads : (Holds(u)' <=> Holds(u)) /\ (extra'[u] <=> extra[u])
        BY <3>3 DEF TakeFlag, WasSending, CheckCancelSend, Peek, ClearFlag
      <4>q. QED
        BY <4>1, <4>2, CountKept
    <3>4. CASE CheckSendPending(t)
      <4>1. /\ refCount' = refCount
            /\ recvIo' = "none" <=> recvIo = "none"
            /\ sendIo' = "none" <=> sendIo = "none"
        BY <3>4 DEF CheckSendPending, Cancelled, RecheckCancel, IoStates
      <4>2. \A u \in Threads : (Holds(u)' <=> Holds(u)) /\ (extra'[u] <=> extra[u])
        BY <3>4 DEF CheckSendPending
      <4>q. QED
        BY <4>1, <4>2, CountKept
    <3>q. QED
      BY <2>4, <3>1, <3>2, <3>3, <3>4 DEF SendStep
  <2>5. CASE RecvStep(t)
    <3>1. CASE RefRecv(t)
      <4>1. refCount' = refCount + 1 /\ recvIo' = recvIo /\ sendIo' = sendIo
        BY <3>1 DEF RefRecv
      <4>2. ~extra[t] /\ \A u \in Threads : (Holds(u)' <=> Holds(u)) /\ (extra'[u] <=> u = t \/ extra[u])
        BY <3>1 DEF RefRecv
      <4>q. QED
        BY <4>1, <4>2, CountSecond
    <3>2. CASE WSARecv(t)
      <4>1. CASE extra' = extra
        <5>1. refCount' = refCount /\ recvIo' = recvIo /\ sendIo' = sendIo
          BY <3>2, <4>1 DEF WSARecv, Started
        <5>2. \A u \in Threads : (Holds(u)' <=> Holds(u)) /\ (extra'[u] <=> extra[u])
          BY <3>2, <4>1 DEF WSARecv, Started
        <5>q. QED
          BY <5>1, <5>2, CountKept
      <4>2. CASE extra' # extra
        <5>1. refCount' = refCount /\ recvIo = "none" /\ recvIo' # "none" /\ sendIo' = sendIo
          BY <3>2, <4>2 DEF WSARecv, Started, ReceiversApart, Receiving, IoStates
        <5>2. extra[t] /\ \A u \in Threads : (Holds(u)' <=> Holds(u)) /\ (extra'[u] <=> u # t /\ extra[u])
          BY <3>2, <4>2 DEF WSARecv, Started
        <5>q. QED
          BY <5>1, <5>2, CountSecondDropped
      <4>q. QED
        BY <4>1, <4>2
    <3>3. CASE CheckRecvPending(t) \/ CheckCancelRecv(t)
      <4>1. /\ refCount' = refCount
            /\ recvIo' = "none" <=> recvIo = "none"
            /\ sendIo' = "none" <=> sendIo = "none"
        BY <3>3 DEF CheckRecvPending, CheckCancelRecv, Cancelled, RecheckCancel, IoStates
      <4>2. \A u \in Threads : (Holds(u)' <=> Holds(u)) /\ (extra'[u] <=> extra[u])
        BY <3>3 DEF CheckRecvPending, CheckCancelRecv
      <4>q. QED
        BY <4>1, <4>2, CountKept
    <3>q. QED
      BY <2>5, <3>1, <3>2, <3>3 DEF RecvStep
  <2>q. QED
    BY <1>4, <2>1, <2>2, <2>3, <2>4, <2>5 DEF SharedStep
<1>5. ASSUME NEW w \in Workers, WorkerStep(w) PROVE RefCountExact'
  <2>1. CASE DequeueStep(w)
    <3>1. CASE DequeueRecv(w) \/ DequeueSend(w)
      <4>1. \/ refCount' = refCount /\ recvIo # "none" /\ recvIo' = "none" /\ sendIo' = sendIo
            \/ refCount' = refCount /\ sendIo # "none" /\ sendIo' = "none" /\ recvIo' = recvIo
        BY <3>1 DEF DequeueRecv, DequeueSend, TakeCompletion
      <4>2. ~Holds(w) /\ \A u \in Threads : (Holds(u)' <=> u = w \/ Holds(u)) /\ (extra'[u] <=> extra[u])
        BY <3>1 DEF DequeueRecv, DequeueSend, TakeCompletion
      <4>q. QED
        BY <4>1, <4>2, CountFirst
    <3>2. CASE DequeueConnect(w) \/ DequeueJob(w)
      <4>1. refCount' = refCount /\ recvIo' = recvIo /\ sendIo' = sendIo
        BY <3>2 DEF DequeueConnect, DequeueJob, TakeCompletion
      <4>2. \A u \in Threads : (Holds(u)' <=> Holds(u)) /\ (extra'[u] <=> extra[u])
        BY <3>2 DEF DequeueConnect, DequeueJob, TakeCompletion
      <4>q. QED
        BY <4>1, <4>2, CountKept
    <3>q. QED
      BY <2>1, <3>1, <3>2 DEF DequeueStep
  <2>2. CASE StartStep(w)
    <3>1. CASE StartRef(w)
      <4>1. refCount' = refCount + 1 /\ recvIo' = recvIo /\ sendIo' = sendIo
        BY <3>1 DEF StartRef
      <4>2. ~Holds(w) /\ \A u \in Threads : (Holds(u)' <=> u = w \/ Holds(u)) /\ (extra'[u] <=> extra[u])
        BY <3>1 DEF StartRef
      <4>q. QED
        BY <4>1, <4>2, CountFirst
    <3>2. CASE StartFields(w) \/ Publish(w) \/ Connected(w)
      <4>1. refCount' = refCount /\ recvIo' = recvIo /\ sendIo' = sendIo
        BY <3>2 DEF StartFields, Publish, Connected
      <4>2. \A u \in Threads : (Holds(u)' <=> Holds(u)) /\ (extra'[u] <=> extra[u])
        BY <3>2 DEF StartFields, Publish, Connected
      <4>q. QED
        BY <4>1, <4>2, CountKept
    <3>q. QED
      BY <2>2, <3>1, <3>2 DEF StartStep
  <2>3. CASE SentStep(w)
    <3>1. refCount' = refCount /\ recvIo' = recvIo /\ sendIo' = sendIo
      BY <2>3 DEF SentStep, PopSent, ClearPending, DropFlag, LoadReadCursor, LoadWriteCursor, CheckMore
    <3>2. \A u \in Threads : (Holds(u)' <=> Holds(u)) /\ (extra'[u] <=> extra[u])
      BY <2>3 DEF SentStep, PopSent, ClearPending, DropFlag, LoadReadCursor, LoadWriteCursor, CheckMore
    <3>q. QED
      BY <3>1, <3>2, CountKept
  <2>4. CASE Received(w) \/ Disconnected(w) \/ Drain(w) \/ SetIdle(w)
    <3>1. refCount' = refCount /\ recvIo' = recvIo /\ sendIo' = sendIo
      BY <2>4 DEF Received, Disconnected, Drain, AfterDrain, SetIdle
    <3>2. \A u \in Threads : (Holds(u)' <=> Holds(u)) /\ (extra'[u] <=> extra[u])
      BY <2>4 DEF Received, Disconnected, Drain, AfterDrain, SetIdle
    <3>q. QED
      BY <3>1, <3>2, CountKept
  <2>q. QED
    BY <1>5, <2>1, <2>2, <2>3, <2>4 DEF WorkerStep
<1>6. ASSUME NEW t \in Callers, NEW o \in Ops, Call(t, o) PROVE RefCountExact'
  <2>1. refCount' = refCount + 1 /\ recvIo' = recvIo /\ sendIo' = sendIo
    BY <1>6 DEF Call
  <2>2. ~Holds(t) /\ \A u \in Threads : (Holds(u)' <=> u = t \/ Holds(u)) /\ (extra'[u] <=> extra[u])
    BY <1>6 DEF Call
  <2>q. QED
    BY <2>1, <2>2, CountFirst
<1>7. CASE NetworkStep
  <2>1. /\ refCount' = refCount
        /\ recvIo' = "none" <=> recvIo = "none"
        /\ sendIo' = "none" <=> sendIo = "none"
    BY <1>7 DEF NetworkStep, CompleteConnect, Complete, PeerReset, Cancelled, RecheckCancel, IoStates
  <2>2. \A u \in Threads : (Holds(u)' <=> Holds(u)) /\ (extra'[u] <=> extra[u])
    BY <1>7 DEF NetworkStep, CompleteConnect, Complete, PeerReset
  <2>q. QED
    BY <2>1, <2>2, CountKept
<1> HIDE DEF ThreadTypes, PortTypes, SecondReferences, Holds, Unreferenced, Attempting, Starting, Releasing
<1>q. QED
  BY <1>1, <1>2, <1>3, <1>4, <1>5, <1>6, <1>7 DEF Next

----------------------------------------------------------------------------
(***************************************************************************)
(* One step: types.                                                        *)
(***************************************************************************)

\* Every step keeps the types of the threads' locals.
LEMMA ThreadTypesStep ==
  ASSUME ThreadTypes, ClientTypes, QueueTypes, [Next]_vars
  PROVE  ThreadTypes'
<1> USE UseAssumption, SizeAssumption DEF Threads, ThreadTypes, ClientTypes, Points, Unreferenced, Using, Attempting, Starting,
      Releasing
<1>1. CASE UNCHANGED vars
  BY <1>1 DEF vars
<1>2. CASE Connect(Connector)
  BY <1>2 DEF Connect
<1>3. CASE ConnectStep(Connector)
  BY <1>3 DEF ConnectStep, CreateSocket, Prepare, ConnectEx, Cleanup, ResetState
<1>4. ASSUME NEW t \in Threads, SharedStep(t) PROVE ThreadTypes'
  <2>1. CASE SocketStep(t)
    BY <2>1 DEF SocketStep, CloseSocket, ClearSocket, CancelAll
  <2>2. CASE ReleaseStep(t)
    <3>1. pc' \in [Threads -> Points]
      BY <2>2 DEF ReleaseStep, Deref, TryRelease, Releasable, PostJob
    <3>2. op' \in [Threads -> {"none", "refused", "send", "disconnect"}]
      BY <2>2 DEF ReleaseStep, Deref, TryRelease, Releasable, PostJob
    <3>3. arg' \in [Threads -> Nat]
      BY <2>2 DEF ReleaseStep, Deref, TryRelease, Releasable, PostJob
    <3>4. extra' \in [Threads -> BOOLEAN]
      BY <2>2 DEF ReleaseStep, Deref, TryRelease, Releasable, PostJob
    <3>5. seen' \in [Threads -> 0..QueueCapacity]
      BY <2>2 DEF ReleaseStep, Deref, TryRelease, Releasable, PostJob
    <3>q. QED
      BY <3>1, <3>2, <3>3, <3>4, <3>5
  <2>3. CASE ApiStep(t)
    <3>1. pc' \in [Threads -> Points]
      BY <2>3 DEF ApiStep, CheckReleased, PassesReleased, SetCancel, CancelIoEx, CancelAll, Push, DisconnectFull
    <3>2. op' \in [Threads -> {"none", "refused", "send", "disconnect"}]
      BY <2>3 DEF ApiStep, CheckReleased, PassesReleased, SetCancel, CancelIoEx, CancelAll, Push, DisconnectFull
    <3>3. arg' \in [Threads -> Nat]
      BY <2>3 DEF ApiStep, CheckReleased, PassesReleased, SetCancel, CancelIoEx, CancelAll, Push, DisconnectFull
    <3>4. extra' \in [Threads -> BOOLEAN]
      BY <2>3 DEF ApiStep, CheckReleased, PassesReleased, SetCancel, CancelIoEx, CancelAll, Push, DisconnectFull
    <3>5. seen' \in [Threads -> 0..QueueCapacity]
      BY <2>3 DEF ApiStep, CheckReleased, PassesReleased, SetCancel, CancelIoEx, CancelAll, Push, DisconnectFull
    <3>q. QED
      BY <3>1, <3>2, <3>3, <3>4, <3>5
  <2>4. CASE SendStep(t)
    <3>1. pc' \in [Threads -> Points]
      BY <2>4 DEF SendStep, TakeFlag, WasSending, CheckCancelSend, Peek, ClearFlag, RefSend, WSASend, Started, CheckSendPending
    <3>2. op' \in [Threads -> {"none", "refused", "send", "disconnect"}]
      BY <2>4 DEF SendStep, TakeFlag, WasSending, CheckCancelSend, Peek, ClearFlag, RefSend, WSASend, Started, CheckSendPending
    <3>3. arg' \in [Threads -> Nat]
      BY <2>4 DEF SendStep, TakeFlag, WasSending, CheckCancelSend, Peek, ClearFlag, RefSend, WSASend, Started, CheckSendPending
    <3>4. extra' \in [Threads -> BOOLEAN]
      BY <2>4 DEF SendStep, TakeFlag, WasSending, CheckCancelSend, Peek, ClearFlag, RefSend, WSASend, Started, CheckSendPending
    <3>5. seen' \in [Threads -> 0..QueueCapacity]
      BY <2>4 DEF SendStep, TakeFlag, WasSending, CheckCancelSend, Peek, ClearFlag, RefSend, WSASend, Started, CheckSendPending
    <3>q. QED
      BY <3>1, <3>2, <3>3, <3>4, <3>5
  <2>5. CASE RecvStep(t)
    BY ZenonT(60), <2>5 DEF RecvStep, RefRecv, WSARecv, Started, CheckRecvPending, CheckCancelRecv
  <2>q. QED
    BY <1>4, <2>1, <2>2, <2>3, <2>4, <2>5 DEF SharedStep
<1>5. ASSUME NEW w \in Workers, WorkerStep(w) PROVE ThreadTypes'
  <2>1. CASE DequeueStep(w)
    BY <2>1 DEF DequeueStep, DequeueConnect, DequeueRecv, DequeueSend, DequeueJob, TakeCompletion
  <2>2. CASE StartStep(w)
    BY <2>2 DEF StartStep, StartFields, Publish, StartRef, Connected
  <2>3. CASE SentStep(w)
    <3>1. CASE LoadReadCursor(w)
      BY <3>1 DEF LoadReadCursor, QueueTypes
    <3>2. CASE LoadWriteCursor(w)
      <4>1. pc' \in [Threads -> Points]
        BY <3>2 DEF LoadWriteCursor
      <4>2. seen' = [seen EXCEPT ![w] = 0] /\ UNCHANGED <<op, arg, extra>>
        BY <3>2 DEF LoadWriteCursor
      <4>q. QED
        BY <4>1, <4>2
    <3>3. CASE PopSent(w) \/ ClearPending(w) \/ DropFlag(w) \/ CheckMore(w)
      <4>1. pc' \in [Threads -> Points]
        BY ZenonT(60), <3>3 DEF PopSent, ClearPending, DropFlag, CheckMore
      <4>2. UNCHANGED <<op, arg, extra, seen>>
        BY <3>3 DEF PopSent, ClearPending, DropFlag, CheckMore
      <4>q. QED
        BY <4>1, <4>2
    <3>q. QED
      BY <2>3, <3>1, <3>2, <3>3 DEF SentStep
  <2>4. CASE Received(w) \/ Disconnected(w) \/ Drain(w) \/ SetIdle(w)
    <3>1. CASE SetIdle(w)
      BY <3>1 DEF SetIdle
    <3>2. CASE Received(w) \/ Disconnected(w) \/ Drain(w)
      <4>1. pc' \in [Threads -> Points]
        BY SMTT(40), <3>2 DEF Received, Disconnected, Drain, AfterDrain
      <4>2. UNCHANGED <<op, arg, extra, seen>>
        BY <3>2 DEF Received, Disconnected, Drain
      <4>q. QED
        BY <4>1, <4>2
    <3>q. QED
      BY <2>4, <3>1, <3>2
  <2>q. QED
    BY <1>5, <2>1, <2>2, <2>3, <2>4 DEF WorkerStep
<1>6. ASSUME NEW t \in Callers, NEW o \in Ops, Call(t, o) PROVE ThreadTypes'
  BY <1>6 DEF Call
<1>7. CASE NetworkStep
  BY <1>7 DEF NetworkStep, CompleteConnect, Complete, PeerReset
<1> HIDE DEF ThreadTypes, ClientTypes, Points, Unreferenced, Using, Attempting, Starting, Releasing
<1>q. QED
  BY <1>1, <1>2, <1>3, <1>4, <1>5, <1>6, <1>7 DEF Next

\* The fields of the client besides m_refCount.
ClientRest ==
  /\ released \in BOOLEAN
  /\ state \in {"idle", "connecting", "connected"}
  /\ cancelIo \in BOOLEAN /\ isSending \in BOOLEAN
  /\ sock \in {"none", "fresh", "open", "reset", "closed"}
  /\ conn \in Nat /\ connects \in Nat /\ calls \in Nat

\* Every step keeps the types of the client's fields but the count.
LEMMA ClientRestStep ==
  ASSUME ClientRest, [Next]_vars
  PROVE  ClientRest'
<1> USE DEF ClientRest
<1>1. CASE UNCHANGED vars
  BY <1>1 DEF vars
<1>2. CASE Connect(Connector)
  BY <1>2 DEF Connect
<1>3. CASE ConnectStep(Connector)
  BY <1>3 DEF ConnectStep, CreateSocket, Prepare, ConnectEx, Cleanup, ResetState
<1>4. ASSUME NEW t \in Threads, SharedStep(t) PROVE ClientRest'
  <2>1. CASE SocketStep(t)
    BY <2>1 DEF SocketStep, CloseSocket, ClearSocket, CancelAll
  <2>2. CASE ReleaseStep(t)
    BY ZenonT(60), <2>2 DEF ReleaseStep, Deref, TryRelease, Releasable, PostJob
  <2>3. CASE ApiStep(t)
    BY ZenonT(60), <2>3 DEF ApiStep, CheckReleased, PassesReleased, SetCancel, CancelIoEx, CancelAll, Push, DisconnectFull
  <2>4. CASE SendStep(t)
    BY ZenonT(60), <2>4 DEF SendStep, TakeFlag, WasSending, CheckCancelSend, Peek, ClearFlag, RefSend, WSASend, Started, CheckSendPending
  <2>5. CASE RecvStep(t)
    BY <2>5 DEF RecvStep, RefRecv, WSARecv, Started, CheckRecvPending, CheckCancelRecv
  <2>q. QED
    BY <1>4, <2>1, <2>2, <2>3, <2>4, <2>5 DEF SharedStep
<1>5. ASSUME NEW w \in Workers, WorkerStep(w) PROVE ClientRest'
  <2>1. CASE DequeueStep(w)
    BY <2>1 DEF DequeueStep, DequeueConnect, DequeueRecv, DequeueSend, DequeueJob, TakeCompletion
  <2>2. CASE StartStep(w)
    <3>1. CASE Publish(w)
      <4>1. conn' = conn + 1 /\ released' = FALSE /\ UNCHANGED <<state, cancelIo, isSending, sock, connects, calls>>
        BY <3>1 DEF Publish
      <4>2. conn' \in Nat
        BY <4>1
      <4>q. QED
        BY <4>1, <4>2, Zenon
    <3>2. CASE ~Publish(w)
      BY <2>2, <3>2 DEF StartStep, StartFields, StartRef, Connected
    <3>q. QED
      BY <3>1, <3>2
  <2>3. CASE SentStep(w)
    BY ZenonT(60), <2>3 DEF SentStep, PopSent, ClearPending, DropFlag, LoadReadCursor, LoadWriteCursor, CheckMore
  <2>4. CASE Received(w) \/ Disconnected(w) \/ Drain(w) \/ SetIdle(w)
    BY <2>4 DEF Received, Disconnected, Drain, AfterDrain, SetIdle
  <2>q. QED
    BY <1>5, <2>1, <2>2, <2>3, <2>4 DEF WorkerStep
<1>6. ASSUME NEW t \in Callers, NEW o \in Ops, Call(t, o) PROVE ClientRest'
  BY <1>6 DEF Call
<1>7. CASE NetworkStep
  BY <1>7 DEF NetworkStep, CompleteConnect, Complete, PeerReset
<1> HIDE DEF ClientRest
<1>q. QED
  BY <1>1, <1>2, <1>3, <1>4, <1>5, <1>6, <1>7 DEF Next

\* What breaks the client is not forgotten.
LEMMA SpoiledStays ==
  ASSUME spoiled \in BOOLEAN, [Next]_vars
  PROVE  spoiled' \in BOOLEAN /\ (spoiled => spoiled')
<1> DEFINE Kept == spoiled' \in BOOLEAN /\ (spoiled => spoiled')
<1> SUFFICES Kept
  OBVIOUS
<1>1. CASE UNCHANGED vars
  BY <1>1 DEF vars
<1>2. CASE Connect(Connector)
  <2>1. UNCHANGED spoiled \/ spoiled' = (spoiled \/ state = "connecting")
    BY <1>2 DEF Connect
  <2>q. QED
    BY <2>1
<1>3. CASE ConnectStep(Connector)
  BY <1>3 DEF ConnectStep, CreateSocket, Prepare, ConnectEx, Cleanup, ResetState
<1>4. ASSUME NEW t \in Threads, SharedStep(t) PROVE Kept
  <2>1. CASE SocketStep(t)
    BY <2>1 DEF SocketStep, CloseSocket, ClearSocket
  <2>2. CASE ReleaseStep(t)
    <3>1. CASE Deref(t) \/ PostJob(t)
      BY <3>1 DEF Deref, PostJob
    <3>2. CASE TryRelease(t)
      BY <3>2 DEF TryRelease, StartUncounted
    <3>q. QED
      BY <2>2, <3>1, <3>2 DEF ReleaseStep
  <2>3. CASE ApiStep(t)
    BY <2>3 DEF ApiStep, CheckReleased, SetCancel, CancelIoEx, Push, DisconnectFull
  <2>4. CASE SendStep(t)
    BY <2>4 DEF SendStep, TakeFlag, CheckCancelSend, Peek, ClearFlag, RefSend, WSASend, CheckSendPending
  <2>5. CASE RecvStep(t)
    BY <2>5 DEF RecvStep, RefRecv, WSARecv, CheckRecvPending, CheckCancelRecv
  <2>q. QED
    BY <1>4, <2>1, <2>2, <2>3, <2>4, <2>5 DEF SharedStep
<1>5. ASSUME NEW w \in Workers, WorkerStep(w) PROVE Kept
  <2>1. CASE DequeueStep(w)
    BY <2>1 DEF DequeueStep, DequeueConnect, DequeueRecv, DequeueSend, DequeueJob, TakeCompletion
  <2>2. CASE StartStep(w)
    BY <2>2 DEF StartStep, StartFields, Publish, StartRef, Connected
  <2>3. CASE SentStep(w)
    BY <2>3 DEF SentStep, PopSent, ClearPending, DropFlag, LoadReadCursor, LoadWriteCursor, CheckMore
  <2>4. CASE Received(w) \/ Disconnected(w) \/ Drain(w) \/ SetIdle(w)
    BY <2>4 DEF Received, Disconnected, Drain, SetIdle
  <2>q. QED
    BY <1>5, <2>1, <2>2, <2>3, <2>4 DEF WorkerStep
<1>6. ASSUME NEW t \in Callers, NEW o \in Ops, Call(t, o) PROVE Kept
  BY <1>6 DEF Call
<1>7. CASE NetworkStep
  BY <1>7 DEF NetworkStep, CompleteConnect, Complete, PeerReset
<1> HIDE DEF Kept
<1>q. QED
  BY <1>1, <1>2, <1>3, <1>4, <1>5, <1>6, <1>7 DEF Next

\* Every step keeps the types of the client's fields; the count stays a natural number because it is a number of
\* references.
LEMMA ClientTypesStep ==
  ASSUME ClientTypes, RefCountExact', [Next]_vars
  PROVE  ClientTypes'
<1>1. ClientRest'
  BY ClientRestStep DEF ClientTypes, ClientRest
<1>2. Cardinality(Holders)' \in Nat /\ Cardinality(SecondHolders)' \in Nat
  BY ThreadAssumption, FS_Subset, FS_CardinalityType DEF Holders, SecondHolders
<1>3. refCount' \in Nat
  BY <1>2 DEF RefCountExact, Outstanding
<1>4. spoiled' \in BOOLEAN
  BY SpoiledStays DEF ClientTypes
<1>q. QED
  BY <1>1, <1>3, <1>4 DEF ClientTypes, ClientRest

\* Every step keeps the types of the completion port; a job is dequeued when there is one.
LEMMA PortTypesStep ==
  ASSUME PortTypes, [Next]_vars
  PROVE  PortTypes'
<1> USE DEF Threads, PortTypes, Cancelled, RecheckCancel, IoStates
<1>1. CASE UNCHANGED vars
  BY <1>1 DEF vars
<1>2. CASE Connect(Connector)
  BY <1>2 DEF Connect
<1>3. CASE ConnectStep(Connector)
  BY <1>3 DEF ConnectStep, CreateSocket, Prepare, ConnectEx, Cleanup, ResetState
<1>4. ASSUME NEW t \in Threads, SharedStep(t) PROVE PortTypes'
  <2>1. CASE SocketStep(t)
    BY <2>1 DEF SocketStep, CloseSocket, ClearSocket, CancelAll
  <2>2. CASE ReleaseStep(t)
    BY <2>2 DEF ReleaseStep, Deref, TryRelease, Releasable, PostJob
  <2>3. CASE ApiStep(t)
    BY <2>3 DEF ApiStep, CheckReleased, PassesReleased, SetCancel, CancelIoEx, CancelAll, Push, DisconnectFull
  <2>4. CASE SendStep(t)
    BY <2>4 DEF SendStep, TakeFlag, WasSending, CheckCancelSend, Peek, ClearFlag, RefSend, WSASend, Started, CheckSendPending
  <2>5. CASE RecvStep(t)
    BY <2>5 DEF RecvStep, RefRecv, WSARecv, Started, CheckRecvPending, CheckCancelRecv
  <2>q. QED
    BY <1>4, <2>1, <2>2, <2>3, <2>4, <2>5 DEF SharedStep
<1>5. ASSUME NEW w \in Workers, WorkerStep(w) PROVE PortTypes'
  <2>1. CASE DequeueStep(w)
    BY <2>1 DEF DequeueStep, DequeueConnect, DequeueRecv, DequeueSend, DequeueJob, TakeCompletion
  <2>2. CASE StartStep(w)
    BY <2>2 DEF StartStep, StartFields, Publish, StartRef, Connected
  <2>3. CASE SentStep(w)
    BY <2>3 DEF SentStep, PopSent, ClearPending, DropFlag, LoadReadCursor, LoadWriteCursor, CheckMore
  <2>4. CASE Received(w) \/ Disconnected(w) \/ Drain(w) \/ SetIdle(w)
    BY <2>4 DEF Received, Disconnected, Drain, AfterDrain, SetIdle
  <2>q. QED
    BY <1>5, <2>1, <2>2, <2>3, <2>4 DEF WorkerStep
<1>6. ASSUME NEW t \in Callers, NEW o \in Ops, Call(t, o) PROVE PortTypes'
  BY <1>6 DEF Call
<1>7. CASE NetworkStep
  BY <1>7 DEF NetworkStep, CompleteConnect, Complete, PeerReset
<1> HIDE DEF PortTypes, Cancelled, RecheckCancel, IoStates
<1>q. QED
  BY <1>1, <1>2, <1>3, <1>4, <1>5, <1>6, <1>7 DEF Next

\* Every step keeps the types of the send queue: a push needs room, and cursors wrap around at the end of the ring.
LEMMA QueueTypesStep ==
  ASSUME ThreadTypes, QueueTypes, BatchQueued, [Next]_vars
  PROVE  QueueTypes'
<1> USE SizeAssumption DEF QueueTypes
<1>1. CASE UNCHANGED vars
  BY <1>1 DEF vars
<1>2. CASE Connect(Connector)
  <2>1. UNCHANGED <<pending, packets>>
    BY <1>2 DEF Connect
  <2>q. QED
    BY <2>1
<1>3. CASE ConnectStep(Connector)
  <2>1. UNCHANGED <<pending, packets>>
    BY <1>3 DEF ConnectStep, CreateSocket, Prepare, ConnectEx, Cleanup, ResetState
  <2>q. QED
    BY <2>1
<1>4. ASSUME NEW t \in Threads, SharedStep(t) PROVE QueueTypes'
  <2>1. CASE SocketStep(t)
    <3>1. UNCHANGED <<pending, packets>>
      BY <2>1 DEF SocketStep, CloseSocket, ClearSocket, CancelAll
    <3>q. QED
      BY <3>1
  <2>2. CASE ReleaseStep(t)
    <3>1. UNCHANGED <<pending, packets>>
      BY <2>2 DEF ReleaseStep, Deref, TryRelease, Releasable, PostJob
    <3>q. QED
      BY <3>1
  <2>3. CASE ApiStep(t)
    <3>1. CASE Push(t)
      <4>1. queue' \in {queue, Append(queue, arg[t])} /\ pending' = pending /\ readCursor' = readCursor
        BY <3>1 DEF Push
      <4>2. queue' # queue => Len(queue) < QueueCapacity
        BY <3>1 DEF Push
      <4>3. arg[t] \in Nat
        BY DEF ThreadTypes
      <4>q. QED
        BY SMTT(40), <4>1, <4>2, <4>3
    <3>2. CASE ~Push(t)
      <4>1. UNCHANGED <<pending, packets>>
        BY <2>3, <3>2 DEF ApiStep, CheckReleased, SetCancel, CancelIoEx, DisconnectFull
      <4>q. QED
        BY <4>1
    <3>q. QED
      BY <3>1, <3>2
  <2>4. CASE SendStep(t)
    <3>1. CASE Peek(t)
      BY <3>1 DEF Peek, BatchSize
    <3>2. CASE ~Peek(t)
      <4>1. UNCHANGED <<pending, packets>>
        BY <2>4, <3>2 DEF SendStep, TakeFlag, CheckCancelSend, ClearFlag, RefSend, WSASend, CheckSendPending
      <4>q. QED
        BY <4>1
    <3>q. QED
      BY <3>1, <3>2
  <2>5. CASE RecvStep(t)
    <3>1. UNCHANGED <<pending, packets>>
      BY <2>5 DEF RecvStep, RefRecv, WSARecv, Started, CheckRecvPending, CheckCancelRecv
    <3>q. QED
      BY <3>1
  <2>q. QED
    BY <1>4, <2>1, <2>2, <2>3, <2>4, <2>5 DEF SharedStep
<1>5. ASSUME NEW w \in Workers, WorkerStep(w) PROVE QueueTypes'
  <2>1. CASE DequeueStep(w)
    <3>1. UNCHANGED <<pending, packets>>
      BY <2>1 DEF DequeueStep, DequeueConnect, DequeueRecv, DequeueSend, DequeueJob, TakeCompletion
    <3>q. QED
      BY <3>1
  <2>2. CASE StartStep(w)
    <3>1. UNCHANGED <<pending, packets>>
      BY <2>2 DEF StartStep, StartFields, Publish, StartRef, Connected
    <3>q. QED
      BY <3>1
  <2>3. CASE SentStep(w)
    <3>1. CASE PopSent(w)
      <4>1. pending \in 1..Len(queue)
        BY <3>1 DEF PopSent, BatchQueued, Batching, Threads
      <4>2. Advance(readCursor, pending, QueueCapacity + 1) \in 0..QueueCapacity
        BY <4>1 DEF Advance
      <4>3. queue' \in Seq(Nat) /\ Len(queue') = Len(queue) - pending
        BY SMTT(40), <3>1, <4>1 DEF PopSent
      <4>q. QED
        BY SMTT(40), <3>1, <4>1, <4>2, <4>3 DEF PopSent
    <3>2. CASE ClearPending(w)
      BY <3>2 DEF ClearPending
    <3>3. CASE DropFlag(w) \/ LoadReadCursor(w) \/ LoadWriteCursor(w) \/ CheckMore(w)
      <4>1. UNCHANGED <<pending, packets>>
        BY <3>3 DEF DropFlag, LoadReadCursor, LoadWriteCursor, CheckMore
      <4>q. QED
        BY <4>1
    <3>q. QED
      BY <2>3, <3>1, <3>2, <3>3 DEF SentStep
  <2>4. CASE Received(w) \/ Disconnected(w) \/ Drain(w) \/ SetIdle(w)
    <3>1. CASE Drain(w)
      <4>1. WriteCursor \in 0..QueueCapacity
        BY DEF WriteCursor, Advance
      <4>q. QED
        BY <3>1, <4>1 DEF Drain
    <3>2. CASE Received(w) \/ Disconnected(w) \/ SetIdle(w)
      <4>1. UNCHANGED <<pending, packets>>
        BY <3>2 DEF Received, Disconnected, SetIdle
      <4>q. QED
        BY <4>1
    <3>q. QED
      BY <2>4, <3>1, <3>2
  <2>q. QED
    BY <1>5, <2>1, <2>2, <2>3, <2>4 DEF WorkerStep
<1>6. ASSUME NEW t \in Callers, NEW o \in Ops, Call(t, o) PROVE QueueTypes'
  <2>1. UNCHANGED <<pending, packets>>
    BY <1>6 DEF Call
  <2>q. QED
    BY <2>1
<1>7. CASE NetworkStep
  <2>1. UNCHANGED <<pending, packets>>
    BY <1>7 DEF NetworkStep, CompleteConnect, Complete, PeerReset
  <2>q. QED
    BY <2>1
<1> HIDE DEF QueueTypes
<1>q. QED
  BY <1>1, <1>2, <1>3, <1>4, <1>5, <1>6, <1>7 DEF Next
====
