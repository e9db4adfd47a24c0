------------------------------ MODULE TCPClient ------------------------------
(***************************************************************************)
(* One winppy::TCPClient and the worker threads of its TCPClientEngine.    *)
(* The client is connected, released and connected again; like a session   *)
(* of TCPServer it is kept alive by the pair (m_refCount, m_released), but *)
(* it is started by the completion of a ConnectEx instead of by an accept  *)
(* thread, its API takes no id, and it restores less between connections.  *)
(* Clients of one engine share nothing but its port and its workers, which *)
(* serve one completion at a time, so one client stands for each of them.  *)
(*                                                                         *)
(* One step is one access to shared memory, one region under the send      *)
(* queue's lock, or one system call, in program order, as in TCPServer.    *)
(*                                                                         *)
(* Two constants say how the application uses the client, of which the     *)
(* interface restricts neither.  Overlap: Connect, Send and Disconnect are *)
(* called whenever the application likes; without it, it calls Connect     *)
(* only when its other calls have returned, and none between Connect and   *)
(* OnConnect.  ConnectsWhile: the states in which Connect is called        *)
(* besides Idle.                                                           *)
(*                                                                         *)
(* The client does not survive two of its own steps.  `spoiled' records    *)
(* them, and the safety properties say what holds until one of them        *)
(* happens; nothing is claimed of what follows.                            *)
(***************************************************************************)
EXTENDS RingCursor, FiniteSets, Sequences

CONSTANTS
  Connector,      \* the application thread that calls Connect
  Workers,        \* the threads that run WorkerThreadEntry
  Callers,        \* the application threads that call Send and Disconnect
  Ops,            \* the API calls they make: a subset of {"send", "disconnect"}
  QueueCapacity,  \* SendQueue::Capacity(), the ring's size minus one
  MaxBatch,       \* WSABUF_LEN_MAX
  Faults,         \* the calls that may fail: a subset of {"socket", "prepare", "connect", "wsa", "post"}
  Overlap,        \* see above
  ConnectsWhile,  \* see above: a subset of {"connecting", "connected"}
  MaxConnects,    \* bound of the model: the calls of Connect
  MaxCalls        \* bound of the model: the other API calls

Threads == {Connector} \cup Workers \cup Callers

\* The states of an overlapped operation other than "pending, started by thread t".
IoStates == {"none", "ok", "eof", "fail"}

\* What may own the client, its receiving or its sending, besides a thread.
Tokens == {"idle", "attempt", "live", "job", "recvIo", "sendIo"}

ASSUME ThreadAssumption ==
  /\ Connector \notin Workers \cup Callers
  /\ Workers \cap Callers = {}
  /\ Threads \cap (IoStates \cup Tokens) = {}
  /\ IsFiniteSet(Threads)

ASSUME SizeAssumption ==
  /\ QueueCapacity \in Nat \ {0}
  /\ MaxBatch \in Nat \ {0}
  /\ MaxConnects \in Nat
  /\ MaxCalls \in Nat

ASSUME UseAssumption ==
  /\ Ops \subseteq {"send", "disconnect"}
  /\ Overlap \in BOOLEAN
  /\ ConnectsWhile \subseteq {"connecting", "connected"}

VARIABLES
  refCount,     \* m_flag.m_refCount
  released,     \* m_flag.m_released # 0
  state,        \* m_state
  cancelIo,     \* m_cancelIo # 0
  isSending,    \* m_isSending # 0
  pending,      \* m_numOfPacketsPending
  queue,        \* m_sendQueue: for each packet, the connection it was sent on
  readCursor,   \* m_sendQueue.m_pReadCursor - m_pBufferBegin
  sock,         \* m_sock: INVALID_SOCKET ("none"), not connected ("fresh"), "open", "reset" by the
                \* peer, or a handle that has been closed ("closed")
  connIo,       \* the ConnectEx: none, pending (the thread that posted it), or its completion
  recvIo,       \* the WSARecv, likewise
  sendIo,       \* the WSASend, likewise
  jobs,         \* release jobs posted and not yet dequeued
  conn,         \* history: the connections established so far; also the number of the last one
  spoiled,      \* history: the client has been released between the clearing of m_released and the
                \* reference of its start, or a Connect was refused during another attempt
  connects,     \* calls of Connect made
  calls,        \* other API calls made
  pc,           \* per thread: the next access
  op,           \* per thread: the API call being executed
  arg,          \* per thread: the connection a call found alive
  extra,        \* per thread: it holds a second reference (a nested call's, or an operation's)
  seen          \* per thread: the read cursor loaded by the unlocked SendQueue::Size

flag    == <<refCount, released>>
sending == <<isSending, pending>>
packets == <<queue, readCursor>>
port    == <<connIo, recvIo, sendIo, jobs>>
history == <<conn, spoiled>>
app     == <<connects, calls>>
local   == <<op, arg, extra, seen>>
vars    == <<flag, state, cancelIo, sending, packets, sock, port, history, app, pc, local>>

------------------------------------------------------------------------------
(***************************************************************************)
(* Control flow shared by all threads.                                     *)
(***************************************************************************)

Goto(t, label) == pc' = [pc EXCEPT ![t] = label]

\* A step that reads shared state and only decides where thread t goes.
Branch(t, from, to) ==
  /\ pc[t] = from
  /\ Goto(t, to)
  /\ UNCHANGED <<flag, state, cancelIo, sending, packets, sock, port, history, app, local>>

Return(t) ==
  /\ Goto(t, "idle")
  /\ op' = [op EXCEPT ![t] = "none"]
  /\ arg' = [arg EXCEPT ![t] = 0]
  /\ UNCHANGED <<extra, seen>>

\* Mutant: the interlocked increment is missing.
ForgetRef == UNCHANGED flag

\* InterlockedIncrement16(&m_flag.m_refCount).
AddRef == refCount' = refCount + 1 /\ UNCHANGED released

\* The reference of the operation that PostRecv posts.
AddRecvRef == AddRef

\* CancelIoEx, or CancelIo when only `who` is the calling thread; closesocket does the same to all.
Cancelled(io, who) == IF io \in who THEN "fail" ELSE io

CancelAll ==
  /\ connIo' = Cancelled(connIo, Threads)
  /\ recvIo' = Cancelled(recvIo, Threads)
  /\ sendIo' = Cancelled(sendIo, Threads)

\* InterlockedDecrement16.  Giving up the second reference never reaches zero (the outer one is
\* still counted), so the TryReleaseClient behind that decrement is not reached.
Deref(t) ==
  /\ pc[t] = "deref"
  /\ refCount' = refCount - 1
  /\ \/ /\ extra[t]
        /\ extra' = [extra EXCEPT ![t] = FALSE]
        /\ UNCHANGED <<pc, op, arg, seen>>
     \/ /\ ~extra[t]
        /\ IF refCount = 1 THEN Goto(t, "tryRelease") /\ UNCHANGED local ELSE Return(t)
  /\ UNCHANGED <<released, state, cancelIo, sending, packets, sock, port, history, app>>

\* Mutant: the comparand leaves the reference count out.
ReleasableAnyCount == ~released

\* Mutant: the comparand leaves the released flag out.
ReleasableTwice == refCount = 0

\* The comparand of InterlockedCompareExchange(&m_releasedAndRefCount, 0x00010000, 0).
Releasable == refCount = 0 /\ ~released

\* A connection has been published, and the worker has not counted itself yet.
StartUncounted == \E w \in Workers : pc[w] = "startRef"

TryRelease(t) ==
  /\ pc[t] = "tryRelease"
  /\ IF Releasable
       THEN /\ released' = TRUE
            /\ spoiled' = (spoiled \/ StartUncounted)
            /\ Goto(t, "postJob")
            /\ UNCHANGED local
       ELSE Return(t) /\ UNCHANGED <<released, spoiled>>
  /\ UNCHANGED <<refCount, state, cancelIo, sending, packets, sock, port, conn, app>>

\* PostClientReleaseJob.  A failed post is logged and nothing else.
PostJob(t) ==
  /\ pc[t] = "postJob"
  /\ \/ jobs' = jobs + 1
     \/ "post" \in Faults /\ UNCHANGED jobs
  /\ Return(t)
  /\ UNCHANGED <<flag, state, cancelIo, sending, packets, sock, connIo, recvIo, sendIo, history, app>>

------------------------------------------------------------------------------
(***************************************************************************)
(* Connect.                                                                *)
(***************************************************************************)

\* From the exchange that wins the Idle state to the worker's first reference.
Establishing ==
  \/ state = "connecting"
  \/ \E w \in Workers : pc[w] \in {"publish", "startRef"}

\* No call of Send or Disconnect is in progress.
CallsReturned == \A t \in Callers : pc[t] = "idle"

\* The exchange of m_state.  A call that loses it goes straight to the cleanup.
Connect(t) ==
  /\ pc[t] = "idle"
  /\ connects < MaxConnects
  /\ connects' = connects + 1
  /\ \/ /\ state = "idle"
        /\ Overlap \/ CallsReturned
        /\ state' = "connecting"
        /\ Goto(t, "socket")
        /\ UNCHANGED <<op, spoiled>>
     \/ /\ state \in ConnectsWhile
        /\ Goto(t, "cleanup")
        /\ op' = [op EXCEPT ![t] = "refused"]
        /\ spoiled' = (spoiled \/ state = "connecting")
        /\ UNCHANGED state
  /\ UNCHANGED <<flag, cancelIo, sending, packets, sock, port, conn, calls, arg, extra, seen>>

\* No address, or no socket; otherwise m_sock is overwritten.
CreateSocket(t) ==
  /\ pc[t] = "socket"
  /\ \/ sock' = "fresh" /\ Goto(t, "prepare")
     \/ "socket" \in Faults /\ Goto(t, "cleanup") /\ UNCHANGED sock
  /\ UNCHANGED <<flag, state, cancelIo, sending, packets, port, history, app, local>>

\* AssociateDeviceWithCompletionPort, bind and InetPton.
Prepare(t) ==
  \/ Branch(t, "prepare", "connectEx")
  \/ "prepare" \in Faults /\ Branch(t, "prepare", "cleanup")

\* Completed at once or pending, the operation reports to the port.  One attempt at a time: the
\* completion of an attempt whose socket a refused call has closed is dequeued first.
ConnectEx(t) ==
  /\ pc[t] = "connectEx"
  /\ \/ /\ connIo = "none"
        /\ \/ connIo' = t /\ UNCHANGED sock
           \/ connIo' = "ok" /\ sock' = "open"
        /\ Return(t)
     \/ /\ "connect" \in Faults
        /\ Goto(t, "cleanup")
        /\ UNCHANGED <<connIo, sock, local>>
  /\ UNCHANGED <<flag, state, cancelIo, sending, packets, recvIo, sendIo, jobs, history, app>>

\* `if (m_sock != INVALID_SOCKET)`.
Cleanup(t) == Branch(t, "cleanup", IF sock = "none" THEN "resetState" ELSE "closeSocket")

\* closesocket, by a Connect that failed and by a release job.
CloseSocket(t) ==
  /\ pc[t] = "closeSocket"
  /\ sock' = IF sock = "none" THEN "none" ELSE "closed"
  /\ CancelAll
  /\ Goto(t, "clearSocket")
  /\ UNCHANGED <<flag, state, cancelIo, sending, packets, jobs, history, app, local>>

\* `m_sock = INVALID_SOCKET`.
ClearSocket(t) ==
  /\ pc[t] = "clearSocket"
  /\ sock' = "none"
  /\ Goto(t, IF t \in Workers THEN "setIdle" ELSE "resetState")
  /\ UNCHANGED <<flag, state, cancelIo, sending, packets, port, history, app, local>>

\* The exchange that returns a failed attempt to Idle.
ResetState(t) ==
  /\ pc[t] = "resetState"
  /\ state' = IF state = "connecting" THEN "idle" ELSE state
  /\ Return(t)
  /\ UNCHANGED <<flag, cancelIo, sending, packets, sock, port, history, app>>

------------------------------------------------------------------------------
(***************************************************************************)
(* Send and Disconnect: take a reference, check released, act.             *)
(***************************************************************************)

Call(t, o) ==
  /\ pc[t] = "idle"
  /\ calls < MaxCalls
  /\ Overlap \/ ~Establishing
  /\ calls' = calls + 1
  /\ AddRef
  /\ op' = [op EXCEPT ![t] = o]
  /\ Goto(t, "checkReleased")
  /\ UNCHANGED <<state, cancelIo, sending, packets, sock, port, history, connects, arg, extra, seen>>

\* Mutant: the call goes on whatever the flag says.
PassReleased == TRUE

\* `if (m_flag.m_released) break;`
PassesReleased == ~released

CheckReleased(t) ==
  /\ pc[t] = "checkReleased"
  /\ IF PassesReleased
       THEN /\ arg' = [arg EXCEPT ![t] = conn]
            /\ Goto(t, IF op[t] = "send" THEN "push" ELSE "setCancel")
       ELSE Goto(t, "deref") /\ UNCHANGED arg
  /\ UNCHANGED <<flag, state, cancelIo, sending, packets, sock, port, history, app, op, extra, seen>>

\* Disconnect, and the engine's DirectDisconnect.
SetCancel(t) ==
  /\ pc[t] = "setCancel"
  /\ cancelIo' = TRUE
  /\ Goto(t, "cancelIoEx")
  /\ UNCHANGED <<flag, state, sending, packets, sock, port, history, app, local>>

\* DirectDisconnect tries once; Disconnect repeats the call until it succeeds or finds nothing to
\* cancel, so with an invalid handle it never leaves the loop.
CancelIoEx(t) ==
  /\ pc[t] = "cancelIoEx"
  /\ op[t] = "disconnect" => sock \in {"fresh", "open", "reset"}
  /\ CancelAll
  /\ Goto(t, "deref")
  /\ UNCHANGED <<flag, state, cancelIo, sending, packets, sock, jobs, history, app, local>>

\* Send pushes under the queue's lock; a full queue drops the packet and disconnects.
Push(t) ==
  /\ pc[t] = "push"
  /\ IF Len(queue) < QueueCapacity
       THEN queue' = Append(queue, arg[t]) /\ Goto(t, "takeFlag")
       ELSE UNCHANGED queue /\ Goto(t, "disconnectFull")
  /\ UNCHANGED <<flag, state, cancelIo, sending, readCursor, sock, port, history, app, local>>

\* `this->Disconnect()` from within Send.
DisconnectFull(t) ==
  /\ pc[t] = "disconnectFull"
  /\ AddRef
  /\ extra' = [extra EXCEPT ![t] = TRUE]
  /\ op' = [op EXCEPT ![t] = "disconnect"]
  /\ Goto(t, "checkReleased")
  /\ UNCHANGED <<state, cancelIo, sending, packets, sock, port, history, app, arg, seen>>

------------------------------------------------------------------------------
(***************************************************************************)
(* Sending.                                                                *)
(***************************************************************************)

\* Mutant: the value the exchange returns is not looked at.
IgnoreSending == FALSE

\* The value m_isSending had before the exchange.
WasSending == isSending

\* `InterlockedExchange8(&m_isSending, 1)`, by Send and by the completion of a send.
TakeFlag(t) ==
  /\ pc[t] = "takeFlag"
  /\ isSending' = TRUE
  /\ Goto(t, IF WasSending THEN "deref" ELSE IF t \in Workers THEN "peek" ELSE "checkCancelSend")
  /\ UNCHANGED <<flag, state, cancelIo, pending, packets, sock, port, history, app, local>>

\* Send gives up here with the flag set when the client is being disconnected.
CheckCancelSend(t) == Branch(t, "checkCancelSend", IF cancelIo THEN "deref" ELSE "peek")

\* The packets one WSASend takes from the head of the queue.
BatchSize == IF Len(queue) < MaxBatch THEN Len(queue) ELSE MaxBatch

Peek(t) ==
  /\ pc[t] = "peek"
  /\ IF BatchSize = 0
       THEN Goto(t, "clearFlag") /\ UNCHANGED pending
       ELSE Goto(t, "refSend") /\ pending' = BatchSize
  /\ UNCHANGED <<flag, state, cancelIo, isSending, packets, sock, port, history, app, local>>

\* Mutant: PostSend returns with the flag still set.
KeepFlag(t) == Branch(t, "clearFlag", "deref")

\* Nothing to send: the flag is given up without another look at the queue.
ClearFlag(t) ==
  /\ pc[t] = "clearFlag"
  /\ isSending' = FALSE
  /\ Goto(t, "deref")
  /\ UNCHANGED <<flag, state, cancelIo, pending, packets, sock, port, history, app, local>>

RefSend(t) ==
  /\ pc[t] = "refSend"
  /\ AddRef
  /\ extra' = [extra EXCEPT ![t] = TRUE]
  /\ Goto(t, "wsaSend")
  /\ UNCHANGED <<state, cancelIo, sending, packets, sock, port, history, app, op, arg, seen>>

\* What a WSASend or WSARecv by thread t may start.
Started(t) == CASE sock = "open" -> {"ok", t} [] sock = "reset" -> {"fail"} [] OTHER -> {}

\* Calls that are refused outright: no completion will come.
Refused == sock # "open" \/ "wsa" \in Faults

\* The operation's reference goes with it, or stays with the thread that then disconnects
\* (DirectDisconnect) and gives it up.
WSASend(t) ==
  /\ pc[t] = "wsaSend"
  /\ \/ \E r \in Started(t) :
          /\ sendIo' = r
          /\ extra' = [extra EXCEPT ![t] = FALSE]
          /\ Goto(t, IF r = "ok" THEN "deref" ELSE "checkSendPending")
     \/ Refused /\ Goto(t, "setCancel") /\ UNCHANGED <<sendIo, extra>>
  /\ UNCHANGED <<flag, state, cancelIo, sending, packets, sock, connIo, recvIo, jobs, history, app, op, arg, seen>>

\* Mutant: an operation posted to a client being disconnected is left pending.
LeavePending(io, t) == io

\* `if (client.m_cancelIo) CancelIo(sock)` after WSA_IO_PENDING.
RecheckCancel(io, t) == IF cancelIo THEN Cancelled(io, {t}) ELSE io

CheckSendPending(t) ==
  /\ pc[t] = "checkSendPending"
  /\ sendIo' = RecheckCancel(sendIo, t)
  /\ Goto(t, "deref")
  /\ UNCHANGED <<flag, state, cancelIo, sending, packets, sock, connIo, recvIo, jobs, history, app, local>>

------------------------------------------------------------------------------
(***************************************************************************)
(* Receiving.                                                              *)
(***************************************************************************)

\* PostRecv; the receive buffer always has room (module MessageFraming).
RefRecv(t) ==
  /\ pc[t] = "refRecv"
  /\ AddRecvRef
  /\ extra' = [extra EXCEPT ![t] = TRUE]
  /\ Goto(t, "wsaRecv")
  /\ UNCHANGED <<state, cancelIo, sending, packets, sock, port, history, app, op, arg, seen>>

WSARecv(t) ==
  /\ pc[t] = "wsaRecv"
  /\ \/ \E r \in Started(t) :
          /\ recvIo' = r
          /\ extra' = [extra EXCEPT ![t] = FALSE]
          /\ Goto(t, IF r = "ok" THEN "deref" ELSE "checkRecvPending")
     \/ Refused /\ Goto(t, "setCancel") /\ UNCHANGED <<recvIo, extra>>
  /\ UNCHANGED <<flag, state, cancelIo, sending, packets, sock, connIo, sendIo, jobs, history, app, op, arg, seen>>

CheckRecvPending(t) ==
  /\ pc[t] = "checkRecvPending"
  /\ recvIo' = RecheckCancel(recvIo, t)
  /\ Goto(t, "deref")
  /\ UNCHANGED <<flag, state, cancelIo, sending, packets, sock, connIo, sendIo, jobs, history, app, local>>

\* OnReceiveData has handed every complete message to OnReceive, or met a bad header, after
\* which the worker still looks at m_cancelIo.
Received(w) == \E next \in {"checkCancelRecv", "setCancel"} : Branch(w, "onReceive", next)

\* Before every receive: after OnConnect and after OnReceiveData.
CheckCancelRecv(t) == Branch(t, "checkCancelRecv", IF cancelIo THEN "deref" ELSE "refRecv")

------------------------------------------------------------------------------
(***************************************************************************)
(* WorkerThreadEntry: one completion at a time, in any order.              *)
(***************************************************************************)

TakeCompletion(w, next) ==
  /\ pc[w] = "idle"
  /\ Goto(w, next)
  /\ UNCHANGED <<flag, state, cancelIo, sending, packets, sock, history, app, local>>

\* The engine handles a failed connection without a reference: none was taken.
DequeueConnect(w) ==
  /\ connIo \in {"ok", "fail"}
  /\ connIo' = "none"
  /\ TakeCompletion(w, IF connIo = "ok" THEN "startFields" ELSE "connectFailed")
  /\ UNCHANGED <<recvIo, sendIo, jobs>>

\* Zero bytes (the peer closed) and failures only give up the operation's reference.
DequeueRecv(w) ==
  /\ recvIo \in {"ok", "eof", "fail"}
  /\ recvIo' = "none"
  /\ TakeCompletion(w, IF recvIo = "ok" THEN "onReceive" ELSE "deref")
  /\ UNCHANGED <<connIo, sendIo, jobs>>

DequeueSend(w) ==
  /\ sendIo \in {"ok", "fail"}
  /\ sendIo' = "none"
  /\ TakeCompletion(w, IF sendIo = "ok" THEN "popSent" ELSE "deref")
  /\ UNCHANGED <<connIo, recvIo, jobs>>

DequeueJob(w) ==
  /\ jobs > 0
  /\ jobs' = jobs - 1
  /\ TakeCompletion(w, "onDisconnect")
  /\ UNCHANGED <<connIo, recvIo, sendIo>>

\* `m_cancelIo = 0`, then m_state; nobody else reads either of them here.
StartFields(w) ==
  /\ pc[w] = "startFields"
  /\ cancelIo' = FALSE
  /\ state' = "connected"
  /\ Goto(w, "publish")
  /\ UNCHANGED <<flag, sending, packets, sock, port, history, app, local>>

\* m_released is cleared: from here on API calls find the client alive ...
Publish(w) ==
  /\ pc[w] = "publish"
  /\ released' = FALSE
  /\ conn' = conn + 1
  /\ Goto(w, "startRef")
  /\ UNCHANGED <<spoiled, refCount, state, cancelIo, sending, packets, sock, port, app, local>>

\* ... and only now the worker takes its reference, with which it enters OnConnect.
StartRef(w) ==
  /\ pc[w] = "startRef"
  /\ AddRef
  /\ Goto(w, "onConnect")
  /\ UNCHANGED <<state, cancelIo, sending, packets, sock, port, history, app, local>>

\* OnConnect returns.
Connected(w) == Branch(w, "onConnect", "checkCancelRecv")

\* A failed connection: Idle again, with the socket still in m_sock.  A release job ends with
\* the same exchange.
SetIdle(w) ==
  /\ pc[w] \in {"connectFailed", "setIdle"}
  /\ state' = "idle"
  /\ Return(w)
  /\ UNCHANGED <<flag, cancelIo, sending, packets, sock, port, history, app>>

\* m_pWriteCursor - m_pBufferBegin.
WriteCursor == Advance(readCursor, Len(queue), QueueCapacity + 1)

\* Under the queue's lock: the packets of the completed send leave the queue.
PopSent(w) ==
  /\ pc[w] = "popSent"
  /\ queue' = SubSeq(queue, pending + 1, Len(queue))
  /\ readCursor' = Advance(readCursor, pending, QueueCapacity + 1)
  /\ Goto(w, "clearPending")
  /\ UNCHANGED <<flag, state, cancelIo, sending, sock, port, history, app, local>>

ClearPending(w) ==
  /\ pc[w] = "clearPending"
  /\ pending' = 0
  /\ Goto(w, "dropFlag")
  /\ UNCHANGED <<flag, state, cancelIo, isSending, packets, sock, port, history, app, local>>

DropFlag(w) ==
  /\ pc[w] = "dropFlag"
  /\ isSending' = FALSE
  /\ Goto(w, "loadRead")
  /\ UNCHANGED <<flag, state, cancelIo, pending, packets, sock, port, history, app, local>>

\* `const size_t sqSize = sq.Size()` without the lock: the read cursor, then the write cursor.
\* Unlike the server, the engine looks at m_cancelIo after it.
LoadReadCursor(w) ==
  /\ pc[w] = "loadRead"
  /\ seen' = [seen EXCEPT ![w] = readCursor]
  /\ Goto(w, "loadWrite")
  /\ UNCHANGED <<flag, state, cancelIo, sending, packets, sock, port, history, app, op, arg, extra>>

LoadWriteCursor(w) ==
  /\ pc[w] = "loadWrite"
  /\ seen' = [seen EXCEPT ![w] = 0]
  /\ Goto(w, IF seen[w] = WriteCursor THEN "deref" ELSE "checkMore")
  /\ UNCHANGED <<flag, state, cancelIo, sending, packets, sock, port, history, app, op, arg, extra>>

CheckMore(w) == Branch(w, "checkMore", IF cancelIo THEN "deref" ELSE "takeFlag")

\* OnDisconnect returns.
Disconnected(w) == Branch(w, "onDisconnect", "drain")

\* Mutant: the client is made available again without closing its socket.
AfterDrainIdle == "setIdle"

\* closesocket comes after the queue has been emptied.
AfterDrain == "closeSocket"

\* DoClientReleaseJob: clear the buffer and the queue, close the socket, become Idle.
Drain(w) ==
  /\ pc[w] = "drain"
  /\ queue' = <<>>
  /\ readCursor' = WriteCursor
  /\ Goto(w, AfterDrain)
  /\ UNCHANGED <<flag, state, cancelIo, sending, sock, port, history, app, local>>

------------------------------------------------------------------------------
(***************************************************************************)
(* The network: the answer to a connection attempt, data, the peer's close *)
(* or reset, completed sends.                                              *)
(***************************************************************************)

CompleteConnect ==
  /\ connIo \in Threads
  /\ \/ connIo' = "ok" /\ sock' = "open"
     \/ connIo' = "fail" /\ UNCHANGED sock
  /\ UNCHANGED <<flag, state, cancelIo, sending, packets, recvIo, sendIo, jobs, history, app, pc, local>>

Complete ==
  /\ \/ /\ recvIo \in Threads
        /\ recvIo' \in {"ok", "eof"}
        /\ UNCHANGED sendIo
     \/ /\ sendIo \in Threads
        /\ sendIo' = "ok"
        /\ UNCHANGED recvIo
  /\ UNCHANGED <<flag, state, cancelIo, sending, packets, sock, connIo, jobs, history, app, pc, local>>

PeerReset ==
  /\ sock = "open"
  /\ sock' = "reset"
  /\ recvIo' = Cancelled(recvIo, Threads)
  /\ sendIo' = Cancelled(sendIo, Threads)
  /\ UNCHANGED <<flag, state, cancelIo, sending, packets, connIo, jobs, history, app, pc, local>>

------------------------------------------------------------------------------

\* TCPClient::TCPClient and Init.
Init ==
  /\ refCount = 0
  /\ released = TRUE
  /\ state = "idle"
  /\ cancelIo = FALSE
  /\ isSending = FALSE
  /\ pending = 0
  /\ queue = <<>>
  /\ readCursor = 0
  /\ sock = "none"
  /\ connIo = "none"
  /\ recvIo = "none"
  /\ sendIo = "none"
  /\ jobs = 0
  /\ conn = 0
  /\ spoiled = FALSE
  /\ connects = 0
  /\ calls = 0
  /\ pc = [t \in Threads |-> "idle"]
  /\ op = [t \in Threads |-> "none"]
  /\ arg = [t \in Threads |-> 0]
  /\ extra = [t \in Threads |-> FALSE]
  /\ seen = [t \in Threads |-> 0]

ConnectStep(t) ==
  CreateSocket(t) \/ Prepare(t) \/ ConnectEx(t) \/ Cleanup(t) \/ ResetState(t)

SocketStep(t) == CloseSocket(t) \/ ClearSocket(t)

ReleaseStep(t) == Deref(t) \/ TryRelease(t) \/ PostJob(t)

ApiStep(t) == CheckReleased(t) \/ SetCancel(t) \/ CancelIoEx(t) \/ Push(t) \/ DisconnectFull(t)

SendStep(t) ==
  \/ TakeFlag(t) \/ CheckCancelSend(t) \/ Peek(t) \/ ClearFlag(t)
  \/ RefSend(t) \/ WSASend(t) \/ CheckSendPending(t)

RecvStep(t) == RefRecv(t) \/ WSARecv(t) \/ CheckRecvPending(t) \/ CheckCancelRecv(t)

\* What several kinds of threads run.
SharedStep(t) == SocketStep(t) \/ ReleaseStep(t) \/ ApiStep(t) \/ SendStep(t) \/ RecvStep(t)

DequeueStep(w) == DequeueConnect(w) \/ DequeueRecv(w) \/ DequeueSend(w) \/ DequeueJob(w)

StartStep(w) == StartFields(w) \/ Publish(w) \/ StartRef(w) \/ Connected(w)

SentStep(w) ==
  \/ PopSent(w) \/ ClearPending(w) \/ DropFlag(w)
  \/ LoadReadCursor(w) \/ LoadWriteCursor(w) \/ CheckMore(w)

WorkerStep(w) ==
  \/ DequeueStep(w) \/ StartStep(w) \/ Received(w) \/ SentStep(w)
  \/ Disconnected(w) \/ Drain(w) \/ SetIdle(w)

NetworkStep == CompleteConnect \/ Complete \/ PeerReset

Next ==
  \/ Connect(Connector)
  \/ ConnectStep(Connector)
  \/ \E t \in Threads : SharedStep(t)
  \/ \E w \in Workers : WorkerStep(w)
  \/ \E t \in Callers, o \in Ops : Call(t, o)
  \/ NetworkStep

Spec == Init /\ [][Next]_vars

(***************************************************************************)
(* The scheduler runs every thread, and a worker that waits on the port    *)
(* gets a completion when there is one.  Nothing is assumed of the peer,   *)
(* of the network or of further calls of the API.                          *)
(***************************************************************************)
Fairness ==
  /\ \A t \in Threads : WF_vars(SharedStep(t))
  /\ \A w \in Workers : WF_vars(WorkerStep(w))
  /\ WF_vars(ConnectStep(Connector))

FairSpec == Spec /\ Fairness

------------------------------------------------------------------------------
(***************************************************************************)
(* Properties.                                                             *)
(***************************************************************************)

\* Program points of Connect, of the start of a connection and of a release job.
Attempting == {"socket", "prepare", "connectEx", "cleanup", "resetState"}

Starting == {"startFields", "publish", "startRef", "connectFailed"}

Releasing == {"onDisconnect", "drain", "closeSocket", "clearSocket", "setIdle"}

\* Program points at which a thread holds no reference to the client.
Unreferenced == {"idle", "tryRelease", "postJob"} \cup Attempting \cup Starting \cup Releasing

\* Program points that rely on the connection being the one the thread means.
Using ==
  {"setCancel", "cancelIoEx", "push", "disconnectFull", "takeFlag", "checkCancelSend", "peek",
   "clearFlag", "refSend", "wsaSend", "checkSendPending", "refRecv", "wsaRecv",
   "checkRecvPending", "checkCancelRecv", "onReceive", "popSent", "clearPending", "dropFlag",
   "loadRead", "loadWrite", "checkMore", "onConnect"}

Points == Unreferenced \cup Using \cup {"deref", "checkReleased"}

ThreadTypes ==
  /\ pc \in [Threads -> Points]
  /\ op \in [Threads -> {"none", "refused", "send", "disconnect"}]
  /\ arg \in [Threads -> Nat]
  /\ extra \in [Threads -> BOOLEAN]
  /\ seen \in [Threads -> 0..QueueCapacity]

ClientTypes ==
  /\ refCount \in Nat /\ released \in BOOLEAN
  /\ state \in {"idle", "connecting", "connected"}
  /\ cancelIo \in BOOLEAN /\ isSending \in BOOLEAN
  /\ sock \in {"none", "fresh", "open", "reset", "closed"}
  /\ conn \in Nat /\ spoiled \in BOOLEAN /\ connects \in Nat /\ calls \in Nat

QueueTypes ==
  /\ pending \in 0..QueueCapacity
  /\ queue \in Seq(Nat) /\ Len(queue) <= QueueCapacity
  /\ readCursor \in 0..QueueCapacity

PortTypes ==
  /\ connIo \in IoStates \cup Threads
  /\ recvIo \in IoStates \cup Threads
  /\ sendIo \in IoStates \cup Threads
  /\ jobs \in Nat

\* Every variable has its type: m_refCount never goes below zero and the cursors stay in the ring.
TypeOK == ThreadTypes /\ ClientTypes /\ QueueTypes /\ PortTypes

\* Neither of the two steps that break the client has been taken.
Intact == ~spoiled

Holders == {t \in Threads : pc[t] \notin Unreferenced}

SecondHolders == {t \in Threads : extra[t]}

Outstanding(io) == IF io = "none" THEN 0 ELSE 1

RefCountExact ==
  refCount = Cardinality(Holders) + Cardinality(SecondHolders) + Outstanding(recvIo) + Outstanding(sendIo)

\* m_refCount counts exactly the threads and operations that rely on the client, from one connection
\* to the next: the engine never resets it, so one reference lost or kept would end every later
\* connection early or never.
CountsWhileIntact == Intact => RefCountExact

\* A thread that has found the client alive, or serves one of its completions, never sees it
\* released, closed or reconnected underneath it; nor does an operation.  (TCPClientEngine.cpp:223:
\* once TryReleaseClient has succeeded, no other thread is using the client.)
NoUseAfterRelease ==
  (\E t \in Threads : pc[t] \in Using) \/ recvIo # "none" \/ sendIo # "none" =>
    /\ ~released
    /\ state = "connected"
    /\ ConnectsWhile = {} => sock \in {"open", "reset"}
    /\ \A t \in Callers : pc[t] \in Using => arg[t] = conn

\* It is so until a thread that was late at TryReleaseClient, or a call that has come and gone,
\* releases the client while it is being started: also for the threads that are late from the
\* connection before, and for the calls that overlap the start and go on.
UsersSafeWhileIntact == Intact => NoUseAfterRelease

OwningPoints == Attempting \cup {"startFields", "publish", "connectFailed", "postJob"} \cup Releasing

\* What may decide the client's future: nobody but the next Connect when it is idle, the thread or
\* the operation that establishes a connection, its references while it is live, the thread or
\* the job that releases it.
Owners ==
  {t \in Threads : pc[t] \in OwningPoints /\ op[t] # "refused"}
  \cup (IF state = "idle" THEN {"idle"} ELSE {})
  \cup (IF connIo = "none" THEN {} ELSE {"attempt"})
  \cup (IF released THEN {} ELSE {"live"})
  \cup (IF jobs = 0 THEN {} ELSE {"job"})

OneOwner ==
  /\ jobs <= 1
  /\ \A a, b \in Owners : a = b
  /\ "post" \notin Faults => Owners # {}

\* A connection is released once, and the client is never lost between two connections: threads
\* whose decrements race to zero never release it twice, however late one of them is, no attempt
\* begins before the release is complete, and unless posting the job fails it becomes idle again.
OneOwnerWhileIntact == Intact => OneOwner

SendingPoints ==
  {"checkCancelSend", "peek", "clearFlag", "refSend", "wsaSend", "popSent", "clearPending", "dropFlag"}

\* The owner of m_isSending: a thread between taking and dropping it, or the WSASend.
SendOwners ==
  {t \in Threads : pc[t] \in SendingPoints}
  \cup (IF sendIo = "none" THEN {} ELSE {"sendIo"})

OneSender ==
  /\ \A a, b \in SendOwners : a = b
  /\ SendOwners # {} => isSending
  /\ (sendIo # "none" \/ \E t \in Threads : pc[t] \in {"refSend", "wsaSend", "popSent"})
       => pending \in 1..Len(queue)

\* m_isSending is owned by one at a time and set as long as it is owned, so the packets that a
\* WSASend refers to stay at the head of the queue and the ForceCrash of PostSend is not reached.
OneSenderWhileIntact == Intact => OneSender

NothingCrossesConnections ==
  /\ \A i \in 1..Len(queue) : queue[i] = conn
  /\ state = "idle" =>
       /\ queue = <<>>
       /\ recvIo = "none" /\ sendIo = "none"
       /\ sock \notin {"open", "reset", "closed"}

\* The packets of a connection were all sent on it, and nothing of a connection is left when the
\* client is idle: no packet, no operation, no socket.  Only m_isSending and m_numOfPacketsPending
\* reach the next one.  (The socket of an attempt that failed is SocketDiscarded's.)
SeparateWhileIntact == Intact => NothingCrossesConnections

\* A connection that is alive and that nobody is disconnecting, with m_isSending set and nobody to
\* clear it: its packets would never be sent.
Mute ==
  /\ isSending /\ SendOwners = {}
  /\ ~released /\ ~cancelIo /\ sock = "open"
  /\ ~\E t \in Threads : pc[t] = "setCancel" /\ extra[t]

\* A healthy connection never becomes mute: no early return of Send, PostSend or the worker's send
\* branch keeps m_isSending unless the connection is ending.  (One that begins mute, with the flag
\* its predecessor left at TCPClientEngine.cpp:517, is what ConnectionCanSend is about.)
NeverBecomesMute == [][Mute' => Mute \/ released \/ spoiled']_vars

\* Connections are the sessions of SessionCallbacks, one at a time.
At(point) == \E w \in Workers : pc[w] = point

Phase(i) ==
  IF i > conn \/ (i = conn /\ At("startRef")) THEN "unborn"
  ELSE IF i < conn THEN "closed"
  ELSE IF At("onConnect") THEN "connecting"
  ELSE IF At("onReceive") THEN "receiving"
  ELSE IF At("onDisconnect") THEN "closing"
  ELSE IF ~released \/ jobs > 0 \/ (\E t \in Threads : pc[t] = "postJob") THEN "open"
  ELSE "closed"

Phases == [i \in 1..MaxConnects |-> Phase(i)]

Callbacks == INSTANCE SessionCallbacks
  WITH Ids <- 1..MaxConnects, MaxSessions <- 1, phase <- Phases

\* For every connection OnConnect, then OnReceive one at a time, then one OnDisconnect, and the
\* OnDisconnect of a connection comes before the OnConnect of the next (TCPClientEngine.cpp:534):
\* while the client is intact it implements SessionCallbacks, step by step.
CallbackContract == Callbacks!Init /\ [][spoiled' \/ Callbacks!Next]_Phases

\* A connection that is disconnected by the application or reset by its peer ends, whatever its
\* threads were about to post, and the client can be connected again.
BrokenConnectionEnds == ~released /\ (cancelIo \/ sock = "reset") ~> state = "idle" \/ ~Intact

------------------------------------------------------------------------------
(***************************************************************************)
(* What comments and the interface say, and the code does not.             *)
(***************************************************************************)

\* TCPClient.h:54, a Connect while another attempt is in progress returns false: it has no other
\* effect on that attempt.
RefusedConnectHarmless ==
  [][op[Connector] = "refused" /\ pc'[Connector] # pc[Connector] => UNCHANGED <<sock, state, connIo>>]_vars

\* TCPClient.cpp:115, `assert(m_sock == INVALID_SOCKET)`: a Connect that wins the Idle state finds
\* that every socket created before has been closed.
SocketDiscarded == pc[Connector] = "socket" => sock = "none"

\* TCPClient.h:59, Disconnect ends the current connection: it does not repeat CancelIoEx for ever,
\* whoever has closed the socket or cleared m_sock in the meantime.
DisconnectReturns == \A t \in Callers : pc[t] = "cancelIoEx" ~> pc[t] # "cancelIoEx"

\* TCPClientEngine.cpp:532, `assert(m_releasedAndRefCount == 0x00010000)`: when a worker dequeues a
\* release job, nobody holds a reference to the client.
JobFindsNoReference == [][jobs' < jobs => released /\ refCount = 0]_vars

\* TCPClient.h:71, Send transmits the packet to the remote host: a healthy connection that nobody is
\* disconnecting does not have m_isSending set without an owner.
ConnectionCanSend == ~Mute
====
