------------------------------ MODULE TCPServer ------------------------------
(***************************************************************************)
(* The connection engine of winppy::TCPServer: one accept thread, a pool   *)
(* of worker threads on an I/O completion port, and the application        *)
(* threads that call Send, Disconnect and GetAddress with a session id     *)
(* they were given earlier.  Sessions live in a fixed array of slots that  *)
(* are recycled; the only thing that keeps a slot alive while a thread or  *)
(* an I/O operation uses it is the pair (m_refCount, m_released).          *)
(*                                                                         *)
(* One step of a thread is one access to shared memory, one region under   *)
(* the send queue's lock, or one system call, in program order; pc names   *)
(* the access that comes next.  Memory is sequentially consistent: every   *)
(* cross-thread hand-over in the code goes through an interlocked          *)
(* operation of an x86 processor.                                          *)
(***************************************************************************)
EXTENDS RingCursor, FiniteSets, Sequences

CONSTANTS
  Acceptor,       \* the thread that runs AcceptThreadEntry
  Workers,        \* the threads that run WorkerThreadEntry
  Callers,        \* the application threads that call the public API
  Slots,          \* the entries of m_pSessions
  NoSlot,         \* the slot of a thread that works on none
  Ops,            \* the API calls made: a subset of {"send", "disconnect", "address"}
  QueueCapacity,  \* SendQueue::Capacity(), the ring's size minus one
  MaxBatch,       \* WSABUF_LEN_MAX
  Faults,         \* the calls that may fail: a subset of {"setup", "wsa", "post"}
  MaxIds,         \* bound of the model: the ids the accept thread hands out
  MaxCalls        \* bound of the model: the API calls the application makes

Threads == {Acceptor} \cup Workers \cup Callers

\* The states of an overlapped operation other than "pending, started by thread t".
IoStates == {"none", "ok", "eof", "fail"}

\* What may own a part of a slot besides a thread: an operation, a job, the free list.
Tokens == {"recvIo", "sendIo", "job", "ready", "live"}

ASSUME ThreadAssumption ==
  /\ Acceptor \notin Workers \cup Callers
  /\ Workers \cap Callers = {}
  /\ Threads \cap (IoStates \cup Tokens) = {}
  /\ IsFiniteSet(Threads)

ASSUME SlotAssumption ==
  /\ IsFiniteSet(Slots)
  /\ NoSlot \notin Slots

ASSUME SizeAssumption ==
  /\ QueueCapacity \in Nat \ {0}
  /\ MaxBatch \in Nat \ {0}
  /\ MaxIds \in Nat
  /\ MaxCalls \in Nat
  /\ Ops \subseteq {"send", "disconnect", "address"}

VARIABLES
  \* TCPSession, per slot
  refCount,       \* m_flag.m_refCount
  released,       \* m_flag.m_released # 0
  cancelIo,       \* m_cancelIo # 0
  isSending,      \* m_isSending # 0
  pending,        \* m_numOfPacketsPending
  id,             \* the upper half of m_id (the lower half is the slot)
  queue,          \* m_sendQueue: for each packet, the id Send was called with
  readCursor,     \* m_sendQueue.m_pReadCursor - m_pBufferBegin
  sock,           \* m_sock: "closed", "open", or "reset" by the peer
  \* the completion port, per slot
  recvIo,         \* the WSARecv: none, pending (the thread that posted it), or its completion
  sendIo,         \* the WSASend, likewise
  jobs,           \* release jobs posted and not yet dequeued
  \* TCPServer
  ready,          \* m_readySessionIndices, as a set
  idCounter,      \* idCounter of AcceptThreadEntry
  sessionCount,   \* m_sessionCount
  \* the application
  known,          \* the <<id, slot>> pairs OnConnect has been given
  calls,          \* API calls made
  \* per thread
  pc,             \* the next access
  cur,            \* the slot worked on
  arg,            \* the id an API call was made with; for the accept thread, desc.m_id
  op,             \* the API call being executed
  extra,          \* the thread holds a second reference (a nested call's, or an I/O's)
  seen            \* the read cursor loaded by the unlocked SendQueue::Size

flag    == <<refCount, released>>
session == <<cancelIo, isSending, pending, id, queue, readCursor, sock>>
port    == <<recvIo, sendIo, jobs>>
server  == <<ready, idCounter, sessionCount>>
app     == <<known, calls>>
local   == <<cur, arg, op, extra, seen>>
vars    == <<flag, session, port, server, app, pc, local>>

------------------------------------------------------------------------------
(***************************************************************************)
(* Control flow shared by all threads.                                     *)
(***************************************************************************)

Goto(t, label) == pc' = [pc EXCEPT ![t] = label]

\* Back to the top of the thread's loop (or of the application): locals go out of scope.
Return(t) ==
  /\ Goto(t, "idle")
  /\ cur' = [cur EXCEPT ![t] = NoSlot]
  /\ arg' = [arg EXCEPT ![t] = 0]
  /\ op' = [op EXCEPT ![t] = "none"]
  /\ UNCHANGED <<extra, seen>>

AddRef(s) ==
  /\ refCount' = [refCount EXCEPT ![s] = @ + 1]
  /\ UNCHANGED released

\* Mutant: the interlocked increment that should protect the session is missing.
ForgetRef(s) == UNCHANGED flag

\* The I/O reference taken before WSARecv.
AddRecvRef(s) == AddRef(s)

\* The protecting reference of TCPSession::Start.
AddStartRef(s) == AddRef(s)

\* CancelIoEx, or CancelIo when only `who` is the calling thread: a pending operation
\* completes with ERROR_OPERATION_ABORTED.
Cancel(io, s, who) == [io EXCEPT ![s] = IF @ \in who THEN "fail" ELSE @]

\* InterlockedDecrement16.  Giving up the second reference never reaches zero (the outer
\* one is still counted), so the TryReleaseSession behind that decrement is not reached.
Deref(t) ==
  /\ pc[t] = "deref"
  /\ refCount' = [refCount EXCEPT ![cur[t]] = @ - 1]
  /\ \/ /\ extra[t]
        /\ extra' = [extra EXCEPT ![t] = FALSE]
        /\ UNCHANGED <<pc, cur, arg, op, seen>>
     \/ /\ ~extra[t]
        /\ IF refCount[cur[t]] = 1
             THEN Goto(t, "tryRelease") /\ UNCHANGED local
             ELSE Return(t)
  /\ UNCHANGED <<released, session, port, server, app>>

\* Mutant: the comparand leaves the reference count out.
ReleasableAnyCount(s) == ~released[s]

\* Mutant: the comparand leaves the released flag out.
ReleasableTwice(s) == refCount[s] = 0

\* The comparand of InterlockedCompareExchange(&m_releasedAndRefCount, 0x00010000, 0).
Releasable(s) == refCount[s] = 0 /\ ~released[s]

TryRelease(t) ==
  /\ pc[t] = "tryRelease"
  /\ IF Releasable(cur[t])
       THEN /\ released' = [released EXCEPT ![cur[t]] = TRUE]
            /\ Goto(t, "postJob")
            /\ UNCHANGED local
       ELSE Return(t) /\ UNCHANGED released
  /\ UNCHANGED <<refCount, session, port, server, app>>

\* PostSessionReleaseJob.  A failed post is logged and nothing else.
PostJob(t) ==
  /\ pc[t] = "postJob"
  /\ \/ jobs' = [jobs EXCEPT ![cur[t]] = @ + 1]
     \/ "post" \in Faults /\ UNCHANGED jobs
  /\ Return(t)
  /\ UNCHANGED <<flag, session, recvIo, sendIo, server, app>>

------------------------------------------------------------------------------
(***************************************************************************)
(* The public API: take a reference, check released, then the id, act.     *)
(***************************************************************************)

\* Send, Disconnect or GetAddress is entered; the first access is the reference that protects
\* the checks.
Enter(t, o, g, s) ==
  /\ pc[t] = "idle"
  /\ AddRef(s)
  /\ Goto(t, "checkReleased")
  /\ cur' = [cur EXCEPT ![t] = s]
  /\ arg' = [arg EXCEPT ![t] = g]
  /\ op' = [op EXCEPT ![t] = o]
  /\ UNCHANGED <<session, port, server, known, extra, seen>>

\* The application makes a call with an id it was given.
Call(t, o, g, s) ==
  /\ calls < MaxCalls
  /\ calls' = calls + 1
  /\ Enter(t, o, g, s)

\* Mutant: the call goes on whatever the flag says.
PassReleased(s) == TRUE

\* `if (session.m_flag.m_released) break;`
PassesReleased(s) == ~released[s]

CheckReleased(t) ==
  /\ pc[t] = "checkReleased"
  /\ Goto(t, IF PassesReleased(cur[t]) THEN "checkId" ELSE "deref")
  /\ UNCHANGED <<flag, session, port, server, app, local>>

\* Mutant: the slot is taken to still hold the caller's session.
PassAnyId(t) == TRUE

\* `if (session.GetId() != id) break;`
PassesId(t) == id[cur[t]] = arg[t]

\* Where each call goes once the session is known to be the caller's.
Body(o) == CASE o = "send" -> "push" [] o = "disconnect" -> "setCancel" [] OTHER -> "readAddress"

CheckId(t) ==
  /\ pc[t] = "checkId"
  /\ Goto(t, IF PassesId(t) THEN Body(op[t]) ELSE "deref")
  /\ UNCHANGED <<flag, session, port, server, app, local>>

\* GetAddress: GetIP, GetIPStr and GetPort read m_addr.
ReadAddress(t) ==
  /\ pc[t] = "readAddress"
  /\ Goto(t, "deref")
  /\ UNCHANGED <<flag, session, port, server, app, local>>

\* Disconnect, and DirectDisconnect when the caller already holds a checked reference.
SetCancel(t) ==
  /\ pc[t] = "setCancel"
  /\ cancelIo' = [cancelIo EXCEPT ![cur[t]] = TRUE]
  /\ Goto(t, "cancelIoEx")
  /\ UNCHANGED <<flag, isSending, pending, id, queue, readCursor, sock, port, server, app, local>>

CancelIoEx(t) ==
  /\ pc[t] = "cancelIoEx"
  /\ recvIo' = Cancel(recvIo, cur[t], Threads)
  /\ sendIo' = Cancel(sendIo, cur[t], Threads)
  /\ Goto(t, "deref")
  /\ UNCHANGED <<flag, session, jobs, server, app, local>>

\* Send pushes under the queue's lock; a full queue drops the packet and disconnects.
Push(t) ==
  LET s == cur[t] IN
  /\ pc[t] = "push"
  /\ IF Len(queue[s]) < QueueCapacity
       THEN queue' = [queue EXCEPT ![s] = Append(@, arg[t])] /\ Goto(t, "takeFlag")
       ELSE UNCHANGED queue /\ Goto(t, "disconnectFull")
  /\ UNCHANGED <<flag, cancelIo, isSending, pending, id, readCursor, sock, port, server, app, local>>

\* `this->Disconnect(id)` from within Send: a second reference, the same checks.
DisconnectFull(t) ==
  /\ pc[t] = "disconnectFull"
  /\ AddRef(cur[t])
  /\ extra' = [extra EXCEPT ![t] = TRUE]
  /\ op' = [op EXCEPT ![t] = "disconnect"]
  /\ Goto(t, "checkReleased")
  /\ UNCHANGED <<session, port, server, app, cur, arg, seen>>

------------------------------------------------------------------------------
(***************************************************************************)
(* Sending: m_isSending is owned by one thread or one WSASend at a time.   *)
(***************************************************************************)

\* Mutant: the value the exchange returns is not looked at.
IgnoreSending(s) == FALSE

\* The value m_isSending had before the exchange.
WasSending(s) == isSending[s]

\* `InterlockedExchange8(&m_isSending, 1)`.  Send then looks at m_cancelIo; the worker that
\* has just completed a send looked at it before.
TakeFlag(t) ==
  /\ pc[t] = "takeFlag"
  /\ isSending' = [isSending EXCEPT ![cur[t]] = TRUE]
  /\ Goto(t, IF WasSending(cur[t]) THEN "deref"
             ELSE IF t \in Workers THEN "peek" ELSE "checkCancelSend")
  /\ UNCHANGED <<flag, cancelIo, pending, id, queue, readCursor, sock, port, server, app, local>>

CheckCancelSend(t) ==
  /\ pc[t] = "checkCancelSend"
  /\ Goto(t, IF cancelIo[cur[t]] THEN "deref" ELSE "peek")
  /\ UNCHANGED <<flag, session, port, server, app, local>>

\* The packets one WSASend takes from the head of the queue.
BatchSize(s) == IF Len(queue[s]) < MaxBatch THEN Len(queue[s]) ELSE MaxBatch

\* PostSend up to m_numOfPacketsPending: the queue is read under its lock, and the count is
\* then stored by the flag's owner.
Peek(t) ==
  LET s == cur[t] IN
  /\ pc[t] = "peek"
  /\ IF BatchSize(s) = 0
       THEN Goto(t, "clearFlag") /\ UNCHANGED pending
       ELSE Goto(t, "refSend") /\ pending' = [pending EXCEPT ![s] = BatchSize(s)]
  /\ UNCHANGED <<flag, cancelIo, isSending, id, queue, readCursor, sock, port, server, app, local>>

\* Mutant: PostSend returns with the flag still set.
KeepFlag(s) == isSending

\* `InterlockedExchange8(&m_isSending, 0)` when there is nothing to send.
WithoutFlag(s) == [isSending EXCEPT ![s] = FALSE]

\* Nothing to send: the flag is given up without another look at the queue.
ClearFlag(t) ==
  /\ pc[t] = "clearFlag"
  /\ isSending' = WithoutFlag(cur[t])
  /\ Goto(t, "deref")
  /\ UNCHANGED <<flag, cancelIo, pending, id, queue, readCursor, sock, port, server, app, local>>

RefSend(t) ==
  /\ pc[t] = "refSend"
  /\ AddRef(cur[t])
  /\ extra' = [extra EXCEPT ![t] = TRUE]
  /\ Goto(t, "wsaSend")
  /\ UNCHANGED <<session, port, server, app, cur, arg, op, seen>>

\* What a WSASend or WSARecv by thread t on slot s may start: it completes at once, or it
\* stays pending; on a connection the peer has reset it can only fail.
Started(t, s) == IF sock[s] = "open" THEN {"ok", t} ELSE {"fail"}

\* Calls that are refused outright: no completion will come.
Refused(s) == sock[s] # "open" \/ "wsa" \in Faults

\* The I/O reference moves to the operation, or stays with the thread that then disconnects
\* (DirectDisconnect) and gives it up.
WSASend(t) ==
  LET s == cur[t] IN
  /\ pc[t] = "wsaSend"
  /\ \/ \E r \in Started(t, s) :
          /\ sendIo' = [sendIo EXCEPT ![s] = r]
          /\ extra' = [extra EXCEPT ![t] = FALSE]
          /\ Goto(t, IF r = "ok" THEN "deref" ELSE "checkSendPending")
     \/ Refused(s) /\ Goto(t, "setCancel") /\ UNCHANGED <<sendIo, extra>>
  /\ UNCHANGED <<flag, session, recvIo, jobs, server, app, cur, arg, op, seen>>

\* Mutant: an operation posted to a session being disconnected is left pending.
LeavePending(io, s, t) == io

\* `if (session.m_cancelIo) CancelIo(sock)` after WSA_IO_PENDING.
RecheckCancel(io, s, t) == IF cancelIo[s] THEN Cancel(io, s, {t}) ELSE io

CheckSendPending(t) ==
  /\ pc[t] = "checkSendPending"
  /\ sendIo' = RecheckCancel(sendIo, cur[t], t)
  /\ Goto(t, "deref")
  /\ UNCHANGED <<flag, session, recvIo, jobs, server, app, local>>

------------------------------------------------------------------------------
(***************************************************************************)
(* Receiving.                                                              *)
(***************************************************************************)

\* PostRecv.  Its early return when the receive buffer has no room is not taken: a buffer
\* holds more than one message and OnReceiveData leaves less than one (module MessageFraming).
RefRecv(t) ==
  /\ pc[t] = "refRecv"
  /\ AddRecvRef(cur[t])
  /\ extra' = [extra EXCEPT ![t] = TRUE]
  /\ Goto(t, "wsaRecv")
  /\ UNCHANGED <<session, port, server, app, cur, arg, op, seen>>

\* Mutant: an operation that completes at once is handled at once as well.
HandleInline(r) == IF r = "ok" THEN "onReceive" ELSE "checkRecvPending"

\* Completed at once or pending, the operation reports to the completion port.
AfterWSARecv(r) == IF r = "ok" THEN "deref" ELSE "checkRecvPending"

WSARecv(t) ==
  LET s == cur[t] IN
  /\ pc[t] = "wsaRecv"
  /\ \/ \E r \in Started(t, s) :
          /\ recvIo' = [recvIo EXCEPT ![s] = r]
          /\ extra' = [extra EXCEPT ![t] = FALSE]
          /\ Goto(t, AfterWSARecv(r))
     \/ Refused(s) /\ Goto(t, "setCancel") /\ UNCHANGED <<recvIo, extra>>
  /\ UNCHANGED <<flag, session, sendIo, jobs, server, app, cur, arg, op, seen>>

CheckRecvPending(t) ==
  /\ pc[t] = "checkRecvPending"
  /\ recvIo' = RecheckCancel(recvIo, cur[t], t)
  /\ Goto(t, "deref")
  /\ UNCHANGED <<flag, session, sendIo, jobs, server, app, local>>

\* OnReceiveData has handed every complete message to OnReceive, or met a bad header.
Received(t) ==
  /\ pc[t] = "onReceive"
  /\ \/ Goto(t, "checkCancelRecv")
     \/ Goto(t, "setCancel")
  /\ UNCHANGED <<flag, session, port, server, app, local>>

\* Read by the worker after OnReceiveData and by the accept thread after OnConnect.
CheckCancelRecv(t) ==
  /\ pc[t] = "checkCancelRecv"
  /\ Goto(t, IF cancelIo[cur[t]] THEN "deref" ELSE "refRecv")
  /\ UNCHANGED <<flag, session, port, server, app, local>>

------------------------------------------------------------------------------
(***************************************************************************)
(* WorkerThreadEntry: one completion at a time, in any order (the port's   *)
(* order means nothing once several workers have dequeued).                *)
(***************************************************************************)

TakeCompletion(w, s, next) ==
  /\ pc[w] = "idle"
  /\ Goto(w, next)
  /\ cur' = [cur EXCEPT ![w] = s]
  /\ UNCHANGED <<flag, session, server, app, arg, op, extra, seen>>

\* Zero bytes (the peer closed) and failures only give up the I/O reference.
DequeueRecv(w, s) ==
  /\ recvIo[s] \in {"ok", "eof", "fail"}
  /\ recvIo' = [recvIo EXCEPT ![s] = "none"]
  /\ TakeCompletion(w, s, IF recvIo[s] = "ok" THEN "onReceive" ELSE "deref")
  /\ UNCHANGED <<sendIo, jobs>>

DequeueSend(w, s) ==
  /\ sendIo[s] \in {"ok", "fail"}
  /\ sendIo' = [sendIo EXCEPT ![s] = "none"]
  /\ TakeCompletion(w, s, IF sendIo[s] = "ok" THEN "popSent" ELSE "deref")
  /\ UNCHANGED <<recvIo, jobs>>

DequeueJob(w, s) ==
  /\ jobs[s] > 0
  /\ jobs' = [jobs EXCEPT ![s] = @ - 1]
  /\ TakeCompletion(w, s, "onDisconnect")
  /\ UNCHANGED <<recvIo, sendIo>>

\* m_pWriteCursor - m_pBufferBegin.
WriteCursor(s) == Advance(readCursor[s], Len(queue[s]), QueueCapacity + 1)

\* Under the queue's lock: the packets of the completed send leave the queue.
PopSent(w) ==
  LET s == cur[w] IN
  /\ pc[w] = "popSent"
  /\ queue' = [queue EXCEPT ![s] = SubSeq(@, pending[s] + 1, Len(@))]
  /\ readCursor' = [readCursor EXCEPT ![s] = Advance(@, pending[s], QueueCapacity + 1)]
  /\ Goto(w, "clearPending")
  /\ UNCHANGED <<flag, cancelIo, isSending, pending, id, sock, port, server, app, local>>

ClearPending(w) ==
  /\ pc[w] = "clearPending"
  /\ pending' = [pending EXCEPT ![cur[w]] = 0]
  /\ Goto(w, "dropFlag")
  /\ UNCHANGED <<flag, cancelIo, isSending, id, queue, readCursor, sock, port, server, app, local>>

DropFlag(w) ==
  /\ pc[w] = "dropFlag"
  /\ isSending' = [isSending EXCEPT ![cur[w]] = FALSE]
  /\ Goto(w, "checkMore")
  /\ UNCHANGED <<flag, cancelIo, pending, id, queue, readCursor, sock, port, server, app, local>>

\* `m_cancelIo == 0 && sq.Size() > 0`: Size() runs without the lock and loads the read cursor,
\* then the write cursor.
CheckMore(w) ==
  /\ pc[w] = "checkMore"
  /\ Goto(w, IF cancelIo[cur[w]] THEN "deref" ELSE "loadRead")
  /\ UNCHANGED <<flag, session, port, server, app, local>>

LoadReadCursor(w) ==
  /\ pc[w] = "loadRead"
  /\ seen' = [seen EXCEPT ![w] = readCursor[cur[w]]]
  /\ Goto(w, "loadWrite")
  /\ UNCHANGED <<flag, session, port, server, app, cur, arg, op, extra>>

LoadWriteCursor(w) ==
  /\ pc[w] = "loadWrite"
  /\ seen' = [seen EXCEPT ![w] = 0]
  /\ Goto(w, IF seen[w] = WriteCursor(cur[w]) THEN "deref" ELSE "takeFlag")
  /\ UNCHANGED <<flag, session, port, server, app, cur, arg, op, extra>>

\* OnDisconnect returns.
Disconnected(w) ==
  /\ pc[w] = "onDisconnect"
  /\ Goto(w, "drain")
  /\ UNCHANGED <<flag, session, port, server, app, local>>

\* Mutant: the packets left in the queue stay there.
Undrained(s) == queue[s]

\* `while (!sq.Empty()) sq.Pop()`.
Drained(s) == <<>>

\* DoSessionReleaseJob: clear the buffer and the queue, close the socket ...
Drain(w) ==
  LET s == cur[w] IN
  /\ pc[w] = "drain"
  /\ queue' = [queue EXCEPT ![s] = Drained(s)]
  /\ readCursor' = [readCursor EXCEPT ![s] = Advance(@, Len(queue[s]) - Len(Drained(s)), QueueCapacity + 1)]
  /\ Goto(w, "closeSocket")
  /\ UNCHANGED <<flag, cancelIo, isSending, pending, id, sock, port, server, app, local>>

CloseSocket(w) ==
  /\ pc[w] = "closeSocket"
  /\ sock' = [sock EXCEPT ![cur[w]] = "closed"]
  /\ Goto(w, "uncount")
  /\ UNCHANGED <<flag, cancelIo, isSending, pending, id, queue, readCursor, port, server, app, local>>

\* Mutant: only sessions the application disconnected are counted out.
UncountDisconnected(s) == IF cancelIo[s] THEN sessionCount - 1 ELSE sessionCount

\* InterlockedDecrement(&m_sessionCount).
Uncounted(s) == sessionCount - 1

\* ... decrement the session count, and only then make the slot available.
Uncount(w) ==
  /\ pc[w] = "uncount"
  /\ sessionCount' = Uncounted(cur[w])
  /\ Goto(w, "pushReady")
  /\ UNCHANGED <<flag, session, port, ready, idCounter, app, local>>

PushReady(w) ==
  /\ pc[w] = "pushReady"
  /\ ready' = ready \cup {cur[w]}
  /\ Return(w)
  /\ UNCHANGED <<flag, session, port, idCounter, sessionCount, app>>

------------------------------------------------------------------------------
(***************************************************************************)
(* AcceptThreadEntry and TCPSession::Start.                                *)
(***************************************************************************)

Accept(t) ==
  /\ pc[t] = "idle"
  /\ idCounter < MaxIds
  /\ Goto(t, "accepted")
  /\ UNCHANGED <<flag, session, port, server, app, local>>

\* The connection is closed at once when no slot is free.  The vector is used as a stack;
\* here any free slot may be taken.
PopReady(t) ==
  /\ pc[t] = "accepted"
  /\ \/ \E s \in ready :
          /\ ready' = ready \ {s}
          /\ cur' = [cur EXCEPT ![t] = s]
          /\ Goto(t, "setup")
          /\ UNCHANGED <<arg, op, extra, seen>>
     \/ ready = {} /\ Return(t) /\ UNCHANGED ready
  /\ UNCHANGED <<flag, session, port, idCounter, sessionCount, app>>

\* Socket options and AssociateDeviceWithCompletionPort; a failure returns the slot.
Setup(t) ==
  /\ pc[t] = "setup"
  /\ \/ Goto(t, "fields")
     \/ "setup" \in Faults /\ Goto(t, "pushBack")
  /\ UNCHANGED <<flag, session, port, server, app, local>>

PushBack(t) ==
  /\ pc[t] = "pushBack"
  /\ ready' = ready \cup {cur[t]}
  /\ Return(t)
  /\ UNCHANGED <<flag, session, port, idCounter, sessionCount, app>>

\* TCPSession::Start up to the protecting reference; `desc.m_id` takes the next id.  None of
\* these fields is read by another thread before released is seen to be 0.
StartFields(t) ==
  LET s == cur[t] IN
  /\ pc[t] = "fields"
  /\ idCounter' = idCounter + 1
  /\ arg' = [arg EXCEPT ![t] = idCounter + 1]
  /\ id' = [id EXCEPT ![s] = idCounter + 1]
  /\ cancelIo' = [cancelIo EXCEPT ![s] = FALSE]
  /\ isSending' = [isSending EXCEPT ![s] = FALSE]
  /\ sock' = [sock EXCEPT ![s] = "open"]
  /\ Goto(t, "protect")
  /\ UNCHANGED <<flag, pending, queue, readCursor, port, ready, sessionCount, app, cur, op, extra, seen>>

StartProtect(t) ==
  /\ pc[t] = "protect"
  /\ AddStartRef(cur[t])
  /\ Goto(t, "publish")
  /\ UNCHANGED <<session, port, server, app, local>>

StartPublish(t) ==
  /\ pc[t] = "publish"
  /\ released' = [released EXCEPT ![cur[t]] = FALSE]
  /\ Goto(t, "countSession")
  /\ UNCHANGED <<refCount, session, port, server, app, local>>

\* The count, then OnConnect is entered and the application knows the id.
CountSession(t) ==
  /\ pc[t] = "countSession"
  /\ sessionCount' = sessionCount + 1
  /\ known' = known \cup {<<arg[t], cur[t]>>}
  /\ Goto(t, "onConnect")
  /\ UNCHANGED <<flag, session, port, ready, idCounter, calls, local>>

\* OnConnect returns true or false.
Connected(t) ==
  /\ pc[t] = "onConnect"
  /\ \/ Goto(t, "checkCancelRecv")
     \/ Goto(t, "deref")
  /\ UNCHANGED <<flag, session, port, server, app, local>>

------------------------------------------------------------------------------
(***************************************************************************)
(* The network: data, the peer's close or reset, completed sends.          *)
(***************************************************************************)

Complete(s) ==
  /\ \/ /\ recvIo[s] \in Threads
        /\ \E r \in {"ok", "eof"} : recvIo' = [recvIo EXCEPT ![s] = r]
        /\ UNCHANGED sendIo
     \/ /\ sendIo[s] \in Threads
        /\ sendIo' = [sendIo EXCEPT ![s] = "ok"]
        /\ UNCHANGED recvIo
  /\ UNCHANGED <<flag, session, jobs, server, app, pc, local>>

PeerReset(s) ==
  /\ sock[s] = "open"
  /\ sock' = [sock EXCEPT ![s] = "reset"]
  /\ recvIo' = Cancel(recvIo, s, Threads)
  /\ sendIo' = Cancel(sendIo, s, Threads)
  /\ UNCHANGED <<flag, cancelIo, isSending, pending, id, queue, readCursor, jobs, server, app, pc, local>>

------------------------------------------------------------------------------

Init ==
  /\ refCount = [s \in Slots |-> 0]
  /\ released = [s \in Slots |-> TRUE]
  /\ cancelIo = [s \in Slots |-> FALSE]
  /\ isSending = [s \in Slots |-> FALSE]
  /\ pending = [s \in Slots |-> 0]
  /\ id = [s \in Slots |-> 0]
  /\ queue = [s \in Slots |-> <<>>]
  /\ readCursor = [s \in Slots |-> 0]
  /\ sock = [s \in Slots |-> "closed"]
  /\ recvIo = [s \in Slots |-> "none"]
  /\ sendIo = [s \in Slots |-> "none"]
  /\ jobs = [s \in Slots |-> 0]
  /\ ready = Slots
  /\ idCounter = 0
  /\ sessionCount = 0
  /\ known = {}
  /\ calls = 0
  /\ pc = [t \in Threads |-> "idle"]
  /\ cur = [t \in Threads |-> NoSlot]
  /\ arg = [t \in Threads |-> 0]
  /\ op = [t \in Threads |-> "none"]
  /\ extra = [t \in Threads |-> FALSE]
  /\ seen = [t \in Threads |-> 0]

\* The steps of code that several kinds of threads run.
ReleaseStep(t) == Deref(t) \/ TryRelease(t) \/ PostJob(t)

ApiStep(t) ==
  \/ CheckReleased(t) \/ CheckId(t) \/ ReadAddress(t) \/ SetCancel(t) \/ CancelIoEx(t)
  \/ Push(t) \/ DisconnectFull(t)

SendStep(t) ==
  \/ TakeFlag(t) \/ CheckCancelSend(t) \/ Peek(t) \/ ClearFlag(t)
  \/ RefSend(t) \/ WSASend(t) \/ CheckSendPending(t)

RecvStep(t) == RefRecv(t) \/ WSARecv(t) \/ CheckRecvPending(t) \/ CheckCancelRecv(t)

SharedStep(t) == ReleaseStep(t) \/ ApiStep(t) \/ SendStep(t) \/ RecvStep(t)

\* A worker's own steps: a completion, a completed send, a released session.
DequeueStep(w) == \E s \in Slots : DequeueRecv(w, s) \/ DequeueSend(w, s) \/ DequeueJob(w, s)

SentStep(w) ==
  \/ PopSent(w) \/ ClearPending(w) \/ DropFlag(w)
  \/ CheckMore(w) \/ LoadReadCursor(w) \/ LoadWriteCursor(w)

RecycleStep(w) ==
  Disconnected(w) \/ Drain(w) \/ CloseSocket(w) \/ Uncount(w) \/ PushReady(w)

WorkerStep(w) == DequeueStep(w) \/ Received(w) \/ SentStep(w) \/ RecycleStep(w)

\* The accept thread between two accepts.
AcceptStep(t) ==
  \/ PopReady(t) \/ Setup(t) \/ PushBack(t)
  \/ StartFields(t) \/ StartProtect(t) \/ StartPublish(t)
  \/ CountSession(t) \/ Connected(t)

CallStep(t) == \E o \in Ops, k \in known : Call(t, o, k[1], k[2])

NetworkStep == \E s \in Slots : Complete(s) \/ PeerReset(s)

Next ==
  \/ \E t \in Threads : SharedStep(t)
  \/ \E w \in Workers : WorkerStep(w)
  \/ Accept(Acceptor)
  \/ AcceptStep(Acceptor)
  \/ \E t \in Callers : CallStep(t)
  \/ NetworkStep

Spec == Init /\ [][Next]_vars

(***************************************************************************)
(* The scheduler runs every thread, and a worker that waits on the port    *)
(* gets a completion when there is one.  Nothing is assumed of the peer,   *)
(* of the network or of further API calls.                                 *)
(***************************************************************************)
Fairness ==
  /\ \A t \in Threads : WF_vars(SharedStep(t))
  /\ \A w \in Workers : WF_vars(WorkerStep(w))
  /\ WF_vars(AcceptStep(Acceptor))

FairSpec == Spec /\ Fairness

------------------------------------------------------------------------------
(***************************************************************************)
(* Properties.                                                             *)
(***************************************************************************)

\* Program points at which a thread holds no reference to the session it works on.
Unreferenced ==
  {"idle", "tryRelease", "postJob", "accepted", "setup", "pushBack", "fields", "protect",
   "onDisconnect", "drain", "closeSocket", "uncount", "pushReady"}

\* Program points that rely on the session being the one the thread means.
Using ==
  {"readAddress", "setCancel", "cancelIoEx", "push", "disconnectFull", "takeFlag",
   "checkCancelSend", "peek", "clearFlag", "refSend", "wsaSend", "checkSendPending",
   "refRecv", "wsaRecv", "checkRecvPending", "checkCancelRecv", "onReceive", "popSent",
   "clearPending", "dropFlag", "checkMore", "loadRead", "loadWrite", "countSession", "onConnect"}

Labels == Unreferenced \cup Using \cup {"deref", "checkReleased", "checkId", "publish"}

ThreadTypes ==
  /\ pc \in [Threads -> Labels]
  /\ cur \in [Threads -> Slots \cup {NoSlot}]
  /\ arg \in [Threads -> Nat]
  /\ op \in [Threads -> {"none", "send", "disconnect", "address"}]
  /\ extra \in [Threads -> BOOLEAN]

FlagTypes ==
  /\ refCount \in [Slots -> Nat]
  /\ released \in [Slots -> BOOLEAN]

SessionTypes ==
  /\ cancelIo \in [Slots -> BOOLEAN]
  /\ isSending \in [Slots -> BOOLEAN]
  /\ id \in [Slots -> Nat]
  /\ sock \in [Slots -> {"closed", "open", "reset"}]

QueueTypes ==
  /\ queue \in [Slots -> Seq(Nat)]
  /\ readCursor \in [Slots -> 0..QueueCapacity]
  /\ pending \in [Slots -> 0..QueueCapacity]
  /\ seen \in [Threads -> 0..QueueCapacity]

PortTypes ==
  /\ recvIo \in [Slots -> IoStates \cup Threads]
  /\ sendIo \in [Slots -> IoStates \cup Threads]
  /\ jobs \in [Slots -> Nat]

ServerTypes ==
  /\ ready \subseteq Slots
  /\ idCounter \in Nat
  /\ sessionCount \in Nat
  /\ known \subseteq Nat \X Slots
  /\ calls \in Nat

\* Every variable has its type.  m_refCount never goes below zero, the send queue's cursors stay in
\* the ring, and m_sessionCount never wraps.
TypeOK == ThreadTypes /\ FlagTypes /\ SessionTypes /\ QueueTypes /\ PortTypes /\ ServerTypes

\* The threads that hold a reference to slot s, those that hold a second one, and whether an
\* operation holds one.
Holders(s) == {t \in Threads : cur[t] = s /\ pc[t] \notin Unreferenced}

SecondHolders(s) == {t \in Threads : cur[t] = s /\ extra[t]}

Outstanding(io) == IF io = "none" THEN 0 ELSE 1

\* m_refCount counts exactly the threads and operations that rely on the slot, through calls
\* that turn out stale, nested calls, failed posts and slot reuse ("+1 and -1 by other threads
\* must keep flowing", TCPSession::Start).
RefCountExact ==
  \A s \in Slots :
    refCount[s] = Cardinality(Holders(s)) + Cardinality(SecondHolders(s))
                    + Outstanding(recvIo[s]) + Outstanding(sendIo[s])

\* A thread that has passed the released and id checks, or serves a completion, never sees its
\* session released or the slot handed to another session underneath it; nor does an operation.
NoUseAfterRelease ==
  /\ \A t \in Threads : pc[t] \in Using =>
       /\ ~released[cur[t]]
       /\ sock[cur[t]] # "closed"
       /\ t \notin Workers => id[cur[t]] = arg[t]
  /\ \A s \in Slots : recvIo[s] # "none" \/ sendIo[s] # "none" => ~released[s] /\ sock[s] # "closed"

\* Program points at which a thread starts or releases the session of a slot.
Owning ==
  {"setup", "pushBack", "fields", "protect", "publish", "postJob",
   "onDisconnect", "drain", "closeSocket", "uncount", "pushReady"}

\* Who may decide a slot's future: the free list, a thread that starts or releases a session in
\* it, a posted release job, or nobody but its references while the session is live.
Owners(s) ==
  {t \in Threads : cur[t] = s /\ pc[t] \in Owning}
  \cup (IF s \in ready THEN {"ready"} ELSE {})
  \cup (IF jobs[s] > 0 THEN {"job"} ELSE {})
  \cup (IF released[s] THEN {} ELSE {"live"})

\* A session is released once: threads whose decrements race to zero, or that reach
\* TryReleaseSession after the slot was recycled, never release it twice, and unless posting
\* the job fails no slot is lost.
SlotHasOneOwner ==
  \A s \in Slots :
    /\ jobs[s] <= 1
    /\ \A a, b \in Owners(s) : a = b
    /\ "post" \notin Faults => Owners(s) # {}

\* At most one WSARecv and one OnReceiveData per session at any time, none before OnConnect has
\* returned: the receive buffer and OnReceive need no lock.
Receiving ==
  {"countSession", "onConnect", "onReceive", "checkCancelRecv", "refRecv", "wsaRecv"}

Receivers(s) ==
  {t \in Threads : cur[t] = s /\ pc[t] \in Receiving}
  \cup (IF recvIo[s] = "none" THEN {} ELSE {"recvIo"})

OneReceiver == \A s \in Slots : \A a, b \in Receivers(s) : a = b

\* The owner of m_isSending: a thread between taking and dropping it, or the WSASend.
Sending ==
  {"checkCancelSend", "peek", "clearFlag", "refSend", "wsaSend",
   "popSent", "clearPending", "dropFlag"}

SendOwners(s) ==
  {t \in Threads : cur[t] = s /\ pc[t] \in Sending}
  \cup (IF sendIo[s] = "none" THEN {} ELSE {"sendIo"})

\* m_isSending is owned by one at a time and set as long as it is owned, so only one thread
\* writes m_numOfPacketsPending and the ForceCrash of PostSend is not reached.
OneSender ==
  \A s \in Slots :
    /\ \A a, b \in SendOwners(s) : a = b
    /\ SendOwners(s) # {} => isSending[s]

\* While a WSASend refers to packets, they stay at the head of the queue: nobody frees a buffer
\* the kernel reads, and the worker's `sq.Size() >= transmitted` holds.
SentPacketsStayQueued ==
  \A s \in Slots :
    (sendIo[s] # "none" \/ \E t \in Threads : cur[t] = s /\ pc[t] \in {"refSend", "wsaSend", "popSent"})
      => pending[s] \in 1..Len(queue[s])

\* A packet is only ever queued for the session it was sent to, and a new session starts with an
\* empty queue: no packet crosses from a slot's old session to its next one.
PacketsReachTheirSession ==
  \A s \in Slots :
    /\ \A i \in 1..Len(queue[s]) : queue[s][i] = id[s]
    /\ s \in ready => queue[s] = <<>>

\* Program points at which the slot worked on has no session, or none that is counted.
Uncounting == {"setup", "pushBack", "fields", "protect", "publish", "countSession", "pushReady"}

Free(s) == s \in ready \/ \E t \in Threads : cur[t] = s /\ pc[t] \in Uncounting

Occupied == {s \in Slots : ~Free(s)}

\* m_sessionCount counts exactly the slots with a session, including those whose release job is
\* still posted: Shutdown's wait for zero waits for every OnDisconnect.
SessionCountExact == sessionCount = Cardinality(Occupied)

\* A live session that nobody is disconnecting never keeps m_isSending set without an owner:
\* such a session could not send again.
FlagNotLeaked ==
  \A s \in Slots :
    isSending[s] /\ ~released[s] /\ ~cancelIo[s] /\ sock[s] = "open" =>
      \/ SendOwners(s) # {}
      \/ \E t \in Threads : cur[t] = s /\ pc[t] = "setCancel" /\ extra[t]

\* A session that is disconnected by the application or reset by its peer is released, whatever
\* its threads were about to post, and its slot becomes free.
BrokenSessionIsRecycled ==
  \A s \in Slots :
    ~released[s] /\ (cancelIo[s] \/ sock[s] = "reset") ~> s \in ready

------------------------------------------------------------------------------
(***************************************************************************)
(* What assertions and comments of the source say, and the code does not.  *)
(***************************************************************************)

\* TCPSession.cpp:61, asserted when Start runs (and likewise at TCPServer.cpp:1190 for a release
\* job): the slot that is being started has no references.
StartAssertion == \A t \in Threads : pc[t] = "fields" => refCount[cur[t]] = 0 /\ released[cur[t]]

\* TCPSession.cpp:64, asserted when Start runs: no packets of an earlier session are pending.
StartPendingAssertion == \A t \in Threads : pc[t] = "fields" => pending[cur[t]] = 0

\* TCPServer.h:224, Send transmits the packet to the session: a packet queued for a healthy session
\* is in the hands of a thread or an operation that will send it.
NoStrandedPacket ==
  \A s \in Slots :
    queue[s] # <<>> /\ ~released[s] /\ ~cancelIo[s] /\ sock[s] = "open" =>
      \/ SendOwners(s) # {}
      \/ \E t \in Threads : cur[t] = s /\ pc[t] \in
           {"takeFlag", "checkMore", "loadRead", "loadWrite", "disconnectFull", "setCancel"}
====
