-------------------------- MODULE TCPServerInvariant --------------------------
(***************************************************************************)
(* The inductive invariant of TCPServer: its safety properties, and what   *)
(* they rest on at each program point.  The properties need each other:    *)
(* the count is exact because operations have one starter, they have one   *)
(* starter because a slot that is handed on is unused, and it is unused    *)
(* because the count is exact.                                             *)
(***************************************************************************)
EXTENDS TCPServer

\* A thread beyond the top of its loop works on a slot.
Located ==
  \A t \in Threads :
    /\ pc[t] \notin {"idle", "accepted"} => cur[t] \in Slots
    /\ pc[t] \in {"idle", "accepted"} => cur[t] = NoSlot

\* The second reference is held around WSASend and WSARecv, and by a Disconnect inside a Send.
SecondReferences ==
  \A t \in Threads :
    /\ pc[t] \in {"wsaSend", "wsaRecv"} => extra[t]
    /\ extra[t] =>
         pc[t] \in {"wsaSend", "wsaRecv", "checkReleased", "checkId", "setCancel", "cancelIoEx", "deref"}
    /\ extra[t] /\ pc[t] \in {"checkReleased", "checkId"} => op[t] = "disconnect"

\* Only application threads check ids, and only they push; only the accept thread starts sessions.
Roles ==
  \A t \in Workers :
    pc[t] \notin {"checkReleased", "checkId", "push", "disconnectFull", "readAddress", "accepted", "setup",
                  "pushBack", "fields", "protect", "publish", "countSession", "onConnect"}

\* Application threads execute the API only.
CallerRoles ==
  \A t \in Callers :
    pc[t] \in {"idle", "checkReleased", "checkId", "readAddress", "setCancel", "cancelIoEx", "push",
               "disconnectFull", "takeFlag", "checkCancelSend", "peek", "clearFlag", "refSend", "wsaSend",
               "checkSendPending", "deref", "tryRelease", "postJob"}

\* A session that is not released has a socket; one in use is not released, from the moment the
\* flag has been seen clear.
Alive ==
  /\ \A s \in Slots : ~released[s] => sock[s] # "closed"
  /\ \A t \in Threads : pc[t] \in Using \cup {"checkId"} => ~released[cur[t]]

\* A session is published with the id and the socket it was given.
Starting ==
  \A t \in Threads :
    pc[t] \in {"protect", "publish"} => id[cur[t]] = arg[t] /\ sock[cur[t]] # "closed"

\* Slots wait for their next session with an empty queue, and no queue outgrows its ring.
Queues ==
  /\ \A s \in Slots : Len(queue[s]) <= QueueCapacity
  /\ \A s \in ready : queue[s] = <<>>
  /\ \A t \in Threads :
       pc[t] \in {"setup", "pushBack", "fields", "closeSocket", "uncount", "pushReady"} =>
         queue[cur[t]] = <<>>

\* A thread cancels I/O after it has set m_cancelIo; a send fails only then or on a lost connection; and
\* a session starts with m_isSending clear.
FailuresAreCancelled ==
  /\ \A t \in Threads : pc[t] = "cancelIoEx" => cancelIo[cur[t]]
  /\ \A s \in Slots : sendIo[s] = "fail" => cancelIo[s] \/ sock[s] # "open"
  /\ \A t \in Threads : pc[t] \in {"protect", "publish"} => ~isSending[cur[t]]

\* The accept thread has given a session its id, and OnConnect has not been entered with it.
Numbered == {"protect", "publish", "countSession"}

\* Ids are handed out in order, and OnConnect has been given all of them but the one being started.
IdsInOrder ==
  /\ idCounter <= MaxIds
  /\ pc[Acceptor] \in {"accepted", "setup", "fields"} => idCounter < MaxIds
  /\ \A k \in known : k[1] \in 1..idCounter
  /\ \A i \in 1..idCounter :
       (\E k \in known : k[1] = i) \/ (pc[Acceptor] \in Numbered /\ i = idCounter)
  /\ pc[Acceptor] \in Numbered =>
       idCounter > 0 /\ arg[Acceptor] = idCounter /\ \A k \in known : k[1] # idCounter

\* No two slots have one id, and a slot that has, or had, a session has one.
IdsUnique ==
  /\ \A s \in Slots : id[s] <= idCounter
  /\ \A s, u \in Slots : id[s] = id[u] /\ id[s] # 0 => s = u
  /\ \A s \in Slots : ~released[s] \/ jobs[s] > 0 => id[s] # 0
  /\ \A t \in Threads : pc[t] \in {"protect", "publish", "postJob", "onDisconnect"} => id[cur[t]] # 0

\* Every safety property of the engine that a recycled slot depends on, and what holds at each
\* program point in between: preserved by every step of the accept thread, the workers, the
\* callers and the network.
IInv ==
  /\ TypeOK
  /\ Located
  /\ SecondReferences
  /\ Roles
  /\ CallerRoles
  /\ Alive
  /\ Starting
  /\ Queues
  /\ RefCountExact
  /\ NoUseAfterRelease
  /\ SlotHasOneOwner
  /\ OneReceiver
  /\ OneSender
  /\ SentPacketsStayQueued
  /\ PacketsReachTheirSession
  /\ SessionCountExact
  /\ FailuresAreCancelled
  /\ FlagNotLeaked
  /\ IdsInOrder
  /\ IdsUnique

------------------------------------------------------------------------------

\* A call with any id, given to the application or not: Shutdown reads the ids it passes to
\* Disconnect off the slots.
AnyCall(t) ==
  \E o \in {"send", "disconnect", "address"}, g \in Nat, s \in Slots :
    Enter(t, o, g, s) /\ calls' \in Nat

\* The steps under which IInv is kept: those of the server, whatever ids it is called with.
AnyNext ==
  \/ \E t \in Threads : SharedStep(t)
  \/ \E w \in Workers : WorkerStep(w)
  \/ Accept(Acceptor)
  \/ AcceptStep(Acceptor)
  \/ \E t \in Callers : AnyCall(t)
  \/ NetworkStep
====
