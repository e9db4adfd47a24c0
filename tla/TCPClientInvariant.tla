-------------------------- MODULE TCPClientInvariant --------------------------
(***************************************************************************)
(* The inductive invariant of TCPClient: its safety properties, and what   *)
(* they rest on at each program point, as long as the client is intact.    *)
(***************************************************************************)
EXTENDS TCPClient

\* Who runs which part of the program; only a refused Connect is marked as such.
Roles ==
  /\ pc[Connector] \in {"idle", "closeSocket", "clearSocket"} \cup Attempting
  /\ \A t \in Callers : pc[t] \notin Attempting \cup Starting \cup Releasing
  /\ \A t \in Workers : pc[t] \notin Attempting \cup {"checkReleased", "push", "disconnectFull", "checkCancelSend"}
  /\ \A t \in Threads : op[t] = "refused" =>
       /\ t = Connector
       /\ pc[t] \in {"cleanup", "closeSocket", "clearSocket", "resetState"}
       /\ state # "connecting"
       /\ ConnectsWhile # {}

\* The second reference is held around WSASend and WSARecv, and by a Disconnect inside a Send.
SecondReferences ==
  \A t \in Threads :
    /\ pc[t] \in {"wsaSend", "wsaRecv"} => extra[t]
    /\ extra[t] => pc[t] \in {"wsaSend", "wsaRecv", "checkReleased", "setCancel", "cancelIoEx", "deref"}
    /\ extra[t] /\ pc[t] = "checkReleased" => op[t] = "disconnect"

\* m_state and m_released at each point of an attempt, of a start and of a release.
Stages ==
  /\ \A t \in Threads :
       /\ pc[t] \in Attempting \cup {"startFields", "connectFailed"} /\ op[t] # "refused" => state = "connecting"
       /\ t = Connector /\ pc[t] \in {"closeSocket", "clearSocket"} /\ op[t] # "refused" => state = "connecting"
       /\ t \in Workers /\ pc[t] \in Releasing => state = "connected"
       /\ pc[t] \in {"publish", "startRef", "postJob"} => state = "connected"
       /\ pc[t] = "startRef" => ~released
       /\ pc[t] \in Using => ~released
  /\ connIo # "none" => state = "connecting"
  /\ jobs # 0 \/ ~released => state = "connected"
  /\ recvIo # "none" \/ sendIo # "none" => ~released

\* m_sock at each point: an attempt works on a socket of its own, and closes it or hands it on.
Sockets ==
  /\ connIo \in Threads \cup {"fail"} => sock = "fresh"
  /\ connIo = "ok" => sock \in {"open", "reset"}
  /\ \A t \in Threads :
       /\ pc[t] \in {"prepare", "connectEx", "connectFailed"} => sock = "fresh"
       /\ pc[t] = "resetState" /\ op[t] # "refused" => sock = "none"
       /\ pc[t] = "startFields" => sock \in {"open", "reset"}
       /\ pc[t] \in {"publish", "startRef"} /\ ConnectsWhile = {} => sock \in {"open", "reset"}
       /\ pc[t] = "setIdle" => sock = "none"
       /\ op[t] = "refused" /\ state = "idle" => sock = "none"
  /\ ~released /\ ConnectsWhile = {} => sock \in {"open", "reset"}
  /\ state = "idle" => sock \in {"none", "fresh"}

\* The packets of a connection are gone when it is released.
Emptied ==
  /\ state # "connected" => queue = <<>>
  /\ \A t \in Threads :
       pc[t] \in {"publish", "setIdle"} \/ (t \in Workers /\ pc[t] \in {"closeSocket", "clearSocket"}) =>
         queue = <<>>

\* The thread that is to receive, from the publication of a connection on, or the WSARecv.
Receiving == {"startRef", "onConnect", "checkCancelRecv", "refRecv", "wsaRecv", "onReceive"}

Receivers == {t \in Threads : pc[t] \in Receiving} \cup (IF recvIo = "none" THEN {} ELSE {"recvIo"})

\* OnReceive is not called twice at once, and there is one WSARecv at a time.
OneReceiver == \A a, b \in Receivers : a = b

\* Whoever cancels the operations has set m_cancelIo, and a send fails only on a connection that is
\* being disconnected or is lost: the worker that dequeues the failure does not clear m_isSending.
FailuresAreCancelled ==
  /\ \A t \in Threads : pc[t] = "cancelIoEx" => cancelIo
  /\ sendIo = "fail" => cancelIo \/ sock # "open"

\* The safety properties of the client and what holds at each program point in between.
IInv ==
  /\ TypeOK
  /\ Roles
  /\ SecondReferences
  /\ Stages
  /\ Sockets
  /\ Emptied
  /\ RefCountExact
  /\ NoUseAfterRelease
  /\ OneOwner
  /\ OneReceiver
  /\ OneSender
  /\ NothingCrossesConnections
  /\ FailuresAreCancelled

\* IInv is inductive up to the first of the two steps that break the client.
InvariantWhileIntact == Intact => IInv
====
