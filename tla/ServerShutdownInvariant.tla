----------------------- MODULE ServerShutdownInvariant -----------------------
(***************************************************************************)
(* The inductive invariant of ServerShutdown: the invariant of the server, *)
(* which Run and Shutdown do not disturb, and at each stage of Run and     *)
(* Shutdown what is held, which threads may run, and how quiet the server  *)
(* is.                                                                     *)
(***************************************************************************)
EXTENDS ServerShutdown, TCPServerInvariant

Memory == {"log", "recvBufs", "sendQueues", "sessions"}

\* Stages only an initialised server reaches, those it passes after them, and those before any thread
\* of the server has been resumed.
InitialisedOnly == {"running", "scan", "getId", "disconnect"}

AfterScan == {"joinAccept", "waitCount", "joinWorkers", "free"}

BeforeResume == {"stopped", "acquire", "createThreads", "closeListen", "done"}

\* What is held at each stage.
Held ==
  /\ ServerThreads \ exited \subseteq held
  /\ held \cap ServerThreads # {} => Memory \subseteq held
  /\ listening => portOpen
  /\ stage = "createThreads" =>
       {Resources[i] : i \in 1..Len(Resources)} \subseteq held /\ exited \cap held = {}
  /\ stage \in (ShutdownStages \ {"closeListen"}) \cup {"stopped", "done"} => ~listening
  /\ stage \in {"joinWorkers", "free", "stopped", "done"} => ~portOpen

\* m_init is set from ResumeAll to FreeAll; in between the memory stays, and the workers run while the
\* port is open.
Initialised ==
  /\ init => stage \in InitialisedOnly \cup AfterScan
  /\ stage \in InitialisedOnly => init
  /\ init => Memory \subseteq held /\ suspended = {}
  /\ init /\ portOpen => Workers \cap exited = {}

\* The accept thread of a server that is not initialised does not get past listen.
AcceptThread ==
  /\ ~init => acceptAt = "entry"
  /\ stage \in BeforeResume => Acceptor \in suspended \cup exited

\* A thread that has returned, or was not started, does nothing.
Exited ==
  /\ suspended \cap exited = {}
  /\ \A t \in exited : pc[t] = "idle"

\* Before a server is initialised and after it is freed it has no sessions, and its threads are at rest.
AtRest == ~init => ready = Slots /\ sessionCount = 0 /\ \A t \in ServerThreads : pc[t] = "idle"

\* From ClosePort on there are no sessions and there is nobody to start one.
PortClosed == ~portOpen => sessionCount = 0 /\ pc[Acceptor] = "idle"

\* A slot that is free, or is about to be, has no socket.
SocketsClosed ==
  /\ \A s \in ready : sock[s] = "closed"
  /\ \A t \in Threads :
       pc[t] \in {"setup", "pushBack", "fields", "uncount", "pushReady"} => sock[cur[t]] = "closed"

Scanning == stage \in {"getId", "disconnect"} => target.slot \in Slots

SInv ==
  /\ IInv
  /\ ShutdownTypeOK
  /\ Held
  /\ Initialised
  /\ AcceptThread
  /\ Exited
  /\ AtRest
  /\ PortClosed
  /\ SocketsClosed
  /\ Scanning
====
