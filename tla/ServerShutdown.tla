---------------------------- MODULE ServerShutdown ----------------------------
(***************************************************************************)
(* TCPServer::Run and TCPServer::Shutdown, executed by one more            *)
(* application thread.  Run acquires the server's resources one after the  *)
(* other, creates its threads suspended, resumes them, waits for the end   *)
(* key and calls Shutdown; when a step fails, it calls Shutdown on what it *)
(* has so far.  Shutdown closes the listening socket, disconnects every    *)
(* session it finds, joins the accept thread, waits for m_sessionCount to  *)
(* reach zero, closes the completion port, joins the workers and frees the *)
(* rest.                                                                   *)
(*                                                                         *)
(* The thread is one of the Callers; its calls of Disconnect take the      *)
(* steps of TCPServer.  The variables of TCPServer start with the values   *)
(* that Run gives the sessions, which exist as long as "sessions" is held. *)
(***************************************************************************)
EXTENDS TCPServer

CONSTANTS
  Main,              \* the thread that calls Run, which calls Shutdown
  WaitsForAccept,    \* a running server is not shut down while its accept thread is between two accepts
  MaxFailures        \* bound of the model: the calls of Run that fail one after the other

ASSUME ShutdownAssumption ==
  /\ Main \in Callers
  /\ Threads \cap {"log", "recvBufs", "sendQueues", "sessions", "port", "listenSock"} = {}
  /\ WaitsForAccept \in BOOLEAN
  /\ MaxFailures \in Nat

VARIABLES
  stage,         \* where Main is in Run and Shutdown
  init,          \* m_init
  held,          \* what Run has acquired: memory, handles, and the handles of threads
  suspended,     \* threads that were created and not resumed yet
  exited,        \* threads that do not exist, or have returned from their entry function
  acceptAt,      \* the accept thread is before listen ("entry"), in accept() ("blocked"), or in its loop
  unscanned,     \* slots DisconnectAllSessions has not looked at
  target,        \* the slot it is at, and the id it has read there
  failures       \* the calls of Run that failed since the last that did not

shutdown == <<stage, init, held, suspended, exited, acceptAt, unscanned, target, failures>>
allVars  == <<vars, shutdown>>

ServerThreads == {Acceptor} \cup Workers

\* What Run acquires before it creates threads, in this order.
Resources == <<"log", "recvBufs", "sendQueues", "sessions", "port", "listenSock">>

ShutdownStages ==
  {"closeListen", "scan", "getId", "disconnect", "joinAccept", "waitCount", "joinWorkers", "free"}

Stages == {"stopped", "acquire", "createThreads", "running", "done"} \cup ShutdownStages

listening == "listenSock" \in held

\* DisconnectAllSessions is at no slot.
NoTarget == [slot |-> NoSlot, id |-> 0]

portOpen == "port" \in held

------------------------------------------------------------------------------
\* Run.

StartRun ==
  /\ stage = "stopped"
  /\ stage' = "acquire"
  /\ UNCHANGED <<vars, init, held, suspended, exited, acceptAt, unscanned, target, failures>>

Acquire(i) ==
  /\ stage = "acquire"
  /\ held = {Resources[j] : j \in 1..(i - 1)}
  /\ held' = held \cup {Resources[i]}
  /\ stage' = IF i = Len(Resources) THEN "createThreads" ELSE "acquire"
  /\ UNCHANGED <<vars, init, suspended, exited, acceptAt, unscanned, target, failures>>

\* LogBeginThreadEx with CREATE_SUSPENDED: the accept thread, then the workers.
CreateThread(t) ==
  /\ stage = "createThreads"
  /\ t \notin held
  /\ t \in Workers => Acceptor \in held
  /\ held' = held \cup {t}
  /\ suspended' = suspended \cup {t}
  /\ exited' = exited \ {t}
  /\ UNCHANGED <<vars, stage, init, acceptAt, unscanned, target, failures>>

\* Any of these calls may fail (InetPton and bind after the listening socket was created): Run
\* leaves its block with m_init still false and calls Shutdown.
RunFails ==
  /\ stage = "acquire" \/ (stage = "createThreads" /\ ~(ServerThreads \subseteq held))
  /\ failures < MaxFailures
  /\ failures' = failures + 1
  /\ stage' = "closeListen"
  /\ UNCHANGED <<vars, init, held, suspended, exited, acceptAt, unscanned, target>>

\* ResumeThread on every thread, and m_init, which only Main reads.
ResumeAll ==
  /\ stage = "createThreads"
  /\ ServerThreads \subseteq held
  /\ suspended' = {}
  /\ init' = TRUE
  /\ stage' = "running"
  /\ failures' = 0
  /\ UNCHANGED <<vars, held, exited, acceptAt, unscanned, target>>

RunStep ==
  \/ StartRun
  \/ \E i \in 1..Len(Resources) : Acquire(i)
  \/ \E t \in ServerThreads : CreateThread(t)
  \/ RunFails
  \/ ResumeAll

------------------------------------------------------------------------------
\* The accept thread.

AcceptIdle == pc[Acceptor] = "idle" /\ Acceptor \notin suspended \cup exited

\* listen fails on a socket that Shutdown has closed, and may fail on an open one; the thread
\* then returns.
Listen ==
  /\ AcceptIdle
  /\ acceptAt = "entry"
  /\ \/ listening /\ acceptAt' = "loop" /\ UNCHANGED exited
     \/ exited' = exited \cup {Acceptor} /\ UNCHANGED acceptAt
  /\ UNCHANGED <<vars, stage, init, held, suspended, unscanned, target, failures>>

\* accept() blocks on a listening socket.  On a closed one it fails at once with WSAENOTSOCK, which
\* is logged, and the loop goes on: nothing changes.
EnterAccept ==
  /\ AcceptIdle
  /\ acceptAt = "loop"
  /\ listening
  /\ acceptAt' = "blocked"
  /\ UNCHANGED <<vars, stage, init, held, suspended, exited, unscanned, target, failures>>

LeaveAccept ==
  /\ acceptAt = "blocked"
  /\ Accept(Acceptor)
  /\ acceptAt' = "loop"
  /\ UNCHANGED <<stage, init, held, suspended, exited, unscanned, target, failures>>

\* Mutant: the loop goes on after WSAEINTR as it does after every other error.
StaysOnInterrupt == exited

\* `if (ec == WSAEINTR) exit = true`: the socket was closed while accept was blocked on it.
ExitsOnInterrupt == IF acceptAt = "blocked" THEN exited \cup {Acceptor} ELSE exited

------------------------------------------------------------------------------
\* Shutdown.

\* The socket is closed; an initialised server then disconnects its sessions.
CloseListen ==
  /\ stage \in {"running", "closeListen"}
  /\ pc[Main] = "idle"
  /\ stage = "running" /\ WaitsForAccept =>
       acceptAt # "loop" \/ Acceptor \in exited
  /\ held' = held \ {"listenSock"}
  /\ exited' = ExitsOnInterrupt
  /\ acceptAt' = IF acceptAt = "blocked" THEN "loop" ELSE acceptAt
  /\ stage' = IF init THEN "scan" ELSE "joinAccept"
  /\ unscanned' = IF init THEN Slots ELSE {}
  /\ UNCHANGED <<vars, init, suspended, target, failures>>

\* DisconnectAllSessions: a released slot is skipped.
ScanSlot(s) ==
  /\ stage = "scan" /\ pc[Main] = "idle"
  /\ s \in unscanned
  /\ unscanned' = unscanned \ {s}
  /\ IF released[s]
       THEN UNCHANGED <<stage, target>>
       ELSE stage' = "getId" /\ target' = [slot |-> s, id |-> 0]
  /\ UNCHANGED <<vars, init, held, suspended, exited, acceptAt, failures>>

ScanGetId ==
  /\ stage = "getId"
  /\ stage' = "disconnect"
  /\ target' = [target EXCEPT !.id = id[target.slot]]
  /\ UNCHANGED <<vars, init, held, suspended, exited, acceptAt, unscanned, failures>>

\* Disconnect(session.GetId()) is entered; its steps are those of TCPServer.
ScanDisconnect ==
  /\ stage = "disconnect"
  /\ stage' = "scan"
  /\ Enter(Main, "disconnect", target.id, target.slot)
  /\ target' = NoTarget
  /\ UNCHANGED <<calls, init, held, suspended, exited, acceptAt, unscanned, failures>>

ScanDone ==
  /\ stage = "scan" /\ pc[Main] = "idle"
  /\ unscanned = {}
  /\ stage' = "joinAccept"
  /\ UNCHANGED <<vars, init, held, suspended, exited, acceptAt, unscanned, target, failures>>

\* Mutant: a thread that was never started is waited for all the same.
StaysSuspended == FALSE

\* `if (!m_init) ResumeThread(...)`: a suspended thread could not be joined.
ResumesSuspended == ~init

\* Before Main waits for thread t.
ResumeToJoin(t) ==
  /\ ResumesSuspended
  /\ stage = IF t = Acceptor THEN "joinAccept" ELSE "joinWorkers"
  /\ t \in suspended
  /\ suspended' = suspended \ {t}
  /\ UNCHANGED <<vars, stage, init, held, exited, acceptAt, unscanned, target, failures>>

JoinAccept ==
  /\ stage = "joinAccept"
  /\ Acceptor \in exited
  /\ held' = held \ {Acceptor}
  /\ stage' = "waitCount"
  /\ UNCHANGED <<vars, init, suspended, exited, acceptAt, unscanned, target, failures>>

\* Mutant: the wait for the release jobs is left out.
NoWait == TRUE

\* `while (m_sessionCount > 0) Sleep(100);`
AllReleased == sessionCount = 0

ClosePort ==
  /\ stage = "waitCount"
  /\ portOpen => AllReleased
  /\ held' = held \ {"port"}
  /\ stage' = "joinWorkers"
  /\ UNCHANGED <<vars, init, suspended, exited, acceptAt, unscanned, target, failures>>

\* GetQueuedCompletionStatus fails: the port was closed during the call, or before it.
WorkerExit(w) ==
  /\ ~portOpen
  /\ pc[w] = "idle" /\ w \notin suspended \cup exited
  /\ exited' = exited \cup {w}
  /\ UNCHANGED <<vars, stage, init, held, suspended, acceptAt, unscanned, target, failures>>

\* Mutant: the workers are not waited for.
JoinNone == TRUE

\* WaitForSingleObject on every worker thread.
AllJoined == Workers \subseteq exited

JoinWorkers ==
  /\ stage = "joinWorkers"
  /\ AllJoined
  /\ held' = held \ Workers
  /\ stage' = "free"
  /\ UNCHANGED <<vars, init, suspended, exited, acceptAt, unscanned, target, failures>>

\* Every thread joined: the sessions, their buffers, the free list and the log go away.  After a
\* failure the application may call Run again.
FreeAll ==
  /\ stage = "free"
  /\ held' = {}
  /\ init' = FALSE
  /\ stage' = IF init THEN "done" ELSE "stopped"
  /\ acceptAt' = "entry"
  /\ UNCHANGED <<vars, suspended, exited, unscanned, target, failures>>

ShutdownStep ==
  \/ CloseListen \/ ScanDone \/ ScanGetId \/ ScanDisconnect
  \/ \E s \in Slots : ScanSlot(s)
  \/ \E t \in ServerThreads : ResumeToJoin(t)
  \/ JoinAccept \/ ClosePort \/ JoinWorkers \/ FreeAll

------------------------------------------------------------------------------

InitAll ==
  /\ Init
  /\ stage = "stopped"
  /\ init = FALSE
  /\ held = {}
  /\ suspended = {}
  /\ exited = ServerThreads
  /\ acceptAt = "entry"
  /\ unscanned = {}
  /\ target = NoTarget
  /\ failures = 0

\* A worker takes completions only from an open port.
RunningWorkerStep(w) == (pc[w] = "idle" => portOpen) /\ WorkerStep(w)

NextAll ==
  \/ RunStep
  \/ Listen \/ EnterAccept \/ LeaveAccept
  \/ ShutdownStep
  \/ \E w \in Workers : WorkerExit(w)
  \/ /\ \/ \E t \in Threads : SharedStep(t)
        \/ \E w \in Workers : RunningWorkerStep(w)
        \/ AcceptStep(Acceptor)
        \/ \E t \in Callers \ {Main} : CallStep(t)
        \/ NetworkStep
     /\ UNCHANGED shutdown

(***************************************************************************)
(* Every thread runs, Main included once Shutdown has been called.         *)
(***************************************************************************)
ShutdownFairness ==
  /\ \A t \in Threads : WF_allVars(SharedStep(t) /\ UNCHANGED shutdown)
  /\ \A w \in Workers : WF_allVars((RunningWorkerStep(w) /\ UNCHANGED shutdown) \/ WorkerExit(w))
  /\ WF_allVars((AcceptStep(Acceptor) /\ UNCHANGED shutdown) \/ Listen \/ EnterAccept)
  /\ WF_allVars(stage \in ShutdownStages /\ ShutdownStep)

SafeSpecAll == InitAll /\ [][NextAll]_allVars

SpecAll == SafeSpecAll /\ ShutdownFairness

------------------------------------------------------------------------------

\* The state of Run and Shutdown has its type; a thread blocked in accept has a listening socket and
\* has not returned; past a join, Shutdown relies on threads that have returned.
ShutdownTypeOK ==
  /\ stage \in Stages
  /\ init \in BOOLEAN
  /\ held \subseteq {Resources[i] : i \in 1..Len(Resources)} \cup ServerThreads
  /\ suspended \subseteq held \cap ServerThreads
  /\ exited \subseteq ServerThreads
  /\ acceptAt \in {"entry", "blocked", "loop"}
  /\ acceptAt = "blocked" => listening /\ Acceptor \notin exited /\ pc[Acceptor] = "idle"
  /\ unscanned \subseteq Slots
  /\ target \in [slot : Slots \cup {NoSlot}, id : Nat]
  /\ failures \in 0..MaxFailures
  /\ stage \in {"waitCount", "joinWorkers", "free"} => Acceptor \in exited
  /\ stage \in {"stopped", "free", "done"} => exited = ServerThreads /\ suspended = {}

\* When Shutdown closes the port nothing is left that would need a worker: every session has been
\* released and its OnDisconnect has returned, no operation or job is outstanding
\* (TCPServer.cpp:440, "no session may remain when every worker has exited").
NothingLeftBehind ==
  ~portOpen =>
    /\ sessionCount = 0
    /\ \A s \in Slots : released[s] /\ recvIo[s] = "none" /\ sendIo[s] = "none" /\ jobs[s] = 0
    /\ \A w \in Workers : pc[w] \notin {"onReceive", "onDisconnect"}

\* The slots, their buffers and the log exist as long as a thread of the server does, also when Run
\* fails half-way, and hold nothing when they are freed.
FreedUnused ==
  held \cap {"log", "recvBufs", "sendQueues", "sessions"} = {} =>
    /\ ready = Slots
    /\ \A s \in Slots : queue[s] = <<>> /\ sock[s] = "closed"
    /\ \A t \in ServerThreads : t \in exited /\ pc[t] = "idle"

\* The accept thread ends once Shutdown has closed the listening socket, blocked in accept, not yet
\* listening, or never started (TCPServer.cpp:386, "close the listen socket -> the accept thread ends").
AcceptThreadEnds == ~listening ~> Acceptor \in exited

\* Shutdown returns, of a running server and of one that Run could not complete: no join waits for a
\* thread that was created but never started.
ShutdownReturns == stage \in ShutdownStages ~> stage \in {"stopped", "done"}
====
