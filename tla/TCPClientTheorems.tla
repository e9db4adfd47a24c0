-------------------------- MODULE TCPClientTheorems --------------------------
(***************************************************************************)
(* What TCPClient does as long as it is intact, with any number of         *)
(* workers, callers, connects, calls, queue entries and packets per send,  *)
(* whenever the API is called and whichever of the modelled calls fail;    *)
(* and that until then it implements SessionCallbacks when release jobs    *)
(* can be posted.                                                          *)
(***************************************************************************)
EXTENDS TCPClientSteps

\* The groups of variables and the building blocks of steps are expanded everywhere.
USE DEF flag, sending, packets, port, history, app, local, Goto, Branch, Return, AddRef, AddRecvRef

----------------------------------------------------------------------------
(***************************************************************************)
(* The invariant is inductive.                                             *)
(***************************************************************************)

\* The invariant holds when the client has been constructed.
LEMMA InitialInvariant == Init => IInv
<1> SUFFICES ASSUME Init PROVE IInv
  OBVIOUS
<1> USE DEF Init
<1>1. TypeOK
  <2>1. ThreadTypes
    BY SizeAssumption DEF ThreadTypes, Points, Unreferenced
  <2>2. ClientTypes /\ PortTypes
    BY DEF ClientTypes, PortTypes, IoStates
  <2>3. QueueTypes
    BY SizeAssumption DEF QueueTypes
  <2>q. QED
    BY <2>1, <2>2, <2>3 DEF TypeOK
<1>2. Roles /\ SecondReferences
  BY DEF Roles, SecondReferences, Threads, Attempting, Starting, Releasing
<1>3. Stages /\ Sockets /\ Emptied
  <2>1. Stages
    BY DEF Stages, Threads, Attempting, Releasing, Using
  <2>2. Sockets
    BY ThreadAssumption DEF Sockets, IoStates
  <2>3. Emptied
    BY DEF Emptied
  <2>q. QED
    BY <2>1, <2>2, <2>3
<1>4. RefCountExact
  <2>1. Holders = {} /\ SecondHolders = {}
    BY DEF Holders, SecondHolders, Unreferenced
  <2>2. Cardinality(Holders) = 0 /\ Cardinality(SecondHolders) = 0
    BY <2>1, FS_EmptySet
  <2>q. QED
    BY <2>2 DEF RefCountExact, Outstanding
<1>5. NoUseAfterRelease
  BY DEF NoUseAfterRelease, Using
<1>6. OneOwner
  BY DEF OneOwner, Owners, OwningPoints, Attempting, Releasing
<1>7. OneReceiver /\ OneSender
  BY DEF OneReceiver, OneSender, Receivers, SendOwners, Receiving, SendingPoints
<1>8. NothingCrossesConnections
  BY DEF NothingCrossesConnections
<1>9. FailuresAreCancelled
  BY DEF FailuresAreCancelled
<1>q. QED
  BY <1>1, <1>2, <1>3, <1>4, <1>5, <1>6, <1>7, <1>8, <1>9 DEF IInv

\* Every step that leaves the client intact keeps the invariant.
LEMMA InvariantStep ==
  ASSUME ~spoiled', IInv, [Next]_vars
  PROVE  IInv'
<1>1. /\ ThreadTypes /\ ClientTypes /\ QueueTypes /\ PortTypes
      /\ Roles /\ SecondReferences /\ Stages /\ Sockets /\ Emptied
      /\ RefCountExact /\ NoUseAfterRelease /\ OneOwner /\ OneReceiver /\ OneSender
      /\ NothingCrossesConnections /\ FailuresAreCancelled
  BY DEF IInv, TypeOK
<1>2. Counted
  BY <1>1, CountedByCardinality
<1>3. OwnersApart /\ Owned /\ ReceiversApart /\ SendersApart /\ BatchQueued
  BY <1>1, OwnersByThread, ReceiversByThread, SendersByThread
<1>4. OnItsConnection
  BY <1>1, ThreadAssumption DEF NoUseAfterRelease, OnItsConnection, Threads
<1>5. Queued
  BY <1>1 DEF NothingCrossesConnections, Queued
<1>6. Roles' /\ SecondReferences'
  BY <1>1, RolesStep, SecondReferencesStep
<1>7. Stages' /\ Sockets' /\ Emptied'
  BY <1>1, <1>2, <1>3, StagesStep, SocketsStep, EmptiedStep
<1>8. OwnersApart' /\ Owned' /\ ReceiversApart' /\ SendersApart' /\ BatchQueued'
  BY <1>1, <1>2, <1>3, OwnersApartStep, OwnedStep, ReceiversApartStep, SendersApartStep, BatchQueuedStep
<1>9. OnItsConnection' /\ Queued'
  BY <1>1, <1>3, <1>4, <1>5, OnItsConnectionStep, QueuedStep
<1>10. RefCountExact'
  BY <1>1, <1>3, RefCountExactStep
<1>11. ThreadTypes' /\ ClientTypes' /\ QueueTypes' /\ PortTypes'
  BY <1>1, <1>3, <1>10, ThreadTypesStep, ClientTypesStep, QueueTypesStep, PortTypesStep
<1>12. OneOwner' /\ OneReceiver' /\ OneSender'
  <2>1. PortTypes' => (OneOwner' <=> OwnersApart' /\ Owned')
    BY OwnersByThread, PTL
  <2>2. OneReceiver' <=> ReceiversApart'
    BY ReceiversByThread, PTL
  <2>3. OneSender' <=> SendersApart' /\ BatchQueued'
    BY SendersByThread, PTL
  <2>q. QED
    BY <1>8, <1>11, <2>1, <2>2, <2>3
<1>13. NoUseAfterRelease'
  <2> SUFFICES ASSUME ((\E t \in Threads : pc[t] \in Using) \/ recvIo # "none" \/ sendIo # "none")'
               PROVE  (/\ ~released
                       /\ state = "connected"
                       /\ ConnectsWhile = {} => sock \in {"open", "reset"}
                       /\ \A t \in Callers : pc[t] \in Using => arg[t] = conn)'
    BY DEF NoUseAfterRelease
  <2>1. ~released'
    BY <1>7 DEF Stages
  <2>2. state' = "connected"
    BY <1>7, <2>1 DEF Stages
  <2>3. ConnectsWhile = {} => sock' \in {"open", "reset"}
    BY <1>7, <2>1 DEF Sockets
  <2>q. QED
    BY <1>9, <2>1, <2>2, <2>3 DEF OnItsConnection
<1>14. NothingCrossesConnections'
  <2>1. \A i \in 1..Len(queue') : queue'[i] = conn'
    BY <1>9 DEF Queued
  <2>2. state' = "idle" => queue' = <<>> /\ sock' \in {"none", "fresh"}
    BY <1>7 DEF Emptied, Sockets
  <2>3. state' = "idle" => recvIo' = "none" /\ sendIo' = "none"
    BY <1>7 DEF Stages
  <2>q. QED
    BY <2>1, <2>2, <2>3 DEF NothingCrossesConnections
<1>15. FailuresAreCancelled'
  BY <1>1, FailuresAreCancelledStep
<1>q. QED
  BY <1>6, <1>7, <1>10, <1>11, <1>12, <1>13, <1>14, <1>15 DEF IInv, TypeOK

\* Whether the client has been broken is known.
SpoiledKnown == spoiled \in BOOLEAN

\* It is known in every reachable state.
LEMMA IntactIsKnown == Spec => []SpoiledKnown
<1>1. Init => SpoiledKnown
  BY DEF Init, SpoiledKnown
<1>2. SpoiledKnown /\ [Next]_vars => SpoiledKnown'
  BY SpoiledStays DEF SpoiledKnown
<1>q. QED
  BY <1>1, <1>2, PTL DEF Spec

\* In every reachable state in which the client is intact the inductive invariant holds.
THEOREM Invariance == Spec => []InvariantWhileIntact
<1>1. Init => InvariantWhileIntact
  BY InitialInvariant DEF InvariantWhileIntact
<1>2. SpoiledKnown /\ InvariantWhileIntact /\ [Next]_vars => InvariantWhileIntact'
  <2> SUFFICES ASSUME SpoiledKnown, InvariantWhileIntact, [Next]_vars, ~spoiled'
               PROVE  IInv'
    BY DEF InvariantWhileIntact, Intact
  <2>1. ~spoiled
    BY SpoiledStays DEF SpoiledKnown
  <2>2. IInv
    BY <2>1 DEF InvariantWhileIntact, Intact
  <2>q. QED
    BY <2>2, InvariantStep
<1>q. QED
  BY <1>1, <1>2, IntactIsKnown, PTL DEF Spec

----------------------------------------------------------------------------
(***************************************************************************)
(* The properties of the client.                                           *)
(***************************************************************************)

\* Every variable keeps its type; m_refCount and the number of posted jobs never go below zero, and
\* the send queue's cursors stay in the ring.
THEOREM TypeCorrectness == Spec => [](Intact => TypeOK)
<1>1. InvariantWhileIntact => (Intact => TypeOK)
  BY DEF InvariantWhileIntact, IInv
<1>q. QED
  BY <1>1, Invariance, PTL

\* m_refCount is exactly the number of threads and operations that rely on the client, across every
\* release and reconnection: it is never reset (Connect, StartClient, TryReleaseClient).
THEOREM ReferencesAreCounted == Spec => []CountsWhileIntact
<1>1. InvariantWhileIntact => CountsWhileIntact
  BY DEF InvariantWhileIntact, IInv, CountsWhileIntact
<1>q. QED
  BY <1>1, Invariance, PTL

\* No thread and no operation sees the client released, closed or reconnected underneath it: the check
\* of m_released at the top of Send and Disconnect is sufficient (TCPClientEngine.cpp:223).
THEOREM ClientsOutliveTheirUsers == Spec => []UsersSafeWhileIntact
<1>1. InvariantWhileIntact => UsersSafeWhileIntact
  BY DEF InvariantWhileIntact, IInv, UsersSafeWhileIntact
<1>q. QED
  BY <1>1, Invariance, PTL

\* The client passes from Connect to the operation, the worker, its references, the release job and
\* back to idle, with one owner at a time, and is never lost unless a job cannot be posted.
THEOREM ClientsAreReleasedOnce == Spec => []OneOwnerWhileIntact
<1>1. InvariantWhileIntact => OneOwnerWhileIntact
  BY DEF InvariantWhileIntact, IInv, OneOwnerWhileIntact
<1>q. QED
  BY <1>1, Invariance, PTL

\* One WSARecv or one OnReceive at any time (PostRecv, OnReceiveData).
THEOREM ReceivingIsExclusive == Spec => [](Intact => OneReceiver)
<1>1. InvariantWhileIntact => (Intact => OneReceiver)
  BY DEF InvariantWhileIntact, IInv
<1>q. QED
  BY <1>1, Invariance, PTL

\* m_isSending has one owner at a time, and the packets its WSASend refers to stay at the head of the
\* queue: the ForceCrash of PostSend is not reached.
THEOREM SendingIsExclusive == Spec => []OneSenderWhileIntact
<1>1. InvariantWhileIntact => OneSenderWhileIntact
  BY DEF InvariantWhileIntact, IInv, OneSenderWhileIntact
<1>q. QED
  BY <1>1, Invariance, PTL

\* No packet, operation or socket of a connection reaches the next one (DoClientReleaseJob, Connect).
THEOREM ConnectionsAreSeparate == Spec => []SeparateWhileIntact
<1>1. InvariantWhileIntact => SeparateWhileIntact
  BY DEF InvariantWhileIntact, IInv, SeparateWhileIntact
<1>q. QED
  BY <1>1, Invariance, PTL

\* No step but the publication of a connection, which may find the flag its predecessor left, and a step
\* that breaks the client leads to a connection that cannot send (Send, PostSend, WorkerThreadEntry).
THEOREM HealthyConnectionsCanSend == Spec => NeverBecomesMute
<1>1. SpoiledKnown /\ InvariantWhileIntact /\ [Next]_vars => [Mute' => Mute \/ released \/ spoiled']_vars
  <2> SUFFICES ASSUME SpoiledKnown, InvariantWhileIntact, [Next]_vars, ~spoiled', ~released, Mute'
               PROVE  Mute
    OBVIOUS
  <2>1. IInv
    BY SpoiledStays DEF SpoiledKnown, InvariantWhileIntact, Intact
  <2>2. SendersApart
    BY <2>1, SendersByThread DEF IInv
  <2>q. QED
    BY <2>1, <2>2, MuteStep DEF IInv, TypeOK
<1>q. QED
  BY <1>1, Invariance, IntactIsKnown, PTL DEF Spec, NeverBecomesMute

----------------------------------------------------------------------------
(***************************************************************************)
(* The client implements SessionCallbacks.  Of the phases of the           *)
(* connections only the last one's can change.                             *)
(***************************************************************************)

\* The client is not lost in a release that nobody is told of.
JobsArePosted == "post" \notin Faults

\* Somebody is to release the connection, or has posted its job.
Ongoing == ~released \/ jobs > 0 \/ \E t \in Threads : pc[t] = "postJob"

\* The program points at which a callback is executed, and the one before the first.
CallbackPoints == {"startRef", "onConnect", "onReceive", "onDisconnect"}

\* The last connection's phase in terms of program points.
LEMMA LastPhase ==
  ASSUME ClientTypes
  PROVE  Phase(conn) =
           IF At("startRef") THEN "unborn"
           ELSE IF At("onConnect") THEN "connecting"
           ELSE IF At("onReceive") THEN "receiving"
           ELSE IF At("onDisconnect") THEN "closing"
           ELSE IF Ongoing THEN "open"
           ELSE "closed"
BY DEF Phase, Ongoing, ClientTypes

\* The connections before the last one are closed, those after it unborn.
LEMMA OtherPhases ==
  ASSUME ClientTypes, NEW i \in Nat, i # conn
  PROVE  Phase(i) = IF i < conn THEN "closed" ELSE "unborn"
BY DEF Phase, ClientTypes

\* A step that enters and leaves no callback changes no phase.
LEMMA PhasesKept ==
  ASSUME conn' = conn, Ongoing' <=> Ongoing,
         \A p \in CallbackPoints : At(p)' <=> At(p)
  PROVE  Phases' = Phases
BY DEF Phases, Phase, Ongoing, CallbackPoints

\* A step that moves the last connection is a step of SessionCallbacks, or of a connection beyond the bound.
LEMMA LastMoves ==
  ASSUME ClientTypes, ClientTypes', conn' = conn,
         NEW from, NEW to, Phase(conn) = from, Phase(conn)' = to
  PROVE  Phases' = Phases \/ (conn \in 1..MaxConnects /\ Callbacks!Move(conn, from, to))
<1>1. \A i \in 1..MaxConnects : i # conn => Phase(i)' = Phase(i)
  BY DEF Phase, ClientTypes
<1>2. CASE conn \in 1..MaxConnects
  <2>1. Phases' = [Phases EXCEPT ![conn] = to]
    BY <1>1, <1>2 DEF Phases
  <2>2. Phases[conn] = from
    BY <1>2 DEF Phases
  <2>q. QED
    BY <1>2, <2>1, <2>2 DEF Callbacks!Move, Phases
<1>3. CASE conn \notin 1..MaxConnects
  BY <1>1, <1>3 DEF Phases
<1>q. QED
  BY <1>2, <1>3

\* The locations of the callbacks, in the order of LastPhase.
Apart ==
  /\ At("startRef") => ~At("onConnect") /\ ~At("onReceive") /\ ~At("onDisconnect")
  /\ At("onConnect") => ~At("onReceive") /\ ~At("onDisconnect")
  /\ At("onReceive") => ~At("onDisconnect")
  /\ \A p \in CallbackPoints : \A t, u \in Workers : pc[t] = p /\ pc[u] = p => t = u
  /\ At("startRef") \/ At("onConnect") \/ At("onReceive") => ~released
  /\ At("onDisconnect") => released /\ jobs = 0 /\ \A t \in Threads : pc[t] # "postJob"
  /\ recvIo # "none" => ~released /\ \A p \in CallbackPoints : ~At(p)
  /\ jobs # 0 => released /\ \A p \in CallbackPoints : ~At(p)

\* At most one callback of a client is executed at any time, and none while a receive or a release job is pending.
LEMMA CallbacksApart ==
  ASSUME Roles, Stages, OwnersApart, ReceiversApart, ClientTypes
  PROVE  Apart
<1> USE DEF At
<1>1. ASSUME NEW w \in Workers, pc[w] = "startRef"
      PROVE  ~released /\ recvIo = "none" /\ \A t \in Threads : pc[t] \in Receiving => t = w
  BY <1>1 DEF Stages, ReceiversApart, Receiving, Threads
<1>2. ASSUME NEW w \in Workers, pc[w] \in {"onConnect", "onReceive"}
      PROVE  ~released /\ recvIo = "none"
  BY <1>2 DEF Stages, ReceiversApart, Receiving, Using, Threads
<1>3. ASSUME NEW w \in Workers, pc[w] = "onDisconnect"
      PROVE  released /\ jobs = 0 /\ \A t \in Threads : pc[t] # "postJob"
  <2>1. Owning(w)
    BY <1>3 DEF Owning, OwningPoints, Releasing, Roles, Threads
  <2>2. ASSUME NEW t \in Threads, pc[t] = "postJob" PROVE FALSE
    <3>1. Owning(t)
      BY <2>2 DEF Owning, OwningPoints, Roles
    <3>q. QED
      BY <1>3, <2>1, <2>2, <3>1 DEF OwnersApart, Threads
  <2>q. QED
    BY <2>1, <2>2 DEF OwnersApart, Threads
<1>4. ASSUME NEW p \in CallbackPoints, NEW t \in Workers, NEW u \in Workers, pc[t] = p, pc[u] = p PROVE t = u
  <2>1. CASE p \in {"startRef", "onConnect", "onReceive"}
    BY <1>4, <2>1 DEF ReceiversApart, Receiving, Threads
  <2>2. CASE p = "onDisconnect"
    BY <1>4, <2>2 DEF OwnersApart, Owning, OwningPoints, Releasing, Roles, Threads
  <2>q. QED
    BY <2>1, <2>2 DEF CallbackPoints
<1>5. At("onConnect") => ~At("onReceive")
  BY DEF ReceiversApart, Receiving, Threads
<1>6. At("startRef") => ~At("onConnect") /\ ~At("onReceive")
  BY DEF ReceiversApart, Receiving, Threads
<1>7. recvIo # "none" => ~released
  BY DEF Stages
<1>8. jobs # 0 => released
  BY DEF OwnersApart, ClientTypes
<1>9. At("startRef") \/ At("onConnect") \/ At("onReceive") => ~released /\ recvIo = "none"
  BY <1>1, <1>2
<1>10. At("onDisconnect") => released /\ jobs = 0 /\ \A t \in Threads : pc[t] # "postJob"
  BY <1>3
<1> HIDE DEF At
<1>q. QED
  BY <1>4, <1>5, <1>6, <1>7, <1>8, <1>9, <1>10 DEF Apart, CallbackPoints

\* The part of the invariant this refinement needs.
Placed == Roles /\ Stages /\ OwnersApart /\ ReceiversApart /\ ClientTypes /\ ThreadTypes /\ PortTypes

\* A step that moves no thread in or out of a callback or of PostJob changes no phase.
LEMMA PhasesUntouched ==
  ASSUME conn' = conn, released' = released, jobs' = jobs,
         \A u \in Threads : pc'[u] \in CallbackPoints \cup {"postJob"} \/ pc[u] \in CallbackPoints \cup {"postJob"}
                            => pc'[u] = pc[u]
  PROVE  Phases' = Phases
<1>1. \A p \in CallbackPoints : At(p)' <=> At(p)
  BY DEF At, Threads
<1>2. Ongoing' <=> Ongoing
  BY DEF Ongoing
<1>q. QED
  BY <1>1, <1>2, PhasesKept

\* The instance of SessionCallbacks counts as this module does.
LEMMA SameCardinality == \A S : Callbacks!Cardinality(S) = Cardinality(S)
BY DEF Callbacks!Cardinality, Cardinality

\* LastPhase in the next state.
LEMMA LastPhaseNext ==
  ASSUME ClientTypes'
  PROVE  Phase(conn)' =
           IF At("startRef")' THEN "unborn"
           ELSE IF At("onConnect")' THEN "connecting"
           ELSE IF At("onReceive")' THEN "receiving"
           ELSE IF At("onDisconnect")' THEN "closing"
           ELSE IF Ongoing' THEN "open"
           ELSE "closed"
BY DEF Phase, Ongoing, ClientTypes

\* Every step of the client is a step of SessionCallbacks or changes no phase.
LEMMA CallbackStep ==
  ASSUME JobsArePosted, Placed, ClientTypes', Apart, [Next]_vars
  PROVE  Phases' = Phases \/ Callbacks!Next
<1> USE ThreadAssumption DEF Placed, ThreadTypes, Roles
<1>1. CASE UNCHANGED vars
  BY <1>1, PhasesUntouched DEF vars
<1>2. CASE Connect(Connector)
  <2>1. /\ conn' = conn /\ released' = released /\ jobs' = jobs
        /\ \A u \in Threads : pc'[u] \in CallbackPoints \cup {"postJob"} \/ pc[u] \in CallbackPoints \cup {"postJob"}
                              => pc'[u] = pc[u]
    BY <1>2 DEF Connect, CallbackPoints
  <2>q. QED
    BY <2>1, PhasesUntouched
<1>3. CASE ConnectStep(Connector)
  <2>1. /\ conn' = conn /\ released' = released /\ jobs' = jobs
        /\ \A u \in Threads : pc'[u] \in CallbackPoints \cup {"postJob"} \/ pc[u] \in CallbackPoints \cup {"postJob"}
                              => pc'[u] = pc[u]
    BY <1>3 DEF ConnectStep, CreateSocket, Prepare, ConnectEx, Cleanup, ResetState, CallbackPoints
  <2>q. QED
    BY <2>1, PhasesUntouched
<1>4. ASSUME NEW t \in Threads, SharedStep(t) PROVE Phases' = Phases \/ Callbacks!Next
  <2>1. CASE SocketStep(t)
    <3>1. /\ conn' = conn /\ released' = released /\ jobs' = jobs
          /\ \A u \in Threads : pc'[u] \in CallbackPoints \cup {"postJob"} \/ pc[u] \in CallbackPoints \cup {"postJob"}
                                => pc'[u] = pc[u]
      BY <2>1 DEF SocketStep, CloseSocket, ClearSocket, CancelAll, CallbackPoints
    <3>q. QED
      BY <3>1, PhasesUntouched
  <2>2. CASE ReleaseStep(t)
    <3>1. CASE Deref(t)
      <4>1. /\ conn' = conn /\ released' = released /\ jobs' = jobs
            /\ \A u \in Threads : pc'[u] \in CallbackPoints \cup {"postJob"} \/ pc[u] \in CallbackPoints \cup {"postJob"}
                                  => pc'[u] = pc[u]
        BY <3>1 DEF Deref, CallbackPoints
      <4>q. QED
        BY <4>1, PhasesUntouched
    <3>2. CASE TryRelease(t) \/ PostJob(t)
      <4>1. conn' = conn /\ \A u \in Threads : pc'[u] \in CallbackPoints \/ pc[u] \in CallbackPoints => pc'[u] = pc[u]
        BY <3>2 DEF TryRelease, PostJob, CallbackPoints
      <4>2. \A p \in CallbackPoints : At(p)' <=> At(p)
        BY <4>1 DEF At, Threads
      <4>3. CASE TryRelease(t)
        <5>1. Ongoing' <=> Ongoing
          <6>1. CASE Releasable
            <7>1. pc'[t] = "postJob"
              BY <4>3, <6>1 DEF TryRelease
            <7>q. QED
              BY <6>1, <7>1 DEF Releasable, Ongoing
          <6>2. CASE ~Releasable
            BY <4>3, <6>2 DEF TryRelease, Ongoing
          <6>q. QED
            BY <6>1, <6>2
        <5>q. QED
          BY <4>1, <4>2, <5>1, PhasesKept
      <4>4. CASE PostJob(t)
        <5>1. Ongoing
          BY <4>4 DEF PostJob, Ongoing
        <5>2. jobs' = jobs + 1
          BY <4>4 DEF PostJob, JobsArePosted
        <5>3. Ongoing'
          BY <5>2 DEF Ongoing, PortTypes
        <5>q. QED
          BY <4>1, <4>2, <5>1, <5>3, PhasesKept
      <4>q. QED
        BY <3>2, <4>3, <4>4
    <3>q. QED
      BY <2>2, <3>1, <3>2 DEF ReleaseStep
  <2>3. CASE ApiStep(t)
    <3>1. /\ conn' = conn /\ released' = released /\ jobs' = jobs
          /\ \A u \in Threads : pc'[u] \in CallbackPoints \cup {"postJob"} \/ pc[u] \in CallbackPoints \cup {"postJob"}
                                => pc'[u] = pc[u]
      BY <2>3 DEF ApiStep, CheckReleased, PassesReleased, SetCancel, CancelIoEx, CancelAll, Push, DisconnectFull, CallbackPoints
    <3>q. QED
      BY <3>1, PhasesUntouched
  <2>4. CASE SendStep(t)
    <3>1. /\ conn' = conn /\ released' = released /\ jobs' = jobs
          /\ \A u \in Threads : pc'[u] \in CallbackPoints \cup {"postJob"} \/ pc[u] \in CallbackPoints \cup {"postJob"}
                                => pc'[u] = pc[u]
      BY <2>4 DEF SendStep, TakeFlag, WasSending, CheckCancelSend, Peek, ClearFlag, RefSend, WSASend, Started, CheckSendPending, CallbackPoints
    <3>q. QED
      BY <3>1, PhasesUntouched
  <2>5. CASE RecvStep(t)
    <3>1. /\ conn' = conn /\ released' = released /\ jobs' = jobs
          /\ \A u \in Threads : pc'[u] \in CallbackPoints \cup {"postJob"} \/ pc[u] \in CallbackPoints \cup {"postJob"}
                                => pc'[u] = pc[u]
      BY <2>5 DEF RecvStep, RefRecv, WSARecv, Started, CheckRecvPending, CheckCancelRecv, CallbackPoints
    <3>q. QED
      BY <3>1, PhasesUntouched
  <2>q. QED
    BY <1>4, <2>1, <2>2, <2>3, <2>4, <2>5 DEF SharedStep
<1>5. ASSUME NEW w \in Workers, WorkerStep(w) PROVE Phases' = Phases \/ Callbacks!Next
  <2>1. CASE DequeueStep(w)
    <3>1. CASE DequeueRecv(w) /\ recvIo = "ok"
      <4>1. Phase(conn) = "open"
        <5>1. ~released /\ \A p \in CallbackPoints : ~At(p)
          BY <3>1 DEF DequeueRecv, TakeCompletion, At, Threads, Apart, CallbackPoints
        <5>q. QED
          BY <5>1, LastPhase DEF Placed, Apart, Ongoing, CallbackPoints
      <4>2. Phase(conn)' = "receiving"
        <5>1. ~At("startRef")' /\ ~At("onConnect")' /\ At("onReceive")'
          BY <3>1 DEF DequeueRecv, TakeCompletion, At, Threads, Apart, CallbackPoints
        <5>q. QED
          BY <5>1, LastPhaseNext DEF Ongoing
      <4>q. QED
        BY <3>1, <4>1, <4>2, LastMoves DEF Placed, DequeueRecv, TakeCompletion, Callbacks!Next, Callbacks!EnterOnReceive
    <3>2. CASE DequeueJob(w)
      <4>1. Phase(conn) = "open"
        <5>1. jobs > 0 /\ \A p \in CallbackPoints : ~At(p)
          BY <3>2 DEF DequeueJob, TakeCompletion, At, Threads, Apart, CallbackPoints
        <5>q. QED
          BY <5>1, LastPhase DEF Placed, Apart, Ongoing, CallbackPoints
      <4>2. Phase(conn)' = "closing"
        <5>1. ~At("startRef")' /\ ~At("onConnect")' /\ ~At("onReceive")' /\ At("onDisconnect")'
          BY <3>2 DEF DequeueJob, TakeCompletion, At, Threads, Apart, CallbackPoints
        <5>q. QED
          BY <5>1, LastPhaseNext DEF Ongoing
      <4>q. QED
        BY <3>2, <4>1, <4>2, LastMoves DEF Placed, DequeueJob, TakeCompletion, Callbacks!Next, Callbacks!EnterOnDisconnect
    <3>3. CASE DequeueConnect(w) \/ DequeueSend(w) \/ (DequeueRecv(w) /\ recvIo # "ok")
      <4>1. /\ conn' = conn /\ released' = released /\ jobs' = jobs
            /\ \A u \in Threads : pc'[u] \in CallbackPoints \cup {"postJob"} \/ pc[u] \in CallbackPoints \cup {"postJob"}
                                  => pc'[u] = pc[u]
        BY <3>3 DEF DequeueConnect, DequeueSend, DequeueRecv, TakeCompletion, CallbackPoints
      <4>q. QED
        BY <4>1, PhasesUntouched
    <3>q. QED
      BY <2>1, <3>1, <3>2, <3>3 DEF DequeueStep
  <2>2. CASE StartStep(w)
    <3>1. CASE StartFields(w)
      <4>1. /\ conn' = conn /\ released' = released /\ jobs' = jobs
            /\ \A u \in Threads : pc'[u] \in CallbackPoints \cup {"postJob"} \/ pc[u] \in CallbackPoints \cup {"postJob"}
                                  => pc'[u] = pc[u]
        BY <3>1 DEF StartFields, CallbackPoints
      <4>q. QED
        BY <4>1, PhasesUntouched
    <3>2. CASE Publish(w)
      <4>1. released /\ jobs = 0 /\ \A t \in Threads : pc[t] # "postJob"
        <5>1. Owning(w)
          BY <3>2 DEF Publish, Owning, OwningPoints, Threads
        <5>2. ASSUME NEW t \in Threads, pc[t] = "postJob" PROVE FALSE
          <6>1. Owning(t)
            BY <5>2 DEF Owning, OwningPoints
          <6>q. QED
            BY <3>2, <5>1, <5>2, <6>1 DEF Publish, OwnersApart, Threads
        <5>q. QED
          BY <5>1, <5>2 DEF OwnersApart, Threads
      <4>2. \A p \in CallbackPoints : ~At(p)
        <5>1. ~At("onDisconnect")
          BY <3>2 DEF Publish, At, OwnersApart, Owning, OwningPoints, Releasing, Threads
        <5>q. QED
          BY <4>1, <5>1 DEF Apart, CallbackPoints
      <4>3. Phase(conn) = "closed"
        BY <4>1, <4>2, LastPhase DEF Ongoing, CallbackPoints
      <4>4. conn' = conn + 1 /\ At("startRef")'
        BY <3>2 DEF Publish, At, Threads
      <4>5. ASSUME NEW i \in 1..MaxConnects PROVE Phase(i)' = Phase(i)
        <5>1. CASE i < conn
          BY <4>4, <5>1 DEF Phase, ClientTypes
        <5>2. CASE i = conn
          BY <4>3, <4>4, <5>2 DEF Phase, ClientTypes
        <5>3. CASE i = conn + 1
          BY <4>4, <5>3 DEF Phase, ClientTypes
        <5>4. CASE i > conn + 1
          BY <4>4, <5>4 DEF Phase, ClientTypes
        <5>q. QED
          BY <5>1, <5>2, <5>3, <5>4 DEF ClientTypes
      <4>q. QED
        BY <4>5 DEF Phases
    <3>3. CASE StartRef(w)
      <4>1. Phase(conn) = "unborn"
        <5>1. At("startRef")
          BY <3>3 DEF StartRef, At
        <5>q. QED
          BY <5>1, LastPhase
      <4>2. Phase(conn)' = "connecting"
        <5>1. ~At("startRef")' /\ At("onConnect")'
          BY <3>3 DEF StartRef, At, Threads, Apart, CallbackPoints
        <5>q. QED
          BY <5>1, LastPhaseNext
      <4>3. conn' = conn
        BY <3>3 DEF StartRef
      <4>4. ASSUME conn \in 1..MaxConnects, Callbacks!Move(conn, "unborn", "connecting")
            PROVE  Callbacks!Next
        <5>1. \A j \in 1..MaxConnects : Phase(j) = IF j < conn THEN "closed" ELSE "unborn"
          BY <4>1, OtherPhases DEF ClientTypes
        <5>2. Callbacks!Existing = {}
          BY <5>1 DEF Callbacks!Existing, Phases
        <5>3. Callbacks!Cardinality(Callbacks!Existing) < 1
          BY <5>2, FS_EmptySet, SameCardinality
        <5>4. \A j \in 1..MaxConnects : j < conn => Phase(j) # "unborn"
          BY <5>1
        <5>5. Callbacks!EnterOnConnect(conn)
          BY <4>4, <5>3, <5>4 DEF Callbacks!EnterOnConnect, Phases
        <5>q. QED
          BY <4>4, <5>5 DEF Callbacks!Next
      <4>q. QED
        BY <4>1, <4>2, <4>3, <4>4, LastMoves
    <3>4. CASE Connected(w)
      <4>1. Phase(conn) = "connecting"
        <5>1. At("onConnect") /\ ~At("startRef")
          BY <3>4 DEF Connected, At, Threads, Apart, CallbackPoints
        <5>q. QED
          BY <5>1, LastPhase DEF Placed, Apart, Ongoing, CallbackPoints
      <4>2. Phase(conn)' = "open"
        <5>1. ~At("startRef")' /\ ~At("onConnect")' /\ ~At("onReceive")' /\ ~At("onDisconnect")' /\ ~released'
          BY <3>4 DEF Connected, At, Threads, Apart, CallbackPoints
        <5>q. QED
          BY <5>1, LastPhaseNext DEF Ongoing
      <4>q. QED
        BY <3>4, <4>1, <4>2, LastMoves DEF Placed, Connected, Callbacks!Next, Callbacks!LeaveOnConnect
    <3>q. QED
      BY <2>2, <3>1, <3>2, <3>3, <3>4 DEF StartStep
  <2>3. CASE SentStep(w)
    <3>1. /\ conn' = conn /\ released' = released /\ jobs' = jobs
          /\ \A u \in Threads : pc'[u] \in CallbackPoints \cup {"postJob"} \/ pc[u] \in CallbackPoints \cup {"postJob"}
                                => pc'[u] = pc[u]
      BY <2>3 DEF SentStep, PopSent, ClearPending, DropFlag, LoadReadCursor, LoadWriteCursor, CheckMore, CallbackPoints
    <3>q. QED
      BY <3>1, PhasesUntouched
  <2>4. CASE Received(w) \/ Disconnected(w) \/ Drain(w) \/ SetIdle(w)
    <3>1. CASE Received(w)
      <4>1. Phase(conn) = "receiving"
        <5>1. At("onReceive") /\ ~At("onConnect") /\ ~At("startRef")
          BY <3>1 DEF Received, At, Threads, Apart, CallbackPoints
        <5>q. QED
          BY <5>1, LastPhase DEF Placed, Apart, Ongoing, CallbackPoints
      <4>2. Phase(conn)' = "open"
        <5>1. ~At("startRef")' /\ ~At("onConnect")' /\ ~At("onReceive")' /\ ~At("onDisconnect")' /\ ~released'
          BY <3>1 DEF Received, At, Threads, Apart, CallbackPoints
        <5>q. QED
          BY <5>1, LastPhaseNext DEF Ongoing
      <4>q. QED
        BY <3>1, <4>1, <4>2, LastMoves DEF Placed, Received, Callbacks!Next, Callbacks!LeaveOnReceive
    <3>2. CASE Disconnected(w)
      <4>1. Phase(conn) = "closing"
        <5>1. At("onDisconnect") /\ ~At("onReceive") /\ ~At("onConnect") /\ ~At("startRef")
          BY <3>2 DEF Disconnected, Ongoing, At, Threads, Apart, CallbackPoints
        <5>q. QED
          BY <5>1, LastPhase DEF Placed, Apart, Ongoing, CallbackPoints
      <4>2. Phase(conn)' = "closed"
        <5>1. /\ ~At("startRef")' /\ ~At("onConnect")' /\ ~At("onReceive")' /\ ~At("onDisconnect")'
              /\ ~Ongoing'
          BY <3>2 DEF Disconnected, Ongoing, At, Threads, Apart, CallbackPoints
        <5>q. QED
          BY <5>1, LastPhaseNext DEF Ongoing
      <4>q. QED
        BY <3>2, <4>1, <4>2, LastMoves DEF Placed, Disconnected, Callbacks!Next, Callbacks!LeaveOnDisconnect
    <3>3. CASE Drain(w) \/ SetIdle(w)
      <4>1. /\ conn' = conn /\ released' = released /\ jobs' = jobs
            /\ \A u \in Threads : pc'[u] \in CallbackPoints \cup {"postJob"} \/ pc[u] \in CallbackPoints \cup {"postJob"}
                                  => pc'[u] = pc[u]
        BY <3>3 DEF Drain, AfterDrain, SetIdle, CallbackPoints
      <4>q. QED
        BY <4>1, PhasesUntouched
    <3>q. QED
      BY <2>4, <3>1, <3>2, <3>3
  <2>q. QED
    BY <1>5, <2>1, <2>2, <2>3, <2>4 DEF WorkerStep
<1>6. ASSUME NEW t \in Callers, NEW o \in Ops, Call(t, o) PROVE Phases' = Phases \/ Callbacks!Next
  <2>1. /\ conn' = conn /\ released' = released /\ jobs' = jobs
        /\ \A u \in Threads : pc'[u] \in CallbackPoints \cup {"postJob"} \/ pc[u] \in CallbackPoints \cup {"postJob"}
                              => pc'[u] = pc[u]
    BY <1>6 DEF Call, CallbackPoints
  <2>q. QED
    BY <2>1, PhasesUntouched
<1>7. CASE NetworkStep
  <2>1. /\ conn' = conn /\ released' = released /\ jobs' = jobs
        /\ \A u \in Threads : pc'[u] \in CallbackPoints \cup {"postJob"} \/ pc[u] \in CallbackPoints \cup {"postJob"}
                              => pc'[u] = pc[u]
    BY <1>7 DEF NetworkStep, CompleteConnect, Complete, PeerReset, CallbackPoints
  <2>q. QED
    BY <2>1, PhasesUntouched
<1>q. QED
  BY <1>1, <1>2, <1>3, <1>4, <1>5, <1>6, <1>7 DEF Next

\* While the client is intact its callbacks come in the order its interface promises: for every
\* connection OnConnect, OnReceive one at a time, one OnDisconnect, and the OnDisconnect of a
\* connection before the OnConnect of the next (WorkerThreadEntry, DoClientReleaseJob).
THEOREM CallbacksInOrder == JobsArePosted => (Spec => CallbackContract)
<1> SUFFICES ASSUME JobsArePosted PROVE Spec => CallbackContract
  OBVIOUS
<1>1. Init => Callbacks!Init
  BY DEF Init, Callbacks!Init, Phases, Phase
<1>2. InvariantWhileIntact /\ InvariantWhileIntact' /\ SpoiledKnown /\ [Next]_vars
        => [spoiled' \/ Callbacks!Next]_Phases
  <2> SUFFICES ASSUME InvariantWhileIntact, InvariantWhileIntact', SpoiledKnown, [Next]_vars, ~spoiled'
               PROVE  Phases' = Phases \/ Callbacks!Next
    OBVIOUS
  <2>1. IInv /\ IInv'
    BY SpoiledStays DEF SpoiledKnown, InvariantWhileIntact, Intact
  <2>2. Placed
    BY <2>1, OwnersByThread, ReceiversByThread DEF IInv, TypeOK, Placed
  <2>3. Apart
    BY <2>2, CallbacksApart DEF Placed
  <2>4. ClientTypes'
    BY <2>1 DEF IInv, TypeOK
  <2>q. QED
    BY <2>2, <2>3, <2>4, CallbackStep
<1>q. QED
  BY <1>1, <1>2, Invariance, IntactIsKnown, PTL DEF Spec, CallbackContract
====
