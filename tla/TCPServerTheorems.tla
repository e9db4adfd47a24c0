------------------------- MODULE TCPServerTheorems -------------------------
(***************************************************************************)
(* The invariant of TCPServer is inductive, and what follows from it for   *)
(* any number of threads, slots, ids, calls, queue entries and packets per *)
(* send, with any of the modelled calls failing.                           *)
(***************************************************************************)
EXTENDS TCPServerSteps, TCPServerCallbacks

\* The steps of the program are expanded wherever a leaf mentions them.
USE DEF flag, session, port, server, app, local, Goto, Return, AddRef, AddRecvRef, AddStartRef,
  Deref, TryRelease, Releasable, PostJob,
  CheckReleased, PassesReleased, CheckId, PassesId, Body, ReadAddress, SetCancel, CancelIoEx,
  Push, DisconnectFull, TakeFlag, WasSending, CheckCancelSend, Peek, ClearFlag, WithoutFlag,
  RefSend, Started, Refused, WSASend, CheckSendPending, RefRecv, AfterWSARecv, WSARecv,
  CheckRecvPending, Received, CheckCancelRecv, TakeCompletion, DequeueRecv, DequeueSend, DequeueJob,
  PopSent, ClearPending, DropFlag, CheckMore, LoadReadCursor, LoadWriteCursor, Disconnected, Drain,
  Drained, CloseSocket, Uncount, Uncounted, PushReady, Accept, PopReady, Setup, PushBack,
  StartFields, StartProtect, StartPublish, CountSession, Connected, Complete, PeerReset

----------------------------------------------------------------------------
(***************************************************************************)
(* The invariant is inductive.                                             *)
(***************************************************************************)

\* Where the threads and the slots are.
Placed == ThreadTypes /\ PortTypes /\ ServerTypes /\ Located

\* The three exclusion properties, thread by thread.
LEMMA ApartByThread ==
  Placed => (SlotHasOneOwner /\ OneReceiver /\ OneSender
               <=> OwnersApart /\ SlotsOwned /\ ReceiversApart /\ SendersApart)
BY OwnersByThread, ReceiversByThread, SendersByThread DEF Placed

\* The same in the next state.
LEMMA ApartByThreadNext ==
  Placed' => (SlotHasOneOwner' /\ OneReceiver' /\ OneSender'
                <=> OwnersApart' /\ SlotsOwned' /\ ReceiversApart' /\ SendersApart')
BY ApartByThread, PTL

LEMMA FlagNotLeakedBySlotNext == FlagNotLeaked' <=> (\A s \in Slots : Mute(s) => SenderOf(s))'
BY FlagNotLeakedBySlot, PTL

\* The invariant holds when the server has been set up.
LEMMA InitialInvariant == Init => IInv
<1> SUFFICES ASSUME Init PROVE IInv
  OBVIOUS
<1> USE DEF Init
<1>1. TypeOK
  <2>1. ThreadTypes
    BY DEF ThreadTypes, Labels, Unreferenced
  <2>2. FlagTypes /\ SessionTypes
    BY DEF FlagTypes, SessionTypes
  <2>3. QueueTypes
    BY SizeAssumption DEF QueueTypes
  <2>4. PortTypes
    BY DEF PortTypes, IoStates
  <2>5. ServerTypes
    BY DEF ServerTypes
  <2>q. QED
    BY <2>1, <2>2, <2>3, <2>4, <2>5 DEF TypeOK
<1>2. Located /\ SecondReferences /\ Roles /\ CallerRoles /\ Starting
  BY DEF Located, SecondReferences, Roles, CallerRoles, Starting, Threads
<1>3. Alive /\ NoUseAfterRelease
  BY DEF Alive, NoUseAfterRelease, Using
<1>4. Queues
  BY SizeAssumption DEF Queues
<1>5. RefCountExact
  <2>1. ASSUME NEW s \in Slots PROVE Holders(s) = {} /\ SecondHolders(s) = {}
    BY DEF Holders, SecondHolders, Unreferenced
  <2>2. ASSUME NEW s \in Slots PROVE Outstanding(recvIo[s]) = 0 /\ Outstanding(sendIo[s]) = 0
    BY DEF Outstanding
  <2>3. Cardinality({}) = 0
    BY FS_EmptySet
  <2>4. ASSUME NEW s \in Slots
        PROVE  refCount[s] = Cardinality(Holders(s)) + Cardinality(SecondHolders(s))
                               + Outstanding(recvIo[s]) + Outstanding(sendIo[s])
    <3>1. Cardinality(Holders(s)) = 0 /\ Cardinality(SecondHolders(s)) = 0
      BY <2>1, <2>3
    <3>2. refCount[s] = 0
      OBVIOUS
    <3>q. QED
      BY <2>2, <3>1, <3>2
  <2>q. QED
    BY <2>4 DEF RefCountExact
<1>6. SlotHasOneOwner
  BY DEF SlotHasOneOwner, Owners, Owning
<1>7. OneReceiver /\ OneSender
  BY DEF OneReceiver, OneSender, Receivers, SendOwners, Receiving, Sending
<1>8. SentPacketsStayQueued /\ PacketsReachTheirSession
  BY DEF SentPacketsStayQueued, PacketsReachTheirSession
<1>9. SessionCountExact
  <2>1. Occupied = {}
    BY DEF Occupied, Free
  <2>q. QED
    BY <2>1, FS_EmptySet DEF SessionCountExact
<1>10. FailuresAreCancelled /\ FlagNotLeaked
  BY DEF FailuresAreCancelled, FlagNotLeaked
<1>11. IdsInOrder /\ IdsUnique
  BY SizeAssumption DEF IdsInOrder, IdsUnique, Numbered, Threads
<1>q. QED
  BY <1>1, <1>2, <1>3, <1>4, <1>5, <1>6, <1>7, <1>8, <1>9, <1>10, <1>11 DEF IInv

\* The server's steps are among those of AnyNext: OnConnect has been given ids and slots.
LEMMA NextIsAny == IInv /\ [Next]_vars => [AnyNext]_vars
<1> SUFFICES ASSUME IInv, [Next]_vars PROVE [AnyNext]_vars
  OBVIOUS
<1>1. known \subseteq Nat \X Slots /\ calls \in Nat
  BY DEF IInv, TypeOK, ServerTypes
<1>2. ASSUME NEW t \in Callers, CallStep(t) PROVE AnyCall(t)
  <2>1. PICK o \in Ops, k \in known : Call(t, o, k[1], k[2])
    BY <1>2 DEF CallStep
  <2>2. o \in {"send", "disconnect", "address"} /\ k[1] \in Nat /\ k[2] \in Slots
    BY <1>1, SizeAssumption
  <2>3. Enter(t, o, k[1], k[2]) /\ calls' \in Nat
    BY <1>1, <2>1 DEF Call
  <2>q. QED
    BY <2>2, <2>3, Zenon DEF AnyCall
<1>q. QED
  BY <1>2, Zenon DEF Next, AnyNext

\* Every step keeps the invariant, a call with any id included.
LEMMA InvariantStep == IInv /\ [AnyNext]_vars => IInv'
<1> SUFFICES ASSUME IInv, [AnyNext]_vars PROVE IInv'
  OBVIOUS
<1>1. /\ ThreadTypes /\ FlagTypes /\ SessionTypes /\ QueueTypes /\ PortTypes /\ ServerTypes
      /\ Located /\ SecondReferences /\ Roles /\ Alive /\ Starting /\ Queues
      /\ RefCountExact /\ NoUseAfterRelease /\ SlotHasOneOwner /\ OneReceiver /\ OneSender
      /\ SentPacketsStayQueued /\ PacketsReachTheirSession /\ SessionCountExact
      /\ FailuresAreCancelled /\ FlagNotLeaked /\ CallerRoles /\ IdsInOrder /\ IdsUnique
  BY DEF IInv, TypeOK
<1>2. Counted
  BY <1>1, CountedByCardinality
<1>3. OwnersApart /\ SlotsOwned /\ ReceiversApart /\ SendersApart
  BY <1>1, ApartByThread DEF Placed
<1>4. Located' /\ SecondReferences' /\ Roles' /\ CallerRoles'
  BY <1>1, LocatedStep, SecondReferencesStep, RolesStep, CallerRolesStep
<1>5. Alive' /\ Starting'
  BY <1>1, <1>2, AliveStep, StartingStep
<1>6. NoUseAfterRelease'
  BY <1>1, <1>2, <1>4, <1>5, NoUseAfterReleaseStep
<1>7. OwnersApart' /\ SlotsOwned' /\ ReceiversApart' /\ SendersApart'
  BY <1>1, <1>3, OwnersApartStep, SlotsOwnedStep, ReceiversApartStep, SendersApartStep
<1>8. RefCountExact'
  <2>1. ASSUME NEW s \in Slots PROVE CountFor(s)'
    <3>1. CountFor(s)
      BY <1>1 DEF RefCountExact, CountFor
    <3>q. QED
      BY <1>1, <1>3, <3>1, CountStep
  <2>q. QED
    BY <2>1 DEF RefCountExact, CountFor
<1>9. SessionCountExact'
  BY <1>1, <1>3, SessionCountStep
<1>10. QueueTypes' /\ Queues'
  BY <1>1, <1>3, QueueTypesStep, QueuesStep
<1>11. TypeOK'
  <2>1. ThreadTypes' /\ FlagTypes'
    BY <1>1, <1>8, ThreadTypesStep, FlagTypesStep
  <2>2. SessionTypes' /\ PortTypes' /\ ServerTypes'
    BY <1>1, <1>3, <1>9, SessionTypesStep, PortTypesStep, ServerTypesStep
  <2>q. QED
    BY <1>10, <2>1, <2>2 DEF TypeOK
<1>12. SlotHasOneOwner' /\ OneReceiver' /\ OneSender'
  <2>1. Placed'
    BY <1>4, <1>11 DEF Placed, TypeOK
  <2>q. QED
    BY <1>7, <2>1, ApartByThreadNext
<1>13. SentPacketsStayQueued' /\ PacketsReachTheirSession'
  BY <1>1, <1>3, <1>4, <1>10, SentPacketsStep, PacketsStep
<1>14. FailuresAreCancelled'
  BY <1>1, <1>3, FailuresAreCancelledStep
<1>15. FlagNotLeaked'
  <2>1. ASSUME NEW s \in Slots PROVE (Mute(s) => SenderOf(s))'
    <3>1. Mute(s) => SenderOf(s)
      BY <1>1, FlagNotLeakedBySlot
    <3>q. QED
      BY <1>1, <1>3, <3>1, FlagNotLeakedStep
  <2>q. QED
    BY <2>1, FlagNotLeakedBySlotNext
<1>16. IdsInOrder' /\ IdsUnique'
  BY <1>1, <1>3, IdsInOrderStep, IdsUniqueStep
<1>q. QED
  BY <1>4, <1>5, <1>6, <1>8, <1>9, <1>10, <1>11, <1>12, <1>13, <1>14, <1>15, <1>16 DEF IInv

\* The inductive invariant holds in every reachable state, for any number of threads, slots,
\* ids, calls and queue entries.
THEOREM Invariance == Spec => []IInv
<1>1. Init => IInv
  BY InitialInvariant
<1>2. IInv /\ [Next]_vars => IInv'
  BY NextIsAny, InvariantStep
<1>q. QED
  BY <1>1, <1>2, PTL DEF Spec

----------------------------------------------------------------------------
(***************************************************************************)
(* The properties of the server.                                           *)
(***************************************************************************)

\* Every variable keeps its type; in particular m_refCount, m_sessionCount and the number of posted
\* jobs never go below zero, and the send queue's cursors stay in the ring.
THEOREM TypeCorrectness == Spec => []TypeOK
<1>1. IInv => TypeOK
  BY DEF IInv
<1>q. QED
  BY <1>1, Invariance, PTL

\* The reference count of a session is exactly the number of the threads and operations that rely
\* on it (AddRef and Deref of TCPServer.cpp, the protecting reference of TCPSession::Start).
THEOREM ReferencesAreCounted == Spec => []RefCountExact
<1>1. IInv => RefCountExact
  BY DEF IInv
<1>q. QED
  BY <1>1, Invariance, PTL

\* Nobody uses a session after it is released or after its slot has a new session: the checks at
\* the top of Send, Disconnect and GetAddress are sufficient.
THEOREM SessionsOutliveTheirUsers == Spec => []NoUseAfterRelease
<1>1. IInv => NoUseAfterRelease
  BY DEF IInv
<1>q. QED
  BY <1>1, Invariance, PTL

\* A session is released once, and its slot passes from one owner to the next
\* (TryReleaseSession, DoSessionReleaseJob, the ready list, AcceptThreadEntry).
THEOREM SlotsAreReleasedOnce == Spec => []SlotHasOneOwner
<1>1. IInv => SlotHasOneOwner
  BY DEF IInv
<1>q. QED
  BY <1>1, Invariance, PTL

\* One WSARecv or one OnReceiveData per session at any time (PostRecv, OnReceiveData).
THEOREM ReceivingIsExclusive == Spec => []OneReceiver
<1>1. IInv => OneReceiver
  BY DEF IInv
<1>q. QED
  BY <1>1, Invariance, PTL

\* One owner of m_isSending per session at any time (Send, PostSend, the worker's send branch).
THEOREM SendingIsExclusive == Spec => []OneSender
<1>1. IInv => OneSender
  BY DEF IInv
<1>q. QED
  BY <1>1, Invariance, PTL

\* Packets stay queued until the WSASend that refers to them has completed, and the worker then
\* pops no more than there are (PostSend, the worker's send branch).
THEOREM SentPacketsAreKept == Spec => []SentPacketsStayQueued
<1>1. IInv => SentPacketsStayQueued
  BY DEF IInv
<1>q. QED
  BY <1>1, Invariance, PTL

\* No packet crosses from a slot's old session to its next one (Send, DoSessionReleaseJob, Start).
THEOREM PacketsStayWithTheirSession == Spec => []PacketsReachTheirSession
<1>1. IInv => PacketsReachTheirSession
  BY DEF IInv
<1>q. QED
  BY <1>1, Invariance, PTL

\* m_sessionCount is the number of slots in use, so Shutdown's wait for zero waits for all of them.
THEOREM SessionsAreCounted == Spec => []SessionCountExact
<1>1. IInv => SessionCountExact
  BY DEF IInv
<1>q. QED
  BY <1>1, Invariance, PTL

\* m_isSending is never left set on a healthy session without somebody who will clear it: Send, PostSend
\* and the worker's send branch do not lose it on any of their early returns.
THEOREM SendingIsNeverLost == Spec => []FlagNotLeaked
<1>1. IInv => FlagNotLeaked
  BY DEF IInv
<1>q. QED
  BY <1>1, Invariance, PTL

----------------------------------------------------------------------------
(***************************************************************************)
(* The server implements SessionCallbacks.  The phases of all sessions are *)
(* read off the slots, and at most one slot changes its phase in a step.   *)
(***************************************************************************)

\* No session is lost in a release that nobody is told of.
JobsArePosted == "post" \notin Faults

Phases == [i \in 1..MaxIds |-> Phase(i)]

\* The program points at which a callback is executed, and those that matter to a slot's phase.
CallbackPoints == {"onConnect", "onReceive", "onDisconnect"}

PhasePoints == CallbackPoints \cup {"postJob"}

\* The phase of a session in terms of its slot.
PhasesBySlot ==
  \A i \in 1..MaxIds :
    /\ ~Told(i) => Phase(i) = "unborn"
    /\ \A s \in Slots : Told(i) /\ id[s] = i => Phase(i) = SlotPhase(s)
    /\ Told(i) /\ (\A s \in Slots : id[s] # i) => Phase(i) = "closed"

\* A session has one slot.
LEMMA PhaseOfSlot == IdsUnique => PhasesBySlot
<1> SUFFICES ASSUME IdsUnique, NEW i \in 1..MaxIds
             PROVE  /\ ~Told(i) => Phase(i) = "unborn"
                    /\ \A s \in Slots : Told(i) /\ id[s] = i => Phase(i) = SlotPhase(s)
                    /\ Told(i) /\ (\A s \in Slots : id[s] # i) => Phase(i) = "closed"
  BY DEF PhasesBySlot
<1>1. ASSUME NEW s \in Slots, id[s] = i, NEW u \in Slots, id[u] = i PROVE u = s
  BY <1>1 DEF IdsUnique
<1>2. ASSUME NEW s \in Slots, Told(i), id[s] = i PROVE Phase(i) = SlotPhase(s)
  <2>1. (CHOOSE u \in Slots : id[u] = i) = s
    BY <1>1, <1>2
  <2>q. QED
    BY <1>2, <2>1 DEF Phase
<1>q. QED
  BY <1>2 DEF Phase

LEMMA PhaseOfSlotNext == IdsUnique' => PhasesBySlot'
BY PhaseOfSlot, PTL

\* A step that moves no slot of a session the application has been told of changes no phase.
LEMMA PhasesKept ==
  ASSUME PhasesBySlot, PhasesBySlot', id' = id, known' = known,
         \A s \in Slots : Told(id[s]) => SlotPhase(s)' = SlotPhase(s)
  PROVE  Phases' = Phases
<1>1. ASSUME NEW i \in 1..MaxIds PROVE Phase(i)' = Phase(i)
  <2>1. Told(i)' <=> Told(i)
    BY DEF Told
  <2>2. CASE \E s \in Slots : id[s] = i
    BY <2>1, <2>2 DEF PhasesBySlot
  <2>3. CASE ~\E s \in Slots : id[s] = i
    BY <2>1, <2>3 DEF PhasesBySlot
  <2>q. QED
    BY <2>2, <2>3
<1>q. QED
  BY <1>1 DEF Phases

\* A step that moves one slot moves one session.
LEMMA SlotMoves ==
  ASSUME PhasesBySlot, PhasesBySlot', id' = id, known' = known,
         NEW s \in Slots, id[s] \in 1..MaxIds, Told(id[s]),
         \A u \in Slots : u # s => SlotPhase(u)' = SlotPhase(u) /\ id[u] # id[s],
         NEW from, NEW to, SlotPhase(s) = from, SlotPhase(s)' = to
  PROVE  Callbacks!Move(id[s], from, to)
<1>0. \A i \in 1..MaxIds : Told(i)' <=> Told(i)
  BY DEF Told
<1>1. ASSUME NEW i \in 1..MaxIds, i # id[s] PROVE Phase(i)' = Phase(i)
  <2>1. CASE \E u \in Slots : id[u] = i
    BY <1>0, <1>1, <2>1 DEF PhasesBySlot
  <2>2. CASE ~\E u \in Slots : id[u] = i
    BY <1>0, <2>2 DEF PhasesBySlot
  <2>q. QED
    BY <2>1, <2>2
<1>2. Phase(id[s]) = from
  BY DEF PhasesBySlot
<1>3. \A i \in 1..MaxIds : i = id[s] => Phase(i)' = to
  BY <1>0 DEF PhasesBySlot
<1>4. Phases' = [Phases EXCEPT ![id[s]] = to]
  BY <1>1, <1>3 DEF Phases
<1>5. Phases[id[s]] = from
  BY <1>2 DEF Phases
<1>q. QED
  BY <1>4, <1>5 DEF Callbacks!Move, Phases

\* A slot whose threads stay where they are keeps its phase.
LEMMA SlotPhaseKept ==
  ASSUME NEW s \in Slots, released'[s] = released[s], jobs'[s] = jobs[s],
         \A t \in Threads : pc'[t] \in PhasePoints /\ cur'[t] = s => pc'[t] = pc[t] /\ cur'[t] = cur[t],
         \A t \in Threads : pc[t] \in PhasePoints /\ cur[t] = s => pc'[t] = pc[t] /\ cur'[t] = cur[t]
  PROVE  SlotPhase(s)' = SlotPhase(s)
<1>1. \A p \in PhasePoints : At(p, s)' <=> At(p, s)
  BY DEF At
<1>2. Ongoing(s)' <=> Ongoing(s)
  BY <1>1 DEF Ongoing, PhasePoints
<1>q. QED
  BY <1>1, <1>2 DEF SlotPhase, PhasePoints, CallbackPoints

\* A step that moves no thread in or out of a callback or of PostJob changes no phase.
LEMMA PhasesUntouched ==
  ASSUME PhasesBySlot, PhasesBySlot', id' = id, known' = known, released' = released, jobs' = jobs,
         \A t \in Threads : pc'[t] \in PhasePoints \/ pc[t] \in PhasePoints => pc'[t] = pc[t] /\ cur'[t] = cur[t]
  PROVE  Phases' = Phases
<1>1. ASSUME NEW s \in Slots PROVE SlotPhase(s)' = SlotPhase(s)
  BY SlotPhaseKept
<1>q. QED
  BY <1>1, PhasesKept

\* The callbacks, receives and releases of a slot exclude each other.
Apart ==
  /\ \A t \in Threads : pc[t] \in PhasePoints =>
       /\ cur[t] \in Slots /\ jobs[cur[t]] = 0 /\ recvIo[cur[t]] = "none"
       /\ released[cur[t]] <=> pc[t] \in {"onDisconnect", "postJob"}
       /\ \A u \in Threads : pc[u] \in PhasePoints /\ cur[u] = cur[t] => u = t
  /\ \A s \in Slots : recvIo[s] # "none" => ~released[s]
  /\ \A s \in Slots : jobs[s] # 0 => released[s]

\* What the refinement needs of the invariant.
Settled ==
  /\ ThreadTypes /\ FlagTypes /\ SessionTypes /\ PortTypes /\ ServerTypes /\ Located /\ Roles /\ CallerRoles
  /\ Alive /\ Starting /\ NoUseAfterRelease /\ OwnersApart /\ ReceiversApart /\ IdsInOrder /\ IdsUnique

LEMMA CallbacksApart == Settled => Apart
<1> SUFFICES ASSUME Settled PROVE Apart
  OBVIOUS
<1> USE DEF Settled
<1>1. ASSUME NEW t \in Threads, pc[t] \in {"onConnect", "onReceive"}
      PROVE  cur[t] \in Slots /\ ~released[cur[t]] /\ jobs[cur[t]] = 0 /\ recvIo[cur[t]] = "none"
  <2>1. cur[t] \in Slots /\ ~released[cur[t]]
    BY <1>1 DEF Located, Alive, Using
  <2>2. recvIo[cur[t]] = "none"
    BY <1>1 DEF ReceiversApart, Receiving
  <2>3. jobs[cur[t]] = 0
    BY <2>1 DEF OwnersApart, PortTypes
  <2>q. QED
    BY <2>1, <2>2, <2>3
<1>2. ASSUME NEW t \in Threads, pc[t] \in {"onDisconnect", "postJob"}
      PROVE  cur[t] \in Slots /\ released[cur[t]] /\ jobs[cur[t]] = 0 /\ recvIo[cur[t]] = "none"
  <2>1. cur[t] \in Slots /\ released[cur[t]] /\ jobs[cur[t]] = 0
    BY <1>2 DEF Located, OwnersApart, Owning
  <2>2. recvIo[cur[t]] = "none"
    BY <2>1 DEF NoUseAfterRelease
  <2>q. QED
    BY <2>1, <2>2
<1>3. ASSUME NEW t \in Threads, NEW u \in Threads, pc[t] \in PhasePoints, pc[u] \in PhasePoints, cur[u] = cur[t]
      PROVE  u = t
  <2>1. CASE pc[t] \in {"onConnect", "onReceive"}
    <3>1. pc[u] \in {"onConnect", "onReceive"}
      BY <1>1, <1>2, <1>3, <2>1 DEF PhasePoints, CallbackPoints
    <3>q. QED
      BY <1>3, <2>1, <3>1 DEF ReceiversApart, Receiving
  <2>2. CASE pc[t] \in {"onDisconnect", "postJob"}
    <3>1. pc[u] \in {"onDisconnect", "postJob"}
      BY <1>1, <1>2, <1>3, <2>2 DEF PhasePoints, CallbackPoints
    <3>q. QED
      BY <1>3, <2>2, <3>1 DEF OwnersApart, Owning
  <2>q. QED
    BY <1>3, <2>1, <2>2 DEF PhasePoints, CallbackPoints
<1>4. \A s \in Slots : (recvIo[s] # "none" => ~released[s]) /\ (jobs[s] # 0 => released[s])
  BY DEF NoUseAfterRelease, OwnersApart, PortTypes
<1>q. QED
  BY <1>1, <1>2, <1>3, <1>4 DEF Apart, PhasePoints, CallbackPoints

\* The application has been told of every session that receives, is released or is in a callback.
LEMMA ActiveIsTold ==
  ASSUME Settled, NEW s \in Slots,
         recvIo[s] # "none" \/ jobs[s] # 0 \/ \E t \in Threads : pc[t] \in CallbackPoints /\ cur[t] = s
  PROVE  id[s] \in 1..MaxIds /\ Told(id[s]) /\ \A u \in Slots : u # s => id[u] # id[s]
<1> USE DEF Settled
<1>1. id[s] \in 1..idCounter
  <2>1. id[s] # 0
    <3>1. CASE released[s] /\ jobs[s] = 0
      <4>1. PICK t \in Threads : pc[t] \in CallbackPoints /\ cur[t] = s
        BY <3>1, CallbacksApart DEF Apart
      <4>2. pc[t] = "onDisconnect"
        BY <3>1, <4>1 DEF CallbackPoints, Alive, Using
      <4>q. QED
        BY <4>1, <4>2 DEF IdsUnique
    <3>2. CASE ~released[s] \/ jobs[s] # 0
      BY <3>2 DEF IdsUnique, PortTypes
    <3>q. QED
      BY <3>1, <3>2
  <2>q. QED
    BY <2>1 DEF IdsUnique, SessionTypes, ServerTypes
<1>2. \A u \in Slots : u # s => id[u] # id[s]
  BY <1>1 DEF IdsUnique
<1>3. Told(id[s])
  <2> SUFFICES ASSUME pc[Acceptor] \in Numbered, id[s] = idCounter PROVE FALSE
    BY <1>1 DEF Told, IdsInOrder
  <2> DEFINE a == cur[Acceptor]
  <2>0. Acceptor \in Threads
    BY DEF Threads
  <2>1. a \in Slots /\ arg[Acceptor] = idCounter
    BY <2>0 DEF Located, IdsInOrder, Numbered
  <2>2. id[a] = arg[Acceptor]
    BY <2>0, ThreadAssumption DEF Starting, NoUseAfterRelease, Using, Numbered
  <2>3. a = s
    BY <1>2, <2>1, <2>2
  <2>4. CASE pc[Acceptor] \in {"protect", "publish"}
    <3>1. released[s] /\ jobs[s] = 0
      BY <2>0, <2>3, <2>4 DEF OwnersApart, Owning
    <3>2. PICK t \in Threads : pc[t] \in CallbackPoints /\ cur[t] = s
      BY <3>1, CallbacksApart DEF Apart
    <3>3. pc[t] = "onDisconnect"
      BY <3>1, <3>2 DEF CallbackPoints, Alive, Using
    <3>4. t = Acceptor
      BY <2>0, <2>3, <2>4, <3>2, <3>3 DEF OwnersApart, Owning
    <3>q. QED
      BY <2>4, <3>3, <3>4
  <2>5. CASE pc[Acceptor] = "countSession"
    <3>1. ~released[s] /\ recvIo[s] = "none"
      BY <2>0, <2>3, <2>5 DEF Alive, Using, ReceiversApart, Receiving
    <3>2. PICK t \in Threads : pc[t] \in CallbackPoints /\ cur[t] = s
      BY <3>1, CallbacksApart DEF Apart
    <3>3. pc[t] # "onDisconnect"
      BY <3>1, <3>2 DEF OwnersApart, Owning
    <3>4. t = Acceptor
      BY <2>0, <2>3, <2>5, <3>2, <3>3 DEF ReceiversApart, Receiving, CallbackPoints
    <3>q. QED
      BY <2>5, <3>2, <3>4 DEF CallbackPoints
  <2>q. QED
    BY <2>4, <2>5 DEF Numbered
<1>4. id[s] <= MaxIds
  BY <1>1, SizeAssumption DEF IdsInOrder, ServerTypes, SessionTypes
<1>q. QED
  BY <1>1, <1>2, <1>3, <1>4, SizeAssumption DEF ServerTypes, SessionTypes

\* The phases of a slot, by what is at work on it.
PhaseTable ==
  \A s \in Slots :
    /\ \A t \in Threads : pc[t] = "onConnect" /\ cur[t] = s => SlotPhase(s) = "connecting"
    /\ \A t \in Threads : pc[t] = "onReceive" /\ cur[t] = s => SlotPhase(s) = "receiving"
    /\ \A t \in Threads : pc[t] = "onDisconnect" /\ cur[t] = s => SlotPhase(s) = "closing"
    /\ (\A t \in Threads : pc[t] \in CallbackPoints => cur[t] # s) =>
         SlotPhase(s) = IF Ongoing(s) THEN "open" ELSE "closed"

LEMMA SlotPhases == Apart => PhaseTable
<1> SUFFICES ASSUME Apart, NEW s \in Slots
             PROVE  /\ \A t \in Threads : pc[t] = "onConnect" /\ cur[t] = s => SlotPhase(s) = "connecting"
                    /\ \A t \in Threads : pc[t] = "onReceive" /\ cur[t] = s => SlotPhase(s) = "receiving"
                    /\ \A t \in Threads : pc[t] = "onDisconnect" /\ cur[t] = s => SlotPhase(s) = "closing"
                    /\ (\A t \in Threads : pc[t] \in CallbackPoints => cur[t] # s) =>
                         SlotPhase(s) = IF Ongoing(s) THEN "open" ELSE "closed"
  BY DEF PhaseTable
<1>1. ASSUME NEW t \in Threads, NEW u \in Threads, pc[t] \in CallbackPoints, pc[u] \in CallbackPoints,
             cur[t] = s, cur[u] = s
      PROVE  t = u
  BY <1>1 DEF Apart, PhasePoints
<1>2. ASSUME NEW t \in Threads, pc[t] \in CallbackPoints, cur[t] = s
      PROVE  /\ At("onConnect", s) <=> pc[t] = "onConnect"
             /\ At("onReceive", s) <=> pc[t] = "onReceive"
             /\ At("onDisconnect", s) <=> pc[t] = "onDisconnect"
  BY <1>1, <1>2 DEF At, CallbackPoints
<1>3. ASSUME \A t \in Threads : pc[t] \in CallbackPoints => cur[t] # s
      PROVE  ~At("onConnect", s) /\ ~At("onReceive", s) /\ ~At("onDisconnect", s)
  BY <1>3 DEF At, CallbackPoints
<1>4. ASSUME NEW t \in Threads, pc[t] = "onConnect", cur[t] = s PROVE SlotPhase(s) = "connecting"
  BY <1>2, <1>4 DEF SlotPhase, CallbackPoints
<1>5. ASSUME NEW t \in Threads, pc[t] = "onReceive", cur[t] = s PROVE SlotPhase(s) = "receiving"
  BY <1>2, <1>5 DEF SlotPhase, CallbackPoints
<1>6. ASSUME NEW t \in Threads, pc[t] = "onDisconnect", cur[t] = s PROVE SlotPhase(s) = "closing"
  BY <1>2, <1>6 DEF SlotPhase, CallbackPoints
<1>7. ASSUME \A t \in Threads : pc[t] \in CallbackPoints => cur[t] # s
      PROVE  SlotPhase(s) = IF Ongoing(s) THEN "open" ELSE "closed"
  BY <1>3, <1>7 DEF SlotPhase
<1>q. QED
  BY <1>4, <1>5, <1>6, <1>7

\* What the phases are read from, in one state.
Readable == Settled /\ Apart /\ PhaseTable /\ PhasesBySlot

LEMMA SettledIsReadable == Settled => Readable
BY CallbacksApart, SlotPhases, PhaseOfSlot DEF Readable, Settled

LEMMA SettledIsReadableNext == Settled' => Readable'
BY SettledIsReadable, PTL

----------------------------------------------------------------------------
(***************************************************************************)
(* The steps that enter or leave a callback.                               *)
(***************************************************************************)

\* A received completion: OnReceive of an open session.
LEMMA EntersOnReceive ==
  ASSUME Readable, Readable', NEW w \in Workers, NEW s \in Slots, DequeueRecv(w, s), recvIo[s] = "ok"
  PROVE  Callbacks!Next
<1> USE DEF Readable, Settled, ThreadTypes, Threads
<1>1. id[s] \in 1..MaxIds /\ Told(id[s]) /\ \A u \in Slots : u # s => id[u] # id[s]
  BY ActiveIsTold
<1>2. SlotPhase(s) = "open"
  <2>1. ~released[s] /\ \A t \in Threads : pc[t] \in CallbackPoints => cur[t] # s
    BY DEF Apart, PhasePoints
  <2>q. QED
    BY <2>1 DEF PhaseTable, Ongoing
<1>3. SlotPhase(s)' = "receiving"
  <2>1. pc'[w] = "onReceive" /\ cur'[w] = s
    OBVIOUS
  <2>q. QED
    BY <2>1 DEF PhaseTable
<1>4. ASSUME NEW u \in Slots, u # s PROVE SlotPhase(u)' = SlotPhase(u)
  BY <1>4, SlotPhaseKept DEF PhasePoints, CallbackPoints
<1>5. Callbacks!Move(id[s], "open", "receiving")
  <2>1. id' = id /\ known' = known
    OBVIOUS
  <2>q. QED
    BY <1>1, <1>2, <1>3, <1>4, <2>1, SlotMoves
<1>q. QED
  BY <1>1, <1>5 DEF Callbacks!Next, Callbacks!EnterOnReceive

\* A release job: OnDisconnect of an open session.
LEMMA EntersOnDisconnect ==
  ASSUME Readable, Readable', NEW w \in Workers, NEW s \in Slots, DequeueJob(w, s)
  PROVE  Callbacks!Next
<1> USE DEF Readable, Settled, ThreadTypes, PortTypes, Threads
<1>1. id[s] \in 1..MaxIds /\ Told(id[s]) /\ \A u \in Slots : u # s => id[u] # id[s]
  BY ActiveIsTold
<1>2. SlotPhase(s) = "open"
  <2>1. jobs[s] > 0 /\ \A t \in Threads : pc[t] \in CallbackPoints => cur[t] # s
    BY DEF Apart, PhasePoints
  <2>q. QED
    BY <2>1 DEF PhaseTable, Ongoing
<1>3. SlotPhase(s)' = "closing"
  <2>1. pc'[w] = "onDisconnect" /\ cur'[w] = s
    OBVIOUS
  <2>q. QED
    BY <2>1 DEF PhaseTable
<1>4. ASSUME NEW u \in Slots, u # s PROVE SlotPhase(u)' = SlotPhase(u)
  BY <1>4, SlotPhaseKept DEF PhasePoints, CallbackPoints
<1>5. Callbacks!Move(id[s], "open", "closing")
  <2>1. id' = id /\ known' = known
    OBVIOUS
  <2>q. QED
    BY <1>1, <1>2, <1>3, <1>4, <2>1, SlotMoves
<1>q. QED
  BY <1>1, <1>5 DEF Callbacks!Next, Callbacks!EnterOnDisconnect

\* OnConnect and OnReceive leave a session open, OnDisconnect leaves it closed.
LEMMA LeavesCallback ==
  ASSUME Readable, Readable', NEW t \in Threads,
         Connected(t) \/ Received(t) \/ Disconnected(t)
  PROVE  Callbacks!Next
<1> USE DEF Readable, Settled, ThreadTypes
<1> DEFINE s == cur[t]
<1>0. pc[t] \in CallbackPoints /\ s \in Slots
  BY DEF CallbackPoints, Located
<1>1. id[s] \in 1..MaxIds /\ Told(id[s]) /\ \A u \in Slots : u # s => id[u] # id[s]
  BY <1>0, ActiveIsTold
<1>2. /\ id' = id /\ known' = known /\ cur' = cur /\ released' = released /\ jobs' = jobs
      /\ pc'[t] \notin PhasePoints
      /\ \A u \in Threads : u # t => pc'[u] = pc[u]
  BY DEF PhasePoints, CallbackPoints
<1>3. ASSUME NEW u \in Slots, u # s PROVE SlotPhase(u)' = SlotPhase(u)
  BY <1>2, <1>3, SlotPhaseKept
<1>4. \A u \in Threads : pc'[u] \in CallbackPoints => cur'[u] # s
  <2> SUFFICES ASSUME NEW u \in Threads, pc'[u] \in CallbackPoints, cur'[u] = s PROVE FALSE
    OBVIOUS
  <2>1. u # t /\ pc[u] \in CallbackPoints /\ cur[u] = cur[t]
    BY <1>2 DEF PhasePoints
  <2>q. QED
    BY <1>0, <2>1 DEF Apart, PhasePoints
<1>5. SlotPhase(s)' = IF Ongoing(s)' THEN "open" ELSE "closed"
  BY <1>0, <1>2, <1>4 DEF PhaseTable
<1>6. CASE Connected(t)
  <2>1. SlotPhase(s) = "connecting"
    BY <1>0, <1>6 DEF PhaseTable
  <2>2. ~released'[s]
    BY <1>0, <1>2, <1>6 DEF Apart, PhasePoints
  <2>3. SlotPhase(s)' = "open"
    BY <1>5, <2>2 DEF Ongoing
  <2>4. Callbacks!Move(id[s], "connecting", "open")
    BY <1>0, <1>1, <1>2, <1>3, <2>1, <2>3, SlotMoves
  <2>q. QED
    BY <1>1, <2>4 DEF Callbacks!Next, Callbacks!LeaveOnConnect
<1>7. CASE Received(t)
  <2>1. SlotPhase(s) = "receiving"
    BY <1>0, <1>7 DEF PhaseTable
  <2>2. ~released'[s]
    BY <1>0, <1>2, <1>7 DEF Apart, PhasePoints
  <2>3. SlotPhase(s)' = "open"
    BY <1>5, <2>2 DEF Ongoing
  <2>4. Callbacks!Move(id[s], "receiving", "open")
    BY <1>0, <1>1, <1>2, <1>3, <2>1, <2>3, SlotMoves
  <2>q. QED
    BY <1>1, <2>4 DEF Callbacks!Next, Callbacks!LeaveOnReceive
<1>8. CASE Disconnected(t)
  <2>1. SlotPhase(s) = "closing"
    BY <1>0, <1>8 DEF PhaseTable
  <2>2. released'[s] /\ jobs'[s] = 0
    BY <1>0, <1>2, <1>8 DEF Apart, PhasePoints
  <2>3. ~At("postJob", s)'
    <3> SUFFICES ASSUME NEW u \in Threads, pc'[u] = "postJob", cur'[u] = s PROVE FALSE
      BY DEF At
    <3>1. u # t /\ pc[u] = "postJob" /\ cur[u] = cur[t]
      BY <1>2 DEF PhasePoints
    <3>q. QED
      BY <1>0, <3>1 DEF Apart, PhasePoints
  <2>4. SlotPhase(s)' = "closed"
    BY <1>5, <2>2, <2>3 DEF Ongoing
  <2>5. Callbacks!Move(id[s], "closing", "closed")
    BY <1>0, <1>1, <1>2, <1>3, <2>1, <2>4, SlotMoves
  <2>q. QED
    BY <1>1, <2>5 DEF Callbacks!Next, Callbacks!LeaveOnDisconnect
<1>q. QED
  BY <1>6, <1>7, <1>8

LEMMA SameCardinality == \A S : Callbacks!Cardinality(S) = Cardinality(S)
BY DEF Callbacks!Cardinality, Cardinality

\* A slot is left for the session that is about to be announced.
LEMMA RoomForOne ==
  ASSUME PhasesBySlot, NEW s \in Slots, ~Told(id[s])
  PROVE  Callbacks!Cardinality(Callbacks!Existing) < Cardinality(Slots)
<1> DEFINE Others == Slots \ {s}
           f == [u \in Others |-> id[u]]
           Ids == {id[u] : u \in Others}
           Existing == Callbacks!Existing
<1>1. IsFiniteSet(Slots) /\ Cardinality(Slots) \in Nat /\ Cardinality(Others) = Cardinality(Slots) - 1
      /\ IsFiniteSet(Others)
  BY SlotAssumption, FS_RemoveElement, FS_CardinalityType
<1>2. f \in Surjection(Others, Ids)
  BY DEF Surjection
<1>3. IsFiniteSet(Ids) /\ Cardinality(Ids) <= Cardinality(Others)
  BY <1>1, <1>2, FS_Surjection
<1>4. ASSUME NEW i \in Existing PROVE i \in Ids
  <2>1. i \in 1..MaxIds /\ Phase(i) # "unborn" /\ Phase(i) # "closed"
    BY DEF Callbacks!Existing
  <2>2. Told(i) /\ \E u \in Slots : id[u] = i
    BY <2>1 DEF PhasesBySlot
  <2>q. QED
    BY <2>2
<1>5. Existing \subseteq Ids
  BY <1>4
<1>6. IsFiniteSet(Existing) /\ Cardinality(Existing) <= Cardinality(Ids)
  BY <1>3, <1>5, FS_Subset
<1>7. Cardinality(Existing) < Cardinality(Slots)
  <2> HIDE DEF Others, Ids, Existing
  <2>1. Cardinality(Existing) \in Nat /\ Cardinality(Ids) \in Nat
    BY <1>3, <1>6, FS_CardinalityType
  <2>q. QED
    BY <1>1, <1>3, <1>6, <2>1
<1>q. QED
  BY <1>7, SameCardinality

\* The session counted: OnConnect with the next id.
LEMMA EntersOnConnect ==
  ASSUME Readable, Readable', CountSession(Acceptor)
  PROVE  Callbacks!Next
<1> USE DEF Readable, Settled, ThreadTypes
<1> DEFINE s == cur[Acceptor]
           i == arg[Acceptor]
<1>0. Acceptor \in Threads /\ Acceptor \notin Workers
  BY ThreadAssumption DEF Threads
<1>1. i \in 1..MaxIds /\ i = idCounter /\ ~Told(i)
  <2>1. i = idCounter /\ idCounter > 0 /\ idCounter <= MaxIds /\ ~Told(i)
    BY DEF IdsInOrder, Numbered, Told
  <2>q. QED
    BY <2>1, SizeAssumption DEF ServerTypes
<1>2. s \in Slots /\ id[s] = i
  BY <1>0 DEF Located, NoUseAfterRelease, Using
<1>3. /\ id' = id /\ cur' = cur /\ released' = released /\ jobs' = jobs /\ known' = known \cup {<<i, s>>}
      /\ pc'[Acceptor] = "onConnect"
      /\ \A u \in Threads : u # Acceptor => pc'[u] = pc[u]
  BY <1>0
<1>4. ASSUME NEW j PROVE Told(j)' <=> j = i \/ Told(j)
  <2>1. <<i, s>> \in known' /\ \A k \in known' : k \in known \/ k = <<i, s>>
    BY <1>3
  <2>2. \A k \in known : k \in known'
    BY <1>3
  <2>3. <<i, s>>[1] = i
    OBVIOUS
  <2> HIDE DEF i, s
  <2>q. QED
    BY <2>1, <2>2, <2>3, Zenon DEF Told
<1>5. ASSUME NEW u \in Slots, u # s PROVE SlotPhase(u)' = SlotPhase(u)
  BY <1>0, <1>3, <1>5, SlotPhaseKept DEF PhasePoints, CallbackPoints
<1>6. SlotPhase(s)' = "connecting"
  BY <1>0, <1>2, <1>3 DEF PhaseTable
<1>7. ASSUME NEW j \in 1..MaxIds, j # i PROVE Phase(j)' = Phase(j)
  <2>1. CASE \E u \in Slots : id[u] = j
    <3>1. PICK u \in Slots : id[u] = j
      BY <2>1
    <3>2. SlotPhase(u)' = SlotPhase(u)
      BY <1>2, <1>5, <1>7, <3>1
    <3>q. QED
      BY <1>3, <1>4, <1>7, <3>1, <3>2 DEF PhasesBySlot
  <2>2. CASE ~\E u \in Slots : id[u] = j
    BY <1>3, <1>4, <1>7, <2>2 DEF PhasesBySlot
  <2>q. QED
    BY <2>1, <2>2
<1>8. Phase(i) = "unborn" /\ Phase(i)' = "connecting"
  <2>1. \A j \in 1..MaxIds : j = i => Phase(j)' = "connecting"
    BY <1>2, <1>3, <1>4, <1>6 DEF PhasesBySlot
  <2>q. QED
    BY <1>1, <2>1 DEF PhasesBySlot
<1>9. Callbacks!Move(i, "unborn", "connecting")
  <2>1. Phases' = [Phases EXCEPT ![i] = "connecting"]
    BY <1>1, <1>7, <1>8 DEF Phases
  <2>2. Phases[i] = "unborn"
    BY <1>1, <1>8 DEF Phases
  <2>q. QED
    BY <2>1, <2>2 DEF Callbacks!Move, Phases
<1>10. ASSUME NEW j \in 1..MaxIds, j < i PROVE Phases[j] # "unborn"
  <2>1. Told(j)
    BY <1>1, <1>10 DEF IdsInOrder, Told
  <2>2. CASE \E u \in Slots : id[u] = j
    <3>1. PICK u \in Slots : id[u] = j
      BY <2>2
    <3>2. Phase(j) = SlotPhase(u)
      BY <2>1, <3>1 DEF PhasesBySlot
    <3>3. SlotPhase(u) # "unborn"
      BY DEF SlotPhase
    <3>q. QED
      BY <3>2, <3>3 DEF Phases
  <2>3. CASE ~\E u \in Slots : id[u] = j
    BY <2>1, <2>3 DEF PhasesBySlot, Phases
  <2>q. QED
    BY <2>2, <2>3
<1>11. Callbacks!EnterOnConnect(i)
  <2>1. Callbacks!Cardinality(Callbacks!Existing) < Cardinality(Slots)
    BY <1>1, <1>2, RoomForOne
  <2>q. QED
    BY <1>9, <1>10, <2>1 DEF Callbacks!EnterOnConnect, Phases
<1>q. QED
  BY <1>1, <1>11 DEF Callbacks!Next

----------------------------------------------------------------------------
(***************************************************************************)
(* The steps that neither enter nor leave a callback.                      *)
(***************************************************************************)

\* A release begins where the session's life ends: no moment is without either.
LEMMA ReleasesQuietly ==
  ASSUME JobsArePosted, Readable, Readable', NEW t \in Threads, TryRelease(t) \/ PostJob(t)
  PROVE  Phases' = Phases
<1> USE DEF Readable, Settled, ThreadTypes, FlagTypes, PortTypes
<1> DEFINE s == cur[t]
<1>0. s \in Slots
  BY DEF Located
<1>1. /\ id' = id /\ known' = known
      /\ \A u \in Threads : u # t => pc'[u] = pc[u] /\ cur'[u] = cur[u]
      /\ pc[t] \notin CallbackPoints /\ pc'[t] \notin CallbackPoints
      /\ \A u \in Slots : u # s => released'[u] = released[u] /\ jobs'[u] = jobs[u]
  BY DEF CallbackPoints
<1>2. ASSUME NEW u \in Slots, u # s PROVE SlotPhase(u)' = SlotPhase(u)
  <2>1. cur'[t] # u
    BY <1>2, SlotAssumption
  <2>q. QED
    BY <1>1, <1>2, <2>1, SlotPhaseKept
<1>3. ASSUME NEW u \in Slots, NEW p \in CallbackPoints PROVE At(p, u)' <=> At(p, u)
  BY <1>1 DEF At
<1>4. \A u \in Slots : u = s => (Ongoing(u)' <=> Ongoing(u))
  <2>1. CASE TryRelease(t) /\ Releasable(s)
    <3>1. ~released[s] /\ pc'[t] = "postJob" /\ cur'[t] = s
      BY <2>1
    <3>q. QED
      BY <3>1 DEF Ongoing, At
  <2>2. CASE TryRelease(t) /\ ~Releasable(s)
    <3>1. released' = released /\ jobs' = jobs /\ pc[t] # "postJob" /\ pc'[t] # "postJob"
      BY <2>2
    <3>q. QED
      BY <1>1, <3>1 DEF Ongoing, At
  <2>3. CASE PostJob(t)
    <3>1. jobs'[s] = jobs[s] + 1 /\ pc[t] = "postJob"
      BY <1>0, <2>3 DEF JobsArePosted
    <3>2. jobs'[s] > 0
      BY <1>0, <3>1
    <3>q. QED
      BY <3>1, <3>2 DEF Ongoing, At
  <2>q. QED
    BY <2>1, <2>2, <2>3
<1>5. \A u \in Slots : u = s => SlotPhase(u)' = SlotPhase(u)
  BY <1>3, <1>4 DEF SlotPhase, CallbackPoints
<1>q. QED
  BY <1>1, <1>2, <1>5, PhasesKept

\* The session that is published has not been announced.
LEMMA PublishesQuietly ==
  ASSUME Readable, Readable', StartPublish(Acceptor)
  PROVE  Phases' = Phases
<1> USE DEF Readable, Settled, ThreadTypes
<1> DEFINE s == cur[Acceptor]
<1>0. Acceptor \in Threads
  BY DEF Threads
<1>1. s \in Slots /\ ~Told(id[s])
  <2>1. s \in Slots /\ id[s] = arg[Acceptor]
    BY <1>0 DEF Located, Starting
  <2>q. QED
    BY <2>1 DEF IdsInOrder, Numbered, Told
<1>2. ASSUME NEW u \in Slots, u # s PROVE SlotPhase(u)' = SlotPhase(u)
  <2>1. /\ cur' = cur /\ jobs' = jobs /\ released'[u] = released[u]
        /\ \A t \in Threads : pc[t] \in PhasePoints \/ pc'[t] \in PhasePoints => pc'[t] = pc[t]
    BY <1>2 DEF PhasePoints, CallbackPoints
  <2>q. QED
    BY <2>1, SlotPhaseKept
<1>3. ASSUME NEW u \in Slots, Told(id[u]) PROVE SlotPhase(u)' = SlotPhase(u)
  BY <1>1, <1>2, <1>3
<1>q. QED
  BY <1>3, PhasesKept

\* The session that loses its slot to the next one is closed.
LEMMA SlotsAreReusedQuietly ==
  ASSUME Readable, Readable', StartFields(Acceptor)
  PROVE  Phases' = Phases
<1> USE DEF Readable, Settled, ThreadTypes, SessionTypes, ServerTypes
<1> DEFINE s == cur[Acceptor]
<1>0. Acceptor \in Threads /\ s \in Slots
  BY DEF Threads, Located
<1>1. /\ known' = known /\ cur' = cur /\ released' = released /\ jobs' = jobs
      /\ id'[s] = idCounter + 1 /\ \A u \in Slots : u # s => id'[u] = id[u]
      /\ \A t \in Threads : pc[t] \in PhasePoints \/ pc'[t] \in PhasePoints => pc'[t] = pc[t]
  BY <1>0 DEF PhasePoints, CallbackPoints
<1>2. SlotPhase(s) = "closed"
  <2>1. released[s] /\ jobs[s] = 0
    BY <1>0 DEF OwnersApart, Owning
  <2>2. ASSUME NEW t \in Threads, pc[t] \in PhasePoints PROVE cur[t] # s
    <3>1. CASE pc[t] \in {"onConnect", "onReceive"}
      BY <2>1, <3>1 DEF Alive, Using
    <3>2. CASE pc[t] \in {"onDisconnect", "postJob"}
      BY <1>0, <3>2 DEF OwnersApart, Owning
    <3>q. QED
      BY <2>2, <3>1, <3>2 DEF PhasePoints, CallbackPoints
  <2>3. ~Ongoing(s)
    BY <2>1, <2>2 DEF Ongoing, At, PhasePoints
  <2>q. QED
    BY <1>0, <2>2, <2>3 DEF PhaseTable, PhasePoints
<1>3. ASSUME NEW u \in Slots PROVE SlotPhase(u)' = SlotPhase(u)
  BY <1>1, SlotPhaseKept
<1>4. ASSUME NEW i \in 1..MaxIds PROVE Phase(i)' = Phase(i)
  <2>1. Told(i)' <=> Told(i)
    BY <1>1 DEF Told
  <2>2. CASE ~Told(i)
    BY <2>1, <2>2 DEF PhasesBySlot
  <2>3. CASE Told(i) /\ i = id[s]
    <3>1. i <= idCounter
      BY <1>0, <2>3 DEF IdsUnique
    <3>2. \A u \in Slots : id'[u] # i
      BY <1>0, <1>1, <2>3, <3>1 DEF IdsUnique
    <3>3. Phase(i)' = "closed"
      BY <2>1, <2>3, <3>2 DEF PhasesBySlot
    <3>4. Phase(i) = "closed"
      BY <1>0, <1>2, <2>3 DEF PhasesBySlot
    <3>q. QED
      BY <3>3, <3>4
  <2>4. CASE Told(i) /\ i # id[s]
    <3>1. i <= idCounter
      BY <2>4 DEF IdsInOrder, Told
    <3>2. \A u \in Slots : id'[u] = i <=> id[u] = i
      BY <1>0, <1>1, <2>4, <3>1
    <3>3. CASE \E u \in Slots : id[u] = i
      BY <1>3, <2>1, <2>4, <3>2, <3>3 DEF PhasesBySlot
    <3>4. CASE ~\E u \in Slots : id[u] = i
      BY <2>1, <2>4, <3>2, <3>4 DEF PhasesBySlot
    <3>q. QED
      BY <3>3, <3>4
  <2>q. QED
    BY <2>2, <2>3, <2>4
<1>q. QED
  BY <1>4 DEF Phases

\* What a step leaves alone that the phases depend on.
Undisturbed ==
  /\ id' = id /\ known' = known /\ released' = released /\ jobs' = jobs
  /\ \A t \in Threads : pc'[t] \in PhasePoints \/ pc[t] \in PhasePoints => pc'[t] = pc[t] /\ cur'[t] = cur[t]

LEMMA UndisturbedSteps ==
  ASSUME ThreadTypes,
         \/ \E t \in Threads : Deref(t) \/ ApiStep(t) \/ SendStep(t) \/ RecvStep(t)
         \/ \E w \in Workers : SentStep(w)
         \/ \E w \in Workers : Drain(w) \/ CloseSocket(w) \/ Uncount(w) \/ PushReady(w)
         \/ \E w \in Workers, s \in Slots : DequeueSend(w, s) \/ (DequeueRecv(w, s) /\ recvIo[s] # "ok")
         \/ Accept(Acceptor)
         \/ PopReady(Acceptor) \/ Setup(Acceptor) \/ PushBack(Acceptor) \/ StartProtect(Acceptor)
         \/ \E t \in Callers : AnyCall(t)
         \/ NetworkStep
         \/ UNCHANGED vars
  PROVE  Undisturbed
<1> USE DEF ThreadTypes, PhasePoints, CallbackPoints
<1>1. ASSUME NEW t \in Threads, Deref(t) PROVE Undisturbed
  BY <1>1 DEF Undisturbed
<1>2. ASSUME NEW t \in Threads, ApiStep(t) PROVE Undisturbed
  BY SMTT(40), <1>2 DEF Undisturbed, ApiStep
<1>3. ASSUME NEW t \in Threads, SendStep(t) PROVE Undisturbed
  BY SMTT(40), <1>3 DEF Undisturbed, SendStep
<1>4. ASSUME NEW t \in Threads, RecvStep(t) PROVE Undisturbed
  BY SMTT(40), <1>4 DEF Undisturbed, RecvStep
<1>5. ASSUME NEW w \in Workers, SentStep(w) PROVE Undisturbed
  BY <1>5 DEF Undisturbed, SentStep
<1>6. ASSUME NEW w \in Workers, Drain(w) \/ CloseSocket(w) \/ Uncount(w) \/ PushReady(w) PROVE Undisturbed
  BY <1>6 DEF Undisturbed
<1>7. ASSUME NEW w \in Workers, NEW s \in Slots, DequeueSend(w, s) \/ (DequeueRecv(w, s) /\ recvIo[s] # "ok")
      PROVE  Undisturbed
  BY <1>7 DEF Undisturbed
<1>8. CASE Accept(Acceptor)
  BY <1>8 DEF Undisturbed
<1>9. CASE PopReady(Acceptor) \/ Setup(Acceptor) \/ PushBack(Acceptor) \/ StartProtect(Acceptor)
  BY SMTT(40), <1>9 DEF Undisturbed
<1>10. ASSUME NEW t \in Callers, AnyCall(t) PROVE Undisturbed
  BY <1>10 DEF Undisturbed, AnyCall, Enter
<1>11. CASE NetworkStep
  BY <1>11 DEF Undisturbed, NetworkStep
<1>12. CASE UNCHANGED vars
  BY <1>12 DEF Undisturbed, vars
<1>q. QED
  BY <1>1, <1>2, <1>3, <1>4, <1>5, <1>6, <1>7, <1>8, <1>9, <1>10, <1>11, <1>12

\* Every step is a step of SessionCallbacks or changes no phase.
LEMMA CallbackStep ==
  ASSUME JobsArePosted, Readable, Readable', [AnyNext]_vars
  PROVE  Phases' = Phases \/ Callbacks!Next
<1>0. ASSUME Undisturbed PROVE Phases' = Phases
  BY <1>0, PhasesUntouched DEF Undisturbed, Readable
<1>1. ThreadTypes
  BY DEF Readable, Settled
<1>2. ASSUME NEW t \in Threads, SharedStep(t) PROVE Phases' = Phases
  <2>1. CASE TryRelease(t) \/ PostJob(t)
    BY <2>1, ReleasesQuietly
  <2>2. CASE Deref(t) \/ ApiStep(t) \/ SendStep(t) \/ RecvStep(t)
    BY <1>0, <1>1, <2>2, UndisturbedSteps
  <2>q. QED
    BY <1>2, <2>1, <2>2 DEF SharedStep, ReleaseStep
<1>3. ASSUME NEW w \in Workers, WorkerStep(w) PROVE Phases' = Phases \/ Callbacks!Next
  <2>1. ASSUME NEW s \in Slots, DequeueRecv(w, s) \/ DequeueSend(w, s) \/ DequeueJob(w, s)
        PROVE  Phases' = Phases \/ Callbacks!Next
    <3>1. CASE DequeueRecv(w, s) /\ recvIo[s] = "ok"
      BY <3>1, EntersOnReceive
    <3>2. CASE DequeueJob(w, s)
      BY <3>2, EntersOnDisconnect
    <3>3. CASE DequeueSend(w, s) \/ (DequeueRecv(w, s) /\ recvIo[s] # "ok")
      BY <1>0, <1>1, <3>3, UndisturbedSteps
    <3>q. QED
      BY <2>1, <3>1, <3>2, <3>3
  <2>2. CASE Received(w) \/ Disconnected(w)
    BY <2>2, LeavesCallback DEF Threads
  <2>3. CASE SentStep(w) \/ Drain(w) \/ CloseSocket(w) \/ Uncount(w) \/ PushReady(w)
    BY <1>0, <1>1, <2>3, UndisturbedSteps
  <2>q. QED
    BY <1>3, <2>1, <2>2, <2>3 DEF WorkerStep, DequeueStep, RecycleStep
<1>4. CASE AcceptStep(Acceptor)
  <2>1. CASE CountSession(Acceptor)
    BY <2>1, EntersOnConnect
  <2>2. CASE Connected(Acceptor)
    BY <2>2, LeavesCallback DEF Threads
  <2>3. CASE StartPublish(Acceptor)
    BY <2>3, PublishesQuietly
  <2>4. CASE StartFields(Acceptor)
    BY <2>4, SlotsAreReusedQuietly
  <2>5. CASE PopReady(Acceptor) \/ Setup(Acceptor) \/ PushBack(Acceptor) \/ StartProtect(Acceptor)
    BY <1>0, <1>1, <2>5, UndisturbedSteps
  <2>q. QED
    BY <1>4, <2>1, <2>2, <2>3, <2>4, <2>5 DEF AcceptStep
<1>5. CASE \/ Accept(Acceptor) \/ NetworkStep \/ UNCHANGED vars
           \/ \E t \in Callers : AnyCall(t)
  BY <1>0, <1>1, <1>5, UndisturbedSteps
<1>q. QED
  BY <1>2, <1>3, <1>4, <1>5 DEF AnyNext

\* The invariant settles what the phases are read from.
LEMMA InvariantIsReadable == IInv => Readable
<1> SUFFICES ASSUME IInv PROVE Readable
  OBVIOUS
<1>1. Settled
  BY ApartByThread DEF IInv, TypeOK, Placed, Settled
<1>q. QED
  BY <1>1, SettledIsReadable

LEMMA InvariantIsReadableNext == IInv' => Readable'
BY InvariantIsReadable, PTL

LEMMA ContractStep == JobsArePosted /\ IInv /\ IInv' /\ [AnyNext]_vars => [Callbacks!Next]_Phases
BY InvariantIsReadable, InvariantIsReadableNext, CallbackStep

LEMMA ContractInit == Init => Callbacks!Init
BY DEF Init, Callbacks!Init, Phase, Told

\* The derived class sees, for every session, OnConnect, OnReceive one at a time and one OnDisconnect
\* after all of them, with ids in order and never more sessions than slots (AcceptThreadEntry,
\* OnReceiveData, DoSessionReleaseJob), as long as release jobs can be posted.
THEOREM CallbacksInOrder == JobsArePosted => (Spec => CallbackContract)
<1> SUFFICES ASSUME JobsArePosted PROVE Spec => CallbackContract
  OBVIOUS
<1>1. IInv /\ IInv' /\ [Next]_vars => [Callbacks!Next]_Phases
  BY NextIsAny, ContractStep
<1>q. QED
  BY <1>1, ContractInit, Invariance, PTL DEF Spec, CallbackContract, Callbacks!Spec, Phases
====
