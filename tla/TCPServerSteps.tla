--------------------------- MODULE TCPServerSteps ---------------------------
(***************************************************************************)
(* Every part of IInv of TCPServerInvariant is kept by every step: control *)
(* points and sessions that stay alive while used, the exclusion between   *)
(* the owners, the receivers and the senders of a slot; the reference      *)
(* count, the number of sessions and the types; the send queues, the       *)
(* packets under transmission, and whose packets a queue holds.            *)
(***************************************************************************)
EXTENDS TCPServerInvariant, FiniteSetTheorems, TLAPS

\* The operations of the ring and of sequences that the send queue is moved by.
LEMMA AdvanceStaysInRing ==
  ASSUME NEW size \in Nat, NEW cursor \in 0..size - 1, NEW n \in 0..size
  PROVE  Advance(cursor, n, size) \in 0..size - 1
BY DEF Advance

\* Popping n entries leaves the others in their order.
LEMMA PopKeepsTheRest ==
  ASSUME NEW q \in Seq(Nat), NEW n \in 1..Len(q), NEW r, r = SubSeq(q, n + 1, Len(q))
  PROVE  /\ r \in Seq(Nat)
         /\ Len(r) = Len(q) - n
         /\ \A i \in 1..Len(r) : r[i] = q[n + i]
<1>1. n \in Nat /\ Len(q) \in Nat /\ n <= Len(q)
  OBVIOUS
<1>2. \A i \in 1..Len(q) : q[i] \in Nat
  OBVIOUS
<1>3. r \in Seq(Nat)
  BY <1>1, <1>2
<1>4. Len(r) = Len(q) - n
  BY <1>1, <1>2
<1>5. \A i \in 1..Len(r) : r[i] = q[n + i]
  BY <1>1, <1>2, <1>4
<1> QED
  BY <1>3, <1>4, <1>5

\* Pushing adds one entry behind the others.
LEMMA AppendAddsOne ==
  ASSUME NEW q \in Seq(Nat), NEW e \in Nat
  PROVE  /\ Append(q, e) \in Seq(Nat)
         /\ Len(Append(q, e)) = Len(q) + 1
         /\ \A i \in 1..Len(q) : Append(q, e)[i] = q[i]
         /\ Append(q, e)[Len(q) + 1] = e
OBVIOUS

\* The steps of the program are expanded wherever a leaf mentions them.
USE DEF flag, session, port, server, app, local, Goto, Return, AddRef, AddRecvRef, AddStartRef,
  Deref, TryRelease, Releasable, PostJob,
  Enter, CheckReleased, PassesReleased, CheckId, PassesId, Body, ReadAddress, SetCancel, CancelIoEx,
  Push, DisconnectFull, TakeFlag, WasSending, CheckCancelSend, Peek, ClearFlag, WithoutFlag,
  RefSend, Started, Refused, WSASend, CheckSendPending, RefRecv, AfterWSARecv, WSARecv,
  CheckRecvPending, Received, CheckCancelRecv, TakeCompletion, DequeueRecv, DequeueSend, DequeueJob,
  PopSent, ClearPending, DropFlag, CheckMore, LoadReadCursor, LoadWriteCursor, Disconnected, Drain,
  Drained, CloseSocket, Uncount, Uncounted, PushReady, Accept, PopReady, Setup, PushBack,
  StartFields, StartProtect, StartPublish, CountSession, Connected, Complete, PeerReset

----------------------------------------------------------------------------
(***************************************************************************)
(* What each program point says of its thread.                             *)
(***************************************************************************)

\* Every step keeps a busy thread on a slot and an idle one on none: a slot comes from the ready list, a
\* completion or an id the application was given.
LEMMA LocatedStep ==
  ASSUME ThreadTypes, ServerTypes, Located, [AnyNext]_vars
  PROVE  Located'
<1> USE DEF ThreadTypes, Located, Threads
<1>1. CASE UNCHANGED vars
  BY <1>1 DEF vars
<1>2. ASSUME NEW t \in Threads, SharedStep(t) PROVE Located'
  BY <1>2 DEF SharedStep, ReleaseStep, ApiStep, SendStep, RecvStep
<1>3. ASSUME NEW w \in Workers, WorkerStep(w) PROVE Located'
  BY <1>3 DEF WorkerStep, DequeueStep, SentStep, RecycleStep
<1>4. CASE Accept(Acceptor) \/ AcceptStep(Acceptor)
  BY <1>4 DEF AcceptStep, ServerTypes
<1>5. ASSUME NEW t \in Callers, AnyCall(t) PROVE Located'
  BY <1>5 DEF AnyCall, ServerTypes
<1>6. CASE NetworkStep
  BY <1>6 DEF NetworkStep
<1> HIDE DEF ThreadTypes, Located
<1>q. QED
  BY <1>1, <1>2, <1>3, <1>4, <1>5, <1>6 DEF AnyNext

\* Every step keeps the second reference to the stretch of code between taking it and giving it up.
LEMMA SecondReferencesStep ==
  ASSUME ThreadTypes, SecondReferences, [AnyNext]_vars
  PROVE  SecondReferences'
<1> USE DEF ThreadTypes, SecondReferences, Threads
<1>1. CASE UNCHANGED vars
  BY SMTT(40), <1>1 DEF vars
<1>2. ASSUME NEW t \in Threads, SharedStep(t) PROVE SecondReferences'
  BY <1>2 DEF SharedStep, ReleaseStep, ApiStep, SendStep, RecvStep
<1>3. ASSUME NEW w \in Workers, WorkerStep(w) PROVE SecondReferences'
  BY <1>3 DEF WorkerStep, DequeueStep, SentStep, RecycleStep
<1>4. CASE Accept(Acceptor) \/ AcceptStep(Acceptor)
  BY <1>4 DEF AcceptStep
<1>5. ASSUME NEW t \in Callers, AnyCall(t) PROVE SecondReferences'
  BY <1>5 DEF AnyCall
<1>6. CASE NetworkStep
  BY <1>6 DEF NetworkStep
<1> HIDE DEF ThreadTypes, SecondReferences
<1>q. QED
  BY <1>1, <1>2, <1>3, <1>4, <1>5, <1>6 DEF AnyNext

\* No step takes a worker into Send, Disconnect, GetAddress or Start.
LEMMA RolesStep ==
  ASSUME ThreadTypes, Roles, [AnyNext]_vars
  PROVE  Roles'
<1> USE ThreadAssumption DEF ThreadTypes, Roles, Threads
<1>1. CASE UNCHANGED vars
  BY SMTT(40), <1>1 DEF vars
<1>2. ASSUME NEW t \in Threads, SharedStep(t) PROVE Roles'
  BY <1>2 DEF SharedStep, ReleaseStep, ApiStep, SendStep, RecvStep
<1>3. ASSUME NEW w \in Workers, WorkerStep(w) PROVE Roles'
  BY <1>3 DEF WorkerStep, DequeueStep, SentStep, RecycleStep
<1>4. CASE Accept(Acceptor) \/ AcceptStep(Acceptor)
  BY <1>4 DEF AcceptStep
<1>5. ASSUME NEW t \in Callers, AnyCall(t) PROVE Roles'
  BY <1>5 DEF AnyCall
<1>6. CASE NetworkStep
  BY <1>6 DEF NetworkStep
<1> HIDE DEF ThreadTypes, Roles
<1>q. QED
  BY <1>1, <1>2, <1>3, <1>4, <1>5, <1>6 DEF AnyNext

\* No step of the server takes an application thread out of the API.
LEMMA CallerRolesStep ==
  ASSUME ThreadTypes, CallerRoles, [AnyNext]_vars
  PROVE  CallerRoles'
<1> USE ThreadAssumption DEF ThreadTypes, CallerRoles, Threads
<1>1. CASE UNCHANGED vars
  BY <1>1 DEF vars
<1>2. ASSUME NEW t \in Threads, ReleaseStep(t) \/ ApiStep(t) PROVE CallerRoles'
  BY <1>2 DEF ReleaseStep, ApiStep
<1>3. ASSUME NEW t \in Threads, SendStep(t) \/ RecvStep(t) PROVE CallerRoles'
  BY <1>3 DEF SendStep, RecvStep
<1>4. ASSUME NEW w \in Workers, WorkerStep(w) PROVE CallerRoles'
  BY <1>4 DEF WorkerStep, DequeueStep, SentStep, RecycleStep
<1>5. CASE Accept(Acceptor) \/ AcceptStep(Acceptor)
  BY <1>5 DEF AcceptStep
<1>6. ASSUME NEW t \in Callers, AnyCall(t) PROVE CallerRoles'
  BY <1>6 DEF AnyCall
<1>7. CASE NetworkStep
  BY <1>7 DEF NetworkStep
<1> HIDE DEF ThreadTypes, CallerRoles
<1>q. QED
  BY <1>1, <1>2, <1>3, <1>4, <1>5, <1>6, <1>7 DEF AnyNext, SharedStep

----------------------------------------------------------------------------
(***************************************************************************)
(* Sessions in use are alive.                                              *)
(***************************************************************************)

\* The part of RefCountExact the other invariants rely on: whoever uses a slot is counted.
Counted ==
  /\ \A t \in Threads : pc[t] \notin Unreferenced => refCount[cur[t]] # 0
  /\ \A s \in Slots : recvIo[s] # "none" \/ sendIo[s] # "none" => refCount[s] # 0

\* Arithmetic of the four parts of the reference count.
LEMMA Sums ==
  /\ \A a, b, c, d \in Nat : a # 0 \/ c # 0 \/ d # 0 => a + b + c + d # 0
  /\ \A a, b, c, d \in Nat : a + b + c + d \in Nat
OBVIOUS

\* An exact reference count is not zero while anything uses the slot.
LEMMA CountedByCardinality ==
  ASSUME ThreadTypes, PortTypes, Located, RefCountExact
  PROVE  Counted
<1>1. ASSUME NEW s \in Slots
      PROVE  /\ IsFiniteSet(Holders(s)) /\ IsFiniteSet(SecondHolders(s))
             /\ Cardinality(Holders(s)) \in Nat /\ Cardinality(SecondHolders(s)) \in Nat
             /\ Outstanding(recvIo[s]) \in Nat /\ Outstanding(sendIo[s]) \in Nat
  BY ThreadAssumption, FS_Subset, FS_CardinalityType DEF Holders, SecondHolders, Outstanding
<1>2. ASSUME NEW t \in Threads, pc[t] \notin Unreferenced
      PROVE  refCount[cur[t]] # 0
  <2>1. cur[t] \in Slots
    BY <1>2 DEF Located, Unreferenced
  <2>2. Holders(cur[t]) # {}
    BY <1>2 DEF Holders
  <2>3. Cardinality(Holders(cur[t])) # 0
    BY <1>1, <2>1, <2>2, FS_EmptySet
  <2>4. refCount[cur[t]] = Cardinality(Holders(cur[t])) + Cardinality(SecondHolders(cur[t]))
                             + Outstanding(recvIo[cur[t]]) + Outstanding(sendIo[cur[t]])
    BY <2>1 DEF RefCountExact
  <2>5. /\ Cardinality(Holders(cur[t])) \in Nat /\ Cardinality(SecondHolders(cur[t])) \in Nat
        /\ Outstanding(recvIo[cur[t]]) \in Nat /\ Outstanding(sendIo[cur[t]]) \in Nat
    BY <1>1, <2>1
  <2>q. QED
    BY <2>3, <2>4, <2>5, Sums
<1>3. ASSUME NEW s \in Slots, recvIo[s] # "none" \/ sendIo[s] # "none"
      PROVE  refCount[s] # 0
  BY <1>1, <1>3 DEF RefCountExact, Outstanding
<1>q. QED
  BY <1>2, <1>3 DEF Counted

\* An owner of a slot is its only one.
LEMMA OwnerIsAlone ==
  ASSUME SlotHasOneOwner, Located, NEW t \in Threads, pc[t] \in Owning
  PROVE  /\ cur[t] \in Slots /\ cur[t] \notin ready /\ released[cur[t]] /\ ~(jobs[cur[t]] > 0)
         /\ \A u \in Threads : pc[u] \in Owning /\ cur[u] = cur[t] => u = t
<1>1. cur[t] \in Slots
  BY DEF Located, Owning
<1>2. t \in Owners(cur[t])
  BY DEF Owners
<1>3. \A a \in Owners(cur[t]) : a = t
  BY <1>1, <1>2 DEF SlotHasOneOwner
<1>4. t \notin {"ready", "job", "live"}
  BY ThreadAssumption DEF Tokens
<1>q. QED
  BY <1>1, <1>3, <1>4 DEF Owners

\* Every step keeps sessions in use alive: releasing one needs a count of zero, and the flag is read under a
\* reference.
LEMMA AliveStep ==
  ASSUME ThreadTypes, FlagTypes, SessionTypes, PortTypes, ServerTypes, Located, Alive, Starting, Counted,
         NoUseAfterRelease, SlotHasOneOwner, [AnyNext]_vars
  PROVE  Alive'
<1> USE DEF ThreadTypes, FlagTypes, Located, Alive, Using, Threads
<1>1. CASE UNCHANGED vars
  BY <1>1 DEF vars
<1>2. ASSUME NEW t \in Threads, TryRelease(t) PROVE Alive'
  <2>1. ASSUME NEW u \in Threads, pc'[u] \in Using \cup {"checkId"}
        PROVE  ~released'[cur'[u]]
    BY SMTT(40), <1>2, <2>1 DEF Counted, Unreferenced
  <2>q. QED
    BY <1>2, <2>1
<1>3. ASSUME NEW t \in Threads, SharedStep(t), ~TryRelease(t) PROVE Alive'
  <2>1. Deref(t) \/ PostJob(t) \/ ApiStep(t) \/ SendStep(t) \/ RecvStep(t)
    BY SMTT(40), <1>3 DEF SharedStep, ReleaseStep
  <2>2. released' = released /\ sock' = sock
    BY <2>1 DEF ApiStep, SendStep, RecvStep
  <2>q. QED
    BY <2>1, <2>2 DEF ApiStep, SendStep, RecvStep
<1>4. ASSUME NEW w \in Workers, WorkerStep(w), ~CloseSocket(w) PROVE Alive'
  BY <1>4 DEF WorkerStep, DequeueStep, SentStep, RecycleStep, NoUseAfterRelease
<1>5. ASSUME NEW w \in Workers, CloseSocket(w) PROVE Alive'
  <2>1. released[cur[w]]
    BY <1>5, OwnerIsAlone DEF Owning
  <2>q. QED
    BY <1>5, <2>1 DEF SessionTypes
<1>6. CASE Accept(Acceptor) \/ AcceptStep(Acceptor)
  BY <1>6 DEF AcceptStep, SessionTypes, Starting
<1>7. ASSUME NEW t \in Callers, AnyCall(t) PROVE Alive'
  BY <1>7 DEF AnyCall
<1>8. CASE NetworkStep
  BY <1>8 DEF NetworkStep, SessionTypes
<1> HIDE DEF ThreadTypes, FlagTypes, Located, Alive, Using
<1>q. QED
  BY <1>1, <1>2, <1>3, <1>4, <1>5, <1>6, <1>7, <1>8 DEF AnyNext

\* Every step keeps a session that is being started as its accept thread left it: the slot is that thread's alone.
LEMMA StartingStep ==
  ASSUME ThreadTypes, SessionTypes, ServerTypes, Located, Starting, SlotHasOneOwner, [AnyNext]_vars
  PROVE  Starting'
<1> USE DEF ThreadTypes, SessionTypes, Located, Starting, Threads
<1>1. CASE UNCHANGED vars
  BY <1>1 DEF vars
<1>2. ASSUME NEW t \in Threads, SharedStep(t) PROVE Starting'
  <2>1. id' = id /\ sock' = sock
    BY <1>2 DEF SharedStep, ReleaseStep, ApiStep, SendStep, RecvStep
  <2>2. ASSUME NEW u \in Threads, pc'[u] \in {"protect", "publish"}
        PROVE  pc[u] \in {"protect", "publish"} /\ cur'[u] = cur[u] /\ arg'[u] = arg[u]
    BY <1>2, <2>2 DEF SharedStep, ReleaseStep, ApiStep, SendStep, RecvStep
  <2>q. QED
    BY <2>1, <2>2
<1>3. ASSUME NEW w \in Workers, WorkerStep(w), ~CloseSocket(w) PROVE Starting'
  <2>1. id' = id /\ sock' = sock
    BY <1>3 DEF WorkerStep, DequeueStep, SentStep, RecycleStep
  <2>2. ASSUME NEW u \in Threads, pc'[u] \in {"protect", "publish"}
        PROVE  pc[u] \in {"protect", "publish"} /\ cur'[u] = cur[u] /\ arg'[u] = arg[u]
    BY <1>3, <2>2 DEF WorkerStep, DequeueStep, SentStep, RecycleStep
  <2>q. QED
    BY <2>1, <2>2
<1>4. ASSUME NEW w \in Workers, CloseSocket(w) PROVE Starting'
  <2>1. \A u \in Threads : pc[u] \in {"protect", "publish"} => cur[u] # cur[w]
    BY <1>4, OwnerIsAlone DEF Owning
  <2>q. QED
    BY <1>4, <2>1
<1>5. ASSUME StartFields(Acceptor) PROVE Starting'
  <2>1. \A u \in Threads : pc[u] \in {"protect", "publish"} => cur[u] # cur[Acceptor]
    BY <1>5, OwnerIsAlone DEF Owning
  <2>q. QED
    BY <1>5, <2>1 DEF ServerTypes
<1>6. CASE (Accept(Acceptor) \/ AcceptStep(Acceptor)) /\ ~StartFields(Acceptor)
  BY <1>6 DEF AcceptStep
<1>7. ASSUME NEW t \in Callers, AnyCall(t) PROVE Starting'
  BY <1>7 DEF AnyCall
<1>8. CASE NetworkStep
  BY <1>8 DEF NetworkStep
<1> HIDE DEF ThreadTypes, SessionTypes, Located, Starting
<1>q. QED
  BY <1>1, <1>2, <1>3, <1>4, <1>5, <1>6, <1>7, <1>8 DEF AnyNext

\* Every step keeps sessions in use unreleased and unchanged: the next session of a slot is only started after
\* the release, and the release waits for the last reference.
LEMMA NoUseAfterReleaseStep ==
  ASSUME ThreadTypes, FlagTypes, SessionTypes, PortTypes, ServerTypes, Located, Located', Starting, Alive, Alive',
         Counted, NoUseAfterRelease, SlotHasOneOwner, [AnyNext]_vars
  PROVE  NoUseAfterRelease'
<1>1. ASSUME NEW s \in Slots, recvIo'[s] # "none" \/ sendIo'[s] # "none" PROVE ~released'[s]
  <2> USE <1>1, ThreadAssumption DEF ThreadTypes, FlagTypes, PortTypes, NoUseAfterRelease, Located, Alive, Using, Threads
  <2>1. CASE UNCHANGED vars
    BY <2>1 DEF vars
  <2>2. ASSUME NEW t \in Threads, TryRelease(t) PROVE ~released'[s]
    BY <2>2 DEF Counted
  <2>3. ASSUME NEW t \in Threads, Deref(t) \/ PostJob(t) \/ ApiStep(t) \/ SendStep(t) \/ RecvStep(t)
        PROVE  ~released'[s]
    BY <2>3 DEF ApiStep, SendStep, RecvStep, Cancel, RecheckCancel
  <2>4. ASSUME NEW w \in Workers, WorkerStep(w) PROVE ~released'[s]
    BY <2>4 DEF WorkerStep, DequeueStep, SentStep, RecycleStep
  <2>5. CASE Accept(Acceptor) \/ AcceptStep(Acceptor)
    BY <2>5 DEF AcceptStep
  <2>6. ASSUME NEW t \in Callers, AnyCall(t) PROVE ~released'[s]
    BY <2>6 DEF AnyCall
  <2>7. CASE NetworkStep
    BY <2>7 DEF NetworkStep, Cancel, IoStates
  <2>q. QED
    BY ZenonT(60), <2>1, <2>2, <2>3, <2>4, <2>5, <2>6, <2>7 DEF AnyNext, SharedStep, ReleaseStep
<1>2. ASSUME NEW u \in Threads, pc'[u] \in Using, u \notin Workers PROVE id'[cur'[u]] = arg'[u]
  <2> USE <1>2 DEF ThreadTypes, NoUseAfterRelease, Located, Using, Threads
  <2>1. CASE UNCHANGED vars
    BY SMTT(40), <2>1 DEF vars
  <2>2. ASSUME NEW t \in Threads, SharedStep(t) PROVE id'[cur'[u]] = arg'[u]
    BY <2>2 DEF SharedStep, ReleaseStep, ApiStep, SendStep, RecvStep
  <2>3. ASSUME NEW w \in Workers, WorkerStep(w) PROVE id'[cur'[u]] = arg'[u]
    BY <2>3 DEF WorkerStep, DequeueStep, SentStep, RecycleStep
  <2>4. CASE StartFields(Acceptor)
    <3>1. pc[u] \in Using /\ cur[u] \in Slots /\ cur'[u] = cur[u] /\ arg'[u] = arg[u]
      BY <2>4
    <3>2. released[cur[Acceptor]]
      BY <2>4, OwnerIsAlone DEF Owning
    <3>q. QED
      BY <2>4, <3>1, <3>2 DEF SessionTypes
  <2>5. CASE (Accept(Acceptor) \/ AcceptStep(Acceptor)) /\ ~StartFields(Acceptor)
    BY <2>5 DEF AcceptStep, Starting
  <2>6. ASSUME NEW t \in Callers, AnyCall(t) PROVE id'[cur'[u]] = arg'[u]
    BY <2>6 DEF AnyCall
  <2>7. CASE NetworkStep
    BY <2>7 DEF NetworkStep
  <2>q. QED
    BY <2>1, <2>2, <2>3, <2>4, <2>5, <2>6, <2>7 DEF AnyNext

<1>q. QED
  BY <1>1, <1>2 DEF NoUseAfterRelease, Alive, Located, Using, Unreferenced

----------------------------------------------------------------------------
(***************************************************************************)
(* One owner, one receiver, one sender.  Each is first spelled out thread  *)
(* by thread.                                                              *)
(***************************************************************************)

\* No two owners of a slot: a thread that owns it, the free list, a job, the live session.
OwnersApart ==
  /\ \A t \in Threads : pc[t] \in Owning =>
       /\ cur[t] \notin ready /\ jobs[cur[t]] = 0 /\ released[cur[t]]
       /\ \A u \in Threads : pc[u] \in Owning /\ cur[u] = cur[t] => u = t
  /\ \A s \in ready : jobs[s] = 0 /\ released[s]
  /\ \A s \in Slots : jobs[s] <= 1 /\ (jobs[s] > 0 => released[s])

\* No slot is without an owner.
SlotsOwned ==
  "post" \notin Faults =>
    \A s \in Slots :
      s \in ready \/ jobs[s] > 0 \/ ~released[s] \/ \E t \in Threads : pc[t] \in Owning /\ cur[t] = s

\* SlotHasOneOwner says that owners are apart and no slot is ownerless.
LEMMA OwnersByThread ==
  ASSUME ThreadTypes, PortTypes, ServerTypes, Located
  PROVE  SlotHasOneOwner <=> OwnersApart /\ SlotsOwned
<1>1. ASSUME SlotHasOneOwner PROVE OwnersApart
  <2>1. ASSUME NEW t \in Threads, pc[t] \in Owning
        PROVE  /\ cur[t] \notin ready /\ jobs[cur[t]] = 0 /\ released[cur[t]]
               /\ \A u \in Threads : pc[u] \in Owning /\ cur[u] = cur[t] => u = t
    BY <1>1, <2>1, OwnerIsAlone DEF PortTypes
  <2>2. ASSUME NEW s \in Slots, s \in ready PROVE jobs[s] = 0 /\ released[s]
    BY <1>1, <2>2 DEF SlotHasOneOwner, Owners, PortTypes
  <2>3. ASSUME NEW s \in Slots PROVE jobs[s] <= 1 /\ (jobs[s] > 0 => released[s])
    BY <1>1, <2>3 DEF SlotHasOneOwner, Owners
  <2>q. QED
    BY <2>1, <2>2, <2>3 DEF OwnersApart, ServerTypes
<1>2. ASSUME SlotHasOneOwner PROVE SlotsOwned
  BY <1>2 DEF SlotHasOneOwner, SlotsOwned, Owners
<1>3. ASSUME OwnersApart, SlotsOwned PROVE SlotHasOneOwner
  <2>1. ASSUME NEW s \in Slots, NEW a \in Owners(s), NEW b \in Owners(s) PROVE a = b
    BY <1>3, <2>1 DEF OwnersApart, Owners, PortTypes
  <2>2. ASSUME NEW s \in Slots PROVE "post" \notin Faults => Owners(s) # {}
    BY SMTT(40), <1>3 DEF SlotsOwned, Owners
  <2>q. QED
    BY <1>3, <2>1, <2>2 DEF SlotHasOneOwner, OwnersApart
<1>q. QED
  BY <1>1, <1>2, <1>3

\* Every step keeps the owners of a slot apart: ownership passes from the live session to the releasing thread,
\* the job, the worker, the ready list and the accept thread, to one at a time.
LEMMA OwnersApartStep ==
  ASSUME ThreadTypes, FlagTypes, PortTypes, ServerTypes, Located, OwnersApart, [AnyNext]_vars
  PROVE  OwnersApart'
<1> USE DEF ThreadTypes, FlagTypes, PortTypes, ServerTypes, Located, OwnersApart, Owning, Threads
<1>1. CASE UNCHANGED vars
  BY <1>1 DEF vars
<1>2. ASSUME NEW t \in Threads, Deref(t) \/ ApiStep(t) \/ SendStep(t) \/ RecvStep(t)
      PROVE  OwnersApart'
  <2>1. ready' = ready /\ jobs' = jobs /\ released' = released
    BY SMTT(40), <1>2 DEF ApiStep, SendStep, RecvStep
  <2>2. ASSUME NEW u \in Threads, pc'[u] \in Owning PROVE pc[u] \in Owning /\ cur'[u] = cur[u]
    BY <1>2, <2>2 DEF ApiStep, SendStep, RecvStep
  <2>q. QED
    BY <2>1, <2>2
<1>3. ASSUME NEW t \in Threads, TryRelease(t) PROVE OwnersApart'
  BY <1>3
<1>4. ASSUME NEW t \in Threads, PostJob(t) PROVE OwnersApart'
  BY <1>4
<1>5. ASSUME NEW w \in Workers, NEW s \in Slots, DequeueRecv(w, s) \/ DequeueSend(w, s) PROVE OwnersApart'
  BY <1>5
<1>6. ASSUME NEW w \in Workers, NEW s \in Slots, DequeueJob(w, s) PROVE OwnersApart'
  BY <1>6
<1>7. ASSUME NEW w \in Workers, Received(w) \/ SentStep(w) PROVE OwnersApart'
  <2>1. ready' = ready /\ jobs' = jobs /\ released' = released
    BY <1>7 DEF SentStep
  <2>2. ASSUME NEW u \in Threads, pc'[u] \in Owning PROVE pc[u] \in Owning /\ cur'[u] = cur[u]
    BY <1>7, <2>2 DEF SentStep
  <2>q. QED
    BY <2>1, <2>2
<1>8. ASSUME NEW w \in Workers, RecycleStep(w) PROVE OwnersApart'
  BY <1>8 DEF RecycleStep
<1>9. CASE Accept(Acceptor) \/ AcceptStep(Acceptor)
  BY <1>9 DEF AcceptStep
<1>10. ASSUME NEW t \in Callers, AnyCall(t) PROVE OwnersApart'
  BY <1>10 DEF AnyCall
<1>11. CASE NetworkStep
  BY SMTT(40), <1>11 DEF NetworkStep
<1> HIDE DEF ThreadTypes, FlagTypes, PortTypes, ServerTypes, Located, OwnersApart, Owning
<1>q. QED
  BY <1>1, <1>2, <1>3, <1>4, <1>5, <1>6, <1>7, <1>8, <1>9, <1>10, <1>11
  DEF AnyNext, SharedStep, ReleaseStep, WorkerStep, DequeueStep

\* Every step keeps every slot owned, if posting a job does not fail.
LEMMA SlotsOwnedStep ==
  ASSUME ThreadTypes, FlagTypes, PortTypes, ServerTypes, Located, OwnersApart, SlotsOwned, [AnyNext]_vars
  PROVE  SlotsOwned'
<1> USE DEF ThreadTypes, FlagTypes, PortTypes, ServerTypes, Located, OwnersApart, SlotsOwned, Owning, Threads
<1>1. CASE UNCHANGED vars
  BY <1>1 DEF vars
<1>2. ASSUME NEW t \in Threads, Deref(t) \/ ApiStep(t) \/ SendStep(t) \/ RecvStep(t)
      PROVE  SlotsOwned'
  <2>1. ready' = ready /\ jobs' = jobs /\ released' = released
    BY <1>2 DEF ApiStep, SendStep, RecvStep
  <2>2. ASSUME NEW u \in Threads, pc[u] \in Owning PROVE pc'[u] \in Owning /\ cur'[u] = cur[u]
    BY <1>2, <2>2 DEF ApiStep, SendStep, RecvStep
  <2>q. QED
    BY <2>1, <2>2
<1>3. ASSUME NEW t \in Threads, TryRelease(t) PROVE SlotsOwned'
  BY <1>3
<1>4. ASSUME NEW t \in Threads, PostJob(t) PROVE SlotsOwned'
  BY <1>4
<1>5. ASSUME NEW w \in Workers, NEW s \in Slots, DequeueRecv(w, s) \/ DequeueSend(w, s) PROVE SlotsOwned'
  BY SMTT(40), <1>5
<1>6. ASSUME NEW w \in Workers, NEW s \in Slots, DequeueJob(w, s) PROVE SlotsOwned'
  BY <1>6
<1>7. ASSUME NEW w \in Workers, Received(w) \/ SentStep(w) PROVE SlotsOwned'
  <2>1. ready' = ready /\ jobs' = jobs /\ released' = released
    BY <1>7 DEF SentStep
  <2>2. ASSUME NEW u \in Threads, pc[u] \in Owning PROVE pc'[u] \in Owning /\ cur'[u] = cur[u]
    BY <1>7, <2>2 DEF SentStep
  <2>q. QED
    BY <2>1, <2>2
<1>8. ASSUME NEW w \in Workers, RecycleStep(w) PROVE SlotsOwned'
  <2>1. CASE PushReady(w)
    BY <2>1
  <2>2. CASE ~PushReady(w)
    <3>1. ready' = ready /\ jobs' = jobs /\ released' = released
      BY <1>8, <2>2 DEF RecycleStep
    <3>2. ASSUME NEW u \in Threads, pc[u] \in Owning PROVE pc'[u] \in Owning /\ cur'[u] = cur[u]
      BY <1>8, <2>2, <3>2 DEF RecycleStep
    <3>q. QED
      BY <3>1, <3>2
  <2>q. QED
    BY <2>1, <2>2
<1>9. CASE Accept(Acceptor) \/ AcceptStep(Acceptor)
  BY <1>9 DEF AcceptStep
<1>10. ASSUME NEW t \in Callers, AnyCall(t) PROVE SlotsOwned'
  BY <1>10 DEF AnyCall
<1>11. CASE NetworkStep
  BY <1>11 DEF NetworkStep
<1> HIDE DEF ThreadTypes, FlagTypes, PortTypes, ServerTypes, Located, OwnersApart, SlotsOwned, Owning
<1>q. QED
  BY <1>1, <1>2, <1>3, <1>4, <1>5, <1>6, <1>7, <1>8, <1>9, <1>10, <1>11
  DEF AnyNext, SharedStep, ReleaseStep, WorkerStep, DequeueStep

\* No two receivers of a session.
ReceiversApart ==
  \A t \in Threads : pc[t] \in Receiving =>
    /\ recvIo[cur[t]] = "none"
    /\ \A u \in Threads : pc[u] \in Receiving /\ cur[u] = cur[t] => u = t

\* OneReceiver says that receivers are apart.
LEMMA ReceiversByThread ==
  ASSUME ThreadTypes, Located
  PROVE  OneReceiver <=> ReceiversApart
<1>1. \A t \in Threads : t # "recvIo"
  BY ThreadAssumption DEF Tokens
<1>2. ASSUME OneReceiver PROVE ReceiversApart
  <2> SUFFICES ASSUME NEW t \in Threads, pc[t] \in Receiving
               PROVE  /\ recvIo[cur[t]] = "none"
                      /\ \A u \in Threads : pc[u] \in Receiving /\ cur[u] = cur[t] => u = t
    BY DEF ReceiversApart
  <2>1. cur[t] \in Slots /\ t \in Receivers(cur[t])
    BY DEF Located, Receivers, Receiving
  <2>2. \A a \in Receivers(cur[t]) : a = t
    BY <1>2, <2>1 DEF OneReceiver
  <2>q. QED
    BY <1>1, <2>2 DEF Receivers
<1>3. ASSUME ReceiversApart PROVE OneReceiver
  BY <1>3 DEF ReceiversApart, OneReceiver, Receivers
<1>q. QED
  BY <1>2, <1>3

\* Every step keeps receivers apart: the right to receive passes from the accept thread to the operation to the
\* worker that dequeued it.
LEMMA ReceiversApartStep ==
  ASSUME ThreadTypes, FlagTypes, PortTypes, ServerTypes, Located, Alive, NoUseAfterRelease,
         OwnersApart, ReceiversApart, [AnyNext]_vars
  PROVE  ReceiversApart'
<1> USE DEF ThreadTypes, PortTypes, ServerTypes, Located, ReceiversApart, Receiving, Threads
<1>1. CASE UNCHANGED vars
  BY <1>1 DEF vars
<1>2. ASSUME NEW t \in Threads,
             ReleaseStep(t) \/ ApiStep(t) \/ SendStep(t) \/ RefRecv(t) \/ CheckRecvPending(t) \/ CheckCancelRecv(t)
      PROVE  ReceiversApart'
  <2>1. \A s \in Slots : recvIo[s] = "none" => recvIo'[s] = "none"
    BY <1>2, ThreadAssumption DEF ReleaseStep, ApiStep, SendStep, Cancel, RecheckCancel, IoStates
  <2>2. ASSUME NEW u \in Threads, pc'[u] \in Receiving PROVE pc[u] \in Receiving /\ cur'[u] = cur[u]
    BY <1>2, <2>2 DEF ReleaseStep, ApiStep, SendStep
  <2>q. QED
    BY <2>1, <2>2
<1>3. ASSUME NEW t \in Threads, WSARecv(t) PROVE ReceiversApart'
  BY <1>3
<1>4. ASSUME NEW w \in Workers, DequeueStep(w) PROVE ReceiversApart'
  BY <1>4 DEF DequeueStep
<1>5. ASSUME NEW w \in Workers, Received(w) \/ SentStep(w) \/ RecycleStep(w) PROVE ReceiversApart'
  <2>1. recvIo' = recvIo
    BY <1>5 DEF SentStep, RecycleStep
  <2>2. ASSUME NEW u \in Threads, pc'[u] \in Receiving PROVE pc[u] \in Receiving /\ cur'[u] = cur[u]
    BY <1>5, <2>2 DEF SentStep, RecycleStep
  <2>q. QED
    BY <2>1, <2>2
<1>6. CASE StartPublish(Acceptor)
  <2>1. released[cur[Acceptor]]
    BY <1>6 DEF OwnersApart, Owning
  <2>2. \A u \in Threads : pc[u] \in Receiving => cur[u] # cur[Acceptor]
    BY <2>1 DEF Alive, Using
  <2>3. recvIo[cur[Acceptor]] = "none"
    BY <1>6, <2>1 DEF NoUseAfterRelease
  <2>q. QED
    BY <1>6, <2>2, <2>3
<1>7. CASE (Accept(Acceptor) \/ AcceptStep(Acceptor)) /\ ~StartPublish(Acceptor)
  <2>1. recvIo' = recvIo
    BY <1>7 DEF AcceptStep
  <2>2. ASSUME NEW u \in Threads, pc'[u] \in Receiving PROVE pc[u] \in Receiving /\ cur'[u] = cur[u]
    BY <1>7, <2>2 DEF AcceptStep
  <2>q. QED
    BY <2>1, <2>2
<1>8. ASSUME NEW t \in Callers, AnyCall(t) PROVE ReceiversApart'
  BY <1>8 DEF AnyCall
<1>9. CASE NetworkStep
  BY <1>9, ThreadAssumption DEF NetworkStep, Cancel, IoStates
<1> HIDE DEF ThreadTypes, PortTypes, ServerTypes, Located, ReceiversApart, Receiving
<1>q. QED
  BY <1>1, <1>2, <1>3, <1>4, <1>5, <1>6, <1>7, <1>8, <1>9 DEF AnyNext, SharedStep, RecvStep, WorkerStep

\* No two senders of a session, and the flag is set while there is one.
SendersApart ==
  /\ \A t \in Threads : pc[t] \in Sending =>
       /\ sendIo[cur[t]] = "none" /\ isSending[cur[t]]
       /\ \A u \in Threads : pc[u] \in Sending /\ cur[u] = cur[t] => u = t
  /\ \A s \in Slots : sendIo[s] # "none" => isSending[s]

\* OneSender says that senders are apart and hold the flag.
LEMMA SendersByThread ==
  ASSUME ThreadTypes, Located
  PROVE  OneSender <=> SendersApart
<1>1. \A t \in Threads : t # "sendIo"
  BY ThreadAssumption DEF Tokens
<1>2. ASSUME OneSender PROVE SendersApart
  <2>1. ASSUME NEW t \in Threads, pc[t] \in Sending
        PROVE  /\ sendIo[cur[t]] = "none" /\ isSending[cur[t]]
               /\ \A u \in Threads : pc[u] \in Sending /\ cur[u] = cur[t] => u = t
    <3>1. cur[t] \in Slots /\ t \in SendOwners(cur[t])
      BY <2>1 DEF Located, SendOwners, Sending
    <3>2. isSending[cur[t]] /\ \A a \in SendOwners(cur[t]) : a = t
      BY <1>2, <3>1 DEF OneSender
    <3>q. QED
      BY <1>1, <3>2 DEF SendOwners
  <2>2. ASSUME NEW s \in Slots, sendIo[s] # "none" PROVE isSending[s]
    BY <1>2, <2>2 DEF OneSender, SendOwners
  <2>q. QED
    BY <2>1, <2>2 DEF SendersApart
<1>3. ASSUME SendersApart PROVE OneSender
  BY SMTT(40), <1>3 DEF SendersApart, OneSender, SendOwners
<1>q. QED
  BY <1>2, <1>3

\* Every step keeps senders apart: the exchange lets one thread pass, and the operation hands the right on to the
\* worker that dequeued it.
LEMMA SendersApartStep ==
  ASSUME ThreadTypes, FlagTypes, SessionTypes, PortTypes, ServerTypes, Located, Alive, NoUseAfterRelease,
         OwnersApart, SendersApart, [AnyNext]_vars
  PROVE  SendersApart'
<1> USE DEF ThreadTypes, SessionTypes, PortTypes, ServerTypes, Located, SendersApart, Sending, Threads
<1>1. CASE UNCHANGED vars
  BY <1>1 DEF vars
<1>2. ASSUME NEW t \in Threads, ReleaseStep(t) \/ ApiStep(t) \/ RecvStep(t) PROVE SendersApart'
  <2>1. isSending' = isSending /\ \A s \in Slots : sendIo[s] = "none" <=> sendIo'[s] = "none"
    BY <1>2, ThreadAssumption DEF ReleaseStep, ApiStep, RecvStep, Cancel, RecheckCancel, IoStates
  <2>2. ASSUME NEW u \in Threads, pc'[u] \in Sending PROVE pc[u] \in Sending /\ cur'[u] = cur[u]
    BY <1>2, <2>2 DEF ReleaseStep, ApiStep, RecvStep
  <2>q. QED
    BY <2>1, <2>2
<1>3. ASSUME NEW t \in Threads, TakeFlag(t) PROVE SendersApart'
  BY <1>3
<1>4. ASSUME NEW t \in Threads, CheckCancelSend(t) \/ Peek(t) \/ ClearFlag(t) \/ RefSend(t) PROVE SendersApart'
  BY <1>4
<1>5. ASSUME NEW t \in Threads, WSASend(t) PROVE SendersApart'
  BY <1>5
<1>6. ASSUME NEW t \in Threads, CheckSendPending(t) PROVE SendersApart'
  <2>1. isSending' = isSending /\ \A s \in Slots : sendIo[s] = "none" <=> sendIo'[s] = "none"
    BY <1>6, ThreadAssumption DEF Cancel, RecheckCancel, IoStates
  <2>q. QED
    BY <1>6, <2>1
<1>7. ASSUME NEW w \in Workers, DequeueStep(w) PROVE SendersApart'
  BY <1>7 DEF DequeueStep
<1>8. ASSUME NEW w \in Workers, Received(w) \/ SentStep(w) \/ RecycleStep(w) PROVE SendersApart'
  <2>1. CASE DropFlag(w)
    BY <2>1
  <2>2. CASE ~DropFlag(w)
    <3>1. sendIo' = sendIo /\ isSending' = isSending
      BY <1>8, <2>2 DEF SentStep, RecycleStep
    <3>2. ASSUME NEW u \in Threads, pc'[u] \in Sending PROVE pc[u] \in Sending /\ cur'[u] = cur[u]
      BY <1>8, <3>2 DEF SentStep, RecycleStep
    <3>q. QED
      BY <3>1, <3>2
  <2>q. QED
    BY <2>1, <2>2
<1>9. CASE StartFields(Acceptor)
  <2>1. released[cur[Acceptor]]
    BY <1>9 DEF OwnersApart, Owning
  <2>2. \A u \in Threads : pc[u] \in Sending => cur[u] # cur[Acceptor]
    BY <2>1 DEF Alive, Using
  <2>3. sendIo[cur[Acceptor]] = "none"
    BY <1>9, <2>1 DEF NoUseAfterRelease
  <2>q. QED
    BY <1>9, <2>2, <2>3
<1>10. CASE (Accept(Acceptor) \/ AcceptStep(Acceptor)) /\ ~StartFields(Acceptor)
  <2>1. sendIo' = sendIo /\ isSending' = isSending
    BY <1>10 DEF AcceptStep
  <2>2. ASSUME NEW u \in Threads, pc'[u] \in Sending PROVE pc[u] \in Sending /\ cur'[u] = cur[u]
    BY <1>10, <2>2 DEF AcceptStep
  <2>q. QED
    BY <2>1, <2>2
<1>11. ASSUME NEW t \in Callers, AnyCall(t) PROVE SendersApart'
  BY <1>11 DEF AnyCall
<1>12. CASE NetworkStep
  BY <1>12, ThreadAssumption DEF NetworkStep, Cancel, IoStates
<1> HIDE DEF ThreadTypes, SessionTypes, PortTypes, ServerTypes, Located, SendersApart, Sending
<1>q. QED
  BY <1>1, <1>2, <1>3, <1>4, <1>5, <1>6, <1>7, <1>8, <1>9, <1>10, <1>11, <1>12
  DEF AnyNext, SharedStep, SendStep, WorkerStep


----------------------------------------------------------------------------
(***************************************************************************)
(* The reference count.  A step leaves the holders of a slot alone, or     *)
(* adds or removes one thread, or hands a reference between a thread and   *)
(* an operation.                                                           *)
(***************************************************************************)

\* There are finitely many threads, so finitely many hold a reference.
LEMMA HoldersAreFinite ==
  ASSUME NEW s
  PROVE  /\ IsFiniteSet(Holders(s)) /\ Cardinality(Holders(s)) \in Nat
         /\ IsFiniteSet(SecondHolders(s)) /\ Cardinality(SecondHolders(s)) \in Nat
BY ThreadAssumption, FS_Subset, FS_CardinalityType DEF Holders, SecondHolders

\* Adding a thread to the holders.
LEMMA OneMore ==
  ASSUME NEW S, NEW T, NEW x, IsFiniteSet(S), x \notin S, T = S \cup {x}
  PROVE  Cardinality(T) = Cardinality(S) + 1
BY FS_AddElement

\* Removing a thread from the holders.
LEMMA OneLess ==
  ASSUME NEW S, NEW T, NEW x, IsFiniteSet(S), x \in S, T = S \ {x}
  PROVE  Cardinality(T) = Cardinality(S) - 1
BY FS_RemoveElement

\* RefCountExact for one slot.
CountFor(s) ==
  refCount[s] = Cardinality(Holders(s)) + Cardinality(SecondHolders(s))
                  + Outstanding(recvIo[s]) + Outstanding(sendIo[s])

\* A step that moves nobody in or out of slot s keeps its count.
LEMMA CountKept ==
  ASSUME NEW s \in Slots, CountFor(s), refCount'[s] = refCount[s],
         \A u \in Threads : cur'[u] = s /\ pc'[u] \notin Unreferenced <=> cur[u] = s /\ pc[u] \notin Unreferenced,
         \A u \in Threads : cur'[u] = s /\ extra'[u] <=> cur[u] = s /\ extra[u],
         recvIo'[s] = "none" <=> recvIo[s] = "none",
         sendIo'[s] = "none" <=> sendIo[s] = "none"
  PROVE  CountFor(s)'
<1>1. Holders(s)' = Holders(s)
  BY DEF Holders
<1>2. SecondHolders(s)' = SecondHolders(s)
  BY DEF SecondHolders
<1>3. Outstanding(recvIo[s])' = Outstanding(recvIo[s]) /\ Outstanding(sendIo[s])' = Outstanding(sendIo[s])
  BY DEF Outstanding
<1>q. QED
  BY <1>1, <1>2, <1>3 DEF CountFor

\* A thread takes its first reference.
LEMMA CountFirst ==
  ASSUME FlagTypes, NEW s \in Slots, CountFor(s), refCount'[s] = refCount[s] + 1, NEW t \in Threads,
         ~(cur[t] = s /\ pc[t] \notin Unreferenced),
         \A u \in Threads :
           cur'[u] = s /\ pc'[u] \notin Unreferenced <=> u = t \/ (cur[u] = s /\ pc[u] \notin Unreferenced),
         \A u \in Threads : cur'[u] = s /\ extra'[u] <=> cur[u] = s /\ extra[u],
         recvIo' = recvIo, sendIo' = sendIo
  PROVE  CountFor(s)'
<1>1. Holders(s)' = Holders(s) \cup {t} /\ t \notin Holders(s)
  <2>1. t \in Holders(s)' /\ t \notin Holders(s)
    BY DEF Holders
  <2>2. \A u \in Threads : u # t => (u \in Holders(s)' <=> u \in Holders(s))
    BY DEF Holders
  <2>3. Holders(s)' \subseteq Threads /\ Holders(s) \subseteq Threads
    BY DEF Holders
  <2>q. QED
    BY <2>1, <2>2, <2>3
<1>2. Cardinality(Holders(s)') = Cardinality(Holders(s)) + 1
  BY <1>1, HoldersAreFinite, OneMore
<1>3. SecondHolders(s)' = SecondHolders(s)
  BY DEF SecondHolders
<1>4. Outstanding(recvIo[s]) \in Nat /\ Outstanding(sendIo[s]) \in Nat
  BY DEF Outstanding
<1>q. QED
  BY <1>2, <1>3, <1>4, HoldersAreFinite DEF CountFor

\* A thread takes a second reference.
LEMMA CountSecond ==
  ASSUME FlagTypes, NEW s \in Slots, CountFor(s), refCount'[s] = refCount[s] + 1, NEW t \in Threads,
         ~(cur[t] = s /\ extra[t]),
         \A u \in Threads : cur'[u] = s /\ pc'[u] \notin Unreferenced <=> cur[u] = s /\ pc[u] \notin Unreferenced,
         \A u \in Threads : cur'[u] = s /\ extra'[u] <=> u = t \/ (cur[u] = s /\ extra[u]),
         recvIo' = recvIo, sendIo' = sendIo
  PROVE  CountFor(s)'
<1>1. SecondHolders(s)' = SecondHolders(s) \cup {t} /\ t \notin SecondHolders(s)
  <2>1. t \in SecondHolders(s)' /\ t \notin SecondHolders(s)
    BY DEF SecondHolders
  <2>2. \A u \in Threads : u # t => (u \in SecondHolders(s)' <=> u \in SecondHolders(s))
    BY DEF SecondHolders
  <2>3. SecondHolders(s)' \subseteq Threads /\ SecondHolders(s) \subseteq Threads
    BY DEF SecondHolders
  <2>q. QED
    BY <2>1, <2>2, <2>3
<1>2. Cardinality(SecondHolders(s)') = Cardinality(SecondHolders(s)) + 1
  BY <1>1, HoldersAreFinite, OneMore
<1>3. Holders(s)' = Holders(s)
  BY DEF Holders
<1>4. Outstanding(recvIo[s]) \in Nat /\ Outstanding(sendIo[s]) \in Nat
  BY DEF Outstanding
<1>q. QED
  BY <1>2, <1>3, <1>4, HoldersAreFinite DEF CountFor

\* A thread gives its first reference up, or takes over the one of an operation.
LEMMA CountDropped ==
  ASSUME FlagTypes, NEW s \in Slots, CountFor(s), refCount'[s] = refCount[s] - 1, NEW t \in Threads,
         cur[t] = s /\ pc[t] \notin Unreferenced,
         \A u \in Threads :
           cur'[u] = s /\ pc'[u] \notin Unreferenced <=> u # t /\ cur[u] = s /\ pc[u] \notin Unreferenced,
         \A u \in Threads : cur'[u] = s /\ extra'[u] <=> cur[u] = s /\ extra[u],
         recvIo' = recvIo, sendIo' = sendIo
  PROVE  CountFor(s)'
<1>1. Holders(s)' = Holders(s) \ {t} /\ t \in Holders(s)
  BY DEF Holders
<1>2. Cardinality(Holders(s)') = Cardinality(Holders(s)) - 1
  BY <1>1, HoldersAreFinite, OneLess
<1>3. SecondHolders(s)' = SecondHolders(s)
  BY DEF SecondHolders
<1>4. Outstanding(recvIo[s]) \in Nat /\ Outstanding(sendIo[s]) \in Nat
  BY DEF Outstanding
<1>q. QED
  BY <1>2, <1>3, <1>4, HoldersAreFinite DEF CountFor

\* A thread gives its second reference up, or hands it to an operation.
LEMMA CountSecondDropped ==
  ASSUME FlagTypes, NEW s \in Slots, CountFor(s), NEW t \in Threads,
         cur[t] = s /\ extra[t],
         \A u \in Threads : cur'[u] = s /\ pc'[u] \notin Unreferenced <=> cur[u] = s /\ pc[u] \notin Unreferenced,
         \A u \in Threads : cur'[u] = s /\ extra'[u] <=> u # t /\ cur[u] = s /\ extra[u],
         \/ /\ refCount'[s] = refCount[s] - 1
            /\ recvIo' = recvIo /\ sendIo' = sendIo
         \/ /\ refCount'[s] = refCount[s]
            /\ recvIo[s] = "none" /\ recvIo'[s] # "none" /\ sendIo' = sendIo
         \/ /\ refCount'[s] = refCount[s]
            /\ sendIo[s] = "none" /\ sendIo'[s] # "none" /\ recvIo' = recvIo
  PROVE  CountFor(s)'
<1>1. SecondHolders(s)' = SecondHolders(s) \ {t} /\ t \in SecondHolders(s)
  BY DEF SecondHolders
<1>2. Cardinality(SecondHolders(s)') = Cardinality(SecondHolders(s)) - 1
  BY <1>1, HoldersAreFinite, OneLess
<1>3. Holders(s)' = Holders(s)
  BY DEF Holders
<1>4. Outstanding(recvIo[s]) \in Nat /\ Outstanding(sendIo[s]) \in Nat
  BY DEF Outstanding
<1>q. QED
  BY <1>2, <1>3, <1>4, HoldersAreFinite DEF CountFor, Outstanding

\* A worker takes the reference of a completed operation over.
LEMMA CountTaken ==
  ASSUME FlagTypes, NEW s \in Slots, CountFor(s), refCount'[s] = refCount[s], NEW t \in Threads,
         ~(cur[t] = s /\ pc[t] \notin Unreferenced),
         \A u \in Threads :
           cur'[u] = s /\ pc'[u] \notin Unreferenced <=> u = t \/ (cur[u] = s /\ pc[u] \notin Unreferenced),
         \A u \in Threads : cur'[u] = s /\ extra'[u] <=> cur[u] = s /\ extra[u],
         \/ (recvIo[s] # "none" /\ recvIo'[s] = "none" /\ sendIo' = sendIo)
         \/ (sendIo[s] # "none" /\ sendIo'[s] = "none" /\ recvIo' = recvIo)
  PROVE  CountFor(s)'
<1>1. Holders(s)' = Holders(s) \cup {t} /\ t \notin Holders(s)
  <2>1. t \in Holders(s)' /\ t \notin Holders(s)
    BY DEF Holders
  <2>2. \A u \in Threads : u # t => (u \in Holders(s)' <=> u \in Holders(s))
    BY DEF Holders
  <2>3. Holders(s)' \subseteq Threads /\ Holders(s) \subseteq Threads
    BY DEF Holders
  <2>q. QED
    BY <2>1, <2>2, <2>3
<1>2. Cardinality(Holders(s)') = Cardinality(Holders(s)) + 1
  BY <1>1, HoldersAreFinite, OneMore
<1>3. SecondHolders(s)' = SecondHolders(s)
  BY DEF SecondHolders
<1>4. Outstanding(recvIo[s]) \in Nat /\ Outstanding(sendIo[s]) \in Nat
  BY DEF Outstanding
<1>q. QED
  BY <1>2, <1>3, <1>4, HoldersAreFinite DEF CountFor, Outstanding

\* Every step keeps the count of every slot exact.
LEMMA CountStep ==
  ASSUME ThreadTypes, FlagTypes, PortTypes, ServerTypes, Located, SecondReferences, ReceiversApart, SendersApart,
         [AnyNext]_vars, NEW s \in Slots, CountFor(s)
  PROVE  CountFor(s)'
<1> USE SlotAssumption DEF ThreadTypes, Located, Threads
<1>1. CASE UNCHANGED vars
  BY <1>1 DEF vars, CountFor, Holders, SecondHolders
<1>2. ASSUME NEW t \in Threads, Deref(t) PROVE CountFor(s)'
  <2>1. CASE cur[t] # s
    BY <1>2, <2>1, CountKept DEF FlagTypes, Unreferenced
  <2>2. CASE cur[t] = s /\ extra[t]
    <3>1. refCount'[s] = refCount[s] - 1
      BY <1>2, <2>2 DEF FlagTypes
    <3>2. \A u \in Threads : cur'[u] = s /\ pc'[u] \notin Unreferenced <=> cur[u] = s /\ pc[u] \notin Unreferenced
      BY <1>2, <2>2
    <3>3. \A u \in Threads : cur'[u] = s /\ extra'[u] <=> u # t /\ cur[u] = s /\ extra[u]
      BY <1>2, <2>2
    <3>q. QED
      BY <1>2, <2>2, <3>1, <3>2, <3>3, CountSecondDropped
  <2>3. CASE cur[t] = s /\ ~extra[t]
    <3>1. refCount'[s] = refCount[s] - 1
      BY <1>2, <2>3 DEF FlagTypes
    <3>2. \A u \in Threads : cur'[u] = s /\ pc'[u] \notin Unreferenced <=> u # t /\ cur[u] = s /\ pc[u] \notin Unreferenced
      BY <1>2, <2>3 DEF Unreferenced
    <3>3. \A u \in Threads : cur'[u] = s /\ extra'[u] <=> cur[u] = s /\ extra[u]
      BY <1>2, <2>3
    <3>4. pc[t] \notin Unreferenced
      BY <1>2 DEF Unreferenced
    <3>q. QED
      BY <1>2, <2>3, <3>1, <3>2, <3>3, <3>4, CountDropped
  <2>q. QED
    BY <2>1, <2>2, <2>3
<1>3. ASSUME NEW t \in Threads, DisconnectFull(t) \/ RefSend(t) \/ RefRecv(t) PROVE CountFor(s)'
  <2>1. ~extra[t]
    BY <1>3 DEF SecondReferences
  <2>2. \A u \in Threads : cur'[u] = s /\ pc'[u] \notin Unreferenced <=> cur[u] = s /\ pc[u] \notin Unreferenced
    BY <1>3 DEF Unreferenced
  <2>3. CASE cur[t] # s
    BY <1>3, <2>2, <2>3, CountKept DEF FlagTypes
  <2>4. CASE cur[t] = s
    <3>1. refCount'[s] = refCount[s] + 1
      BY <1>3, <2>4 DEF FlagTypes
    <3>2. \A u \in Threads : cur'[u] = s /\ extra'[u] <=> u = t \/ (cur[u] = s /\ extra[u])
      BY <1>3, <2>4
    <3>q. QED
      BY <1>3, <2>1, <2>2, <2>4, <3>1, <3>2, CountSecond
  <2>q. QED
    BY <2>3, <2>4
<1>4. ASSUME NEW t \in Threads, WSASend(t) \/ WSARecv(t) PROVE CountFor(s)'
  <2>1. extra[t] /\ cur[t] \in Slots
    BY <1>4 DEF SecondReferences
  <2>2. \A u \in Threads : cur'[u] = s /\ pc'[u] \notin Unreferenced <=> cur[u] = s /\ pc[u] \notin Unreferenced
    BY <1>4 DEF Unreferenced
  <2>3. refCount' = refCount
    BY <1>4
  <2>4. CASE cur[t] # s \/ extra' = extra
    <3>1. \A u \in Threads : cur'[u] = s /\ extra'[u] <=> cur[u] = s /\ extra[u]
      BY <1>4, <2>4
    <3>2. recvIo'[s] = recvIo[s] /\ sendIo'[s] = sendIo[s]
      BY <1>4, <2>1, <2>4 DEF PortTypes
    <3>q. QED
      BY <2>2, <2>3, <3>1, <3>2, CountKept
  <2>5. CASE cur[t] = s /\ extra' # extra
    <3>1. \A u \in Threads : cur'[u] = s /\ extra'[u] <=> u # t /\ cur[u] = s /\ extra[u]
      BY <1>4, <2>5
    <3>2. \/ recvIo[s] = "none" /\ recvIo'[s] # "none" /\ sendIo' = sendIo
          \/ sendIo[s] = "none" /\ sendIo'[s] # "none" /\ recvIo' = recvIo
      BY <1>4, <2>5, ThreadAssumption DEF PortTypes, ReceiversApart, SendersApart, Receiving, Sending, IoStates
    <3>q. QED
      BY <2>1, <2>2, <2>3, <2>5, <3>1, <3>2, CountSecondDropped
  <2>q. QED
    BY <2>4, <2>5
<1>5. ASSUME NEW t \in Threads,
             \/ TryRelease(t) \/ PostJob(t)
             \/ CheckReleased(t) \/ CheckId(t) \/ ReadAddress(t) \/ SetCancel(t) \/ CancelIoEx(t) \/ Push(t)
             \/ TakeFlag(t) \/ CheckCancelSend(t) \/ Peek(t) \/ ClearFlag(t) \/ CheckSendPending(t)
             \/ CheckRecvPending(t) \/ CheckCancelRecv(t)
      PROVE  CountFor(s)'
  <2>1. \A u \in Threads : cur'[u] = s /\ pc'[u] \notin Unreferenced <=> cur[u] = s /\ pc[u] \notin Unreferenced
    BY <1>5 DEF Unreferenced
  <2>2. \A u \in Threads : cur'[u] = s /\ extra'[u] <=> cur[u] = s /\ extra[u]
    BY <1>5 DEF SecondReferences
  <2>3. /\ refCount' = refCount
        /\ recvIo'[s] = "none" <=> recvIo[s] = "none"
        /\ sendIo'[s] = "none" <=> sendIo[s] = "none"
    BY <1>5, ThreadAssumption DEF PortTypes, Cancel, RecheckCancel, IoStates
  <2>q. QED
    BY <2>1, <2>2, <2>3, CountKept
<1>6. ASSUME NEW w \in Workers, NEW k \in Slots, DequeueRecv(w, k) \/ DequeueSend(w, k) PROVE CountFor(s)'
  <2>1. refCount' = refCount
    BY <1>6
  <2>2. \A u \in Threads : cur'[u] = s /\ extra'[u] <=> cur[u] = s /\ extra[u]
    BY <1>6 DEF SecondReferences
  <2>3. CASE k # s
    <3>1. \A u \in Threads : cur'[u] = s /\ pc'[u] \notin Unreferenced <=> cur[u] = s /\ pc[u] \notin Unreferenced
      BY <1>6, <2>3 DEF Unreferenced
    <3>2. recvIo'[s] = recvIo[s] /\ sendIo'[s] = sendIo[s]
      BY <1>6, <2>3 DEF PortTypes
    <3>q. QED
      BY <2>1, <2>2, <3>1, <3>2, CountKept
  <2>4. CASE k = s
    <3>1. \A u \in Threads : cur'[u] = s /\ pc'[u] \notin Unreferenced <=> u = w \/ (cur[u] = s /\ pc[u] \notin Unreferenced)
      BY <1>6, <2>4 DEF Unreferenced
    <3>2. \/ (recvIo[s] # "none" /\ recvIo'[s] = "none" /\ sendIo' = sendIo)
          \/ (sendIo[s] # "none" /\ sendIo'[s] = "none" /\ recvIo' = recvIo)
      BY <1>6, <2>4 DEF PortTypes
    <3>3. ~(cur[w] = s /\ pc[w] \notin Unreferenced)
      BY <1>6
    <3>q. QED
      BY <2>1, <2>2, <3>1, <3>2, <3>3, CountTaken
  <2>q. QED
    BY <2>3, <2>4
<1>7. ASSUME NEW w \in Workers, (\E k \in Slots : DequeueJob(w, k)) \/ Received(w) \/ SentStep(w) \/ RecycleStep(w)
      PROVE  CountFor(s)'
  <2>1. \A u \in Threads : cur'[u] = s /\ pc'[u] \notin Unreferenced <=> cur[u] = s /\ pc[u] \notin Unreferenced
    BY <1>7 DEF Unreferenced, SentStep, RecycleStep
  <2>2. \A u \in Threads : cur'[u] = s /\ extra'[u] <=> cur[u] = s /\ extra[u]
    BY <1>7 DEF SecondReferences, SentStep, RecycleStep
  <2>3. refCount' = refCount /\ recvIo' = recvIo /\ sendIo' = sendIo
    BY <1>7 DEF SentStep, RecycleStep
  <2>q. QED
    BY <2>1, <2>2, <2>3, CountKept
<1>8. CASE StartProtect(Acceptor)
  <2>1. \A u \in Threads : cur'[u] = s /\ extra'[u] <=> cur[u] = s /\ extra[u]
    BY <1>8
  <2>2. CASE cur[Acceptor] # s
    <3>1. \A u \in Threads : cur'[u] = s /\ pc'[u] \notin Unreferenced <=> cur[u] = s /\ pc[u] \notin Unreferenced
      BY <1>8, <2>2
    <3>q. QED
      BY <1>8, <2>1, <2>2, <3>1, CountKept DEF FlagTypes
  <2>3. CASE cur[Acceptor] = s
    <3>1. \A u \in Threads :
            cur'[u] = s /\ pc'[u] \notin Unreferenced <=> u = Acceptor \/ (cur[u] = s /\ pc[u] \notin Unreferenced)
      BY <1>8, <2>3 DEF Unreferenced
    <3>2. refCount'[s] = refCount[s] + 1 /\ recvIo' = recvIo /\ sendIo' = sendIo
      BY <1>8, <2>3 DEF FlagTypes
    <3>3. ~(cur[Acceptor] = s /\ pc[Acceptor] \notin Unreferenced)
      BY <1>8 DEF Unreferenced
    <3>q. QED
      BY <2>1, <3>1, <3>2, <3>3, CountFirst
  <2>q. QED
    BY <2>2, <2>3
<1>9. CASE (Accept(Acceptor) \/ AcceptStep(Acceptor)) /\ ~StartProtect(Acceptor)
  <2>1. \A u \in Threads : cur'[u] = s /\ pc'[u] \notin Unreferenced <=> cur[u] = s /\ pc[u] \notin Unreferenced
    BY <1>9 DEF Unreferenced, AcceptStep
  <2>2. \A u \in Threads : cur'[u] = s /\ extra'[u] <=> cur[u] = s /\ extra[u]
    BY <1>9 DEF SecondReferences, AcceptStep
  <2>3. refCount' = refCount /\ recvIo' = recvIo /\ sendIo' = sendIo
    BY <1>9 DEF AcceptStep
  <2>q. QED
    BY <2>1, <2>2, <2>3, CountKept
<1>10. ASSUME NEW t \in Callers, NEW o, NEW g \in Nat, NEW r \in Slots, Enter(t, o, g, r) PROVE CountFor(s)'
  <2>1. \A u \in Threads : cur'[u] = s /\ extra'[u] <=> cur[u] = s /\ extra[u]
    BY <1>10 DEF SecondReferences
  <2>2. CASE r # s
    <3>1. \A u \in Threads : cur'[u] = s /\ pc'[u] \notin Unreferenced <=> cur[u] = s /\ pc[u] \notin Unreferenced
      BY <1>10, <2>2
    <3>q. QED
      BY <1>10, <2>1, <2>2, <3>1, CountKept DEF FlagTypes
  <2>3. CASE r = s
    <3>1. \A u \in Threads :
            cur'[u] = s /\ pc'[u] \notin Unreferenced <=> u = t \/ (cur[u] = s /\ pc[u] \notin Unreferenced)
      BY <1>10, <2>3 DEF Unreferenced
    <3>2. refCount'[s] = refCount[s] + 1 /\ recvIo' = recvIo /\ sendIo' = sendIo
      BY <1>10, <2>3 DEF FlagTypes
    <3>3. ~(cur[t] = s /\ pc[t] \notin Unreferenced)
      BY <1>10
    <3>q. QED
      BY <2>1, <3>1, <3>2, <3>3, CountFirst
  <2>q. QED
    BY <2>2, <2>3
<1>11. CASE NetworkStep
  <2>1. UNCHANGED <<refCount, cur, pc, extra>>
    BY <1>11 DEF NetworkStep
  <2>2. recvIo'[s] = "none" <=> recvIo[s] = "none"
    BY <1>11, ThreadAssumption DEF NetworkStep, PortTypes, Cancel, IoStates
  <2>3. sendIo'[s] = "none" <=> sendIo[s] = "none"
    BY SMTT(40), <1>11, ThreadAssumption DEF NetworkStep, PortTypes, Cancel, IoStates
  <2>q. QED
    BY <2>1, <2>2, <2>3, CountKept
<1>12. ASSUME NEW t \in Threads, SharedStep(t) PROVE CountFor(s)'
  BY ZenonT(60), <1>2, <1>3, <1>4, <1>5, <1>12 DEF SharedStep, ReleaseStep, ApiStep, SendStep, RecvStep
<1>13. ASSUME NEW w \in Workers, WorkerStep(w) PROVE CountFor(s)'
  BY <1>6, <1>7, <1>13 DEF WorkerStep, DequeueStep
<1>14. ASSUME NEW t \in Callers, AnyCall(t) PROVE CountFor(s)'
  <2>1. PICK o \in {"send", "disconnect", "address"}, g \in Nat, r \in Slots : Enter(t, o, g, r)
    BY <1>14, Zenon DEF AnyCall
  <2>q. QED
    BY <1>10, <2>1
<1> HIDE DEF ThreadTypes, Located
<1>q. QED
  BY <1>1, <1>8, <1>9, <1>11, <1>12, <1>13, <1>14 DEF AnyNext

----------------------------------------------------------------------------
(***************************************************************************)
(* The session count.                                                      *)
(***************************************************************************)

\* There are finitely many sessions.
LEMMA OccupiedIsFinite ==
  IsFiniteSet(Occupied) /\ Cardinality(Occupied) \in Nat
BY SlotAssumption, FS_Subset, FS_CardinalityType DEF Occupied

\* A step that starts and ends no session keeps the set of occupied slots.
LEMMA OccupiedKept ==
  ASSUME ready' = ready,
         \A u \in Threads : pc'[u] \in Uncounting <=> pc[u] \in Uncounting,
         \A u \in Threads : pc[u] \in Uncounting => cur'[u] = cur[u]
  PROVE  Occupied' = Occupied
<1>1. \A s \in Slots : Free(s)' <=> Free(s)
  BY DEF Free
<1>q. QED
  BY <1>1 DEF Occupied

\* Every step keeps m_sessionCount exact: a session is counted once when it starts and once when it is recycled.
LEMMA SessionCountStep ==
  ASSUME ThreadTypes, ServerTypes, Located, Alive, OwnersApart, ReceiversApart, SessionCountExact, [AnyNext]_vars
  PROVE  SessionCountExact'
<1> USE SlotAssumption DEF ThreadTypes, ServerTypes, Located, Threads, Uncounting
<1>1. CASE UNCHANGED vars
  BY <1>1, OccupiedKept DEF vars, SessionCountExact
<1>2. ASSUME NEW t \in Threads, SharedStep(t) PROVE SessionCountExact'
  <2>1. ready' = ready /\ sessionCount' = sessionCount
    BY SMTT(40), <1>2 DEF SharedStep, ReleaseStep, ApiStep, SendStep, RecvStep
  <2>2. \A u \in Threads : pc'[u] \in Uncounting <=> pc[u] \in Uncounting
    BY SMTT(40), <1>2 DEF SharedStep, ReleaseStep, ApiStep, SendStep, RecvStep
  <2>3. \A u \in Threads : pc[u] \in Uncounting => cur'[u] = cur[u]
    BY <1>2 DEF SharedStep, ReleaseStep, ApiStep, SendStep, RecvStep
  <2>q. QED
    BY <2>1, <2>2, <2>3, OccupiedKept DEF SessionCountExact
<1>3. ASSUME NEW w \in Workers,
             DequeueStep(w) \/ Received(w) \/ SentStep(w) \/ Disconnected(w) \/ Drain(w) \/ CloseSocket(w)
      PROVE  SessionCountExact'
  <2>1. ready' = ready /\ sessionCount' = sessionCount
    BY <1>3 DEF DequeueStep, SentStep
  <2>2. \A u \in Threads : pc'[u] \in Uncounting <=> pc[u] \in Uncounting
    BY <1>3 DEF DequeueStep, SentStep
  <2>3. \A u \in Threads : pc[u] \in Uncounting => cur'[u] = cur[u]
    BY <1>3 DEF DequeueStep, SentStep
  <2>q. QED
    BY <2>1, <2>2, <2>3, OccupiedKept DEF SessionCountExact
<1>4. ASSUME NEW w \in Workers, Uncount(w) PROVE SessionCountExact'
  <2> DEFINE s == cur[w]
  <2>1. s \in Slots /\ ~Free(s)
    <3>1. s \in Slots /\ s \notin ready
      BY <1>4 DEF OwnersApart, Owning
    <3>2. ASSUME NEW u \in Threads, cur[u] = s, pc[u] \in Uncounting PROVE FALSE
      <4>1. u # w
        BY <1>4, <3>2
      <4>2. ~released[s]  \/ pc[u] \in Owning
        BY <3>2 DEF Alive, Using, Owning
      <4>q. QED
        BY <1>4, <3>2, <4>1, <4>2 DEF OwnersApart, Owning
    <3>q. QED
      BY <3>1, <3>2 DEF Free
  <2>2. \A k \in Slots : Free(k)' <=> k = s \/ Free(k)
    <3>1. ASSUME NEW k \in Slots, k = s PROVE Free(k)'
      BY <1>4, <2>1, <3>1 DEF Free
    <3>2. ASSUME NEW k \in Slots, k # s PROVE Free(k)' <=> Free(k)
      BY <1>4, <3>2 DEF Free
    <3>q. QED
      BY <3>1, <3>2
  <2>3. Occupied' = Occupied \ {s} /\ s \in Occupied
    BY <2>1, <2>2 DEF Occupied
  <2>4. Cardinality(Occupied') = Cardinality(Occupied) - 1
    BY <2>3, OccupiedIsFinite, OneLess
  <2>q. QED
    BY <1>4, <2>4 DEF SessionCountExact
<1>5. ASSUME NEW w \in Workers, PushReady(w) PROVE SessionCountExact'
  <2>1. \A k \in Slots : Free(k)' <=> Free(k)
    <3>1. ASSUME NEW k \in Slots, k = cur[w] PROVE Free(k)' /\ Free(k)
      BY <1>5, <3>1 DEF Free
    <3>2. ASSUME NEW k \in Slots, k # cur[w] PROVE Free(k)' <=> Free(k)
      BY <1>5, <3>2 DEF Free
    <3>q. QED
      BY <3>1, <3>2
  <2>2. Occupied' = Occupied
    BY <2>1 DEF Occupied
  <2>q. QED
    BY <1>5, <2>2 DEF SessionCountExact
<1>6. CASE CountSession(Acceptor)
  <2> DEFINE s == cur[Acceptor]
  <2>1. s \in Slots /\ Free(s)
    BY <1>6 DEF Free
  <2>2. ~released[s]
    BY <1>6 DEF Alive, Using
  <2>3. s \notin ready /\ \A u \in Threads : cur[u] = s /\ pc[u] \in Uncounting => u = Acceptor
    BY <1>6, <2>1, <2>2 DEF OwnersApart, Owning, ReceiversApart, Receiving
  <2>4. \A k \in Slots : Free(k)' <=> k # s /\ Free(k)
    <3>1. ASSUME NEW k \in Slots, k = s PROVE ~Free(k)'
      BY <1>6, <2>3, <3>1 DEF Free
    <3>2. ASSUME NEW k \in Slots, k # s PROVE Free(k)' <=> Free(k)
      BY <1>6, <3>2 DEF Free
    <3>q. QED
      BY <3>1, <3>2
  <2>5. Occupied' = Occupied \cup {s} /\ s \notin Occupied
    BY <2>1, <2>4 DEF Occupied
  <2>6. Cardinality(Occupied') = Cardinality(Occupied) + 1
    BY <2>5, OccupiedIsFinite, OneMore
  <2>q. QED
    BY <1>6, <2>6 DEF SessionCountExact
<1>7. CASE PopReady(Acceptor) \/ PushBack(Acceptor)
  <2>1. \A k \in Slots : Free(k)' <=> Free(k)
    BY <1>7 DEF Free
  <2>2. Occupied' = Occupied
    BY <2>1 DEF Occupied
  <2>q. QED
    BY <1>7, <2>2 DEF SessionCountExact
<1>8. CASE \/ Accept(Acceptor) \/ Setup(Acceptor) \/ StartFields(Acceptor) \/ StartProtect(Acceptor)
           \/ StartPublish(Acceptor) \/ Connected(Acceptor)
  <2>1. ready' = ready /\ sessionCount' = sessionCount
    BY <1>8
  <2>2. \A u \in Threads : pc'[u] \in Uncounting <=> pc[u] \in Uncounting
    BY <1>8
  <2>3. \A u \in Threads : pc[u] \in Uncounting => cur'[u] = cur[u]
    BY <1>8
  <2>q. QED
    BY <2>1, <2>2, <2>3, OccupiedKept DEF SessionCountExact
<1>9. ASSUME NEW t \in Callers, AnyCall(t) PROVE SessionCountExact'
  <2>1. ready' = ready /\ sessionCount' = sessionCount
    BY <1>9 DEF AnyCall
  <2>2. \A u \in Threads : pc'[u] \in Uncounting <=> pc[u] \in Uncounting
    BY <1>9 DEF AnyCall
  <2>3. \A u \in Threads : pc[u] \in Uncounting => cur'[u] = cur[u]
    BY <1>9 DEF AnyCall
  <2>q. QED
    BY <2>1, <2>2, <2>3, OccupiedKept DEF SessionCountExact
<1>10. CASE NetworkStep
  <2>1. UNCHANGED <<ready, sessionCount, pc, cur>>
    BY <1>10 DEF NetworkStep
  <2>q. QED
    BY <2>1, OccupiedKept DEF SessionCountExact
<1>11. ASSUME NEW w \in Workers, WorkerStep(w) PROVE SessionCountExact'
  BY <1>3, <1>4, <1>5, <1>11 DEF WorkerStep, RecycleStep
<1> HIDE DEF ThreadTypes, ServerTypes, Located, Uncounting
<1>q. QED
  BY <1>1, <1>2, <1>6, <1>7, <1>8, <1>9, <1>10, <1>11 DEF AnyNext, AcceptStep

----------------------------------------------------------------------------
(***************************************************************************)
(* Types, and what the send queue holds.                                   *)
(***************************************************************************)

\* Every step keeps the types of the threads' locals.
LEMMA ThreadTypesStep ==
  ASSUME ThreadTypes, ServerTypes, [AnyNext]_vars
  PROVE  ThreadTypes'
<1> USE SizeAssumption DEF ThreadTypes, ServerTypes, Threads, Labels, Unreferenced, Using
<1>1. CASE UNCHANGED vars
  BY <1>1 DEF vars
<1>2. ASSUME NEW t \in Threads, SharedStep(t) PROVE ThreadTypes'
  <2>1. pc' \in [Threads -> Labels]
    BY <1>2 DEF SharedStep, ReleaseStep, ApiStep, SendStep, RecvStep
  <2>2. cur' \in [Threads -> Slots \cup {NoSlot}] /\ arg' \in [Threads -> Nat]
    BY <1>2 DEF SharedStep, ReleaseStep, ApiStep, SendStep, RecvStep
  <2>3. op' \in [Threads -> {"none", "send", "disconnect", "address"}]
    BY <1>2 DEF SharedStep, ReleaseStep, ApiStep, SendStep, RecvStep
  <2>4. extra' \in [Threads -> BOOLEAN]
    BY ZenonT(60), <1>2 DEF SharedStep, ReleaseStep, ApiStep, SendStep, RecvStep
  <2>q. QED
    BY SMTT(40), <2>1, <2>2, <2>3, <2>4
<1>3. ASSUME NEW w \in Workers, WorkerStep(w) PROVE ThreadTypes'
  <2>1. pc' \in [Threads -> Labels]
    BY SMTT(40), <1>3 DEF WorkerStep, DequeueStep, SentStep, RecycleStep
  <2>2. cur' \in [Threads -> Slots \cup {NoSlot}]
    BY SMTT(40), <1>3 DEF WorkerStep, DequeueStep, SentStep, RecycleStep
  <2>3. /\ arg' \in [Threads -> Nat]
        /\ op' \in [Threads -> {"none", "send", "disconnect", "address"}]
        /\ extra' \in [Threads -> BOOLEAN]
    BY SMTT(40), <1>3 DEF WorkerStep, DequeueStep, SentStep, RecycleStep
  <2>q. QED
    BY <2>1, <2>2, <2>3
<1>4. CASE Accept(Acceptor) \/ AcceptStep(Acceptor)
  BY <1>4 DEF AcceptStep
<1>5. ASSUME NEW t \in Callers, AnyCall(t) PROVE ThreadTypes'
  BY <1>5 DEF AnyCall
<1>6. CASE NetworkStep
  BY <1>6 DEF NetworkStep
<1> HIDE DEF ThreadTypes, ServerTypes, Labels, Unreferenced, Using
<1>q. QED
  BY <1>1, <1>2, <1>3, <1>4, <1>5, <1>6 DEF AnyNext

\* Every step keeps the types of m_flag; the count stays a natural number because it is a number of holders.
LEMMA FlagTypesStep ==
  ASSUME ThreadTypes, FlagTypes, PortTypes, RefCountExact', [AnyNext]_vars
  PROVE  FlagTypes'
<1>1. released' \in [Slots -> BOOLEAN] /\ refCount' = [s \in Slots |-> refCount'[s]]
  <2> USE DEF FlagTypes
  <2>1. CASE UNCHANGED vars
    BY <2>1 DEF vars
  <2>2. ASSUME NEW t \in Threads, SharedStep(t)
        PROVE  released' \in [Slots -> BOOLEAN] /\ refCount' = [s \in Slots |-> refCount'[s]]
    <3>1. released' = released \/ released' = [released EXCEPT ![cur[t]] = TRUE]
      BY <2>2 DEF SharedStep, ReleaseStep, ApiStep, SendStep, RecvStep
    <3>2. \/ refCount' = refCount
          \/ refCount' = [refCount EXCEPT ![cur[t]] = @ + 1]
          \/ refCount' = [refCount EXCEPT ![cur[t]] = @ - 1]
      BY <2>2 DEF SharedStep, ReleaseStep, ApiStep, SendStep, RecvStep
    <3>q. QED
      BY <3>1, <3>2
  <2>3. ASSUME NEW w \in Workers, WorkerStep(w) PROVE UNCHANGED flag
    BY <2>3 DEF WorkerStep, DequeueStep, SentStep, RecycleStep
  <2>4. CASE Accept(Acceptor) \/ AcceptStep(Acceptor)
    <3>1. \/ UNCHANGED flag
          \/ released' = released /\ refCount' = [refCount EXCEPT ![cur[Acceptor]] = @ + 1]
          \/ released' = [released EXCEPT ![cur[Acceptor]] = FALSE] /\ refCount' = refCount
      BY <2>4 DEF AcceptStep
    <3>q. QED
      BY <3>1
  <2>5. ASSUME NEW t \in Callers, NEW o, NEW g, NEW r \in Slots, Enter(t, o, g, r)
        PROVE  released' \in [Slots -> BOOLEAN] /\ refCount' = [s \in Slots |-> refCount'[s]]
    BY <2>5
  <2>6. CASE NetworkStep
    BY <2>6 DEF NetworkStep
  <2>q. QED
    BY <2>1, <2>2, <2>3, <2>4, <2>5, <2>6 DEF AnyNext, AnyCall
<1>2. ASSUME NEW s \in Slots PROVE refCount'[s] \in Nat
  <2>1. Cardinality(Holders(s)') \in Nat /\ Cardinality(SecondHolders(s)') \in Nat
    BY ThreadAssumption, FS_Subset, FS_CardinalityType DEF Holders, SecondHolders
  <2>2. Outstanding(recvIo[s])' \in Nat /\ Outstanding(sendIo[s])' \in Nat
    BY DEF Outstanding
  <2>q. QED
    BY <2>1, <2>2, Sums DEF RefCountExact
<1>q. QED
  BY <1>1, <1>2 DEF FlagTypes

\* Every step keeps the types of the session's fields.
LEMMA SessionTypesStep ==
  ASSUME ThreadTypes, SessionTypes, ServerTypes, [AnyNext]_vars
  PROVE  SessionTypes'
<1> USE DEF SessionTypes
<1>1. CASE UNCHANGED vars
  BY <1>1 DEF vars
<1>2. ASSUME NEW t \in Threads, SharedStep(t) PROVE SessionTypes'
  BY <1>2 DEF SharedStep, ReleaseStep, ApiStep, SendStep, RecvStep
<1>3. ASSUME NEW w \in Workers, WorkerStep(w) PROVE SessionTypes'
  BY <1>3 DEF WorkerStep, DequeueStep, SentStep, RecycleStep
<1>4. CASE Accept(Acceptor) \/ AcceptStep(Acceptor)
  <2>1. CASE StartFields(Acceptor)
    <3>1. id' \in [Slots -> Nat]
      <4>1. id' = [id EXCEPT ![cur[Acceptor]] = idCounter + 1]
        BY <2>1
      <4>2. idCounter + 1 \in Nat
        BY DEF ServerTypes
      <4>q. QED
        BY <4>1, <4>2
    <3>2. cancelIo' \in [Slots -> BOOLEAN] /\ isSending' \in [Slots -> BOOLEAN]
      BY <2>1
    <3>3. sock' \in [Slots -> {"closed", "open", "reset"}]
      BY <2>1
    <3>q. QED
      BY <3>1, <3>2, <3>3
  <2>2. CASE ~StartFields(Acceptor)
    <3>1. UNCHANGED <<cancelIo, isSending, id, sock>>
      BY <1>4, <2>2 DEF AcceptStep
    <3>q. QED
      BY <3>1
  <2>q. QED
    BY <2>1, <2>2
<1>5. ASSUME NEW t \in Callers, AnyCall(t) PROVE SessionTypes'
  BY <1>5 DEF AnyCall
<1>6. CASE NetworkStep
  BY <1>6 DEF NetworkStep
<1> HIDE DEF SessionTypes
<1>q. QED
  BY <1>1, <1>2, <1>3, <1>4, <1>5, <1>6 DEF AnyNext

\* Every step keeps the types of the completion port; there is never less than no job.
LEMMA PortTypesStep ==
  ASSUME PortTypes, OwnersApart, [AnyNext]_vars
  PROVE  PortTypes'
<1> USE DEF PortTypes
<1>1. CASE UNCHANGED vars
  BY <1>1 DEF vars
<1>2. ASSUME NEW t \in Threads, SharedStep(t) PROVE PortTypes'
  <2>1. CASE PostJob(t)
    BY <2>1
  <2>2. CASE CancelIoEx(t) \/ CheckSendPending(t) \/ CheckRecvPending(t)
    BY <2>2 DEF Cancel, RecheckCancel, IoStates
  <2>3. CASE WSASend(t) \/ WSARecv(t)
    BY <2>3 DEF IoStates
  <2>4. CASE ~(PostJob(t) \/ CancelIoEx(t) \/ CheckSendPending(t) \/ CheckRecvPending(t) \/ WSASend(t) \/ WSARecv(t))
    <3>1. UNCHANGED port
      BY <1>2, <2>4 DEF SharedStep, ReleaseStep, ApiStep, SendStep, RecvStep
    <3>q. QED
      BY SMTT(40), <3>1
  <2>q. QED
    BY <2>1, <2>2, <2>3, <2>4
<1>3. ASSUME NEW w \in Workers, WorkerStep(w) PROVE PortTypes'
  <2>1. ASSUME NEW s \in Slots, DequeueRecv(w, s) \/ DequeueSend(w, s) \/ DequeueJob(w, s) PROVE PortTypes'
    BY <2>1 DEF IoStates
  <2>2. CASE Received(w) \/ SentStep(w) \/ RecycleStep(w)
    BY <2>2 DEF SentStep, RecycleStep
  <2>q. QED
    BY <1>3, <2>1, <2>2 DEF WorkerStep, DequeueStep
<1>4. CASE Accept(Acceptor) \/ AcceptStep(Acceptor)
  BY <1>4 DEF AcceptStep
<1>5. ASSUME NEW t \in Callers, AnyCall(t) PROVE PortTypes'
  BY <1>5 DEF AnyCall
<1>6. CASE NetworkStep
  BY <1>6 DEF NetworkStep, Cancel, IoStates
<1> HIDE DEF PortTypes
<1>q. QED
  BY <1>1, <1>2, <1>3, <1>4, <1>5, <1>6 DEF AnyNext

\* Every step keeps the types of the server's fields; the session count stays a natural number because it is a
\* number of slots.
LEMMA ServerTypesStep ==
  ASSUME ThreadTypes, ServerTypes, Located, SessionCountExact', [AnyNext]_vars
  PROVE  ServerTypes'
<1>1. ready' \subseteq Slots /\ idCounter' \in Nat /\ known' \subseteq Nat \X Slots /\ calls' \in Nat
  <2> USE DEF ServerTypes, ThreadTypes, Located, Threads
  <2>1. CASE UNCHANGED vars
    BY SMTT(40), <2>1 DEF vars
  <2>2. ASSUME NEW t \in Threads, SharedStep(t) PROVE UNCHANGED <<server, app>>
    BY <2>2 DEF SharedStep, ReleaseStep, ApiStep, SendStep, RecvStep
  <2>3. ASSUME NEW w \in Workers, WorkerStep(w)
        PROVE  ready' \subseteq Slots /\ UNCHANGED <<idCounter, known, calls>>
    BY <2>3 DEF WorkerStep, DequeueStep, SentStep, RecycleStep
  <2>4. CASE Accept(Acceptor) \/ AcceptStep(Acceptor)
    BY <2>4 DEF AcceptStep
  <2>5. ASSUME NEW t \in Callers, AnyCall(t) PROVE UNCHANGED <<server, known>> /\ calls' \in Nat
    BY <2>5 DEF AnyCall
  <2>6. CASE NetworkStep
    BY <2>6 DEF NetworkStep
  <2>q. QED
    BY <2>1, <2>2, <2>3, <2>4, <2>5, <2>6 DEF AnyNext
<1>2. sessionCount' \in Nat
  BY SlotAssumption, FS_Subset, FS_CardinalityType DEF SessionCountExact, Occupied
<1>q. QED
  BY <1>1, <1>2 DEF ServerTypes


----------------------------------------------------------------------------
(***************************************************************************)
(* The send queues: how a step may move one, and what that keeps.          *)
(***************************************************************************)

\* A queue is pushed to, popped from or emptied by a thread that is entitled to, or left alone.
LEMMA QueueMoves ==
  ASSUME ThreadTypes, ServerTypes, Located, QueueTypes, [AnyNext]_vars
  PROVE  \/ UNCHANGED <<queue, readCursor>>
         \/ \E t \in Threads : Push(t) /\ Len(queue[cur[t]]) < QueueCapacity
         \/ \E w \in Workers : PopSent(w) \/ Drain(w)
<1>1. CASE UNCHANGED vars
  BY <1>1 DEF vars
<1>2. ASSUME NEW t \in Threads, SharedStep(t), ~Push(t) PROVE UNCHANGED <<queue, readCursor>>
  BY <1>2 DEF SharedStep, ReleaseStep, ApiStep, SendStep, RecvStep
<1>3. ASSUME NEW t \in Threads, Push(t)
      PROVE  UNCHANGED <<queue, readCursor>> \/ Len(queue[cur[t]]) < QueueCapacity
  BY <1>3
<1>4. ASSUME NEW w \in Workers, WorkerStep(w), ~PopSent(w), ~Drain(w) PROVE UNCHANGED <<queue, readCursor>>
  BY <1>4 DEF WorkerStep, DequeueStep, SentStep, RecycleStep
<1>5. CASE Accept(Acceptor) \/ AcceptStep(Acceptor)
  BY <1>5 DEF AcceptStep
<1>6. ASSUME NEW t \in Callers, AnyCall(t) PROVE UNCHANGED <<queue, readCursor>>
  BY <1>6 DEF AnyCall
<1>7. CASE NetworkStep
  BY <1>7 DEF NetworkStep
<1>q. QED
  BY <1>1, <1>2, <1>3, <1>4, <1>5, <1>6, <1>7 DEF AnyNext

\* What Push does to its session's queue.
LEMMA PushedQueue ==
  ASSUME ThreadTypes, Located, QueueTypes, NEW t \in Threads, Push(t), Len(queue[cur[t]]) < QueueCapacity
  PROVE  /\ cur[t] \in Slots
         /\ queue' = [queue EXCEPT ![cur[t]] = queue'[cur[t]]]
         /\ readCursor' = readCursor
         /\ queue'[cur[t]] \in Seq(Nat)
         /\ Len(queue'[cur[t]]) = Len(queue[cur[t]]) + 1
         /\ \A i \in 1..Len(queue[cur[t]]) : queue'[cur[t]][i] = queue[cur[t]][i]
         /\ queue'[cur[t]][Len(queue[cur[t]]) + 1] = arg[t]
<1>1. cur[t] \in Slots
  BY DEF Located
<1>2. queue[cur[t]] \in Seq(Nat) /\ arg[t] \in Nat
  BY <1>1 DEF QueueTypes, ThreadTypes
<1>3. queue' = [queue EXCEPT ![cur[t]] = Append(queue[cur[t]], arg[t])] /\ readCursor' = readCursor
  OBVIOUS
<1>4. queue'[cur[t]] = Append(queue[cur[t]], arg[t])
  BY <1>1, <1>3 DEF QueueTypes
<1>5. /\ queue'[cur[t]] \in Seq(Nat)
      /\ Len(queue'[cur[t]]) = Len(queue[cur[t]]) + 1
      /\ \A i \in 1..Len(queue[cur[t]]) : queue'[cur[t]][i] = queue[cur[t]][i]
      /\ queue'[cur[t]][Len(queue[cur[t]]) + 1] = arg[t]
  BY <1>2, <1>4, AppendAddsOne
<1>q. QED
  BY <1>1, <1>3, <1>4, <1>5

\* What a worker pops after a completed send: the pending packets, all of which are there.
LEMMA PoppedQueue ==
  ASSUME ThreadTypes, Located, QueueTypes, SentPacketsStayQueued, NEW w \in Workers, PopSent(w)
  PROVE  /\ cur[w] \in Slots
         /\ queue' = [queue EXCEPT ![cur[w]] = queue'[cur[w]]]
         /\ readCursor' = [readCursor EXCEPT ![cur[w]] = Advance(@, pending[cur[w]], QueueCapacity + 1)]
         /\ pending[cur[w]] \in 1..Len(queue[cur[w]])
         /\ queue'[cur[w]] \in Seq(Nat)
         /\ Len(queue'[cur[w]]) = Len(queue[cur[w]]) - pending[cur[w]]
         /\ \A i \in 1..Len(queue'[cur[w]]) : queue'[cur[w]][i] = queue[cur[w]][pending[cur[w]] + i]
<1>1. cur[w] \in Slots /\ w \in Threads
  BY DEF Located, Threads
<1>2. queue[cur[w]] \in Seq(Nat)
  BY <1>1 DEF QueueTypes
<1>3. pending[cur[w]] \in 1..Len(queue[cur[w]])
  BY <1>1 DEF SentPacketsStayQueued
<1>4. queue'[cur[w]] = SubSeq(queue[cur[w]], pending[cur[w]] + 1, Len(queue[cur[w]]))
  BY <1>1 DEF QueueTypes
<1>6. /\ queue' = [queue EXCEPT ![cur[w]] = queue'[cur[w]]]
      /\ readCursor' = [readCursor EXCEPT ![cur[w]] = Advance(@, pending[cur[w]], QueueCapacity + 1)]
  BY <1>4
<1>7. /\ queue'[cur[w]] \in Seq(Nat)
      /\ Len(queue'[cur[w]]) = Len(queue[cur[w]]) - pending[cur[w]]
      /\ \A i \in 1..Len(queue'[cur[w]]) : queue'[cur[w]][i] = queue[cur[w]][pending[cur[w]] + i]
  BY ZenonT(60), <1>2, <1>3, <1>4, PopKeepsTheRest
<1>q. QED
  BY <1>1, <1>3, <1>6, <1>7

\* What DoSessionReleaseJob does to its session's queue.
LEMMA DrainedQueue ==
  ASSUME ThreadTypes, Located, QueueTypes, NEW w \in Workers, Drain(w)
  PROVE  /\ cur[w] \in Slots
         /\ queue' = [queue EXCEPT ![cur[w]] = <<>>]
         /\ readCursor' = [readCursor EXCEPT ![cur[w]] = Advance(@, Len(queue[cur[w]]), QueueCapacity + 1)]
<1>1. cur[w] \in Slots
  BY DEF Located, Threads
<1>2. Len(queue[cur[w]]) - Len(<<>>) = Len(queue[cur[w]])
  BY <1>1 DEF QueueTypes
<1>3. /\ queue' = [queue EXCEPT ![cur[w]] = <<>>]
      /\ readCursor' = [readCursor EXCEPT ![cur[w]] = Advance(@, Len(queue[cur[w]]) - Len(<<>>), QueueCapacity + 1)]
  OBVIOUS
<1>q. QED
  BY <1>1, <1>2, <1>3

\* No step makes a queue outgrow its ring.
LEMMA QueueContents ==
  ASSUME ThreadTypes, ServerTypes, Located, QueueTypes, Queues, SentPacketsStayQueued, [AnyNext]_vars, NEW s \in Slots
  PROVE  queue'[s] \in Seq(Nat) /\ Len(queue'[s]) <= QueueCapacity /\ readCursor'[s] \in 0..QueueCapacity
<1> USE SizeAssumption
<1>1. /\ queue[s] \in Seq(Nat) /\ Len(queue[s]) <= QueueCapacity /\ Len(queue[s]) \in Nat
      /\ readCursor[s] \in 0..QueueCapacity
  BY DEF QueueTypes, Queues
<1>2. CASE UNCHANGED <<queue, readCursor>>
  BY <1>1, <1>2
<1>3. ASSUME NEW t \in Threads, Push(t), Len(queue[cur[t]]) < QueueCapacity
      PROVE  queue'[s] \in Seq(Nat) /\ Len(queue'[s]) <= QueueCapacity /\ readCursor'[s] \in 0..QueueCapacity
  <2>1. CASE cur[t] = s
    BY SMTT(40), <1>1, <1>3, <2>1, PushedQueue
  <2>2. CASE cur[t] # s
    BY <1>1, <1>3, <2>2, PushedQueue DEF QueueTypes
  <2>q. QED
    BY <2>1, <2>2
<1>4. ASSUME NEW w \in Workers, PopSent(w)
      PROVE  queue'[s] \in Seq(Nat) /\ Len(queue'[s]) <= QueueCapacity /\ readCursor'[s] \in 0..QueueCapacity
  <2>1. CASE cur[w] = s
    <3>1. queue'[s] \in Seq(Nat) /\ Len(queue'[s]) = Len(queue[s]) - pending[s] /\ pending[s] \in 1..Len(queue[s])
      BY <1>4, <2>1, PoppedQueue
    <3>2. readCursor'[s] = Advance(readCursor[s], pending[s], QueueCapacity + 1)
      BY <1>4, <2>1, PoppedQueue DEF QueueTypes
    <3>3. readCursor'[s] \in 0..QueueCapacity
      BY SMTT(40), <1>1, <3>1, <3>2 DEF Advance
    <3>4. Len(queue'[s]) <= QueueCapacity
      BY <1>1, <3>1
    <3>q. QED
      BY <3>1, <3>3, <3>4
  <2>2. CASE cur[w] # s
    BY <1>1, <1>4, <2>2, PoppedQueue DEF QueueTypes
  <2>q. QED
    BY <2>1, <2>2
<1>5. ASSUME NEW w \in Workers, Drain(w)
      PROVE  queue'[s] \in Seq(Nat) /\ Len(queue'[s]) <= QueueCapacity /\ readCursor'[s] \in 0..QueueCapacity
  <2>1. CASE cur[w] = s
    <3>1. queue'[s] = <<>> /\ readCursor'[s] = Advance(readCursor[s], Len(queue[s]), QueueCapacity + 1)
      BY <1>5, <2>1, DrainedQueue DEF QueueTypes
    <3>2. readCursor'[s] \in 0..QueueCapacity
      BY <1>1, <3>1 DEF Advance
    <3>q. QED
      BY <3>1, <3>2
  <2>2. CASE cur[w] # s
    BY <1>1, <1>5, <2>2, DrainedQueue DEF QueueTypes
  <2>q. QED
    BY <2>1, <2>2
<1>q. QED
  BY <1>2, <1>3, <1>4, <1>5, QueueMoves

\* Every step keeps the types of the queues, of their cursors and of the pending counts.
LEMMA QueueTypesStep ==
  ASSUME ThreadTypes, ServerTypes, Located, QueueTypes, Queues, SentPacketsStayQueued, [AnyNext]_vars
  PROVE  QueueTypes'
<1>1. queue' = [s \in Slots |-> queue'[s]] /\ readCursor' = [s \in Slots |-> readCursor'[s]]
  <2>1. CASE UNCHANGED <<queue, readCursor>>
    BY <2>1 DEF QueueTypes
  <2>2. ASSUME NEW t \in Threads, Push(t), Len(queue[cur[t]]) < QueueCapacity
        PROVE  queue' = [s \in Slots |-> queue'[s]] /\ readCursor' = [s \in Slots |-> readCursor'[s]]
    BY <2>2, PushedQueue DEF QueueTypes
  <2>3. ASSUME NEW w \in Workers, PopSent(w)
        PROVE  queue' = [s \in Slots |-> queue'[s]] /\ readCursor' = [s \in Slots |-> readCursor'[s]]
    BY <2>3, PoppedQueue DEF QueueTypes
  <2>4. ASSUME NEW w \in Workers, Drain(w)
        PROVE  queue' = [s \in Slots |-> queue'[s]] /\ readCursor' = [s \in Slots |-> readCursor'[s]]
    BY <2>4, DrainedQueue DEF QueueTypes
  <2>q. QED
    BY <2>1, <2>2, <2>3, <2>4, QueueMoves
<1>2. pending' \in [Slots -> 0..QueueCapacity] /\ seen' \in [Threads -> 0..QueueCapacity]
  <2>p. 0 \in 0..QueueCapacity
    BY SizeAssumption
  <2> USE <2>p DEF QueueTypes, ThreadTypes, Located, Threads
  <2>1. CASE UNCHANGED vars
    BY <2>1 DEF vars
  <2>2. ASSUME NEW t \in Threads, Peek(t)
        PROVE  pending' \in [Slots -> 0..QueueCapacity] /\ seen' \in [Threads -> 0..QueueCapacity]
    <3>1. cur[t] \in Slots
      BY <2>2
    <3>2. BatchSize(cur[t]) \in 0..QueueCapacity
      <4>1. queue[cur[t]] \in Seq(Nat) /\ Len(queue[cur[t]]) \in Nat /\ Len(queue[cur[t]]) <= QueueCapacity
        BY <3>1 DEF Queues
      <4>q. QED
        BY <4>1, SizeAssumption DEF BatchSize
    <3>3. pending' = pending \/ pending' = [pending EXCEPT ![cur[t]] = BatchSize(cur[t])]
      BY <2>2
    <3>4. seen' = seen
      BY <2>2
    <3>5. pending' \in [Slots -> 0..QueueCapacity]
      BY ZenonT(60), <3>2, <3>3
    <3>q. QED
      BY <3>4, <3>5
  <2>3. ASSUME NEW t \in Threads, SharedStep(t), ~Peek(t) PROVE UNCHANGED <<pending, seen>>
    BY <2>3 DEF SharedStep, ReleaseStep, ApiStep, SendStep, RecvStep
  <2>4. ASSUME NEW w \in Workers, WorkerStep(w)
        PROVE  pending' \in [Slots -> 0..QueueCapacity] /\ seen' \in [Threads -> 0..QueueCapacity]
    <3>1. pending' = pending \/ pending' = [pending EXCEPT ![cur[w]] = 0]
      BY <2>4 DEF WorkerStep, DequeueStep, SentStep, RecycleStep
    <3>2. CASE LoadReadCursor(w)
      BY <3>2
    <3>3. ~LoadReadCursor(w) => seen' = seen \/ seen' = [seen EXCEPT ![w] = 0]
      BY <2>4 DEF WorkerStep, DequeueStep, SentStep, RecycleStep
    <3>4. CASE ~LoadReadCursor(w)
      <4>1. pending' \in [Slots -> 0..QueueCapacity]
        BY <3>1
      <4>2. seen' \in [Threads -> 0..QueueCapacity]
        BY <3>3, <3>4
      <4>q. QED
        BY <4>1, <4>2
    <3>q. QED
      BY <3>2, <3>4
  <2>5. CASE Accept(Acceptor) \/ AcceptStep(Acceptor)
    BY <2>5 DEF AcceptStep
  <2>6. ASSUME NEW t \in Callers, AnyCall(t) PROVE UNCHANGED <<pending, seen>>
    BY <2>6 DEF AnyCall
  <2>7. CASE NetworkStep
    BY <2>7 DEF NetworkStep
  <2>q. QED
    BY <2>1, <2>2, <2>3, <2>4, <2>5, <2>6, <2>7 DEF AnyNext
<1>3. \A s \in Slots : queue'[s] \in Seq(Nat) /\ readCursor'[s] \in 0..QueueCapacity
  BY QueueContents
<1>q. QED
  BY <1>1, <1>2, <1>3 DEF QueueTypes

\* Whoever pushes to or pops from a queue does so for a session that is not released.
LEMMA QueueUsersAreAlive ==
  ASSUME ThreadTypes, Located, Alive, NEW t \in Threads, pc[t] \in Using
  PROVE  cur[t] \in Slots /\ ~released[cur[t]]
BY DEF Located, Alive, Using

\* Every step keeps the queues of waiting slots empty: only users of a live session push.
LEMMA QueuesStep ==
  ASSUME ThreadTypes, FlagTypes, ServerTypes, Located, Alive, OwnersApart, QueueTypes, Queues,
         SentPacketsStayQueued, [AnyNext]_vars
  PROVE  Queues'
<1> DEFINE Waiting == {"setup", "pushBack", "fields", "closeSocket", "uncount", "pushReady"}
<1>1. ASSUME NEW s \in Slots PROVE Len(queue'[s]) <= QueueCapacity
  BY QueueContents
<1>2. ASSUME NEW s \in Slots, queue[s] = <<>>, released[s] PROVE queue'[s] = <<>>
  <2>1. CASE UNCHANGED <<queue, readCursor>>
    BY <1>2, <2>1
  <2>2. ASSUME NEW t \in Threads, Push(t), Len(queue[cur[t]]) < QueueCapacity PROVE queue'[s] = <<>>
    <3>1. cur[t] # s
      BY <1>2, <2>2, QueueUsersAreAlive DEF Using
    <3>q. QED
      BY <1>2, <2>2, <3>1, PushedQueue DEF QueueTypes
  <2>3. ASSUME NEW w \in Workers, PopSent(w) PROVE queue'[s] = <<>>
    <3>1. cur[w] # s
      BY <1>2, <2>3, QueueUsersAreAlive DEF Using, Threads
    <3>q. QED
      BY <1>2, <2>3, <3>1, PoppedQueue DEF QueueTypes
  <2>4. ASSUME NEW w \in Workers, Drain(w) PROVE queue'[s] = <<>>
    BY <1>2, <2>4, DrainedQueue DEF QueueTypes
  <2>q. QED
    BY <2>1, <2>2, <2>3, <2>4, QueueMoves
<1>3. \A t \in Threads : pc[t] \in Owning => cur[t] \in Slots /\ released[cur[t]]
  BY DEF OwnersApart, Located, Owning
<1>4. \A t \in Threads : pc[t] \in Waiting => pc[t] \in Owning /\ queue[cur[t]] = <<>>
  BY DEF Queues, Owning
<1>5. ASSUME NEW s \in ready' PROVE queue'[s] = <<>>
  <2>1. s \in ready \/ \E t \in Threads : pc[t] \in Waiting /\ s = cur[t]
    <3> USE DEF ThreadTypes, ServerTypes, Threads
    <3>1. CASE UNCHANGED vars
      BY <1>5, <3>1 DEF vars
    <3>2. ASSUME NEW t \in Threads, SharedStep(t) PROVE ready' = ready
      BY <3>2 DEF SharedStep, ReleaseStep, ApiStep, SendStep, RecvStep
    <3>3. ASSUME NEW w \in Workers, WorkerStep(w) PROVE ready' = ready \/ (pc[w] \in Waiting /\ ready' = ready \cup {cur[w]})
      BY <3>3 DEF WorkerStep, DequeueStep, SentStep, RecycleStep
    <3>4. CASE Accept(Acceptor) \/ AcceptStep(Acceptor)
      BY <1>5, <3>4 DEF AcceptStep
    <3>5. ASSUME NEW t \in Callers, AnyCall(t) PROVE ready' = ready
      BY <3>5 DEF AnyCall
    <3>6. CASE NetworkStep
      BY <1>5, <3>6 DEF NetworkStep
    <3>q. QED
      BY <1>5, <3>1, <3>2, <3>3, <3>4, <3>5, <3>6 DEF AnyNext
  <2>2. s \in Slots /\ queue[s] = <<>> /\ released[s]
    <3>1. CASE s \in ready
      BY <3>1 DEF ServerTypes, OwnersApart, Queues
    <3>2. ASSUME NEW t \in Threads, pc[t] \in Waiting, s = cur[t] PROVE s \in Slots /\ queue[s] = <<>> /\ released[s]
      BY <1>3, <1>4, <3>2
    <3>q. QED
      BY <2>1, <3>1, <3>2
  <2>q. QED
    BY <1>2, <2>2
<1>6. ASSUME NEW u \in Threads, pc'[u] \in Waiting PROVE queue'[cur'[u]] = <<>>
  <2>1. \/ cur'[u] \in ready
        \/ pc[u] \in Waiting /\ cur'[u] = cur[u]
        \/ u \in Workers /\ Drain(u)
    <3> USE <1>6 DEF ThreadTypes, ServerTypes, Located, Threads
    <3>1. CASE UNCHANGED vars
      BY <3>1 DEF vars
    <3>2. ASSUME NEW t \in Threads, SharedStep(t) PROVE pc[u] \in Waiting /\ cur'[u] = cur[u]
      BY <3>2 DEF SharedStep, ReleaseStep, ApiStep, SendStep, RecvStep
    <3>3. ASSUME NEW w \in Workers, WorkerStep(w), ~Drain(w) PROVE pc[u] \in Waiting /\ cur'[u] = cur[u]
      BY <3>3 DEF WorkerStep, DequeueStep, SentStep, RecycleStep
    <3>4. ASSUME NEW w \in Workers, Drain(w), u # w PROVE pc[u] \in Waiting /\ cur'[u] = cur[u]
      BY <3>4
    <3>5. CASE Accept(Acceptor) \/ AcceptStep(Acceptor)
      BY <3>5 DEF AcceptStep
    <3>6. ASSUME NEW t \in Callers, AnyCall(t) PROVE pc[u] \in Waiting /\ cur'[u] = cur[u]
      BY <3>6 DEF AnyCall
    <3>7. CASE NetworkStep
      BY <3>7 DEF NetworkStep
    <3>q. QED
      BY <3>1, <3>2, <3>3, <3>4, <3>5, <3>6, <3>7 DEF AnyNext
  <2>2. CASE cur'[u] \in ready
    BY <1>2, <2>2 DEF ServerTypes, OwnersApart, Queues
  <2>3. CASE pc[u] \in Waiting /\ cur'[u] = cur[u]
    BY <1>2, <1>3, <1>4, <2>3
  <2>4. CASE u \in Workers /\ Drain(u)
    <3>1. cur'[u] = cur[u]
      BY <2>4
    <3>q. QED
      BY <2>4, <3>1, DrainedQueue DEF QueueTypes
  <2>q. QED
    BY <2>1, <2>2, <2>3, <2>4
<1>q. QED
  BY <1>1, <1>5, <1>6 DEF Queues

\* Packets are under transmission.
Transmits(s) ==
  sendIo[s] # "none" \/ \E t \in Threads : pc[t] \in {"refSend", "wsaSend", "popSent"} /\ cur[t] = s

\* Packets under transmission were so before the step, or have just been peeked.
LEMMA TransmitsBefore ==
  ASSUME ThreadTypes, PortTypes, ServerTypes, Located, SendersApart, QueueTypes, [AnyNext]_vars,
         NEW s \in Slots, Transmits(s)'
  PROVE  \/ Transmits(s) /\ pending'[s] = pending[s] /\ \A w \in Workers : ~(PopSent(w) /\ cur[w] = s)
         \/ pending'[s] = BatchSize(s) /\ BatchSize(s) # 0 /\ queue' = queue
<1> DEFINE Kept == Transmits(s) /\ pending'[s] = pending[s] /\ \A w \in Workers : ~(PopSent(w) /\ cur[w] = s)
<1> USE DEF ThreadTypes, PortTypes, Located, Threads, Transmits, SendersApart, Sending
<1>1. CASE UNCHANGED vars
  BY <1>1 DEF vars
<1>2. ASSUME NEW t \in Threads, Peek(t), cur[t] # s PROVE Kept
  BY <1>2 DEF QueueTypes
<1>3. ASSUME NEW t \in Threads, Peek(t), cur[t] = s PROVE pending'[s] = BatchSize(s) /\ BatchSize(s) # 0 /\ queue' = queue
  BY <1>3 DEF QueueTypes
<1>4. ASSUME NEW t \in Threads, SharedStep(t), ~Peek(t) PROVE Kept
  <2>1. pending' = pending
    BY <1>4 DEF SharedStep, ReleaseStep, ApiStep, SendStep, RecvStep
  <2>2. Transmits(s)
    <3>1. CASE WSASend(t)
      BY <3>1
    <3>2. CASE CancelIoEx(t) \/ CheckSendPending(t)
      BY <3>2, ThreadAssumption DEF Cancel, RecheckCancel, IoStates
    <3>3. CASE ~(WSASend(t) \/ CancelIoEx(t) \/ CheckSendPending(t))
      <4>1. sendIo' = sendIo
        BY <1>4, <3>3 DEF SharedStep, ReleaseStep, ApiStep, SendStep, RecvStep
      <4>2. ASSUME NEW u \in Threads, pc'[u] \in {"refSend", "wsaSend", "popSent"}, cur'[u] = s
            PROVE  pc[u] \in {"refSend", "wsaSend", "popSent"} /\ cur[u] = s
        BY <1>4, <3>3, <4>2 DEF SharedStep, ReleaseStep, ApiStep, SendStep, RecvStep
      <4>q. QED
        BY SMTT(40), <4>1, <4>2
    <3>q. QED
      BY <3>1, <3>2, <3>3
  <2>3. \A w \in Workers : ~PopSent(w)
    BY <1>4 DEF SharedStep, ReleaseStep, ApiStep, SendStep, RecvStep
  <2>q. QED
    BY SMTT(40), <2>1, <2>2, <2>3
<1>5. ASSUME NEW w \in Workers, WorkerStep(w) PROVE Kept
  <2>1. CASE PopSent(w) \/ ClearPending(w)
    <3>1. ASSUME cur[w] = s PROVE FALSE
      <4>1. sendIo'[s] = "none"
        BY <2>1, <3>1
      <4>2. PICK u \in Threads : pc'[u] \in {"refSend", "wsaSend", "popSent"} /\ cur'[u] = s
        BY <4>1
      <4>3. u # w /\ pc'[u] = pc[u] /\ cur'[u] = cur[u]
        BY <2>1, <4>2
      <4>q. QED
        BY <2>1, <3>1, <4>2, <4>3
    <3>q. QED
      BY <2>1, <3>1 DEF QueueTypes
  <2>2. CASE ~(PopSent(w) \/ ClearPending(w))
    <3>1. pending' = pending
      BY <1>5, <2>2 DEF WorkerStep, DequeueStep, SentStep, RecycleStep
    <3>2. Transmits(s)
      BY <1>5, <2>2 DEF WorkerStep, DequeueStep, SentStep, RecycleStep
    <3>3. \A v \in Workers : ~PopSent(v)
      BY <1>5, <2>2 DEF WorkerStep, DequeueStep, SentStep, RecycleStep
    <3>q. QED
      BY <3>1, <3>2, <3>3
  <2>q. QED
    BY <2>1, <2>2
<1>6. CASE Accept(Acceptor) \/ AcceptStep(Acceptor)
  BY <1>6 DEF AcceptStep
<1>7. ASSUME NEW t \in Callers, AnyCall(t) PROVE Kept
  BY <1>7 DEF AnyCall
<1>8. CASE NetworkStep
  <2>1. ASSUME NEW r \in Slots, Complete(r) PROVE Kept
    BY <2>1, ThreadAssumption DEF IoStates
  <2>2. ASSUME NEW r \in Slots, PeerReset(r) PROVE Kept
    BY <2>2, ThreadAssumption DEF IoStates, Cancel
  <2>q. QED
    BY <1>8, <2>1, <2>2 DEF NetworkStep
<1> HIDE DEF ThreadTypes, PortTypes, Located, Transmits, SendersApart, Sending
<1>q. QED
  BY <1>1, <1>2, <1>3, <1>4, <1>5, <1>6, <1>7, <1>8 DEF AnyNext

\* A queue under transmission only grows.
LEMMA QueueGrows ==
  ASSUME ThreadTypes, ServerTypes, PortTypes, Located, QueueTypes, Alive, NoUseAfterRelease, OwnersApart,
         SentPacketsStayQueued, [AnyNext]_vars, NEW s \in Slots, Transmits(s),
         \A w \in Workers : ~(PopSent(w) /\ cur[w] = s)
  PROVE  Len(queue'[s]) \in Nat /\ Len(queue'[s]) >= Len(queue[s])
<1>1. ~released[s]
  BY DEF NoUseAfterRelease, Using, Transmits
<1>2. \A w \in Workers : pc[w] = "drain" => cur[w] # s
  BY <1>1 DEF OwnersApart, Owning, Threads
<1>3. queue[s] \in Seq(Nat) /\ Len(queue[s]) \in Nat
  BY DEF QueueTypes
<1>4. CASE UNCHANGED <<queue, readCursor>>
  BY <1>3, <1>4
<1>5. ASSUME NEW t \in Threads, Push(t), Len(queue[cur[t]]) < QueueCapacity
      PROVE  Len(queue'[s]) \in Nat /\ Len(queue'[s]) >= Len(queue[s])
  <2>1. CASE cur[t] = s
    <3>1. Len(queue'[s]) = Len(queue[s]) + 1
      BY <1>5, <2>1, PushedQueue
    <3>q. QED
      BY <1>3, <3>1
  <2>2. CASE cur[t] # s
    BY <1>3, <1>5, <2>2, PushedQueue DEF QueueTypes
  <2>q. QED
    BY <2>1, <2>2
<1>6. ASSUME NEW w \in Workers, PopSent(w)
      PROVE  Len(queue'[s]) \in Nat /\ Len(queue'[s]) >= Len(queue[s])
  <2>1. cur[w] # s
    BY <1>6
  <2>q. QED
    BY <1>3, <1>6, <2>1, PoppedQueue DEF QueueTypes
<1>7. ASSUME NEW w \in Workers, Drain(w)
      PROVE  Len(queue'[s]) \in Nat /\ Len(queue'[s]) >= Len(queue[s])
  <2>1. cur[w] # s
    BY <1>2, <1>7
  <2>q. QED
    BY <1>3, <1>7, <2>1, DrainedQueue DEF QueueTypes
<1>q. QED
  BY <1>4, <1>5, <1>6, <1>7, QueueMoves

\* Every step keeps packets under transmission at the head of their queue.
LEMMA SentPacketsStep ==
  ASSUME ThreadTypes, ServerTypes, PortTypes, Located, Located', QueueTypes, Alive, NoUseAfterRelease,
         OwnersApart, SendersApart, SentPacketsStayQueued, [AnyNext]_vars
  PROVE  SentPacketsStayQueued'
<1>1. \A s \in Slots : Transmits(s) => pending[s] \in 1..Len(queue[s])
  BY DEF SentPacketsStayQueued, Transmits
<1>2. ASSUME NEW s \in Slots, Transmits(s)' PROVE pending'[s] \in 1..Len(queue'[s])
  <2>1. queue[s] \in Seq(Nat) /\ Len(queue[s]) \in Nat
    BY DEF QueueTypes
  <2>2. CASE Transmits(s) /\ pending'[s] = pending[s] /\ \A w \in Workers : ~(PopSent(w) /\ cur[w] = s)
    <3>1. Len(queue'[s]) \in Nat /\ Len(queue'[s]) >= Len(queue[s])
      BY <2>2, QueueGrows
    <3>2. pending[s] \in 1..Len(queue[s])
      BY <1>1, <2>2
    <3>q. QED
      BY <2>1, <2>2, <3>1, <3>2
  <2>3. CASE pending'[s] = BatchSize(s) /\ BatchSize(s) # 0 /\ queue' = queue
    BY <2>1, <2>3, SizeAssumption DEF BatchSize
  <2>q. QED
    BY <1>2, <2>2, <2>3, TransmitsBefore
<1>q. QED
  BY <1>2 DEF SentPacketsStayQueued, Transmits

\* The i-th packet left after p were popped was the (p + i)-th.
LEMMA ShiftedIndex ==
  ASSUME NEW n \in Nat, NEW p \in 1..n, NEW m, m = n - p, NEW i \in 1..m
  PROVE  p + i \in 1..n
OBVIOUS

\* Every step keeps a queue to the packets of its slot's session.
LEMMA PacketsStep ==
  ASSUME ThreadTypes, SessionTypes, ServerTypes, Located, Roles, QueueTypes, Queues, Queues', NoUseAfterRelease,
         OwnersApart, SentPacketsStayQueued, PacketsReachTheirSession, [AnyNext]_vars
  PROVE  PacketsReachTheirSession'
<1>1. ASSUME NEW s \in Slots, NEW i \in 1..Len(queue'[s]), id'[s] = id[s] PROVE queue'[s][i] = id[s]
  <2>1. queue[s] \in Seq(Nat) /\ Len(queue[s]) \in Nat /\ \A j \in 1..Len(queue[s]) : queue[s][j] = id[s]
    BY DEF QueueTypes, PacketsReachTheirSession
  <2>2. CASE UNCHANGED <<queue, readCursor>>
    BY <2>1, <2>2
  <2>3. ASSUME NEW t \in Threads, Push(t), Len(queue[cur[t]]) < QueueCapacity PROVE queue'[s][i] = id[s]
    <3>1. CASE cur[t] = s
      <4>1. arg[t] = id[s]
        BY <2>3, <3>1 DEF Roles, NoUseAfterRelease, Using
      <4>2. /\ Len(queue'[s]) = Len(queue[s]) + 1
            /\ \A j \in 1..Len(queue[s]) : queue'[s][j] = queue[s][j]
            /\ queue'[s][Len(queue[s]) + 1] = arg[t]
        BY <2>3, <3>1, PushedQueue
      <4>3. i \in 1..Len(queue[s]) \/ i = Len(queue[s]) + 1
        BY <2>1, <4>2
      <4>q. QED
        BY <2>1, <4>1, <4>2, <4>3
    <3>2. CASE cur[t] # s
      BY <2>1, <2>3, <3>2, PushedQueue DEF QueueTypes
    <3>q. QED
      BY <3>1, <3>2
  <2>4. ASSUME NEW w \in Workers, PopSent(w) PROVE queue'[s][i] = id[s]
    <3>1. CASE cur[w] = s
      <4>1. /\ pending[s] \in 1..Len(queue[s])
            /\ Len(queue'[s]) = Len(queue[s]) - pending[s]
            /\ queue'[s][i] = queue[s][pending[s] + i]
        BY ZenonT(60), <2>4, <3>1, PoppedQueue
      <4>2. pending[s] + i \in 1..Len(queue[s])
        BY <2>1, <4>1, ShiftedIndex
      <4>q. QED
        BY <2>1, <4>1, <4>2
    <3>2. CASE cur[w] # s
      BY <2>1, <2>4, <3>2, PoppedQueue DEF QueueTypes
    <3>q. QED
      BY <3>1, <3>2
  <2>5. ASSUME NEW w \in Workers, Drain(w) PROVE queue'[s][i] = id[s]
    BY <2>1, <2>5, DrainedQueue DEF QueueTypes
  <2>q. QED
    BY <2>2, <2>3, <2>4, <2>5, QueueMoves
<1>2. ASSUME NEW s \in Slots, id'[s] # id[s] PROVE queue'[s] = <<>>
  <2> USE <1>2
  <2>1. CASE UNCHANGED vars
    BY <2>1 DEF vars
  <2>2. ASSUME NEW t \in Threads, SharedStep(t) PROVE FALSE
    BY <2>2 DEF SharedStep, ReleaseStep, ApiStep, SendStep, RecvStep
  <2>3. ASSUME NEW w \in Workers, WorkerStep(w) PROVE FALSE
    BY <2>3 DEF WorkerStep, DequeueStep, SentStep, RecycleStep
  <2>4. CASE StartFields(Acceptor)
    <3>1. s = cur[Acceptor] /\ queue' = queue
      BY <2>4 DEF SessionTypes
    <3>q. QED
      BY <2>4, <3>1 DEF Queues, Threads
  <2>5. CASE (Accept(Acceptor) \/ AcceptStep(Acceptor)) /\ ~StartFields(Acceptor)
    BY <2>5 DEF AcceptStep
  <2>6. ASSUME NEW t \in Callers, AnyCall(t) PROVE FALSE
    BY <2>6 DEF AnyCall
  <2>7. CASE NetworkStep
    BY <2>7 DEF NetworkStep
  <2>q. QED
    BY <2>1, <2>2, <2>3, <2>4, <2>5, <2>6, <2>7 DEF AnyNext
<1>3. ASSUME NEW s \in Slots, NEW i \in 1..Len(queue'[s]) PROVE queue'[s][i] = id'[s]
  <2>1. CASE id'[s] = id[s]
    BY <1>1, <2>1
  <2>2. CASE id'[s] # id[s]
    BY <1>2, <2>2
  <2>q. QED
    BY <2>1, <2>2
<1>q. QED
  BY <1>3 DEF Queues, PacketsReachTheirSession

----------------------------------------------------------------------------
(***************************************************************************)
(* m_isSending is not left set.                                            *)
(***************************************************************************)

\* Somebody will send on, or disconnect, the session of slot s.
SenderOf(s) ==
  \/ sendIo[s] # "none"
  \/ \E t \in Threads : cur[t] = s /\ (pc[t] \in Sending \/ (pc[t] = "setCancel" /\ extra[t]))

\* The session of slot s could not send although nobody has disconnected it.
Mute(s) == isSending[s] /\ ~released[s] /\ ~cancelIo[s] /\ sock[s] = "open"

LEMMA FlagNotLeakedBySlot == FlagNotLeaked <=> \A s \in Slots : Mute(s) => SenderOf(s)
BY DEF FlagNotLeaked, Mute, SenderOf, SendOwners

\* Every step that makes a send fail has set m_cancelIo or found the connection lost, and a session
\* starts with its flag clear.
LEMMA FailuresAreCancelledStep ==
  ASSUME ThreadTypes, SessionTypes, PortTypes, ServerTypes, Located, OwnersApart, NoUseAfterRelease,
         FailuresAreCancelled, [AnyNext]_vars
  PROVE  FailuresAreCancelled'
<1> USE ThreadAssumption DEF ThreadTypes, SessionTypes, PortTypes, Located, Threads, IoStates
<1>1. CASE UNCHANGED vars
  BY <1>1 DEF vars, FailuresAreCancelled
<1>2. ASSUME NEW t \in Threads, SharedStep(t) PROVE FailuresAreCancelled'
  <2>1. CASE ReleaseStep(t)
    BY <2>1 DEF ReleaseStep, FailuresAreCancelled
  <2>2. CASE ApiStep(t)
    <3>1. CASE SetCancel(t)
      BY <3>1 DEF FailuresAreCancelled
    <3>2. CASE CancelIoEx(t)
      <4>1. cancelIo[cur[t]] /\ cur[t] \in Slots
        BY <3>2 DEF FailuresAreCancelled
      <4>2. \A s \in Slots : sendIo'[s] = sendIo[s] \/ s = cur[t]
        BY <3>2, <4>1 DEF Cancel
      <4>q. QED
        BY <3>2, <4>1, <4>2 DEF FailuresAreCancelled
    <3>3. CASE ~SetCancel(t) /\ ~CancelIoEx(t)
      <4>1. /\ UNCHANGED <<cancelIo, isSending, sock, sendIo>>
            /\ \A u \in Threads : pc'[u] \in {"cancelIoEx", "protect", "publish"} => pc[u] = pc'[u] /\ cur'[u] = cur[u]
        BY <2>2, <3>3 DEF ApiStep, Body
      <4>q. QED
        BY <4>1 DEF FailuresAreCancelled
    <3>q. QED
      BY <3>1, <3>2, <3>3
  <2>3. CASE SendStep(t)
    <3>1. CASE TakeFlag(t)
      <4>1. ~released[cur[t]]
        BY <3>1 DEF NoUseAfterRelease, Using
      <4>2. \A u \in Threads : pc[u] \in {"protect", "publish"} => released[cur[u]]
        BY DEF OwnersApart, Owning
      <4>3. \A u \in Threads : pc[u] \in {"protect", "publish"} => isSending'[cur[u]] = isSending[cur[u]]
        BY <3>1, <4>1, <4>2
      <4>q. QED
        BY <3>1, <4>3 DEF FailuresAreCancelled
    <3>2. CASE CheckSendPending(t)
      BY <3>2 DEF FailuresAreCancelled, RecheckCancel, Cancel
    <3>3. CASE WSASend(t)
      BY <3>3 DEF FailuresAreCancelled
    <3>4. CASE CheckCancelSend(t) \/ Peek(t) \/ ClearFlag(t) \/ RefSend(t)
      BY <3>4 DEF FailuresAreCancelled
    <3>q. QED
      BY <2>3, <3>1, <3>2, <3>3, <3>4 DEF SendStep
  <2>4. CASE RecvStep(t)
    BY <2>4 DEF RecvStep, FailuresAreCancelled
  <2>q. QED
    BY <1>2, <2>1, <2>2, <2>3, <2>4 DEF SharedStep
<1>3. ASSUME NEW w \in Workers, WorkerStep(w) PROVE FailuresAreCancelled'
  <2>1. CASE DequeueStep(w) \/ Received(w)
    BY <1>3, <2>1 DEF DequeueStep, FailuresAreCancelled
  <2>2. CASE SentStep(w) \/ RecycleStep(w)
    <3>1. /\ UNCHANGED <<cancelIo, sendIo>>
          /\ \A s \in Slots : isSending'[s] => isSending[s]
          /\ \A s \in Slots : sock'[s] = "open" => sock[s] = "open"
      BY <1>3, <2>2 DEF SentStep, RecycleStep
    <3>2. \A u \in Threads : pc'[u] \in {"cancelIoEx", "protect", "publish"} => pc[u] = pc'[u] /\ cur'[u] = cur[u]
      BY <1>3, <2>2 DEF SentStep, RecycleStep
    <3>3. \A u \in Threads : pc'[u] \in {"cancelIoEx", "protect", "publish"} => cur[u] \in Slots
      BY <3>2
    <3>q. QED
      BY <3>1, <3>2, <3>3 DEF FailuresAreCancelled
  <2>q. QED
    BY <1>3, <2>1, <2>2 DEF WorkerStep
<1>4. CASE Accept(Acceptor) \/ AcceptStep(Acceptor)
  <2>1. CASE StartFields(Acceptor)
    <3>1. released[cur[Acceptor]] /\ cur[Acceptor] \in Slots
      BY <2>1 DEF OwnersApart, Owning
    <3>2. \A t \in Threads : pc[t] = "cancelIoEx" => ~released[cur[t]]
      BY DEF NoUseAfterRelease, Using
    <3>3. sendIo[cur[Acceptor]] = "none"
      BY <3>1 DEF NoUseAfterRelease
    <3>q. QED
      BY <2>1, <3>1, <3>2, <3>3 DEF FailuresAreCancelled
  <2>2. CASE ~StartFields(Acceptor)
    <3>1. /\ UNCHANGED <<cancelIo, isSending, sock, sendIo>>
          /\ \A u \in Threads : pc'[u] = "cancelIoEx" => pc[u] = "cancelIoEx" /\ cur'[u] = cur[u]
          /\ \A u \in Threads : pc'[u] \in {"protect", "publish"} =>
                                 pc[u] \in {"protect", "publish"} /\ cur'[u] = cur[u]
      BY <1>4, <2>2 DEF AcceptStep
    <3>q. QED
      BY <3>1 DEF FailuresAreCancelled
  <2>q. QED
    BY <2>1, <2>2
<1>5. ASSUME NEW t \in Callers, AnyCall(t) PROVE FailuresAreCancelled'
  BY <1>5 DEF AnyCall, FailuresAreCancelled
<1>6. CASE NetworkStep
  BY <1>6 DEF NetworkStep, FailuresAreCancelled, Cancel
<1> HIDE DEF ThreadTypes, SessionTypes, PortTypes, Located, IoStates
<1>q. QED
  BY <1>1, <1>2, <1>3, <1>4, <1>5, <1>6 DEF AnyNext

\* A step that keeps the sender of a slot's session.
LEMMA SenderKept ==
  ASSUME NEW s \in Slots,
         sendIo[s] # "none" => sendIo'[s] # "none",
         \A t \in Threads :
           cur[t] = s /\ (pc[t] \in Sending \/ (pc[t] = "setCancel" /\ extra[t])) =>
             cur'[t] = s /\ (pc'[t] \in Sending \/ (pc'[t] = "setCancel" /\ extra'[t]))
  PROVE  SenderOf(s) => SenderOf(s)'
BY DEF SenderOf

\* Every step keeps the flag in somebody's hands, or clears it, or has the session disconnected.
LEMMA FlagNotLeakedStep ==
  ASSUME ThreadTypes, FlagTypes, SessionTypes, PortTypes, ServerTypes, Located, SecondReferences, OwnersApart,
         NoUseAfterRelease, FailuresAreCancelled, [AnyNext]_vars,
         NEW s \in Slots, Mute(s) => SenderOf(s)
  PROVE  Mute(s)' => SenderOf(s)'
<1> USE ThreadAssumption DEF ThreadTypes, FlagTypes, SessionTypes, PortTypes, Located, Threads, IoStates
<1> DEFINE Holds(t) == cur[t] = s /\ (pc[t] \in Sending \/ (pc[t] = "setCancel" /\ extra[t]))
           Keeps == /\ Mute(s)' => Mute(s)
                    /\ sendIo[s] # "none" => sendIo'[s] # "none"
                    /\ \A t \in Threads : Holds(t) => Holds(t)'
<1>0. Keeps => (Mute(s)' => SenderOf(s)')
  BY SenderKept
<1>1. CASE UNCHANGED vars
  <2>1. Keeps
    BY <1>1 DEF vars, Mute
  <2>q. QED
    BY <1>0, <2>1
<1>2. ASSUME NEW t \in Threads, ReleaseStep(t) PROVE Keeps
  BY <1>2 DEF ReleaseStep, Mute, Sending
<1>3. ASSUME NEW t \in Threads, ApiStep(t), ~SetCancel(t) PROVE Keeps
  <2>1. CASE CancelIoEx(t)
    BY <2>1 DEF Mute, Cancel, Sending
  <2>2. CASE ~CancelIoEx(t)
    BY <1>3, <2>2 DEF ApiStep, Mute, Sending
  <2>q. QED
    BY <2>1, <2>2
<1>4. ASSUME NEW t \in Threads, SetCancel(t) PROVE Mute(s)' => SenderOf(s)'
  <2>1. CASE cur[t] = s
    BY <1>4, <2>1 DEF Mute
  <2>2. CASE cur[t] # s
    <3>1. Keeps
      BY <1>4, <2>2 DEF Mute, Sending
    <3>q. QED
      BY <1>0, <3>1
  <2>q. QED
    BY <2>1, <2>2
<1>5. ASSUME NEW t \in Threads, SendStep(t) PROVE Mute(s)' => SenderOf(s)'
  <2>1. CASE cur[t] # s
    <3>1. UNCHANGED <<cancelIo, sock, released, cur>> /\ isSending'[s] = isSending[s] /\ sendIo'[s] = sendIo[s]
      BY <1>5, <2>1 DEF SendStep, RecheckCancel, Cancel
    <3>2. \A u \in Threads : cur[u] = s => pc'[u] = pc[u] /\ extra'[u] = extra[u]
      BY <1>5, <2>1 DEF SendStep
    <3>3. Keeps
      BY <3>1, <3>2 DEF Mute
    <3>q. QED
      BY <1>0, <3>3
  <2>2. CASE cur[t] = s
    <3>1. CASE TakeFlag(t)
      BY <2>2, <3>1 DEF Mute, SenderOf, Sending
    <3>2. CASE CheckCancelSend(t)
      BY <2>2, <3>2 DEF Mute, SenderOf, Sending
    <3>3. CASE Peek(t) \/ RefSend(t)
      BY <2>2, <3>3 DEF Mute, SenderOf, Sending
    <3>4. CASE ClearFlag(t)
      BY <2>2, <3>4 DEF Mute
    <3>5. CASE WSASend(t)
      BY <2>2, <3>5 DEF Mute, SenderOf, Sending, SecondReferences
    <3>6. CASE CheckSendPending(t)
      <4>1. Keeps
        BY <3>6 DEF Mute, Sending, RecheckCancel, Cancel
      <4>q. QED
        BY <1>0, <4>1
    <3>q. QED
      BY <1>5, <3>1, <3>2, <3>3, <3>4, <3>5, <3>6 DEF SendStep
  <2>q. QED
    BY <2>1, <2>2
<1>6. ASSUME NEW t \in Threads, RecvStep(t) PROVE Keeps
  BY <1>6 DEF RecvStep, Mute, Sending
<1>7. ASSUME NEW w \in Workers, WorkerStep(w) PROVE Mute(s)' => SenderOf(s)'
  <2>1. ASSUME NEW r \in Slots, DequeueSend(w, r) PROVE Mute(s)' => SenderOf(s)'
    <3>1. CASE r # s
      <4>1. Keeps
        BY <2>1, <3>1 DEF Mute, Sending
      <4>q. QED
        BY <1>0, <4>1
    <3>2. CASE r = s /\ sendIo[s] = "ok"
      BY <2>1, <3>2 DEF SenderOf, Sending
    <3>3. CASE r = s /\ sendIo[s] = "fail"
      BY <2>1, <3>3 DEF Mute, FailuresAreCancelled
    <3>q. QED
      BY <2>1, <3>1, <3>2, <3>3
  <2>2. ASSUME NEW r \in Slots, DequeueRecv(w, r) \/ DequeueJob(w, r) PROVE Keeps
    BY <2>2 DEF Mute, Sending
  <2>3. CASE Received(w)
    <3>1. Keeps
      BY <2>3 DEF Mute, Sending
    <3>q. QED
      BY <1>0, <3>1
  <2>4. CASE SentStep(w)
    <3>1. CASE DropFlag(w)
      <4>1. CASE cur[w] = s
        BY <3>1, <4>1 DEF Mute
      <4>2. CASE cur[w] # s
        <5>1. Keeps
          BY <3>1, <4>2 DEF Mute, Sending
        <5>q. QED
          BY <1>0, <5>1
      <4>q. QED
        BY <4>1, <4>2
    <3>2. CASE ~DropFlag(w)
      <4>1. Keeps
        BY <1>7, <2>4, <3>2 DEF SentStep, Mute, Sending
      <4>q. QED
        BY <1>0, <4>1
    <3>q. QED
      BY <3>1, <3>2
  <2>5. CASE RecycleStep(w)
    <3>1. Keeps
      BY <1>7, <2>5 DEF RecycleStep, Mute, Sending
    <3>q. QED
      BY <1>0, <3>1
  <2>q. QED
    BY <1>0, <1>7, <2>1, <2>2, <2>3, <2>4, <2>5 DEF WorkerStep, DequeueStep
<1>8. CASE Accept(Acceptor) \/ AcceptStep(Acceptor)
  <2>1. CASE StartFields(Acceptor)
    <3>1. CASE cur[Acceptor] = s
      BY <2>1, <3>1 DEF Mute
    <3>2. CASE cur[Acceptor] # s
      <4>1. Keeps
        BY <2>1, <3>2 DEF Mute, Sending
      <4>q. QED
        BY <1>0, <4>1
    <3>q. QED
      BY <3>1, <3>2
  <2>2. CASE StartPublish(Acceptor)
    <3>1. CASE cur[Acceptor] = s
      BY <2>2, <3>1 DEF Mute, FailuresAreCancelled
    <3>2. CASE cur[Acceptor] # s
      <4>1. Keeps
        BY <2>2, <3>2 DEF Mute, Sending
      <4>q. QED
        BY <1>0, <4>1
    <3>q. QED
      BY <3>1, <3>2
  <2>3. CASE ~StartFields(Acceptor) /\ ~StartPublish(Acceptor)
    <3>1. Keeps
      BY <1>8, <2>3 DEF AcceptStep, Mute, Sending
    <3>q. QED
      BY <1>0, <3>1
  <2>q. QED
    BY <2>1, <2>2, <2>3
<1>9. ASSUME NEW t \in Callers, AnyCall(t) PROVE Keeps
  BY <1>9 DEF AnyCall, Mute, Sending
<1>10. CASE NetworkStep
  <2>1. Keeps
    BY <1>10 DEF NetworkStep, Mute, Sending, Cancel
  <2>q. QED
    BY <1>0, <2>1
<1> HIDE DEF ThreadTypes, FlagTypes, SessionTypes, PortTypes, Located, IoStates
<1>q. QED
  BY <1>0, <1>1, <1>2, <1>3, <1>4, <1>5, <1>6, <1>7, <1>8, <1>9, <1>10 DEF AnyNext, SharedStep

----------------------------------------------------------------------------
(***************************************************************************)
(* The ids of sessions.                                                    *)
(***************************************************************************)

\* Every step hands out ids in order: only Start takes one, and OnConnect is entered with it before the next.
LEMMA IdsInOrderStep ==
  ASSUME ThreadTypes, ServerTypes, Located, IdsInOrder, [AnyNext]_vars
  PROVE  IdsInOrder'
<1> USE ThreadAssumption DEF ThreadTypes, ServerTypes, IdsInOrder, Numbered, Threads
<1>1. CASE UNCHANGED vars
  BY <1>1 DEF vars
<1>2. ASSUME NEW t \in Threads, SharedStep(t) PROVE IdsInOrder'
  <2>1. known' = known /\ idCounter' = idCounter
    BY SMTT(40), <1>2 DEF SharedStep, ReleaseStep, ApiStep, SendStep, RecvStep
  <2>2. pc'[Acceptor] \in Numbered \cup {"accepted", "setup", "fields"}
          \/ pc[Acceptor] \in Numbered \cup {"accepted", "setup", "fields"}
        => pc'[Acceptor] = pc[Acceptor] /\ arg'[Acceptor] = arg[Acceptor]
    BY <1>2 DEF SharedStep, ReleaseStep, ApiStep, SendStep, RecvStep
  <2>q. QED
    BY SMTT(40), <2>1, <2>2
<1>3. ASSUME NEW w \in Workers, WorkerStep(w) PROVE IdsInOrder'
  <2>1. known' = known /\ idCounter' = idCounter
    BY <1>3 DEF WorkerStep, DequeueStep, SentStep, RecycleStep
  <2>2. pc'[Acceptor] = pc[Acceptor] /\ arg'[Acceptor] = arg[Acceptor]
    BY <1>3 DEF WorkerStep, DequeueStep, SentStep, RecycleStep
  <2>q. QED
    BY <2>1, <2>2
<1>4. CASE Accept(Acceptor)
  BY <1>4, SizeAssumption
<1>5. CASE AcceptStep(Acceptor)
  <2>1. CASE StartFields(Acceptor)
    BY <2>1, SizeAssumption
  <2>2. CASE CountSession(Acceptor)
    <3>1. known' = known \cup {<<arg[Acceptor], cur[Acceptor]>>} /\ idCounter' = idCounter
      BY <2>2
    <3>2. arg[Acceptor] = idCounter /\ idCounter \in 1..idCounter
      BY <2>2
    <3>3. pc'[Acceptor] = "onConnect"
      BY <2>2
    <3>4. \A k \in known' : k[1] \in 1..idCounter
      BY <3>1, <3>2
    <3>5. ASSUME NEW i \in 1..idCounter PROVE \E k \in known' : k[1] = i
      <4>1. CASE i = idCounter
        <5>1. <<arg[Acceptor], cur[Acceptor]>> \in known' /\ <<arg[Acceptor], cur[Acceptor]>>[1] = i
          BY <3>1, <3>2, <4>1
        <5>q. QED
          BY <5>1
      <4>2. CASE i # idCounter
        BY <2>2, <3>1, <4>2
      <4>q. QED
        BY <4>1, <4>2
    <3>q. QED
      BY <3>1, <3>3, <3>4, <3>5
  <2>3. CASE PopReady(Acceptor) \/ Setup(Acceptor) \/ PushBack(Acceptor) \/ StartProtect(Acceptor)
             \/ StartPublish(Acceptor) \/ Connected(Acceptor)
    BY <2>3
  <2>q. QED
    BY <1>5, <2>1, <2>2, <2>3 DEF AcceptStep
<1>6. ASSUME NEW t \in Callers, AnyCall(t) PROVE IdsInOrder'
  <2>1. known' = known /\ idCounter' = idCounter /\ pc'[Acceptor] = pc[Acceptor] /\ arg'[Acceptor] = arg[Acceptor]
    BY <1>6 DEF AnyCall
  <2>q. QED
    BY <2>1
<1>7. CASE NetworkStep
  BY SMTT(40), <1>7 DEF NetworkStep
<1> HIDE DEF ThreadTypes, ServerTypes, IdsInOrder, Numbered
<1>q. QED
  BY <1>1, <1>2, <1>3, <1>4, <1>5, <1>6, <1>7 DEF AnyNext

\* Every step keeps the ids of the slots apart, and gives a slot an id before it gives it a session.
LEMMA IdsUniqueStep ==
  ASSUME ThreadTypes, FlagTypes, SessionTypes, PortTypes, ServerTypes, Located, Roles, OwnersApart, IdsUnique,
         [AnyNext]_vars
  PROVE  IdsUnique'
<1> USE ThreadAssumption
    DEF ThreadTypes, FlagTypes, SessionTypes, PortTypes, ServerTypes, Located, IdsUnique, Threads
<1>1. CASE UNCHANGED vars
  BY <1>1 DEF vars
<1>2. ASSUME NEW t \in Threads, Deref(t) \/ ApiStep(t) \/ SendStep(t) \/ RecvStep(t) PROVE IdsUnique'
  <2>1. id' = id /\ idCounter' = idCounter /\ released' = released /\ jobs' = jobs
    BY SMTT(40), <1>2 DEF ApiStep, SendStep, RecvStep
  <2>2. \A u \in Threads : pc'[u] \in {"protect", "publish", "postJob", "onDisconnect"}
                             => pc'[u] = pc[u] /\ cur'[u] = cur[u]
    BY SMTT(40), <1>2 DEF ApiStep, SendStep, RecvStep
  <2>q. QED
    BY SMTT(40), <2>1, <2>2
<1>3. ASSUME NEW t \in Threads, TryRelease(t) PROVE IdsUnique'
  BY <1>3
<1>4. ASSUME NEW t \in Threads, PostJob(t) PROVE IdsUnique'
  BY <1>4
<1>5. ASSUME NEW w \in Workers, DequeueStep(w) PROVE IdsUnique'
  BY SMTT(40), <1>5 DEF DequeueStep
<1>6. ASSUME NEW w \in Workers, Received(w) \/ SentStep(w) \/ RecycleStep(w) PROVE IdsUnique'
  <2>1. id' = id /\ idCounter' = idCounter /\ released' = released /\ jobs' = jobs
    BY <1>6 DEF SentStep, RecycleStep
  <2>2. \A u \in Threads : pc'[u] \in {"protect", "publish", "postJob", "onDisconnect"}
                             => pc'[u] = pc[u] /\ cur'[u] = cur[u]
    BY <1>6 DEF SentStep, RecycleStep
  <2>q. QED
    BY <2>1, <2>2
<1>7. CASE Accept(Acceptor)
  BY <1>7
<1>8. CASE AcceptStep(Acceptor)
  <2>1. CASE StartFields(Acceptor)
    <3>1. cur[Acceptor] \in Slots /\ idCounter' = idCounter + 1 /\ released' = released /\ jobs' = jobs
      BY <2>1
    <3>2. id' = [id EXCEPT ![cur[Acceptor]] = idCounter + 1]
      BY <2>1
    <3>3. \A t \in Threads : pc'[t] \in {"protect", "publish", "postJob", "onDisconnect"} /\ t # Acceptor
                               => cur'[t] = cur[t] /\ pc'[t] = pc[t]
      BY <2>1
    <3>4. cur' = cur /\ pc'[Acceptor] = "protect"
      BY <2>1
    <3>5. \A s \in Slots : id'[s] <= idCounter'
      BY <3>1, <3>2
    <3>6. \A s, u \in Slots : id'[s] = id'[u] /\ id'[s] # 0 => s = u
      BY <3>1, <3>2
    <3>7. \A s \in Slots : ~released'[s] \/ jobs'[s] > 0 => id'[s] # 0
      BY <3>1, <3>2
    <3>8. \A t \in Threads : pc'[t] \in {"protect", "publish", "postJob", "onDisconnect"} => id'[cur'[t]] # 0
      BY <3>1, <3>2, <3>3, <3>4
    <3>q. QED
      BY <3>5, <3>6, <3>7, <3>8
  <2>2. CASE StartPublish(Acceptor)
    BY <2>2
  <2>3. CASE PopReady(Acceptor) \/ Setup(Acceptor) \/ PushBack(Acceptor) \/ StartProtect(Acceptor)
             \/ CountSession(Acceptor) \/ Connected(Acceptor)
    <3>1. id' = id /\ idCounter' = idCounter /\ released' = released /\ jobs' = jobs
      BY <2>3
    <3>2. \A u \in Threads : pc'[u] \in {"protect", "publish", "postJob", "onDisconnect"}
                               => cur'[u] = cur[u] /\ pc[u] \in {"protect", "publish", "postJob", "onDisconnect"}
      BY <2>3
    <3>q. QED
      BY <3>1, <3>2
  <2>q. QED
    BY <1>8, <2>1, <2>2, <2>3 DEF AcceptStep
<1>9. ASSUME NEW t \in Callers, AnyCall(t) PROVE IdsUnique'
  BY <1>9 DEF AnyCall
<1>10. CASE NetworkStep
  BY <1>10 DEF NetworkStep
<1>q. QED
  BY <1>1, <1>2, <1>3, <1>4, <1>5, <1>6, <1>7, <1>8, <1>9, <1>10
  DEF AnyNext, SharedStep, ReleaseStep, WorkerStep
====
