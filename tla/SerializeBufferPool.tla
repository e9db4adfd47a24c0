-------------------------- MODULE SerializeBufferPool --------------------------
(***************************************************************************)
(* Where a packet's memory comes from and goes to.  SerializeBuffers live  *)
(* in blocks that are never given back, and travel in batches: a thread    *)
(* takes buffers from one batch of its own and puts released buffers into  *)
(* another, and exchanges whole batches with the shared pool.  A buffer is *)
(* allocated by one thread and released by whichever gives up its last     *)
(* reference: a Packet, or an entry of a send queue.                       *)
(*                                                                         *)
(* A step is one access to the shared pool or to a reference count, with   *)
(* the work on thread-local batches around it.  The vectors and arrays are *)
(* used as stacks; here any batch and any buffer of a batch may be next.   *)
(* A thread may exit and another take its place; its batches, to which     *)
(* only raw thread_local pointers led, are lost.                           *)
(***************************************************************************)
EXTENDS Naturals, FiniteSets

CONSTANTS
  Threads,       \* the threads that create or release packets
  Blocks,        \* bound of the model: the blocks VirtualAlloc may return
  Initial,       \* the blocks Init allocates, one per processor
  Capacity,      \* SerializeBufferBatch::CAPACITY
  References,    \* bound of the model: Packets and queue entries at one time
  MaxExits,      \* bound of the model: the threads that exit
  NoBuffer       \* nullptr

Buffers == Blocks \X (1..Capacity)

ASSUME PoolAssumption ==
  /\ IsFiniteSet(Threads) /\ IsFiniteSet(Blocks) /\ IsFiniteSet(References)
  /\ Initial \subseteq Blocks
  /\ Capacity \in Nat \ {0}
  /\ MaxExits \in Nat
  /\ NoBuffer \notin Buffers

VARIABLES
  vm,          \* m_vm
  full,        \* m_fullBatch, each batch as the set of its buffers
  empty,       \* the size of m_emptyBatch
  using,       \* t_pUsingSerBufBatch, {} for nullptr
  returning,   \* t_pReturnSerBufBatch, {} for nullptr
  refCount,    \* m_ctrlBlock.m_refCount
  refs,        \* the buffer each Packet or queue entry points to
  lost,        \* the buffers in batches of threads that have exited
  exits,       \* the threads that have exited
  pc,          \* where a thread is in GetSerializeBuffer or ReturnSerializeBuffer
  buf          \* the buffer being returned

pool   == <<vm, full, empty>>
caches == <<using, returning>>
gone   == <<lost, exits>>
vars   == <<pool, caches, gone, refCount, refs, pc, buf>>

BlockBuffers(block) == {block} \X (1..Capacity)

Goto(t, label) == pc' = [pc EXCEPT ![t] = label]

------------------------------------------------------------------------------
\* GetSerializeBuffer.

\* GetFullSerializeBufferBatch, under m_fullBatchLock: a batch of the pool, or one filled with the
\* buffers of a new block.
TakeFull(t) ==
  \/ \E batch \in full :
       /\ full' = full \ {batch}
       /\ using' = [using EXCEPT ![t] = batch]
       /\ UNCHANGED vm
  \/ \E block \in Blocks \ vm :
       /\ full = {}
       /\ vm' = vm \cup {block}
       /\ using' = [using EXCEPT ![t] = BlockBuffers(block)]
       /\ UNCHANGED full

\* The Packet being constructed will be one of the References.
GetFull(t) ==
  /\ pc[t] = "idle"
  /\ using[t] = {}
  /\ Cardinality({r \in References : refs[r] = NoBuffer}) > Cardinality({u \in Threads : pc[u] = "pop"})
  /\ TakeFull(t)
  /\ Goto(t, "pop")
  /\ UNCHANGED <<empty, returning, gone, refCount, refs, buf>>

\* Mutant: a batch with one buffer left counts as used up.
NearlyUsedUp(batch) == Cardinality(batch) <= 1

\* `Size() == 0`.
UsedUp(batch) == batch = {}

\* Pop a buffer, give an empty batch to the pool under m_emptyBatchLock, and let the new Packet
\* point to the buffer with one reference.
Pop(t) ==
  /\ pc[t] = "pop" \/ (pc[t] = "idle" /\ using[t] # {})
  /\ \E b \in using[t] :
       LET rest == using[t] \ {b} IN
       /\ IF UsedUp(rest)
            THEN using' = [using EXCEPT ![t] = {}] /\ empty' = empty + 1
            ELSE using' = [using EXCEPT ![t] = rest] /\ UNCHANGED empty
       /\ refCount' = [refCount EXCEPT ![b] = @ + 1]
       /\ \E r \in References :
            /\ refs[r] = NoBuffer
            /\ refs' = [refs EXCEPT ![r] = b]
  /\ Goto(t, "idle")
  /\ UNCHANGED <<vm, full, returning, gone, buf>>

------------------------------------------------------------------------------
\* Packet and SerializeBuffer::Release.

\* Mutant: the copy takes no reference of its own.
Shared(b) == refCount

\* `m_pObj->AddRef()`.
Referenced(b) == [refCount EXCEPT ![b] = @ + 1]

\* Packet's copy constructor: the same buffer is sent to several sessions.
Copy(r, q) ==
  /\ refs[r] # NoBuffer
  /\ refs[q] = NoBuffer
  /\ refCount' = Referenced(refs[r])
  /\ refs' = [refs EXCEPT ![q] = refs[r]]
  /\ UNCHANGED <<pool, caches, gone, pc, buf>>

\* Packet's destructor, or the release of a queue entry that was sent, refused or drained.  With
\* the last reference the buffer is returned.
Release(t, r) ==
  LET b == refs[r] IN
  /\ pc[t] = "idle"
  /\ b # NoBuffer
  /\ refs' = [refs EXCEPT ![r] = NoBuffer]
  /\ refCount' = [refCount EXCEPT ![b] = @ - 1]
  /\ IF refCount[b] = 1
       THEN /\ buf' = [buf EXCEPT ![t] = b]
            /\ Goto(t, IF returning[t] = {} THEN "getEmpty" ELSE "push")
       ELSE UNCHANGED <<pc, buf>>
  /\ UNCHANGED <<pool, caches, gone>>

------------------------------------------------------------------------------
\* ReturnSerializeBuffer.

\* GetEmptySerializeBufferBatch, under m_emptyBatchLock: a batch of the pool, or a new one.
GetEmpty(t) ==
  /\ pc[t] = "getEmpty"
  /\ empty' = IF empty = 0 THEN 0 ELSE empty - 1
  /\ Goto(t, "push")
  /\ UNCHANGED <<vm, full, caches, gone, refCount, refs, buf>>

\* Mutant: the thread goes on with the batch it has returned.
KeepReturned(t, batch) == batch

\* `t_pReturnSerBufBatch = nullptr`.
ForgetReturned(t, batch) == {}

\* Push the buffer, and give a full batch to the pool under m_fullBatchLock.
Push(t) ==
  LET batch == returning[t] \cup {buf[t]} IN
  /\ pc[t] = "push"
  /\ IF Cardinality(batch) = Capacity
       THEN full' = full \cup {batch} /\ returning' = [returning EXCEPT ![t] = ForgetReturned(t, batch)]
       ELSE returning' = [returning EXCEPT ![t] = batch] /\ UNCHANGED full
  /\ buf' = [buf EXCEPT ![t] = NoBuffer]
  /\ Goto(t, "idle")
  /\ UNCHANGED <<vm, empty, using, gone, refCount, refs>>

------------------------------------------------------------------------------

\* Thread t ends, outside both functions, with what its two pointers lead to; a new thread starts
\* with null pointers.
Exit(t) ==
  /\ pc[t] = "idle"
  /\ exits < MaxExits
  /\ exits' = exits + 1
  /\ lost' = lost \cup using[t] \cup returning[t]
  /\ using' = [using EXCEPT ![t] = {}]
  /\ returning' = [returning EXCEPT ![t] = {}]
  /\ UNCHANGED <<pool, refCount, refs, pc, buf>>

Init ==
  /\ vm = Initial
  /\ full = {BlockBuffers(block) : block \in Initial}
  /\ empty = Cardinality(Initial)
  /\ using = [t \in Threads |-> {}]
  /\ returning = [t \in Threads |-> {}]
  /\ refCount = [b \in Buffers |-> 0]
  /\ refs = [r \in References |-> NoBuffer]
  /\ pc = [t \in Threads |-> "idle"]
  /\ buf = [t \in Threads |-> NoBuffer]
  /\ lost = {}
  /\ exits = 0

GetSerializeBuffer(t) == GetFull(t) \/ Pop(t)

ReturnSerializeBuffer(t) == GetEmpty(t) \/ Push(t)

Next ==
  \/ \E t \in Threads : GetSerializeBuffer(t) \/ ReturnSerializeBuffer(t) \/ Exit(t)
  \/ \E t \in Threads, r \in References : Release(t, r)
  \/ \E r, q \in References : Copy(r, q)

Spec == Init /\ [][Next]_vars

------------------------------------------------------------------------------

\* Every variable has its type: batches are sets of the pool's buffers, counts never go below zero.
TypeOK ==
  /\ vm \subseteq Blocks
  /\ full \subseteq SUBSET Buffers
  /\ empty \in Nat
  /\ using \in [Threads -> SUBSET Buffers]
  /\ returning \in [Threads -> SUBSET Buffers]
  /\ refCount \in [Buffers -> Nat]
  /\ refs \in [References -> Buffers \cup {NoBuffer}]
  /\ pc \in [Threads -> {"idle", "pop", "getEmpty", "push"}]
  /\ buf \in [Threads -> Buffers \cup {NoBuffer}]
  /\ lost \subseteq Buffers
  /\ exits \in 0..MaxExits

\* A buffer's reference count is the number of Packets and queue entries that point to it, however
\* many threads copy and release them: GetSerializeBuffer's and Init's assertions that it is zero
\* hold, and a buffer in a pool is referenced by nobody.
ReferencesCounted ==
  \A b \in Buffers : refCount[b] = Cardinality({r \in References : refs[r] = b})

\* The places a free buffer may be in: a batch of the pool, one of a thread's two batches, on its way
\* to the latter, or lost.
InPool(b)    == {<<"full", batch>> : batch \in {f \in full : b \in f}}
Using(b)     == {<<"using", t>> : t \in {u \in Threads : b \in using[u]}}
Returning(b) == {<<"returning", t>> : t \in {u \in Threads : b \in returning[u]}}
Moving(b)    == {<<"moving", t>> : t \in {u \in Threads : buf[u] = b}}
LostPlace(b) == IF b \in lost THEN {<<"lost", NoBuffer>>} ELSE {}

Places(b) == InPool(b) \cup Using(b) \cup Returning(b) \cup Moving(b) \cup LostPlace(b)

\* A buffer is in use, or in exactly one place from which one thread can take it: the batches of
\* the pool and of the threads never share a buffer, none is handed out twice, and none is lost
\* but by the exit of a thread, which never takes a buffer that is in use.
EachBufferInOnePlace ==
  \A b \in Buffers :
    IF b[1] \in vm /\ refCount[b] = 0
      THEN Places(b) # {} /\ \A p, q \in Places(b) : p = q
      ELSE Places(b) = {}

\* The pool's batches are full, so that a thread that finds its own batch missing gets the buffer
\* it needs (`assert(t_pUsingSerBufBatch->Size() > 0)`), and a return batch has room
\* (`assert(Size() < Capacity())`).
BatchesComplete ==
  /\ \A batch \in full : Cardinality(batch) = Capacity
  /\ \A t \in Threads :
       /\ pc[t] = "pop" => using[t] # {}
       /\ pc[t] = "push" => Cardinality(returning[t]) < Capacity

\* A thread caches less than two batches, one buffer on its way to them included, and takes with it
\* less than that when it exits, so memory stays bounded by the packets in use and the threads there
\* have been, even when one thread only allocates and another only releases.
MemoryBounded ==
  \/ vm = Initial
  \/ Cardinality(vm) * Capacity <
       Cardinality(References) + Cardinality(Threads) * (2 * Capacity - 1) + exits * (2 * Capacity - 2)
====
