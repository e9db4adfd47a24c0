---------------------- MODULE SerializeBufferPoolTheorems ----------------------
(***************************************************************************)
(* The life of packet buffers, for any number of threads, blocks and       *)
(* references, any batch capacity and any number of exiting threads.       *)
(***************************************************************************)
EXTENDS SerializeBufferPool, FiniteSetTheorems, FunctionTheorems, TLAPS

USE DEF pool, caches, gone

------------------------------------------------------------------------------
(***************************************************************************)
(* The inductive invariant.                                                *)
(***************************************************************************)

\* A buffer that is allocated and not referenced is in one place, any other buffer in none.
Free(b) == b[1] \in vm /\ refCount[b] = 0

InOnePlace ==
  \A b \in Buffers :
    /\ Free(b) => \E p : Places(b) = {p}
    /\ ~Free(b) => Places(b) = {}

\* Packets point to buffers of allocated blocks.
Allocated == \A b \in Buffers : refCount[b] > 0 => b[1] \in vm

\* A thread holds a buffer to be returned exactly while it is in ReturnSerializeBuffer.
Stages == \A t \in Threads : pc[t] \in {"getEmpty", "push"} <=> buf[t] # NoBuffer

\* How many buffers the batches hold: in the pool, in the hands of a thread that took a full batch
\* and has not used it yet, and otherwise.
Batches ==
  /\ \A batch \in full : Cardinality(batch) = Capacity
  /\ \A t \in Threads :
       /\ Cardinality(using[t]) <= IF pc[t] = "pop" THEN Capacity ELSE Capacity - 1
       /\ Cardinality(returning[t]) <= Capacity - 1
       /\ pc[t] = "pop" => using[t] # {}

\* Each exit loses less than two batches.
LostBounded == Cardinality(lost) <= exits * (2 * Capacity - 2)

IInv ==
  /\ TypeOK
  /\ ReferencesCounted
  /\ InOnePlace
  /\ Allocated
  /\ Stages
  /\ Batches
  /\ LostBounded
  /\ MemoryBounded

------------------------------------------------------------------------------
(***************************************************************************)
(* Batches and blocks as finite sets.                                      *)
(***************************************************************************)

LEMMA BuffersFinite == IsFiniteSet(Buffers)
<1>1. IsFiniteSet(1..Capacity)
  BY FS_Interval, PoolAssumption
<1>q. QED
  BY <1>1, FS_Product, PoolAssumption DEF Buffers

\* A batch is a finite set, and so is any set of threads or references.
LEMMA BatchFinite ==
  ASSUME NEW S \in SUBSET Buffers
  PROVE  IsFiniteSet(S) /\ Cardinality(S) \in Nat
BY BuffersFinite, FS_Subset, FS_CardinalityType

\* A block makes one full batch.
LEMMA BlockIsFull ==
  ASSUME NEW block \in Blocks
  PROVE  /\ BlockBuffers(block) \in SUBSET Buffers
         /\ Cardinality(BlockBuffers(block)) = Capacity
         /\ BlockBuffers(block) # {}
<1>1. BlockBuffers(block) \in SUBSET Buffers /\ <<block, 1>> \in BlockBuffers(block)
  BY PoolAssumption DEF BlockBuffers, Buffers
<1>2. IsFiniteSet(1..Capacity) /\ Cardinality(1..Capacity) = Capacity
  BY FS_Interval, PoolAssumption
<1>3. IsFiniteSet({block}) /\ Cardinality({block}) = 1
  BY FS_Singleton
<1>4. Cardinality(BlockBuffers(block)) = 1 * Capacity
  BY ZenonT(60), <1>2, <1>3, FS_Product DEF BlockBuffers
<1>q. QED
  BY <1>1, <1>4, PoolAssumption

\* Only the buffers of a block are in its batch.
LEMMA InBlock ==
  ASSUME NEW b \in Buffers, NEW block \in Blocks
  PROVE  b \in BlockBuffers(block) <=> b[1] = block
BY DEF Buffers, BlockBuffers

------------------------------------------------------------------------------
(***************************************************************************)
(* Types, stages and the sizes of batches.                                 *)
(***************************************************************************)

LEMMA TypeStep == ASSUME TypeOK, ReferencesCounted, Stages, [Next]_vars PROVE TypeOK'
<1> USE DEF TypeOK, Goto
<1>1. ASSUME NEW t \in Threads, GetFull(t) PROVE TypeOK'
  <2>1. \E batch \in SUBSET Buffers :
          /\ using' = [using EXCEPT ![t] = batch]
          /\ vm' \subseteq Blocks
          /\ full' \subseteq SUBSET Buffers
    BY <1>1, BlockIsFull DEF GetFull, TakeFull
  <2>q. QED
    BY <1>1, <2>1 DEF GetFull
<1>2. ASSUME NEW t \in Threads, Pop(t) PROVE TypeOK'
  BY <1>2 DEF Pop
<1>3. ASSUME NEW r \in References, NEW q \in References, Copy(r, q) PROVE TypeOK'
  BY <1>3 DEF Copy, Referenced
<1>4. ASSUME NEW t \in Threads, NEW r \in References, Release(t, r) PROVE TypeOK'
  <2>1. refs[r] \in Buffers
    BY <1>4 DEF Release
  <2>2. refCount[refs[r]] # 0
    <3>1. {q \in References : refs[q] = refs[r]} # {} /\ IsFiniteSet({q \in References : refs[q] = refs[r]})
      BY FS_Subset, PoolAssumption
    <3>q. QED
      BY <2>1, <3>1, FS_EmptySet DEF ReferencesCounted
  <2>q. QED
    BY <1>4, <2>1, <2>2 DEF Release
<1>5. ASSUME NEW t \in Threads, GetEmpty(t) PROVE TypeOK'
  BY <1>5 DEF GetEmpty
<1>6. ASSUME NEW t \in Threads, Push(t) PROVE TypeOK'
  BY <1>6 DEF Push, ForgetReturned, Stages
<1>7. ASSUME NEW t \in Threads, Exit(t) PROVE TypeOK'
  BY <1>7, PoolAssumption DEF Exit
<1>8. ASSUME UNCHANGED vars PROVE TypeOK'
  BY <1>8 DEF vars
<1>q. QED
  BY <1>1, <1>2, <1>3, <1>4, <1>5, <1>6, <1>7, <1>8 DEF Next, GetSerializeBuffer, ReturnSerializeBuffer

LEMMA StagesStep == ASSUME TypeOK, Stages, [Next]_vars PROVE Stages'
<1> USE DEF TypeOK, Goto, Stages
<1>1. ASSUME NEW t \in Threads, GetFull(t) PROVE Stages'
  BY <1>1 DEF GetFull
<1>2. ASSUME NEW t \in Threads, Pop(t) PROVE Stages'
  BY <1>2 DEF Pop
<1>3. ASSUME NEW r \in References, NEW q \in References, Copy(r, q) PROVE Stages'
  BY <1>3 DEF Copy
<1>4. ASSUME NEW t \in Threads, NEW r \in References, Release(t, r) PROVE Stages'
  BY <1>4 DEF Release
<1>5. ASSUME NEW t \in Threads, GetEmpty(t) PROVE Stages'
  BY <1>5 DEF GetEmpty
<1>6. ASSUME NEW t \in Threads, Push(t) PROVE Stages'
  BY <1>6 DEF Push
<1>7. ASSUME NEW t \in Threads, Exit(t) PROVE Stages'
  BY <1>7 DEF Exit
<1>8. ASSUME UNCHANGED vars PROVE Stages'
  BY <1>8 DEF vars
<1>q. QED
  BY <1>1, <1>2, <1>3, <1>4, <1>5, <1>6, <1>7, <1>8 DEF Next, GetSerializeBuffer, ReturnSerializeBuffer

LEMMA BatchesStep == ASSUME TypeOK, Stages, Batches, [Next]_vars PROVE Batches'
<1> USE DEF TypeOK, Goto, Batches
<1>1. ASSUME NEW t \in Threads, GetFull(t) PROVE Batches'
  <2>1. \E batch \in SUBSET Buffers :
          /\ using' = [using EXCEPT ![t] = batch]
          /\ Cardinality(batch) = Capacity
          /\ full' \subseteq full
    BY <1>1, BlockIsFull DEF GetFull, TakeFull
  <2>2. PICK batch \in SUBSET Buffers :
          /\ using' = [using EXCEPT ![t] = batch]
          /\ Cardinality(batch) = Capacity
          /\ full' \subseteq full
    BY <2>1
  <2>3. batch # {}
    BY <2>2, BatchFinite, FS_EmptySet, PoolAssumption
  <2>q. QED
    BY <1>1, <2>2, <2>3, PoolAssumption DEF GetFull
<1>2. ASSUME NEW t \in Threads, Pop(t) PROVE Batches'
  <2>1. PICK b \in using[t] : using' = [using EXCEPT ![t] = using[t] \ {b}]
    BY <1>2 DEF Pop, UsedUp
  <2>2. Cardinality(using[t] \ {b}) <= Capacity - 1
    <3>1. Cardinality(using[t] \ {b}) = Cardinality(using[t]) - 1 /\ Cardinality(using[t]) \in Nat
      BY BatchFinite, FS_RemoveElement
    <3>2. Cardinality(using[t]) <= Capacity
      BY <3>1, PoolAssumption
    <3>q. QED
      BY <3>1, <3>2, PoolAssumption
  <2>q. QED
    BY <1>2, <2>1, <2>2 DEF Pop
<1>3. ASSUME NEW r \in References, NEW q \in References, Copy(r, q) PROVE Batches'
  BY <1>3 DEF Copy
<1>4. ASSUME NEW t \in Threads, NEW r \in References, Release(t, r) PROVE Batches'
  BY <1>4 DEF Release
<1>5. ASSUME NEW t \in Threads, GetEmpty(t) PROVE Batches'
  BY <1>5 DEF GetEmpty
<1>6. ASSUME NEW t \in Threads, Push(t) PROVE Batches'
  <2> DEFINE batch == returning[t] \cup {buf[t]}
  <2>1. Cardinality(batch) <= Capacity /\ Cardinality(batch) \in Nat
    <3>1. Cardinality(returning[t]) \in Nat /\ Cardinality(returning[t]) <= Capacity - 1
      BY BatchFinite
    <3>2. Cardinality(batch) \in {Cardinality(returning[t]), Cardinality(returning[t]) + 1}
      BY BatchFinite, FS_AddElement
    <3>q. QED
      BY <3>1, <3>2, PoolAssumption
  <2>2. CASE Cardinality(batch) = Capacity
    <3>1. full' = full \cup {batch} /\ returning' = [returning EXCEPT ![t] = {}]
      BY <1>6, <2>2 DEF Push, ForgetReturned
    <3>2. Cardinality({}) <= Capacity - 1
      BY FS_EmptySet, PoolAssumption
    <3>q. QED
      BY <1>6, <2>2, <3>1, <3>2 DEF Push
  <2>3. CASE Cardinality(batch) # Capacity
    <3>1. full' = full /\ returning' = [returning EXCEPT ![t] = batch]
      BY <1>6, <2>3 DEF Push
    <3>2. Cardinality(batch) <= Capacity - 1
      BY <2>1, <2>3, PoolAssumption
    <3>q. QED
      BY <1>6, <3>1, <3>2 DEF Push
  <2>q. QED
    BY <2>2, <2>3
<1>7. ASSUME NEW t \in Threads, Exit(t) PROVE Batches'
  <2>1. Cardinality({}) <= Capacity - 1
    BY FS_EmptySet, PoolAssumption
  <2>q. QED
    BY <1>7, <2>1 DEF Exit
<1>8. ASSUME UNCHANGED vars PROVE Batches'
  BY <1>8 DEF vars
<1>q. QED
  BY <1>1, <1>2, <1>3, <1>4, <1>5, <1>6, <1>7, <1>8 DEF Next, GetSerializeBuffer, ReturnSerializeBuffer

LEMMA LostStep == ASSUME TypeOK, Batches, LostBounded, [Next]_vars PROVE LostBounded'
<1> USE DEF LostBounded
<1>1. ASSUME NEW t \in Threads, Exit(t) PROVE LostBounded'
  <2>1. /\ Cardinality(using[t]) \in Nat /\ Cardinality(using[t]) <= Capacity - 1
        /\ Cardinality(returning[t]) \in Nat /\ Cardinality(returning[t]) <= Capacity - 1
        /\ IsFiniteSet(using[t]) /\ IsFiniteSet(returning[t]) /\ IsFiniteSet(lost)
        /\ Cardinality(lost) \in Nat
    BY <1>1, BatchFinite DEF Exit, TypeOK, Batches
  <2>2. /\ IsFiniteSet(lost \cup using[t])
        /\ Cardinality(lost \cup using[t]) <= Cardinality(lost) + Capacity - 1
    <3>1. Cardinality(lost \cap using[t]) \in Nat
      BY <2>1, FS_Intersection, FS_CardinalityType
    <3>2. /\ IsFiniteSet(lost \cup using[t])
          /\ Cardinality(lost \cup using[t]) =
               Cardinality(lost) + Cardinality(using[t]) - Cardinality(lost \cap using[t])
      BY <2>1, FS_Union
    <3>q. QED
      BY <2>1, <3>1, <3>2, PoolAssumption
  <2>3. Cardinality(lost') <= Cardinality(lost) + (2 * Capacity - 2)
    <3>1. /\ Cardinality((lost \cup using[t]) \cap returning[t]) \in Nat
          /\ Cardinality(lost \cup using[t]) \in Nat
      BY <2>1, <2>2, FS_Intersection, FS_CardinalityType
    <3>2. Cardinality((lost \cup using[t]) \cup returning[t]) =
            Cardinality(lost \cup using[t]) + Cardinality(returning[t])
              - Cardinality((lost \cup using[t]) \cap returning[t])
      BY <2>1, <2>2, FS_Union
    <3>3. lost' = (lost \cup using[t]) \cup returning[t]
      BY <1>1 DEF Exit
    <3>q. QED
      BY <2>1, <2>2, <3>1, <3>2, <3>3, PoolAssumption
  <2>4. exits' * (2 * Capacity - 2) = exits * (2 * Capacity - 2) + (2 * Capacity - 2)
    BY <1>1, PoolAssumption DEF Exit, TypeOK
  <2>5. Cardinality(lost') \in Nat
    BY <1>1, BatchFinite DEF Exit, TypeOK
  <2>6. exits * (2 * Capacity - 2) \in Int
    BY PoolAssumption DEF TypeOK
  <2>q. QED
    BY <2>1, <2>3, <2>4, <2>5, <2>6, PoolAssumption
<1>2. ASSUME UNCHANGED <<lost, exits>> PROVE LostBounded'
  BY <1>2
<1>q. QED
  BY <1>1, <1>2
     DEF Next, GetSerializeBuffer, ReturnSerializeBuffer, GetFull, Pop, GetEmpty, Push, Copy, Release, vars

------------------------------------------------------------------------------
(***************************************************************************)
(* Reference counts.                                                       *)
(***************************************************************************)

Holders(b) == {r \in References : refs[r] = b}

LEMMA HoldersFinite ==
  ASSUME NEW b
  PROVE  IsFiniteSet(Holders(b)) /\ Cardinality(Holders(b)) \in Nat
BY FS_Subset, FS_CardinalityType, PoolAssumption DEF Holders

\* A new reference to b is counted.
LEMMA CountUp ==
  ASSUME TypeOK, ReferencesCounted, NEW b \in Buffers, NEW r \in References, refs[r] = NoBuffer,
         refs' = [refs EXCEPT ![r] = b], refCount' = [refCount EXCEPT ![b] = @ + 1]
  PROVE  ReferencesCounted'
<1> SUFFICES ASSUME NEW c \in Buffers
             PROVE  refCount'[c] = Cardinality(Holders(c)')
  BY DEF ReferencesCounted, Holders
<1>0. refCount[c] = Cardinality(Holders(c))
  BY DEF ReferencesCounted, Holders
<1>1. CASE c = b
  <2>1. Holders(c)' = Holders(c) \cup {r} /\ r \notin Holders(c)
    BY <1>1, PoolAssumption DEF TypeOK, Holders
  <2>2. Cardinality(Holders(c)') = Cardinality(Holders(c)) + 1
    BY <2>1, HoldersFinite, FS_AddElement
  <2>q. QED
    BY <1>0, <1>1, <2>2 DEF TypeOK
<1>2. CASE c # b
  <2>1. Holders(c)' = Holders(c)
    BY <1>2, PoolAssumption DEF TypeOK, Holders
  <2>q. QED
    BY <1>0, <1>2, <2>1 DEF TypeOK
<1>q. QED
  BY <1>1, <1>2

\* A reference that is given up is no longer counted.
LEMMA CountDown ==
  ASSUME TypeOK, ReferencesCounted, NEW r \in References, refs[r] # NoBuffer,
         refs' = [refs EXCEPT ![r] = NoBuffer], refCount' = [refCount EXCEPT ![refs[r]] = @ - 1]
  PROVE  ReferencesCounted'
<1> SUFFICES ASSUME NEW c \in Buffers
             PROVE  refCount'[c] = Cardinality(Holders(c)')
  BY DEF ReferencesCounted, Holders
<1>0. refCount[c] = Cardinality(Holders(c)) /\ refs[r] \in Buffers
  BY DEF TypeOK, ReferencesCounted, Holders
<1>1. CASE c = refs[r]
  <2>1. Holders(c)' = Holders(c) \ {r} /\ r \in Holders(c)
    BY <1>1, PoolAssumption DEF TypeOK, Holders
  <2>2. Cardinality(Holders(c)') = Cardinality(Holders(c)) - 1
    BY <2>1, HoldersFinite, FS_RemoveElement
  <2>q. QED
    BY <1>0, <1>1, <2>2 DEF TypeOK
<1>2. CASE c # refs[r]
  <2>1. Holders(c)' = Holders(c)
    BY <1>2, PoolAssumption DEF TypeOK, Holders
  <2>q. QED
    BY <1>0, <1>2, <2>1 DEF TypeOK
<1>q. QED
  BY <1>1, <1>2

LEMMA CountsStep == ASSUME TypeOK, ReferencesCounted, [Next]_vars PROVE ReferencesCounted'
<1>1. ASSUME NEW t \in Threads, Pop(t) PROVE ReferencesCounted'
  <2>1. PICK b \in using[t] :
          /\ refCount' = [refCount EXCEPT ![b] = @ + 1]
          /\ \E r \in References : refs[r] = NoBuffer /\ refs' = [refs EXCEPT ![r] = b]
    BY <1>1 DEF Pop
  <2>2. b \in Buffers
    BY DEF TypeOK
  <2>q. QED
    BY <2>1, <2>2, CountUp
<1>2. ASSUME NEW r \in References, NEW q \in References, Copy(r, q) PROVE ReferencesCounted'
  <2>1. /\ refs[r] \in Buffers
        /\ refs[q] = NoBuffer
        /\ refs' = [refs EXCEPT ![q] = refs[r]]
        /\ refCount' = [refCount EXCEPT ![refs[r]] = @ + 1]
    BY <1>2 DEF Copy, Referenced, TypeOK
  <2>q. QED
    BY <2>1, CountUp
<1>3. ASSUME NEW t \in Threads, NEW r \in References, Release(t, r) PROVE ReferencesCounted'
  BY <1>3, CountDown DEF Release
<1>4. ASSUME UNCHANGED <<refs, refCount>> PROVE ReferencesCounted'
  BY <1>4 DEF ReferencesCounted
<1>q. QED
  BY <1>1, <1>2, <1>3, <1>4
     DEF Next, GetSerializeBuffer, ReturnSerializeBuffer, GetFull, GetEmpty, Push, Exit, vars

\* A buffer that a Packet points to is counted.
LEMMA Referred ==
  ASSUME TypeOK, ReferencesCounted, NEW r \in References, refs[r] # NoBuffer
  PROVE  refs[r] \in Buffers /\ refCount[refs[r]] > 0
<1>1. refs[r] \in Buffers
  BY DEF TypeOK
<1>2. refCount[refs[r]] = Cardinality(Holders(refs[r])) /\ r \in Holders(refs[r])
  BY <1>1 DEF ReferencesCounted, Holders
<1>3. Cardinality(Holders(refs[r])) # 0
  BY <1>2, HoldersFinite, FS_EmptySet
<1>q. QED
  BY <1>1, <1>2, <1>3, HoldersFinite

------------------------------------------------------------------------------
(***************************************************************************)
(* The place of a buffer.                                                  *)
(***************************************************************************)

\* What each of the places is.
LEMMA PlaceKinds ==
  ASSUME NEW b
  PROVE  /\ \A p \in InPool(b) : p[1] = "full"
         /\ \A p \in Using(b) : p[1] = "using"
         /\ \A p \in Returning(b) : p[1] = "returning"
         /\ \A p \in Moving(b) : p[1] = "moving"
         /\ \A p \in LostPlace(b) : p[1] = "lost"
BY DEF InPool, Using, Returning, Moving, LostPlace

\* The only place of a free buffer is of one kind.
LEMMA OnlyKind ==
  ASSUME NEW b, NEW p, Places(b) = {p}
  PROVE  /\ InPool(b) = IF p[1] = "full" THEN {p} ELSE {}
         /\ Using(b) = IF p[1] = "using" THEN {p} ELSE {}
         /\ Returning(b) = IF p[1] = "returning" THEN {p} ELSE {}
         /\ Moving(b) = IF p[1] = "moving" THEN {p} ELSE {}
         /\ LostPlace(b) = IF p[1] = "lost" THEN {p} ELSE {}
BY PlaceKinds DEF Places

LEMMA InFull ==
  ASSUME TypeOK, InOnePlace, NEW batch \in full, NEW b \in batch
  PROVE  b \in Buffers /\ Free(b) /\ Places(b) = {<<"full", batch>>}
<1>1. b \in Buffers
  BY DEF TypeOK
<1>2. <<"full", batch>> \in Places(b)
  BY DEF Places, InPool
<1>q. QED
  BY <1>1, <1>2 DEF InOnePlace

LEMMA InUsing ==
  ASSUME TypeOK, InOnePlace, NEW t \in Threads, NEW b \in using[t]
  PROVE  b \in Buffers /\ Free(b) /\ Places(b) = {<<"using", t>>}
<1>1. b \in Buffers
  BY DEF TypeOK
<1>2. <<"using", t>> \in Places(b)
  BY DEF Places, Using
<1>q. QED
  BY <1>1, <1>2 DEF InOnePlace

LEMMA InReturning ==
  ASSUME TypeOK, InOnePlace, NEW t \in Threads, NEW b \in returning[t]
  PROVE  b \in Buffers /\ Free(b) /\ Places(b) = {<<"returning", t>>}
<1>1. b \in Buffers
  BY DEF TypeOK
<1>2. <<"returning", t>> \in Places(b)
  BY DEF Places, Returning
<1>q. QED
  BY <1>1, <1>2 DEF InOnePlace

LEMMA InMoving ==
  ASSUME TypeOK, InOnePlace, NEW t \in Threads, buf[t] # NoBuffer
  PROVE  buf[t] \in Buffers /\ Free(buf[t]) /\ Places(buf[t]) = {<<"moving", t>>}
<1>1. buf[t] \in Buffers
  BY DEF TypeOK
<1>2. <<"moving", t>> \in Places(buf[t])
  BY DEF Places, Moving
<1>q. QED
  BY <1>1, <1>2 DEF InOnePlace

\* Assigning one thread's batch moves the buffers of this batch only.
LEMMA UsingPut ==
  ASSUME TypeOK, NEW t \in Threads, using' = [using EXCEPT ![t] = using'[t]], NEW b
  PROVE  Using(b)' = (Using(b) \ {<<"using", t>>}) \cup (IF b \in using'[t] THEN {<<"using", t>>} ELSE {})
BY DEF Using, TypeOK

LEMMA ReturningPut ==
  ASSUME TypeOK, NEW t \in Threads, returning' = [returning EXCEPT ![t] = returning'[t]], NEW b
  PROVE  Returning(b)' =
           (Returning(b) \ {<<"returning", t>>}) \cup (IF b \in returning'[t] THEN {<<"returning", t>>} ELSE {})
BY DEF Returning, TypeOK

LEMMA MovingPut ==
  ASSUME TypeOK, NEW t \in Threads, buf' = [buf EXCEPT ![t] = buf'[t]], NEW b
  PROVE  Moving(b)' = (Moving(b) \ {<<"moving", t>>}) \cup (IF b = buf'[t] THEN {<<"moving", t>>} ELSE {})
BY DEF Moving, TypeOK

OnePlace(b) ==
  /\ Free(b) => \E p : Places(b) = {p}
  /\ ~Free(b) => Places(b) = {}

\* A full batch moves from the pool to a thread.
LEMMA TakePlace ==
  ASSUME TypeOK, InOnePlace, NEW t \in Threads, NEW batch \in full, using[t] = {},
         full' = full \ {batch}, using' = [using EXCEPT ![t] = batch],
         UNCHANGED <<vm, refCount, returning, buf, lost>>, NEW b \in Buffers
  PROVE  OnePlace(b)'
<1>0. using'[t] = batch /\ using' = [using EXCEPT ![t] = using'[t]]
  BY DEF TypeOK
<1>9. Using(b)' = (Using(b) \ {<<"using", t>>}) \cup (IF b \in using'[t] THEN {<<"using", t>>} ELSE {})
  BY <1>0, UsingPut
<1>1. Free(b)' <=> Free(b)
  BY DEF Free
<1>2. /\ Returning(b)' = Returning(b)
      /\ Moving(b)' = Moving(b)
      /\ LostPlace(b)' = LostPlace(b)
  BY DEF Returning, Moving, LostPlace
<1>3. InPool(b)' = InPool(b) \ {<<"full", batch>>}
  BY DEF InPool
<1>4. CASE b \in batch
  <2>1. Free(b) /\ Places(b) = {<<"full", batch>>}
    BY <1>4, InFull
  <2>2. Using(b)' = {<<"using", t>>}
    <3>1. Using(b) = {}
      BY <2>1, OnlyKind
    <3>q. QED
      BY <1>4, <1>0, <1>9, <3>1
  <2>3. Places(b)' = {<<"using", t>>}
    BY <1>2, <1>3, <2>1, <2>2, OnlyKind DEF Places
  <2>q. QED
    BY <1>1, <2>1, <2>3 DEF OnePlace
<1>5. CASE b \notin batch
  <2>1. <<"using", t>> \notin Using(b) /\ <<"full", batch>> \notin InPool(b)
    BY <1>5 DEF Using, InPool
  <2>2. Using(b)' = Using(b)
    BY <1>5, <2>1, <1>0, <1>9
  <2>3. Places(b)' = Places(b)
    BY <1>2, <1>3, <2>1, <2>2 DEF Places
  <2>q. QED
    BY <1>1, <2>3 DEF OnePlace, InOnePlace
<1>q. QED
  BY <1>4, <1>5

\* The buffers of a new block come to the thread that had it allocated.
LEMMA BlockPlace ==
  ASSUME TypeOK, InOnePlace, Allocated, NEW t \in Threads, NEW block \in Blocks, block \notin vm, using[t] = {},
         vm' = vm \cup {block}, using' = [using EXCEPT ![t] = BlockBuffers(block)],
         UNCHANGED <<full, refCount, returning, buf, lost>>, NEW b \in Buffers
  PROVE  OnePlace(b)'
<1>0. using'[t] = BlockBuffers(block) /\ using' = [using EXCEPT ![t] = using'[t]]
  BY DEF TypeOK
<1>9. Using(b)' = (Using(b) \ {<<"using", t>>}) \cup (IF b \in using'[t] THEN {<<"using", t>>} ELSE {})
  BY <1>0, UsingPut
<1>1. /\ Returning(b)' = Returning(b)
      /\ Moving(b)' = Moving(b)
      /\ LostPlace(b)' = LostPlace(b)
      /\ InPool(b)' = InPool(b)
  BY DEF Returning, Moving, LostPlace, InPool
<1>2. CASE b[1] = block
  <2>1. ~Free(b) /\ Places(b) = {}
    BY <1>2 DEF Free, InOnePlace
  <2>2. Free(b)'
    BY <1>2 DEF Free, Allocated, TypeOK
  <2>3. b \in BlockBuffers(block)
    BY <1>2, InBlock
  <2>4. Using(b)' = {<<"using", t>>}
    BY <2>1, <2>3, <1>0, <1>9 DEF Places
  <2>5. Places(b)' = {<<"using", t>>}
    BY <1>1, <2>1, <2>4 DEF Places
  <2>q. QED
    BY <2>2, <2>5 DEF OnePlace
<1>3. CASE b[1] # block
  <2>1. b \notin BlockBuffers(block)
    BY <1>3, InBlock
  <2>2. <<"using", t>> \notin Using(b)
    BY DEF Using
  <2>3. Using(b)' = Using(b)
    BY <2>1, <2>2, <1>0, <1>9
  <2>4. Places(b)' = Places(b)
    BY <1>1, <2>3 DEF Places
  <2>5. Free(b)' <=> Free(b)
    BY <1>3 DEF Free
  <2>q. QED
    BY <2>4, <2>5 DEF OnePlace, InOnePlace
<1>q. QED
  BY <1>2, <1>3

\* A buffer taken from a thread's batch is in no place as long as it is referenced.
LEMMA PopPlace ==
  ASSUME TypeOK, InOnePlace, NEW t \in Threads, NEW c \in using[t],
         using' = [using EXCEPT ![t] = using[t] \ {c}], refCount' = [refCount EXCEPT ![c] = @ + 1],
         UNCHANGED <<vm, full, returning, buf, lost>>, NEW b \in Buffers
  PROVE  OnePlace(b)'
<1>0. using'[t] = using[t] \ {c} /\ using' = [using EXCEPT ![t] = using'[t]]
  BY DEF TypeOK
<1>9. Using(b)' = (Using(b) \ {<<"using", t>>}) \cup (IF b \in using'[t] THEN {<<"using", t>>} ELSE {})
  BY <1>0, UsingPut
<1>1. /\ Returning(b)' = Returning(b)
      /\ Moving(b)' = Moving(b)
      /\ LostPlace(b)' = LostPlace(b)
      /\ InPool(b)' = InPool(b)
  BY DEF Returning, Moving, LostPlace, InPool
<1>2. CASE b = c
  <2>1. Places(b) = {<<"using", t>>}
    BY <1>2, InUsing
  <2>2. Using(b)' = {}
    BY <1>2, <2>1, <1>0, <1>9, OnlyKind
  <2>3. Places(b)' = {}
    BY <1>1, <2>1, <2>2, OnlyKind DEF Places
  <2>4. ~Free(b)'
    BY <1>2 DEF Free, TypeOK
  <2>q. QED
    BY <2>3, <2>4 DEF OnePlace
<1>3. CASE b # c
  <2>1. <<"using", t>> \in Using(b) <=> b \in using[t]
    BY DEF Using
  <2>2. Using(b)' = Using(b)
    BY <1>3, <2>1, <1>0, <1>9
  <2>3. Places(b)' = Places(b)
    BY <1>1, <2>2 DEF Places
  <2>4. Free(b)' <=> Free(b)
    BY <1>3 DEF Free, TypeOK
  <2>q. QED
    BY <2>3, <2>4 DEF OnePlace, InOnePlace
<1>q. QED
  BY <1>2, <1>3

\* The last reference hands its buffer to the thread that gives it up; another changes nothing.
LEMMA ReleasePlace ==
  ASSUME TypeOK, ReferencesCounted, Allocated, Stages, InOnePlace, NEW t \in Threads, NEW r \in References,
         Release(t, r), NEW b \in Buffers
  PROVE  OnePlace(b)'
<1>1. /\ refs[r] \in Buffers /\ refCount[refs[r]] > 0
      /\ refCount' = [refCount EXCEPT ![refs[r]] = @ - 1]
      /\ UNCHANGED <<vm, full, using, returning, lost>>
  BY Referred DEF Release
<1>2. /\ Using(b)' = Using(b)
      /\ Returning(b)' = Returning(b)
      /\ LostPlace(b)' = LostPlace(b)
      /\ InPool(b)' = InPool(b)
  BY <1>1 DEF Using, Returning, LostPlace, InPool
<1>3. buf[t] = NoBuffer
  BY DEF Release, Stages
<1>4. CASE refCount[refs[r]] = 1
  <2>1. buf'[t] = refs[r] /\ buf' = [buf EXCEPT ![t] = buf'[t]]
    BY <1>4 DEF Release, TypeOK
  <2>2. <<"moving", t>> \notin Moving(b)
    BY <1>3, PoolAssumption DEF Moving
  <2>3. CASE b = refs[r]
    <3>1. Places(b) = {}
      BY <1>1, <2>3 DEF InOnePlace, Free
    <3>2. Moving(b)' = {<<"moving", t>>}
      BY <2>1, <2>3, <3>1, MovingPut DEF Places
    <3>3. Places(b)' = {<<"moving", t>>}
      BY <1>2, <3>1, <3>2 DEF Places
    <3>4. Free(b)'
      BY <1>1, <1>4, <2>3 DEF Free, Allocated, TypeOK
    <3>q. QED
      BY <3>3, <3>4 DEF OnePlace
  <2>4. CASE b # refs[r]
    <3>1. Moving(b)' = Moving(b)
      BY <2>1, <2>2, <2>4, MovingPut
    <3>2. Places(b)' = Places(b)
      BY <1>2, <3>1 DEF Places
    <3>3. Free(b)' <=> Free(b)
      BY <1>1, <2>4 DEF Free, TypeOK
    <3>q. QED
      BY <3>2, <3>3 DEF OnePlace, InOnePlace
  <2>q. QED
    BY <2>3, <2>4
<1>5. CASE refCount[refs[r]] # 1
  <2>1. buf' = buf
    BY <1>5 DEF Release
  <2>2. Places(b)' = Places(b)
    BY <1>2, <2>1 DEF Places, Moving
  <2>3. Free(b)' <=> Free(b)
    BY <1>1, <1>5 DEF Free, TypeOK
  <2>q. QED
    BY <2>2, <2>3 DEF OnePlace, InOnePlace
<1>q. QED
  BY <1>4, <1>5

\* A buffer pushed into a thread's batch stays there until the batch is full, and then goes to the pool
\* with the batch.
LEMMA PushPlace ==
  ASSUME TypeOK, Stages, InOnePlace, NEW t \in Threads, Push(t), NEW b \in Buffers
  PROVE  OnePlace(b)'
<1> DEFINE batch == returning[t] \cup {buf[t]}
<1>1. UNCHANGED <<vm, using, lost, refCount>>
  BY DEF Push
<1>2. Using(b)' = Using(b) /\ LostPlace(b)' = LostPlace(b) /\ (Free(b)' <=> Free(b))
  BY <1>1 DEF Using, LostPlace, Free
<1>3. buf[t] # NoBuffer /\ buf'[t] = NoBuffer /\ buf' = [buf EXCEPT ![t] = buf'[t]]
  BY DEF Push, Stages, TypeOK
<1>4. Moving(b)' = Moving(b) \ {<<"moving", t>>}
  BY <1>3, MovingPut, PoolAssumption
<1>5. /\ Free(buf[t]) /\ Places(buf[t]) = {<<"moving", t>>}
      /\ b \in returning[t] => Free(b) /\ Places(b) = {<<"returning", t>>}
  BY <1>3, InMoving, InReturning
<1>6. b \notin batch => <<"moving", t>> \notin Moving(b) /\ <<"returning", t>> \notin Returning(b)
  BY DEF Moving, Returning
<1>7. CASE Cardinality(batch) = Capacity
  <2>1. full' = full \cup {batch} /\ returning' = [returning EXCEPT ![t] = {}]
    BY <1>7 DEF Push, ForgetReturned
  <2>2. returning'[t] = {} /\ returning' = [returning EXCEPT ![t] = returning'[t]]
    BY <2>1 DEF TypeOK
  <2>3. Returning(b)' = Returning(b) \ {<<"returning", t>>}
    BY <2>2, ReturningPut
  <2>4. InPool(b)' = InPool(b) \cup (IF b \in batch THEN {<<"full", batch>>} ELSE {})
    BY <2>1 DEF InPool
  <2>5. CASE b \in batch
    <3>1. Free(b) /\ Places(b) \in {{<<"moving", t>>}, {<<"returning", t>>}}
      BY <1>5, <2>5
    <3>2. /\ InPool(b) = {} /\ Using(b) = {} /\ LostPlace(b) = {}
          /\ Moving(b) \subseteq {<<"moving", t>>} /\ Returning(b) \subseteq {<<"returning", t>>}
      BY <3>1, OnlyKind
    <3>3. Places(b)' = {<<"full", batch>>}
      BY <1>2, <1>4, <2>3, <2>4, <2>5, <3>2 DEF Places
    <3>q. QED
      BY <1>2, <3>1, <3>3 DEF OnePlace
  <2>6. CASE b \notin batch
    <3>1. Places(b)' = Places(b)
      BY <1>2, <1>4, <1>6, <2>3, <2>4, <2>6 DEF Places
    <3>q. QED
      BY <1>2, <3>1 DEF OnePlace, InOnePlace
  <2>q. QED
    BY <2>5, <2>6
<1>8. CASE Cardinality(batch) # Capacity
  <2>1. full' = full /\ returning' = [returning EXCEPT ![t] = batch]
    BY <1>8 DEF Push
  <2>2. returning'[t] = batch /\ returning' = [returning EXCEPT ![t] = returning'[t]]
    BY <2>1 DEF TypeOK
  <2>3. Returning(b)' = (Returning(b) \ {<<"returning", t>>}) \cup (IF b \in batch THEN {<<"returning", t>>} ELSE {})
    BY <2>2, ReturningPut
  <2>4. InPool(b)' = InPool(b)
    BY <2>1 DEF InPool
  <2>5. CASE b \in batch
    <3>1. Free(b) /\ Places(b) \in {{<<"moving", t>>}, {<<"returning", t>>}}
      BY <1>5, <2>5
    <3>2. /\ InPool(b) = {} /\ Using(b) = {} /\ LostPlace(b) = {}
          /\ Moving(b) \subseteq {<<"moving", t>>} /\ Returning(b) \subseteq {<<"returning", t>>}
      BY <3>1, OnlyKind
    <3>3. Places(b)' = {<<"returning", t>>}
      BY <1>2, <1>4, <2>3, <2>4, <2>5, <3>2 DEF Places
    <3>q. QED
      BY <1>2, <3>1, <3>3 DEF OnePlace
  <2>6. CASE b \notin batch
    <3>1. Places(b)' = Places(b)
      BY <1>2, <1>4, <1>6, <2>3, <2>4, <2>6 DEF Places
    <3>q. QED
      BY <1>2, <3>1 DEF OnePlace, InOnePlace
  <2>q. QED
    BY <2>5, <2>6
<1>q. QED
  BY <1>7, <1>8

\* A thread that exits takes its two batches with it.
LEMMA ExitPlace ==
  ASSUME TypeOK, InOnePlace, NEW t \in Threads, Exit(t), NEW b \in Buffers
  PROVE  OnePlace(b)'
<1>1. /\ using'[t] = {} /\ using' = [using EXCEPT ![t] = using'[t]]
      /\ returning'[t] = {} /\ returning' = [returning EXCEPT ![t] = returning'[t]]
      /\ lost' = lost \cup using[t] \cup returning[t]
      /\ UNCHANGED <<vm, full, refCount, buf>>
  BY DEF Exit, TypeOK
<1>2. InPool(b)' = InPool(b) /\ Moving(b)' = Moving(b) /\ (Free(b)' <=> Free(b))
  BY <1>1 DEF InPool, Moving, Free
<1>3. Using(b)' = Using(b) \ {<<"using", t>>} /\ Returning(b)' = Returning(b) \ {<<"returning", t>>}
  BY <1>1, UsingPut, ReturningPut
<1>4. CASE b \in using[t] \cup returning[t]
  <2>1. Free(b) /\ Places(b) \in {{<<"using", t>>}, {<<"returning", t>>}}
    BY <1>4, InUsing, InReturning
  <2>2. /\ InPool(b) = {} /\ Moving(b) = {}
        /\ Using(b) \subseteq {<<"using", t>>} /\ Returning(b) \subseteq {<<"returning", t>>}
    BY <2>1, OnlyKind
  <2>3. LostPlace(b)' = {<<"lost", NoBuffer>>}
    BY <1>1, <1>4 DEF LostPlace
  <2>4. Places(b)' = {<<"lost", NoBuffer>>}
    BY <1>2, <1>3, <2>2, <2>3 DEF Places
  <2>q. QED
    BY <1>2, <2>1, <2>4 DEF OnePlace
<1>5. CASE b \notin using[t] \cup returning[t]
  <2>1. LostPlace(b)' = LostPlace(b)
    BY <1>1, <1>5 DEF LostPlace
  <2>2. <<"using", t>> \notin Using(b) /\ <<"returning", t>> \notin Returning(b)
    BY <1>5 DEF Using, Returning
  <2>3. Places(b)' = Places(b)
    BY <1>2, <1>3, <2>1, <2>2 DEF Places
  <2>q. QED
    BY <1>2, <2>3 DEF OnePlace, InOnePlace
<1>q. QED
  BY <1>4, <1>5

LEMMA PlacesStep ==
  ASSUME TypeOK, ReferencesCounted, InOnePlace, Allocated, Stages, [Next]_vars
  PROVE  InOnePlace'
<1> SUFFICES ASSUME NEW b \in Buffers PROVE OnePlace(b)'
  BY DEF InOnePlace, OnePlace
<1>0. OnePlace(b)
  BY DEF InOnePlace, OnePlace
<1>1. ASSUME NEW t \in Threads, GetFull(t) PROVE OnePlace(b)'
  <2>1. using[t] = {} /\ UNCHANGED <<refCount, returning, buf, lost>>
    BY <1>1 DEF GetFull
  <2>2. ASSUME NEW batch \in full, full' = full \ {batch}, using' = [using EXCEPT ![t] = batch], UNCHANGED vm
        PROVE  OnePlace(b)'
    BY <2>1, <2>2, TakePlace
  <2>3. ASSUME NEW block \in Blocks \ vm, vm' = vm \cup {block}, UNCHANGED full,
               using' = [using EXCEPT ![t] = BlockBuffers(block)]
        PROVE  OnePlace(b)'
    BY <2>1, <2>3, BlockPlace
  <2>q. QED
    BY <1>1, <2>2, <2>3 DEF GetFull, TakeFull
<1>2. ASSUME NEW t \in Threads, Pop(t) PROVE OnePlace(b)'
  <2>1. PICK c \in using[t] :
          /\ using' = [using EXCEPT ![t] = using[t] \ {c}]
          /\ refCount' = [refCount EXCEPT ![c] = @ + 1]
    BY <1>2 DEF Pop, UsedUp
  <2>2. UNCHANGED <<vm, full, returning, buf, lost>>
    BY <1>2 DEF Pop
  <2>q. QED
    BY <2>1, <2>2, PopPlace
<1>3. ASSUME NEW r \in References, NEW q \in References, Copy(r, q) PROVE OnePlace(b)'
  <2>1. /\ refs[r] \in Buffers /\ refCount[refs[r]] > 0
        /\ refCount' = [refCount EXCEPT ![refs[r]] = @ + 1]
        /\ UNCHANGED <<vm, full, using, returning, buf, lost>>
    BY <1>3, Referred DEF Copy, Referenced
  <2>2. Places(b)' = Places(b)
    BY <2>1 DEF Places, InPool, Using, Returning, Moving, LostPlace
  <2>3. Free(b)' <=> Free(b)
    BY <2>1 DEF Free, TypeOK
  <2>q. QED
    BY <1>0, <2>2, <2>3 DEF OnePlace
<1>4. ASSUME NEW t \in Threads, NEW r \in References, Release(t, r) PROVE OnePlace(b)'
  BY <1>4, ReleasePlace
<1>5. ASSUME UNCHANGED <<vm, full, using, returning, buf, lost, refCount>> PROVE OnePlace(b)'
  <2>1. Places(b)' = Places(b) /\ (Free(b)' <=> Free(b))
    BY <1>5 DEF Places, InPool, Using, Returning, Moving, LostPlace, Free
  <2>q. QED
    BY <1>0, <2>1 DEF OnePlace
<1>6. ASSUME NEW t \in Threads, Push(t) PROVE OnePlace(b)'
  BY <1>6, PushPlace
<1>7. ASSUME NEW t \in Threads, Exit(t) PROVE OnePlace(b)'
  BY <1>7, ExitPlace
<1>q. QED
  BY <1>1, <1>2, <1>3, <1>4, <1>5, <1>6, <1>7 DEF Next, GetSerializeBuffer, ReturnSerializeBuffer, GetEmpty, vars

\* References are only taken to buffers of allocated blocks.
LEMMA AllocatedStep ==
  ASSUME TypeOK, ReferencesCounted, InOnePlace, Allocated, [Next]_vars
  PROVE  Allocated'
<1>1. ASSUME NEW t \in Threads, Pop(t) PROVE Allocated'
  <2>1. PICK c \in using[t] : refCount' = [refCount EXCEPT ![c] = @ + 1]
    BY <1>1 DEF Pop
  <2>2. c \in Buffers /\ c[1] \in vm /\ vm' = vm
    BY <1>1, InUsing DEF Pop, Free
  <2>q. QED
    BY <2>1, <2>2 DEF Allocated, TypeOK
<1>2. ASSUME NEW r \in References, NEW q \in References, Copy(r, q) PROVE Allocated'
  <2>1. /\ refs[r] \in Buffers /\ refCount[refs[r]] > 0
        /\ refCount' = [refCount EXCEPT ![refs[r]] = @ + 1]
        /\ vm' = vm
    BY <1>2, Referred DEF Copy, Referenced
  <2>q. QED
    BY <2>1 DEF Allocated, TypeOK
<1>3. ASSUME NEW t \in Threads, NEW r \in References, Release(t, r) PROVE Allocated'
  <2>1. /\ refs[r] \in Buffers /\ refCount[refs[r]] > 0
        /\ refCount' = [refCount EXCEPT ![refs[r]] = @ - 1]
        /\ vm' = vm
    BY <1>3, Referred DEF Release
  <2>q. QED
    BY <2>1 DEF Allocated, TypeOK
<1>4. ASSUME vm \subseteq vm', refCount' = refCount PROVE Allocated'
  BY <1>4 DEF Allocated
<1>q. QED
  BY <1>1, <1>2, <1>3, <1>4
     DEF Next, GetSerializeBuffer, ReturnSerializeBuffer, GetFull, TakeFull, GetEmpty, Push, Exit, vars

------------------------------------------------------------------------------
(***************************************************************************)
(* Memory.                                                                 *)
(***************************************************************************)

LEMMA AtMostBoth ==
  ASSUME NEW S, NEW T, IsFiniteSet(S), IsFiniteSet(T)
  PROVE  IsFiniteSet(S \cup T) /\ Cardinality(S \cup T) <= Cardinality(S) + Cardinality(T)
<1>1. /\ IsFiniteSet(S \cup T)
      /\ Cardinality(S \cup T) = Cardinality(S) + Cardinality(T) - Cardinality(S \cap T)
  BY FS_Union
<1>2. Cardinality(S) \in Nat /\ Cardinality(T) \in Nat /\ Cardinality(S \cap T) \in Nat
  BY FS_Intersection, FS_CardinalityType
<1>q. QED
  BY <1>1, <1>2

\* Finitely many sets of at most k elements have at most k times their number of elements together:
\* an element is known by a set it is in and its number in this set.
LEMMA UnionBound ==
  ASSUME NEW T, IsFiniteSet(T), NEW k \in Nat, NEW F,
         \A t \in T : IsFiniteSet(F[t]) /\ Cardinality(F[t]) <= k
  PROVE  /\ IsFiniteSet(UNION {F[t] : t \in T})
         /\ Cardinality(UNION {F[t] : t \in T}) <= Cardinality(T) * k
<1> DEFINE Numbering(t, g) == g \in [F[t] -> 1..k] /\ \A x, y \in F[t] : g[x] = g[y] => x = y
           U == UNION {F[t] : t \in T}
           number(t) == CHOOSE g : Numbering(t, g)
           home(x) == CHOOSE t \in T : x \in F[t]
           place == [x \in U |-> <<home(x), number(home(x))[x]>>]
<1>1. ASSUME NEW t \in T PROVE \E g : Numbering(t, g)
  <2>1. Cardinality(F[t]) \in Nat /\ Cardinality(F[t]) <= k /\ ExistsBijection(1..Cardinality(F[t]), F[t])
    BY FS_CardinalityType
  <2>2. ExistsBijection(F[t], 1..Cardinality(F[t]))
    BY <2>1, Fun_ExistsBijSymmetric
  <2>3. PICK g : g \in Bijection(F[t], 1..Cardinality(F[t]))
    BY <2>2, Fun_ExistsBij
  <2>4. /\ g \in [F[t] -> 1..Cardinality(F[t])]
        /\ \A x, y \in F[t] : g[x] = g[y] => x = y
    BY <2>3 DEF Bijection, Injection, IsInjective
  <2>5. g \in [F[t] -> 1..k]
    BY <2>1, <2>4
  <2>q. QED
    BY <2>4, <2>5
<1>2. ASSUME NEW t \in T PROVE Numbering(t, number(t))
  BY <1>1
<1>3. ASSUME NEW x \in U PROVE home(x) \in T /\ x \in F[home(x)]
  OBVIOUS
<1> HIDE DEF number, home
<1>4. place \in [U -> T \X (1..k)]
  BY <1>2, <1>3
<1>5. ASSUME NEW x \in U, NEW y \in U, place[x] = place[y] PROVE x = y
  <2>1. home(x) = home(y) /\ number(home(x))[x] = number(home(y))[y]
    BY <1>5
  <2>q. QED
    BY <1>2, <1>3, <2>1
<1>6. place \in Injection(U, T \X (1..k))
  BY <1>4, <1>5, Fun_IsInj
<1>7. IsFiniteSet(T \X (1..k)) /\ Cardinality(T \X (1..k)) = Cardinality(T) * k
  <2>1. IsFiniteSet(1..k) /\ Cardinality(1..k) = k
    BY FS_Interval
  <2>q. QED
    BY <2>1, FS_Product
<1>q. QED
  BY <1>6, <1>7, FS_Injection

\* What a thread keeps for itself.
Cache(t) == using[t] \cup returning[t] \cup ({buf[t]} \ {NoBuffer})

LEMMA CacheBound ==
  ASSUME TypeOK, Stages, Batches, NEW t \in Threads
  PROVE  IsFiniteSet(Cache(t)) /\ Cardinality(Cache(t)) <= 2 * Capacity - 1
<1>1. /\ IsFiniteSet(using[t]) /\ Cardinality(using[t]) \in Nat
      /\ IsFiniteSet(returning[t]) /\ Cardinality(returning[t]) \in Nat
      /\ Cardinality(returning[t]) <= Capacity - 1
  BY BatchFinite DEF TypeOK, Batches
<1>2. /\ IsFiniteSet(using[t] \cup returning[t])
      /\ Cardinality(using[t] \cup returning[t]) \in Nat
      /\ Cardinality(using[t] \cup returning[t]) <= Cardinality(using[t]) + Cardinality(returning[t])
  BY <1>1, AtMostBoth, FS_CardinalityType
<1>3. CASE buf[t] = NoBuffer
  <2>1. Cache(t) = using[t] \cup returning[t]
    BY <1>3 DEF Cache
  <2>2. Cardinality(using[t]) <= Capacity
    BY <1>1, PoolAssumption DEF Batches
  <2>q. QED
    BY <1>1, <1>2, <2>1, <2>2, PoolAssumption
<1>4. CASE buf[t] # NoBuffer
  <2>1. Cache(t) = (using[t] \cup returning[t]) \cup {buf[t]}
    BY <1>4 DEF Cache
  <2>2. Cardinality(using[t]) <= Capacity - 1
    BY <1>4 DEF Batches, Stages
  <2>3. IsFiniteSet(Cache(t)) /\ Cardinality(Cache(t)) <= Cardinality(using[t] \cup returning[t]) + 1
    <3>1. Cardinality(Cache(t)) \in {Cardinality(using[t] \cup returning[t]), Cardinality(using[t] \cup returning[t]) + 1}
      BY <1>2, <2>1, FS_AddElement
    <3>2. IsFiniteSet(Cache(t))
      <4>1. IsFiniteSet({buf[t]})
        BY FS_Singleton
      <4>q. QED
        BY <1>2, <2>1, <4>1, AtMostBoth
    <3>q. QED
      BY <1>2, <3>1, <3>2
  <2>4. Cardinality(Cache(t)) \in Nat
    BY <2>3, FS_CardinalityType
  <2>q. QED
    BY <1>1, <1>2, <2>2, <2>3, <2>4, PoolAssumption
<1>q. QED
  BY <1>3, <1>4

InUse == {b \in Buffers : refCount[b] > 0}

\* With a reference to spare, fewer buffers are in use than there can be references.
Spare == \E r \in References : refs[r] = NoBuffer

LEMMA InUseBound ==
  ASSUME TypeOK, ReferencesCounted, Spare
  PROVE  /\ IsFiniteSet(InUse)
         /\ Cardinality(InUse) < Cardinality(References)
<1> DEFINE Taken == {r \in References : refs[r] # NoBuffer}
<1>1. PICK q \in References : refs[q] = NoBuffer
  BY DEF Spare
<1>2. /\ IsFiniteSet(Taken) /\ Cardinality(Taken) \in Nat
      /\ Cardinality(Taken) < Cardinality(References)
  <2>1. Taken \in SUBSET References /\ Taken # References
    BY <1>1
  <2>2. IsFiniteSet(References) /\ Cardinality(References) \in Nat
    BY PoolAssumption, FS_CardinalityType
  <2>3. IsFiniteSet(Taken) /\ Cardinality(Taken) <= Cardinality(References) /\ Cardinality(Taken) # Cardinality(References)
    BY <2>1, <2>2, FS_Subset
  <2>4. Cardinality(Taken) \in Nat
    BY <2>3, FS_CardinalityType
  <2>q. QED
    BY <2>2, <2>3, <2>4
<1>3. [r \in Taken |-> refs[r]] \in [Taken -> InUse]
  BY Referred DEF InUse
<1>4. ASSUME NEW b \in InUse PROVE \E r \in Taken : [q0 \in Taken |-> refs[q0]][r] = b
  <2>1. b \in Buffers /\ Cardinality(Holders(b)) # 0
    BY DEF InUse, ReferencesCounted, Holders
  <2>2. PICK r \in References : refs[r] = b
    BY <2>1, FS_EmptySet DEF Holders
  <2>3. r \in Taken
    BY <2>1, <2>2, PoolAssumption
  <2>q. QED
    BY <2>2, <2>3
<1>5. [r \in Taken |-> refs[r]] \in Surjection(Taken, InUse)
  BY <1>3, <1>4, Fun_IsSurj
<1>6. IsFiniteSet(InUse) /\ Cardinality(InUse) <= Cardinality(Taken)
  BY <1>2, <1>5, FS_Surjection
<1>7. Cardinality(References) \in Nat /\ Cardinality(InUse) \in Nat
  BY <1>6, PoolAssumption, FS_CardinalityType
<1>q. QED
  BY <1>2, <1>6, <1>7

\* When the pool has no full batch, every buffer there is is in use, kept by a thread, or lost.
Bounded ==
  Cardinality(vm) * Capacity <
    Cardinality(References) + Cardinality(Threads) * (2 * Capacity - 1) + exits * (2 * Capacity - 2)

Consistent == TypeOK /\ ReferencesCounted /\ InOnePlace /\ Stages /\ Batches /\ LostBounded

LEMMA EmptyPoolBounded == Consistent /\ full = {} /\ Spare => Bounded
<1> SUFFICES ASSUME Consistent, full = {}, Spare PROVE Bounded
  OBVIOUS
<1> USE DEF Consistent
<1> DEFINE Kept == UNION {Cache(t) : t \in Threads}
           F == [t \in Threads |-> Cache(t)]
<1>1. vm \X (1..Capacity) \subseteq (InUse \cup Kept) \cup lost
  <2> SUFFICES ASSUME NEW b \in vm \X (1..Capacity), b \notin InUse PROVE b \in Kept \cup lost
    OBVIOUS
  <2>1. b \in Buffers /\ b[1] \in vm
    BY DEF TypeOK, Buffers
  <2>2. Free(b)
    BY <2>1 DEF Free, InUse, TypeOK
  <2>3. Places(b) # {} /\ InPool(b) = {}
    BY <2>1, <2>2 DEF InOnePlace, InPool
  <2>4. b # NoBuffer
    BY <2>1, PoolAssumption
  <2>5. b \notin lost => \E t \in Threads : b \in using[t] \/ b \in returning[t] \/ b = buf[t]
    BY <2>3 DEF Places, Using, Returning, Moving, LostPlace
  <2>q. QED
    BY <2>4, <2>5 DEF Cache
<1>2. IsFiniteSet(InUse) /\ Cardinality(InUse) < Cardinality(References) /\ Cardinality(InUse) \in Nat
  BY InUseBound, FS_CardinalityType
<1>3. IsFiniteSet(Kept) /\ Cardinality(Kept) <= Cardinality(Threads) * (2 * Capacity - 1) /\ Cardinality(Kept) \in Nat
  <2>1. \A t \in Threads : IsFiniteSet(F[t]) /\ Cardinality(F[t]) <= 2 * Capacity - 1
    BY CacheBound
  <2>2. 2 * Capacity - 1 \in Nat /\ Kept = UNION {F[t] : t \in Threads}
    BY PoolAssumption
  <2> HIDE DEF F, Kept
  <2>3. IsFiniteSet(Kept) /\ Cardinality(Kept) <= Cardinality(Threads) * (2 * Capacity - 1)
    BY SMTT(40), <2>1, <2>2, UnionBound, PoolAssumption
  <2>q. QED
    BY <2>3, FS_CardinalityType
<1>4. IsFiniteSet(lost) /\ Cardinality(lost) \in Nat /\ Cardinality(lost) <= exits * (2 * Capacity - 2)
  BY BatchFinite DEF TypeOK, LostBounded
<1> HIDE DEF Kept, F
<1>5. /\ IsFiniteSet((InUse \cup Kept) \cup lost)
      /\ Cardinality((InUse \cup Kept) \cup lost) <= Cardinality(InUse) + Cardinality(Kept) + Cardinality(lost)
  <2>1. IsFiniteSet(InUse \cup Kept) /\ Cardinality(InUse \cup Kept) <= Cardinality(InUse) + Cardinality(Kept)
    BY <1>2, <1>3, AtMostBoth
  <2>2. /\ IsFiniteSet((InUse \cup Kept) \cup lost)
        /\ Cardinality((InUse \cup Kept) \cup lost) <= Cardinality(InUse \cup Kept) + Cardinality(lost)
    BY <1>4, <2>1, AtMostBoth
  <2>3. Cardinality(InUse \cup Kept) \in Nat /\ Cardinality((InUse \cup Kept) \cup lost) \in Nat
    BY <2>1, <2>2, FS_CardinalityType
  <2>q. QED
    BY <1>2, <1>3, <1>4, <2>1, <2>2, <2>3
<1>6. Cardinality(vm \X (1..Capacity)) <= Cardinality((InUse \cup Kept) \cup lost)
  BY <1>1, <1>5, FS_Subset
<1>7. Cardinality(vm \X (1..Capacity)) = Cardinality(vm) * Capacity /\ Cardinality(vm) * Capacity \in Nat
  <2>1. IsFiniteSet(1..Capacity) /\ Cardinality(1..Capacity) = Capacity
    BY FS_Interval, PoolAssumption
  <2>2. IsFiniteSet(vm)
    BY FS_Subset, PoolAssumption DEF TypeOK
  <2>3. Cardinality(vm) \in Nat
    BY <2>2, FS_CardinalityType
  <2>4. Cardinality(vm \X (1..Capacity)) = Cardinality(vm) * Cardinality(1..Capacity)
    BY <2>1, <2>2, FS_Product
  <2>q. QED
    BY <2>1, <2>3, <2>4, PoolAssumption
<1>8. /\ Cardinality(Threads) * (2 * Capacity - 1) \in Int
      /\ exits * (2 * Capacity - 2) \in Int
      /\ Cardinality(References) \in Nat
  <2>1. Cardinality(Threads) \in Nat /\ Cardinality(References) \in Nat
    BY PoolAssumption, FS_CardinalityType
  <2>q. QED
    BY <2>1, PoolAssumption DEF TypeOK
<1>9. Cardinality((InUse \cup Kept) \cup lost) \in Nat
  BY <1>5, FS_CardinalityType
<1>q. QED
  BY <1>2, <1>3, <1>4, <1>5, <1>6, <1>7, <1>8, <1>9 DEF Bounded

LEMMA EmptyPoolBoundedPrimed == Consistent' /\ (full = {})' /\ Spare' => Bounded'
BY EmptyPoolBounded, PTL

LEMMA MemoryStep ==
  ASSUME IInv, Consistent', [Next]_vars
  PROVE  MemoryBounded'
<1>1. ASSUME NEW t \in Threads, NEW block \in Blocks \ vm, GetFull(t), full = {}, UNCHANGED full
      PROVE  MemoryBounded'
  <2>1. Cardinality({r \in References : refs[r] = NoBuffer}) > Cardinality({u \in Threads : pc[u] = "pop"})
    BY <1>1 DEF GetFull
  <2>2. /\ Cardinality({u \in Threads : pc[u] = "pop"}) \in Nat
        /\ Cardinality({r \in References : refs[r] = NoBuffer}) \in Nat
    BY FS_Subset, FS_CardinalityType, PoolAssumption
  <2>3. {r \in References : refs[r] = NoBuffer} # {}
    BY <2>1, <2>2, FS_EmptySet
  <2>4. Spare'
    BY <1>1, <2>3 DEF Spare, GetFull
  <2>5. (full = {})'
    BY <1>1
  <2>q. QED
    BY <2>4, <2>5, EmptyPoolBoundedPrimed DEF MemoryBounded, Bounded
<1>2. ASSUME NEW t \in Threads, Exit(t) PROVE MemoryBounded'
  <2>1. vm' = vm /\ exits' = exits + 1 /\ exits \in Nat
    BY <1>2, PoolAssumption DEF Exit, IInv, TypeOK
  <2>2. exits' * (2 * Capacity - 2) = exits * (2 * Capacity - 2) + (2 * Capacity - 2)
    BY <2>1, PoolAssumption
  <2>3. /\ Cardinality(vm) * Capacity \in Int
        /\ Cardinality(Threads) * (2 * Capacity - 1) \in Int
        /\ exits * (2 * Capacity - 2) \in Int
        /\ Cardinality(References) \in Int
    <3>1. IsFiniteSet(vm)
      BY FS_Subset, PoolAssumption DEF IInv, TypeOK
    <3>2. Cardinality(vm) \in Nat /\ Cardinality(Threads) \in Nat /\ Cardinality(References) \in Nat
      BY <3>1, PoolAssumption, FS_CardinalityType
    <3>q. QED
      BY <2>1, <3>2, PoolAssumption
  <2>4. vm = Initial \/ Bounded
    BY DEF IInv, MemoryBounded, Bounded
  <2>5. Bounded => Bounded'
    BY <2>1, <2>2, <2>3, PoolAssumption DEF Bounded
  <2>q. QED
    BY <2>1, <2>4, <2>5 DEF MemoryBounded, Bounded
<1>3. ASSUME UNCHANGED <<vm, exits>> PROVE MemoryBounded'
  BY <1>3 DEF IInv, MemoryBounded
<1>4. ASSUME NEW t \in Threads, GetFull(t) PROVE MemoryBounded'
  BY <1>1, <1>3, <1>4 DEF GetFull, TakeFull
<1>q. QED
  BY <1>2, <1>3, <1>4 DEF Next, GetSerializeBuffer, ReturnSerializeBuffer, Pop, GetEmpty, Push, Copy, Release, vars

------------------------------------------------------------------------------
(***************************************************************************)
(* The theorems.                                                           *)
(***************************************************************************)

\* The pool has one full batch per initial block; nobody holds anything.
LEMMA InitialInvariant == Init => IInv
<1> SUFFICES ASSUME Init PROVE IInv
  OBVIOUS
<1> USE DEF Init
<1>1. TypeOK
  BY BlockIsFull, FS_Subset, FS_CardinalityType, PoolAssumption DEF TypeOK
<1>2. ReferencesCounted
  <2>1. \A b \in Buffers : {r \in References : refs[r] = b} = {}
    BY PoolAssumption
  <2>q. QED
    BY <2>1, FS_EmptySet DEF ReferencesCounted
<1>3. InOnePlace
  <2> SUFFICES ASSUME NEW b \in Buffers PROVE OnePlace(b)
    BY DEF InOnePlace, OnePlace
  <2>1. Using(b) = {} /\ Returning(b) = {} /\ Moving(b) = {} /\ LostPlace(b) = {}
    BY PoolAssumption DEF Using, Returning, Moving, LostPlace
  <2>2. \A block \in Initial : b \in BlockBuffers(block) <=> b[1] = block
    BY InBlock, PoolAssumption
  <2>3. InPool(b) = IF b[1] \in Initial THEN {<<"full", BlockBuffers(b[1])>>} ELSE {}
    BY <2>2 DEF InPool
  <2>4. Free(b) <=> b[1] \in Initial
    BY DEF Free
  <2>q. QED
    BY <2>1, <2>3, <2>4 DEF OnePlace, Places
<1>4. Allocated /\ Stages
  BY DEF Allocated, Stages
<1>5. Batches
  BY BlockIsFull, FS_EmptySet, PoolAssumption DEF Batches
<1>6. LostBounded /\ MemoryBounded
  BY FS_EmptySet, PoolAssumption DEF LostBounded, MemoryBounded
<1>q. QED
  BY <1>1, <1>2, <1>3, <1>4, <1>5, <1>6 DEF IInv

LEMMA InvariantStep == IInv /\ [Next]_vars => IInv'
<1> SUFFICES ASSUME IInv, [Next]_vars PROVE IInv'
  OBVIOUS
<1>1. TypeOK' /\ ReferencesCounted' /\ InOnePlace' /\ Allocated' /\ Stages' /\ Batches' /\ LostBounded'
  BY TypeStep, CountsStep, PlacesStep, AllocatedStep, StagesStep, BatchesStep, LostStep DEF IInv
<1>2. MemoryBounded'
  BY <1>1, MemoryStep DEF Consistent
<1>q. QED
  BY <1>1, <1>2 DEF IInv

\* Everything below is true of the buffers at any time (SerializeBufferBatchPool.cpp,
\* TlsSerializeBufferBatch.cpp).
THEOREM Invariance == Spec => []IInv
BY InitialInvariant, InvariantStep, PTL DEF Spec

\* Batches consist of the buffers of the blocks, and reference counts never go below zero.
THEOREM TypeCorrectness == Spec => []TypeOK
<1>1. IInv => TypeOK
  BY DEF IInv
<1>q. QED
  BY <1>1, Invariance, PTL

\* m_refCount of a buffer is the number of Packets and queue entries that point to it.
THEOREM BuffersAreCounted == Spec => []ReferencesCounted
<1>1. IInv => ReferencesCounted
  BY DEF IInv
<1>q. QED
  BY <1>1, Invariance, PTL

\* No buffer is handed out twice, released twice into batches, or lost except by the exit of a thread.
THEOREM BuffersAreInOnePlace == Spec => []EachBufferInOnePlace
<1>1. IInv => EachBufferInOnePlace
  <2> SUFFICES ASSUME IInv, NEW b \in Buffers
               PROVE  IF b[1] \in vm /\ refCount[b] = 0
                        THEN Places(b) # {} /\ \A p, q \in Places(b) : p = q
                        ELSE Places(b) = {}
    BY DEF EachBufferInOnePlace
  <2>1. OnePlace(b)
    BY DEF IInv, InOnePlace, OnePlace
  <2>q. QED
    BY <2>1 DEF OnePlace, Free
<1>q. QED
  BY <1>1, Invariance, PTL

\* The assertions of GetSerializeBuffer and of SerializeBufferBatch::Push hold: a batch taken from the
\* pool has a buffer, and a batch of returned buffers has room for one more.
THEOREM BatchesAreComplete == Spec => []BatchesComplete
<1>1. IInv => BatchesComplete
  <2> SUFFICES ASSUME IInv PROVE BatchesComplete
    OBVIOUS
  <2>1. ASSUME NEW t \in Threads PROVE Cardinality(returning[t]) < Capacity
    <3>1. Cardinality(returning[t]) \in Nat /\ Cardinality(returning[t]) <= Capacity - 1
      BY BatchFinite DEF IInv, TypeOK, Batches
    <3>q. QED
      BY <3>1, PoolAssumption
  <2>q. QED
    BY <2>1 DEF IInv, Batches, BatchesComplete
<1>q. QED
  BY <1>1, Invariance, PTL

\* Memory is bounded by the packets in use at one time, less than two batches for each thread, and
\* less than two for each thread that has exited, or is what Init allocated.
THEOREM MemoryIsBounded == Spec => []MemoryBounded
<1>1. IInv => MemoryBounded
  BY DEF IInv
<1>q. QED
  BY <1>1, Invariance, PTL
====
