# A TLA+ model of Winppy

Winppy is a C++ library for Windows: a TCP server and client built on I/O completion ports, with
message framing, pooled packet buffers and per-session send queues. This directory holds TLA+
modules for the server, the client and their data structures, TLC configurations that check them on small
instances, and TLAPS proofs that the safety properties of all of them hold for any number of threads, slots,
sessions, packets and buffers.

    tlc -config Sessions.cfg MCTCPServer      # model-check one run (see "Runs")
    tlapm TCPServerTheorems.tla               # check the proofs of one module

Source paths below are relative to `src/Winppy/`; `TCPServer.cpp` is
`source/Network/TCPServer.cpp`.

## 1. The system

### Components

| Component | State | Operations | Modelled in |
|---|---|---|---|
| `TCPServer` connection engine | session slots, free list, session count, completion port | accept thread, worker threads, `Send`, `Disconnect`, `GetAddress` | `TCPServer` |
| `TCPServer` start and stop | threads, listening socket, port | `Run`, `Shutdown` | `ServerShutdown` |
| `TCPSession` | reference count and released flag in one word, cancel and send flags, id, socket, buffers | `Init`, `Start` | `TCPServer` |
| callbacks of the application | | `OnConnect`, `OnReceive`, `OnDisconnect` | `SessionCallbacks` |
| `SendQueue` | ring of buffer pointers, two cursors | `Push`, `Peek`, `Pop`, `Size` | `SendQueue`, `RingCursor`, `BoundedQueue` |
| `ReceiveBuffer` and framing | ring of bytes, two cursors | `PostRecv`, `OnReceiveData` | `MessageFraming`, `RingCursor` |
| `Packet`, `SerializeBuffer`, batches, batch pool | reference counts, thread-local batches, shared batches, blocks | create, copy, release, exchange of batches | `SerializeBufferPool` |
| `TCPClient`, `TCPClientEngine` | one connection per client, state machine, the same release protocol | `Connect`, `Disconnect`, `Send`, worker threads | `TCPClient` |
| configuration, `Math` | | clamping, rounding to powers of two | not yet |
| `FileLogger`, `Debug`, `LogPrefix`, `WinHelper`, `SRWLock`, `PlatformNetwork`, test programs | | output, wrappers | no |

### How they interact

The accept thread takes a free slot, starts a session in it (`TCPSession::Start`), calls
`OnConnect` and posts the first receive. Workers take completions from the port: a receive
completion cuts messages out of the receive buffer, calls `OnReceive` and posts the next receive; a
send completion pops what was sent and posts more if there is more; a release job calls
`OnDisconnect`, empties the slot and puts it back on the free list. Application threads call the API
with a session id, which names a slot and a generation.

What keeps this together is one 32-bit word per slot: `m_refCount` and `m_released`. Every API call
increments the count *before* it looks at the flag and the id. Every pending operation holds a
reference. Whoever decrements the count to zero calls `TryReleaseSession`, which with one
compare-and-swap turns (0, not released) into (0, released) and posts the release job. The count is
never reset, because calls with old ids may be in the middle of their increment and decrement while
the slot is already being started again.

A client is kept alive in the same way and differs where it matters. Its `m_state` goes Idle,
Connecting, Connected; `Connect` starts a `ConnectEx`, whose completion makes the client available
and calls `OnConnect`; a release job makes it Idle again. There is no id: a late call cannot tell the
connection it meant from the next one. And the engine restores fewer flags between two connections
than `TCPSession::Start` does.

### What is hard about it

* Threads that arrive late: with an id whose session has ended, or in `TryReleaseSession` when the
  slot has been released and restarted by others.
* A disconnect between another thread's look at `m_cancelIo` and its `WSARecv` or `WSASend`.
* `m_isSending`, a lock without a queue: who pushes and finds it set relies on its owner.
* System calls that fail after a reference, a slot or a flag has been taken.
* State a session leaves behind in its slot.
* The order in which `Shutdown` closes the socket, the port and the threads, and a `Run` that fails
  with some of its threads created and none of them running.
* A client that is connected again: calls that are late, an attempt that fails, a `Connect` during
  another attempt.
* Rings whose cursors wrap, and a byte stream in arbitrary fragments.
* Buffers that are allocated by one thread and released by another, and threads that exit.

`PROJECT.json` lists each of these hazards with its source line and the properties that guard it.

### What makes each component correct

* Engine: the reference count is exact; a session in use is not released and its slot not reused; a
  slot has one owner; one receive and one send at a time; packets reach the session they were sent
  to; a broken session is released and its slot recycled; the callbacks of a session come in order.
* Start and stop: `Shutdown` returns, also when `Run` failed half-way, leaves no session, operation
  or job behind, and frees only what no thread of the server uses.
* Client: counts are exact from one connection to the next; nobody uses a released client; it is
  released once and never lost between connections; one connection's packets, operations and socket
  do not reach the next; callbacks come in order; a broken connection ends.
* Send queue: it is a bounded FIFO queue; the unlocked `Size` errs only in a known way.
* Framing: messages arrive as sent, none is held back, the connection does not stall.
* Buffers: counts match references, no buffer is lost or shared, memory is bounded.

## 2. Modules

| Module | Models | Notes |
|---|---|---|
| `RingCursor` | cursor arithmetic of both rings | pure operators |
| `BoundedQueue` | what `SendQueue` promises | abstract |
| `SendQueue` | `SendQueue.cpp` | refines `BoundedQueue` |
| `MessageFraming` | `PostRecv`, `OnReceiveData`, `ReceiveBuffer` | one session, sequential by `OneReceiver` |
| `SessionCallbacks` | what `TCPServer` promises the derived class | abstract |
| `TCPServer` | the connection engine | the core |
| `TCPServerCallbacks` | the mapping from `TCPServer` to `SessionCallbacks` | refinement |
| `ServerShutdown` | `Run` and `Shutdown` on top of `TCPServer` | extends the core with one more thread's program |
| `TCPClient` | `TCPClient.cpp`, the workers of `TCPClientEngine.cpp` | refines `SessionCallbacks` |
| `SerializeBufferPool` | packets, batches, pool | |
| `MCTCPServer`, `MCTCPClient`, `MCSerializeBufferPool` | symmetry sets for TLC | |
| `TCPServerInvariant`, `TCPClientInvariant`, `ServerShutdownInvariant` | inductive invariants | checked by TLC as well |
| `TCPServerSteps`, `TCPClientSteps` | proofs: what each step preserves | |
| `TCPServerTheorems`, `TCPClientTheorems` | proofs: the invariant, the properties, the refinement of `SessionCallbacks` | extend the `Steps` modules |
| `ServerShutdownTheorems` | proofs about `Run` and `Shutdown` | extends `TCPServerTheorems` |
| `SendQueueTheorems`, `MessageFramingTheorems`, `SerializeBufferPoolTheorems` | proofs, with the invariants they need | |

### TCPServer: state and steps

Per slot: `refCount`, `released` (`m_flag`), `cancelIo`, `isSending`, `pending`
(`m_numOfPacketsPending`), `id`, `queue` with `readCursor` (`m_sendQueue`), `sock`. A packet in the
queue is represented by the id `Send` was called with, which is what `PacketsReachTheirSession`
needs. Per slot of the port: the states of the receive and the send operation (none, pending with
the thread that posted it, or a completion that waits to be dequeued) and the number of release
jobs. Per thread: `pc`, the slot it works on, the id it was called with, and whether it holds a
second reference.

A step is one access to memory other threads use, one region under a lock, or one system call, in
program order. `pc` names the next access. Program points map to the code one to one:

* API: `Call` (the increment), `CheckReleased`, `CheckId`, then `Push`, `TakeFlag`,
  `CheckCancelSend` (Send), `SetCancel`, `CancelIoEx` (Disconnect, DirectDisconnect) or
  `ReadAddress`; `Deref`, `TryRelease`, `PostJob` end every path.
* `PostSend`: `Peek`, then `ClearFlag` or `RefSend`, `WSASend`, `CheckSendPending`.
* `PostRecv`: `RefRecv`, `WSARecv`, `CheckRecvPending`.
* Worker: `DequeueRecv` .. `Received`, `CheckCancelRecv`; `DequeueSend`, `PopSent`, `ClearPending`,
  `DropFlag`, `CheckMore`, `LoadReadCursor`, `LoadWriteCursor`, `TakeFlag`; `DequeueJob`,
  `Disconnected`, `Drain`, `CloseSocket`, `Uncount`, `PushReady`.
* Accept thread: `Accept`, `PopReady`, `Setup` (or `PushBack`), `StartFields`, `StartProtect`,
  `StartPublish`, `CountSession`, `Connected`, then `CheckCancelRecv` and `PostRecv`.

Windows and the network are external: an operation completes at once or stays pending, completes
with data, with zero bytes or with an error, is cancelled by `CancelIoEx` (any thread) or `CancelIo`
(the thread that posted it), or is refused without a completion. `Faults` says which calls may fail
for reasons of their own.

Abstractions: memory is sequentially consistent (hand-overs between threads go through interlocked
instructions of x86); the free list and the port are unordered; `OnReceiveData` is one step that
ends well or disconnects; `StartFields` is one step because none of its fields is read before the
flag is cleared; a failed `CancelIoEx` is only logged and is not told apart.

`TCPServerCallbacks` reads the phase of a session off the slot that has its id: the callback a thread
of the slot is executing, else "open" while the session is live or its release is under way
(`Ongoing`), else "closed". A session whose slot has gone to another one is closed, and one whose id
`OnConnect` has not been given is unborn.

### ServerShutdown

One of the callers, `Main`, runs `Run` and `Shutdown`; `stage` says where it is. `Run` acquires what
`Resources` lists in this order, creates the accept thread and the workers suspended and resumes
them all (`Acquire`, `CreateThread`, `ResumeAll`). `RunFails` may strike at any of these calls, at
most `MaxFailures` times; `m_init` is then false, and `Shutdown` resumes each thread before it waits
for it (`ResumeToJoin`), after which the application may call `Run` again. `held` is what has been
acquired and not given back. `DisconnectAllSessions` looks at a slot, reads the id (`target`) and
enters `Disconnect` with it, in three steps; from there `Main` takes the engine's own steps. The accept thread
gains the states "before listen", "inside accept" and "ended"; workers end when the port is closed.
`WaitsForAccept` says whether `Shutdown` of a running server is called only while the accept thread
is blocked in `accept`; finding 2 is why the distinction is needed.

### TCPClient

One client, an application thread that calls `Connect`, other application threads that call `Send`
and `Disconnect`, and the workers. Clients of one engine share its port and its workers and nothing
else, and a worker serves one completion at a time, so one client stands for each of them.

* `Connect`: `Connect` (the exchange of `m_state`), `CreateSocket`, `Prepare`, `ConnectEx`; a failed
  call continues with `Cleanup`, `CloseSocket`, `ClearSocket`, `ResetState`.
* Worker: `DequeueConnect`, then `StartFields`, `Publish` (`m_released = 0`), `StartRef`,
  `Connected`; or `SetIdle` after a failure. `DequeueJob`, `Disconnected`, `Drain`, `CloseSocket`,
  `ClearSocket`, `SetIdle`. Sends and receives are as in `TCPServer`, except that the look at
  `m_cancelIo` comes after the unlocked `Size`.
* A packet in the queue is represented by the connection it was sent on, which is what
  `SeparateWhileIntact` compares. `conn` counts connections and is only history.

`Send` and `Disconnect` are called at any time, and any thread may be late with its `TryReleaseClient`,
by a connection or more: nothing in the code or the interface prevents it. Two windows of the code then break the
client, and `spoiled`, the second history variable, records that one was hit: a compare-and-swap of
`TryReleaseClient` that succeeds while the start of a connection has cleared `m_released` and not yet
counted its own reference (finding 3), and a `Connect` refused during another attempt (finding 4). A client
that is not `spoiled` is `Intact`, and the safety properties are stated of an intact client
(`CountsWhileIntact` and the others): they say that nothing else breaks it. With the two steps in
the order of `TCPSession::Start` the first window would not exist. The callback contract covers
every step up to the first that breaks the client.

Two constants describe the application. `ConnectsWhile`: the states other than Idle in which it calls
`Connect`. `Overlap`: whether `Send` and `Disconnect` may be called between `Connect` and the first
reference of the connection, and may still be running when `Connect` is called. `Overlap = FALSE` is
used only in runs that find a violation, to show that it does not take such calls; threads of the
engine are late in either case.
An assertion does not stop the model: it describes a release build.

### Data structures

`SendQueue` keeps entries and cursors as the code does. `MessageFraming` identifies byte `k` of
message `m` as `<<m, k>>`, so "the same bytes in the same order" can be stated without contents.
`SerializeBufferPool` represents a batch by the set of its buffers: which buffer is next is not
something a property depends on. A thread's exit (`Exit`) moves its two batches to `lost`. `GetFull`
is taken only for a `Packet` the bound on `References` leaves room for.

## 3. Runs

| Run | Instance | States | What it shows |
|---|---|---|---|
| `Sessions` | 2 workers, 2 callers, 1 slot, 2 sessions, 2 calls, queue of 2, batches of 2, every fault | 1.1 M | references exact; no use after release; single release; exclusive receive and send; packets stay with their session and in the queue while they are sent; `m_isSending` not leaked; session count; the inductive invariant |
| `Recycling` | 2 workers, 1 caller, 1 slot, 2 sessions, 2 sends, queue of 1, fairness | 400 k | callbacks in order (refinement of `SessionCallbacks`); broken sessions are recycled |
| `Shutdown` | 2 workers, 1 caller beside `Main`, 1 slot, 1 failure of `Run`, fairness | 120 k | `Shutdown` returns, of a running and of a half-started server, and leaves nothing behind; the inductive invariant |
| `Client` | 2 workers, 1 caller, 2 connections, 2 calls at any time, attempts and sends that fail, fairness | 530 k | the safety of an intact client, its inductive invariant, the order of callbacks, and the end of broken connections |
| `SendQueue` | ring of 4, 2 packets | 4.5 k | bounded FIFO; the unlocked `Size` |
| `Framing` | ring of 5 bytes, headers of 2, payload up to 1, 4 messages | 1.0 M | messages as sent, none held back, no stall, receives into free bytes |
| `Pool` | 2 threads, 1 exit, batches of 2, 2 references, 5 blocks | 1.0 M | counts, places and batches consistent; memory bounded |
| `NoStrandedPacket` | | violated | finding 1 |
| `AcceptThreadEnds` | `Shutdown` called at any time | violated | finding 2 |
| `ConnectRace` | 2 workers, 2 connections, 1 `Disconnect`, none during an attempt | violated | finding 3 |
| `RefusedConnect` | `Connect` during another attempt | violated | finding 4 |
| `LeftOverSocket` | 2 attempts, no call | violated | finding 5 |

**Why these bounds are enough.** The engine's hazards need one slot that is used twice, a thread
with the old id, a thread with the new id, a worker that completes an operation and a worker that
releases: `Sessions` and `Recycling` have all of them. In `Sessions` batches of one and of two, a
batch around the end of the ring and a packet behind a batch occur, and every system call fails
somewhere; in `Recycling` a second send meets a full queue, which makes `Send` disconnect. More slots
add only independent copies of this: the free list is their only link, and the proofs cover any number of
them. `Client` needs two connections, a thread of the engine and a call that are late from the first, and a call
that disconnects while another step sends: two workers and two calls give all of them. Its safety
properties also hold with two callers, with three connections and one call, and with `Connect` during
attempts and connections (runs longer than the ones listed). Symmetry is used only where no liveness is checked. A ring of five bytes is
filled exactly by two empty messages, or by the largest one and a byte of the next header, and four
messages drive both cursors around its end. `Pool` has one block
more than its bound allows; with three references and no exit the bound is reached exactly. No safety property of a passing
run depends on the bounds, and neither do the refinements: they are proved (section 4). What depends on
them is liveness, and which of the steps occur together.

`CHECK_DEADLOCK FALSE` is set where the model stops on purpose: the bounds on calls and ids are used
up, every session has ended and all threads wait for work that will not come. `SendQueue` and
`Framing` check for deadlock.

**Fairness.** Weak fairness of each thread's own steps: the Windows scheduler runs every thread that
can run, and a worker that waits on the port gets a completion when there is one. No fairness for the
network, the peer, new connections or API calls. `BrokenSessionIsRecycled` therefore holds without
any help of the peer: cancelled and reset operations complete by themselves, as Windows guarantees.
For `Shutdown`, `Main` is fair once it has been called, and the accept thread keeps calling `accept`.
For the client likewise: its threads run, no attempt has to be answered and no call to be made.
`BrokenConnectionEnds` is about an intact client, and needs `ConnectsWhile = {}`: after a refused
`Connect` has closed the socket of a connection, `Disconnect` never leaves its loop (`TCPClient.cpp:220`).

### Findings

1. A packet can be left in the queue of a healthy session: `PostSend` sees an empty queue, another
   thread pushes and finds `m_isSending` still set, `PostSend` clears it and returns
   (`TCPServer.cpp:862-879`). The packet leaves with the next `Send`. `TCPClientEngine.cpp:392-406`
   has the same gap.
2. `Shutdown` does not return if the accept thread is not blocked in `accept` when the listening
   socket is closed (`TCPServer.cpp:969-978`): the loop ends only on `WSAEINTR`.
3. The completion of a connection clears `m_released` before it takes its reference
   (`TCPClientEngine.cpp:517-520`). A thread that has decremented the count to zero and has not done its
   compare-and-swap may release the client between the two, underneath the connection that is just
   being started. Such a thread is a worker that was late at the end of the last connection, while a
   `Disconnect` that came and went released it: no call has to overlap the attempt. So is a `Send` or
   `Disconnect` that came during the attempt. `TCPSession::Start` does the two steps in the other order.
4. A `Connect` that is refused because another attempt is in progress runs the cleanup of a failed
   attempt (`TCPClient.cpp:189-202`): it closes the other attempt's socket and makes the client Idle.
5. An attempt whose `ConnectEx` completes with an error leaves its socket in `m_sock`
   (`TCPClientEngine.cpp:577-582`). The next `Connect` asserts that it is not there (`TCPClient.cpp:115`),
   or overwrites the handle, which is never closed.

More statements of the source do not hold, which no run lists. The modules state each of them, and TLC refutes it
with the constants given:

* `ConnectionCanSend` (`Client`): nothing resets `m_isSending` between two connections of a client. If the first ended
  while a send was outstanding, no packet of the second is ever sent (`TCPClient.cpp:292`). `NeverBecomesMute`,
  which holds, says that a connection is mute from its start or not at all.
* `DisconnectReturns` (`Client`, with `ConnectsWhile = {"connected"}`): a `Connect` on a connected client closes its
  socket (`TCPClient.cpp:188-195`), and a `Disconnect` that found the client alive repeats `CancelIoEx`
  on the invalid handle for ever (`TCPClient.cpp:220-238`).
* `JobFindsNoReference` (`Client`): a call that comes while the release job is in the port has raised the
  count the job asserts to be zero (`TCPClientEngine.cpp:532`). Only the assertion is wrong.
* `StartAssertion`, `StartPendingAssertion` (`Sessions`): late calls with old ids reference a slot that is
  started (`TCPSession.cpp:61`), and a session that ends during a send leaves `m_numOfPacketsPending`
  (`TCPSession.cpp:64`). Only the assertions are wrong.

## 4. Proofs

Every invariant and action property of the passing runs is a theorem, and so are the three refinements.
The last column names the run that checks the same formula. Leaves that took a prover more than a second or
two name that prover and a longer limit (`SMTT(40)`, `ZenonT(60)`), and the last step of a preservation
lemma hides the definitions its cases used, so that it follows from the cases alone.

| Theorem | Statement | Run |
|---|---|---|
| **`TCPServerTheorems`** | | |
| `Invariance` | `Spec => []IInv` | `Sessions` |
| `TypeCorrectness`, `ReferencesAreCounted`, `SessionsOutliveTheirUsers`, `SlotsAreReleasedOnce`, `ReceivingIsExclusive`, `SendingIsExclusive`, `SentPacketsAreKept`, `PacketsStayWithTheirSession`, `SessionsAreCounted`, `SendingIsNeverLost` | `Spec => []` of `TypeOK`, `RefCountExact`, `NoUseAfterRelease`, `SlotHasOneOwner`, `OneReceiver`, `OneSender`, `SentPacketsStayQueued`, `PacketsReachTheirSession`, `SessionCountExact`, `FlagNotLeaked` | `Sessions` |
| `CallbacksInOrder` | `JobsArePosted => (Spec => CallbackContract)` | `Recycling` |
| **`ServerShutdownTheorems`** | | |
| `ShutdownInvariance`, `ServerStaysSafe` | `SafeSpecAll => []SInv`, `SafeSpecAll => []IInv` | `Shutdown` |
| `ShutdownTypes`, `NothingIsLeftBehind`, `FreedMemoryIsUnused` | `SafeSpecAll => []` of `ShutdownTypeOK`, `NothingLeftBehind`, `FreedUnused` | `Shutdown` |
| `CallbacksInOrderThroughShutdown` | `JobsArePosted => (SafeSpecAll => CallbackContract)` | |
| **`TCPClientTheorems`** | | |
| `Invariance` | `Spec => []InvariantWhileIntact`, that is `Spec => [](Intact => IInv)` | `Client` |
| `ReferencesAreCounted`, `ClientsOutliveTheirUsers`, `ClientsAreReleasedOnce`, `SendingIsExclusive`, `ConnectionsAreSeparate` | `Spec => []` of `CountsWhileIntact`, `UsersSafeWhileIntact`, `OneOwnerWhileIntact`, `OneSenderWhileIntact`, `SeparateWhileIntact` | `Client` |
| `TypeCorrectness`, `ReceivingIsExclusive` | `Spec => [](Intact => TypeOK)`, `Spec => [](Intact => OneReceiver)` | `Client`, as parts of `IInv` |
| `HealthyConnectionsCanSend` | `Spec => NeverBecomesMute` | `Client` |
| `CallbacksInOrder` | `JobsArePosted => (Spec => CallbackContract)` | `Client` |
| **`SendQueueTheorems`** | | |
| `Invariance`, `TypeCorrectness`, `EntriesAreBetweenTheCursors` | `Spec => []` of `IInv`, `TypeOK`, `EntriesMatchCursors` | `SendQueue` (the last) |
| `UnlockedSizeIsSafe` | `Spec => UnlockedSizeMissesOnlyAfterPop` | `SendQueue` |
| `RingImplementsQueue` | `Spec => QueueContract` | `SendQueue` |
| **`MessageFramingTheorems`** | | |
| `Invariance`, `TypeCorrectness`, `MessagesArriveAsSent`, `CompleteMessagesAreDelivered`, `ReceivingNeverStalls`, `ReceivesAreFree` | `Spec => []` of `IInv`, `TypeOK`, `DeliveredAsSent`, `NoMessageHeldBack`, `NeverStalled`, `ReceivesIntoFreeBytes` | `Framing` |
| **`SerializeBufferPoolTheorems`** | | |
| `Invariance`, `TypeCorrectness`, `BuffersAreCounted`, `BuffersAreInOnePlace`, `BatchesAreComplete`, `MemoryIsBounded` | `Spec => []` of `IInv`, `TypeOK`, `ReferencesCounted`, `EachBufferInOnePlace`, `BatchesComplete`, `MemoryBounded` | `Pool` |

### Assumptions

On the constants: `ThreadAssumption` (the kinds of threads are disjoint, finitely many, and distinct
from the markers the models use), `SlotAssumption` (finitely many slots), `SizeAssumption` (a queue
holds at least one packet and a batch at least one), `ShutdownAssumption` (`Main` is a caller),
`FramingAssumption` (a largest message is shorter than the buffer, which `TCPServer::Run` and the
configured minimum see to), `SendQueueAssumption` (a ring of more than one entry), `PoolAssumption`
(finitely many threads, blocks and references). TLC evaluates them on every run.

`JobsArePosted`, a hypothesis of the theorems about callbacks, says that `PostQueuedCompletionStatus`
does not fail for release jobs; where it does, the code only logs it and the session never gets its
`OnDisconnect`, so the callback contract is not kept (its safety properties are: `Faults` is arbitrary in
all other theorems). The theorems about the client have no hypothesis about its application: calls and
connects come at any time, and `Intact` is part of the conclusion.

### The server

None of the properties is inductive alone. That the count is exact needs that an
operation has one starter (else two receives would be counted as one); that it has one starter needs
that a slot is unused when it is started again; that it is unused needs that the count was exact when
it was released. `IInv` therefore joins all of them with what holds at the program points between:
`Located` (who works on a slot), `SecondReferences` (where a second reference is held), `Roles` and
`CallerRoles` (which threads reach which code), `Alive` (a session seen unreleased by a counted thread stays so),
`Starting` and `Queues`. Two more groups were found to be needed by attempts to prove what rests on them:

* `FlagNotLeaked` is kept only because a send that fails leaves `m_cancelIo` set or the socket reset
  (`FailuresAreCancelled`): the worker that dequeues such a failure does not clear `m_isSending`, so
  a failure of any other origin would leave a healthy session mute.
* That callbacks come in order needs that ids are handed out in order and announced one by one
  (`IdsInOrder`), and that no two slots have one id (`IdsUnique`).

The step lemmas are proved for `AnyNext`, in which API calls use *any* id on any slot, not only those
`OnConnect` has announced: nothing relies on the application's ids being its own. That is what lets
`ServerShutdown` use them, whose `DisconnectAllSessions` reads ids off the slots.
`TCPServerSteps` first restates ownership thread by thread, without set equality, for the provers; then shows
what the steps preserve of exclusive ownership; then the reference and session counts as
cardinalities, one lemma per kind of change (nobody moves, a thread enters, a thread leaves, a
reference passes to an operation and back); then types, packets, pending counts and queues; then
`FlagNotLeaked` and the ids. `TCPServerTheorems` puts the inductive step together.

**Callbacks.** The phases of all sessions are functions of the slots, so it suffices to know which slot a
step moves. `SlotMoves` turns a change of one slot into a `Move` of `SessionCallbacks`; `PhasesKept` and
`PhasesUntouched` deal with steps that change none. Every step then enters a callback (`EntersOnConnect`,
`EntersOnReceive`, `EntersOnDisconnect`), leaves one (`LeavesCallback`), or is quiet. Three quiet steps
need an argument: a release begins (the session stays "open" until its job is dequeued,
`ReleasesQuietly`), a slot is published (its session has not been announced, `PublishesQuietly`), and a
slot gets a new id (its old session is closed, `SlotsAreReusedQuietly`). That there are never more sessions
than slots, when `OnConnect` is entered, is a count of ids (`RoomForOne`).

### Run and Shutdown

`SInv` adds to `IInv` what each stage of `Run` and `Shutdown` holds (`Held`, `Initialised`), which
threads may run (`AcceptThread`, `Exited`), and how quiet the engine is (`AtRest`, `PortClosed`,
`SocketsClosed`). Every step of `NextAll` is a step of `AnyNext` or leaves the engine alone, so `IInv`
comes from the server's proof. The point of the proof is `ClosePort`: the accept thread has returned and
`m_sessionCount` is zero, hence by `SessionCountExact` every slot is free, hence by
`SlotHasOneOwner`, `RefCountExact` and `NoUseAfterRelease` no session, operation, job or callback is
left (`QuietIsEmpty`), and none can come up again. `WaitsForAccept` is arbitrary: a `Shutdown` that
does not return (finding 2) is still a safe one.

### The client

The argument is that of the server with one slot, and with `state` in place of the free list: `Stages`,
`Sockets` and `Emptied` say what is true of the client at each point of an attempt, a start and a release.
Two facts carry it. While `m_released` is set nobody uses the connection, because a thread becomes a
user only by seeing it clear; so threads may be late by any number of connections and hold counts
meanwhile. And once the start has its reference, the count is not zero, so no late compare-and-swap
succeeds. Between the two, where the code leaves a gap, only `~spoiled'` excludes such a success. The proof
uses it there (`StagesStep`, the case of `TryRelease`) and to exclude a `Connect` refused during an attempt
(`RolesStep`), and nowhere else: these are the only two ways to break a client.

That a connection does not become mute needs `FailuresAreCancelled`, as in the server. That it does not begin
mute would need what the code does not do: reset the flag.

### Data structures

* `SendQueue`: the ring arithmetic of `RingCursor` (`Between`, `SpanIsBetween`) is a matter of cases over
  two cursors, within or around the end. `EntriesMatchCursors` steps through the ring from the read
  cursor; the invariant (`Filled`) says which entries are filled by comparing indices, and `FilledIsMatch`
  that the two are the same. The refinement compares the queue read from the ring before and after,
  entry by entry.
* `MessageFraming`: the model recovers messages from bytes with a loop; the invariant describes the same
  bytes without one. `Layout(start)` says where in the stream each message that is not delivered begins,
  `Stream(i)` is byte `i` of the unread part of the ring followed by what is in flight, and `Framed`
  that such a layout exists. A receive, a parsed message and a reused slot each map one layout to
  the next.
* `SerializeBufferPool`: every allocated and unreferenced buffer is in exactly one place
  (`InOnePlace`); the rest is counting finite sets of buffers. The bound on memory
  needs that blocks are only created when the shared list of full batches is empty, so that all
  that is allocated is referenced, cached by a thread, or lost. An attempt to prove an earlier, tighter bound failed at
  a thread that holds a full batch and has not used it yet while a returned buffer is on its
  way; with three references TLC reaches the state. `MemoryBounded` is the corrected bound.

### Only model-checked

Liveness under fairness, which TLAPS does not handle: `BrokenSessionIsRecycled`, `BrokenConnectionEnds`,
`ShutdownReturns`, `AcceptThreadEnds`. What the five violated runs show is a counterexample, not a theorem.

## 5. Not modelled

* The engine's `Init` and `Release`, and the client's destructor. `Release` closes the port without
  waiting for clients, so what becomes of their connections is left to the application.
* The computation of sizes from the configuration (clamping, powers of two). A second `Run` on a
  running server, and a `Run` after a completed `Shutdown`, whose ids start at zero again.
* API calls made by a callback on the callback's own thread; in the model another caller makes them
  while the callback runs.
* Wrap-around of the 16-bit reference count (needs tens of thousands of threads) and of the 32-bit
  id counter.
* A second `Shutdown`, and API calls after `Shutdown`.
* Serialisation operators, logging, platform wrappers, the test programs.

## 6. Plan

1. The engine's `Init` and `Release`, and API calls from within callbacks, with the proofs that go with them.
2. The clamping of the configuration as operators, with `FramingAssumption` and `SizeAssumption` as
   theorems about its result.
3. A `Run` after a completed `Shutdown`: which of the server's theorems survive ids that start at zero
   again.
4. The state changes of the safety argument that liveness rests on, as action properties: a broken
   session never becomes healthy again, and each of its operations ends.
