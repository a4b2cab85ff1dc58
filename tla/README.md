# TLA+ models of the TT-Infinity KV-cache manager

TT-Infinity keeps a KV cache for a model on one machine (Galaxy) in the device
and host memory of another (T3K). A `Client` moves values over Fabric; a
`Server` is a C++ object that launches persistent device kernels and keeps a
host thread, the *tiering worker*, that owns the authoritative host copies.
This directory models the parts of it whose correctness depends on the order in
which processors, threads and failures interleave.

Paths are relative to the repository. `P` stands for
`third_party/tt-metal/patches/0003-kvcache-protocol-device-runtime.patch`, which
holds the device kernels and the Client operations; a number after it is a line of
that file. `PROJECT.json` maps every definition to the lines it models.

## 1. Inventory

| Part (where) | State | Operations | What is hard | What makes it correct |
| --- | --- | --- | --- | --- |
| Host value pool (`server_storage.cpp`, leases in `server_device_runtime_io.cpp`) | free extents, per-slot generation and mapped metadata, units in use | reserve, publish, release with coalescing, destroy a lease | leases destroyed out of order with publications, generation wrap, a cancelled receive, an exception swallowed in a destructor | units are disjoint, none is lost, metadata names what is held |
| Tiering worker (`server_tiering.cpp`, `server_device_runtime_io.cpp`) | `host_values_`, the request in progress, sequence counters | receive a write-through, drop a backing, serve a GET, promote | it shares single-slot channels with two device processors | it never meets a request it cannot serve; a value is never torn |
| BRISC scheduler (P 11190-12410) | directory, cache blocks, residency LRU, pending-host FIFO, streamed PUT, move and commit channels | prepare and publish a PUT, write it through, evict, look up, serve, remove, promote | FIFO entries outdated by later requests, tokens that collide, pinned pending blocks, streamed tails | a stored value has a whole host copy before anything relies on it |
| NCRISC request loop (P 13175-14075) | session table, request in progress, issue counter | one handler per opcode, commit barrier | barriers against counters that overtake each other | a barrier means durable |
| Client operations (P 2519-3247, `client_operations_adapter.cpp`) | request sequence, rings, operation mutexes | put, get, get_parallel, exists, remove, move, barrier | lock order over several Clients, errors after a partial transfer | calls return; a failed transfer quarantines |
| Client lifecycle and ESTABLISH (`client_lifecycle.cpp`, `client_connection.cpp`, P 12849, 13391) | lifecycle, session token, Fabric kernels | establish with retry, detach, close, quarantine, takeover | delayed and duplicated responses, unknown outcome | one session per Client, no stale packet accepted |
| Server lifecycle (`server_lifecycle.cpp`, `server_device_runtime.cpp`, `server.cpp`) | three nested state machines, two registries, the worker thread, the kernel | construct, close, destroy, quarantine | every step may fail; close is retried, concurrent, and races the worker | nothing freed is reachable; a core has one tenant |
| PUT drain (`server_host_api.cpp:258`) | two wrapping counters | wait for a snapshot | half-range comparison at the wrap, timeout | drained means committed |
| Shared mux (`server_program.cpp:120-183, 401-432, 993-1088, 1195-1302`, `server.cpp`) | shards registered, launched, terminated; memory retired into the service; the weak registry | register, compile and launch by the last shard, terminate, retire, quarantine | one shard fails or closes and the others go on; constructors and closes of several shards interleave | no memory is freed under a running kernel, no second program on its cores |
| Server-owned host policy (`server_runtime/server_tiering.cpp`, `server_storage.cpp`, `server_host_api.cpp`, `server.cpp`) | host values, pool, staging window, cumulative words in L1, one host operation | write-through, eviction, serve, promote; get, remove, exists, flush; close | transfers in blocks against a kernel that streams, a stop in the middle of each wait, wrapping counters | values stay whole, extents are accounted for, a teardown ends and frees nothing in use |
| LMCache connector (patch 0005, Python) | pinned blocks, deadlines in ticks | observe eviction, pin, unpin | unpinning without an acknowledgement | no block reused while it is read |
| Facade, bindings, resource layout, scripts, Fabric and model patches | configuration | none that interact | none for a model | outside this project |

How they interact. A Client writes packets into the Server core's L1; NCRISC
takes one request, asks BRISC through the directory mailbox and answers. BRISC
posts host work on one `move_req` slot; the worker polls it over PCIe, answers
with `evict_ack` or `commit_req`, and reports `move_processed`. The values themselves
go through a NoC-mapped host pool or one staging window. `Server::close()` reads the
two PUT counters, writes the termination word of the kernels, waits, and joins the
worker. Host code is synchronised by `lifecycle_mutex_`, `host_values_mutex_` and
atomics; device code only by cumulative 32-bit counters.

## 2. Modules

```
HostPool  --implements-->  UnitOwnership      HostPoolProofs         (TLAPS)
Tiering   --implements-->  KVStore            TieringProofs          (TLAPS)
ServerLifecycle                               ServerLifecycleProofs  (TLAPS)
ClientSession                                 ClientSessionProofs    (TLAPS)
InternalServer                                InternalServerProofs   (TLAPS)
SharedMux                                     SharedMuxProofs        (TLAPS)
Numbers: lemmas on remainders, quotients and least elements that the proofs share
MC...: one instance module each for TLC; HostPool needs none
```

The models meet at explicit seams. `HostPool` has the pool of one Server in full
and leaves open which request comes next; `Tiering` has every request and reduces
the pool to "an extent or none" per slot; `ServerLifecycle` reduces a request to
its kind and to the points at which the worker waits or throws. What `Tiering` shows
of the worker (it never throws while the Server runs) is therefore deliberately
not assumed by `ServerLifecycle`, whose worker may throw at any step.
`SharedMux` takes from `ServerLifecycle` only that a close or a worker may fail, and
adds the peers of a Server. `ClientSession` has the way of a request to the Server
and back and nothing of its effect, which is `Tiering`'s. `InternalServer` is a whole
Server in the other of its two modes, with a small kernel of its own to talk to.

### HostPool

`pool_free` is the `std::map` of free extents as a function from the first unit to
the length. `PoolAlloc` and `PoolRelease` are `pool_alloc` and `pool_release`; each
operation is one step because it runs under `host_values_mutex_`. A write-through
is three or four steps (`Retire`, `ReserveMapped` or `ReserveHeap`, `FinishReceive`,
`Store`), because the worker waits for the device between them and can be
cancelled there (`CancelReceive`). `StopWorker`, `ClearHostValue` and
`ReleaseResources` are the teardown. `pool_meta` is the seqlock-protected record the
device reads, written atomically here. The mode without a NoC mapping has
no pool and is not modelled.

`UnitOwnership` says what users of the pool rely on, without a free list: each unit
has one owner or none, a slot takes one contiguous run, and gives back all of it.

### Tiering

Three actors: NCRISC (`NcriscNext`), BRISC (`BriscNext`) and the worker
(`WorkerNext`), with Clients that submit requests (`ClientNext`). A pair of cumulative
counters is kept as its difference, which is all the code ever compares, so a
channel is empty when its difference is zero. A value is `NumChunks` transfer groups and every PUT
writes bytes of its own, so a torn, mixed or stale value is visible as such. A queued PUT enters
the FIFO with its token; a large one is streamed while it is received (`StreamAck`,
`StreamPrefix`, `StreamTail`, `TailDrain`). `CommitHead` and `SkipStale` are the FIFO's service.
`GetInPlace` and `GetThroughWindow` are the two ways to serve a value from the host.

What is abstracted, and why it does not matter to the properties:

- Block sizes, the LRU order and PUT leases: an allocation may evict any set of
  committed residents that makes room, a superset of what LRU order picks.
- A refusal of `Publish` for a full FIFO cannot happen: the high watermark is
  `min(max_keys, 8)`, and a slot has one entry that is current.
- The block a promotion reserves is not counted: no request, hence no allocation,
  is served while `move_pending # 0`, which lasts until `PromoteCommit`.
- `GetInPlace` is one step: the worker is idle whenever a request is served.
- A leased PUT may start to write before BRISC binds it; here it writes after its grant.
- The token is `request_seq`, which every Client counts for itself; `Tokens` is the
  set of values it takes, so that two Clients may collide.
- DETACH, PING, ESTABLISH, termination, the mode without a NoC mapping, the GET
  admission worker and the mapped GET ingress are in other modules or in none (section 6).

`KVStore` is the store a Client believes in: one request at a time, a key holds what
its last landed PUT wrote, and is forgotten only for a REMOVE, for a PUT of the same
key, or for a PUT of a new key into a store that is full.

### ServerLifecycle

One record per Server holds the three nested state machines (`life` is
`Server::Impl::lifecycle_state_`, `runtime` is `ServerDeviceRuntime::state_`,
`core` is `ServerRuntimeCore::lifecycle_state_`), its membership in the outer
and the inner registry (`registered`, `slot`), the kernel with its termination word, the worker with
its request, and the counters of PUTs. `call[c]` is where the thread `c` is in the
constructor, in `close()`, in the destructor or in `force_quarantine()`; each point
at which another thread, the worker or the kernel can run in between is a step of its own.

- The constructor: `Register`, then `CreateRuntime`, `CreateFails` or `ThreadFails`, then
  `Launch`, `LaunchFails` (nothing reached the device) or `LaunchOutcomeUnknown` (the
  enqueue threw, so the kernel may run). `Unwind` is the destruction of the
  members after the catch block has already given the outer registration back.
- `close()`: `CloseReturnsAtOnce`; or `CloseStarts`, `DrainCompletes` / `DrainThrows`,
  `CloseChecksWorker`, `Terminate`, `Finishes` / `FinishThrows`, `StopWorker`,
  `JoinAndClear`, `ResetRuntime`.
- `force_quarantine()`: `ForceReturns`, or `ForceQuarantine` and then the same
  `JoinAndClear` and `ResetRuntime`.
- The destructor (`Destroy`) closes, closes again, and forces the quarantine: `attempt` counts.
- `Reset` is `~ServerDeviceRuntime` with `release_external_runtime_resources`
  (`Released`, refused unless `Releasable`) and `quarantine_external_runtime`
  (`Quarantined`).

Notes on faithfulness. A registration that is refused throws before the object has any
state, and is no step. A slot that is claimed and erased again because an
allocation failed is merged into `CreateFails`: what another Server could see of it
is one more refusal, which `CreateFails` allows at any time. In the External
mode the core's own worker-failed flag is never set, so a drain whose worker has
died ends only by its timeout. A failure recorded after line 230 of
`server_lifecycle.cpp` is stored and ignored by a close that goes on to
succeed; that is harmless to what is checked, since the kernel is
terminated before anything is freed. Servers that share a static intermesh workload are in `SharedMux`.

### ClientSession

One record per Client (`cl`), per chip of the Server's tables (`reg`), and per thread
that is in a call (`call`). The chip is the key of `active_clients` and of the Server's tables.

- Construction: `Refused`, `Construct`, `PrepareFails`, then `Attempt` (the ESTABLISH kernel is launched,
  `Started` says what it clears), `TimedOut`, `Responded`, and `Accept`, `Reject` or
  `OutcomeUnknown` (quarantine). The mailbox holds one request; `HandleEstablish` decides with `RegistryAction`
  between accepting, replaying, superseding a tombstone and dropping, and sends the configuration and the
  response; the mailbox is cleared later (`ClearBootstrap`), so a request may be handled twice.
- Messages from the Server to a chip keep their order in `down[p]` and are delivered at any later time.
- Calls: `Request`, `GetParallel`, `Close` and `Destroy` enter, `Lock` takes the lifecycle mutexes in
  `NextLock` order, `Begin` opens the transactions (`Advanced`), `RollBack` or `EnqueueFails` is a failure
  before or behind the enqueue, `Submit` and `ServePacket` are the ring, `Answered`, `Complete`, `TurnedAway` and
  `Return` end the call, `FailAfterEnqueue` quarantines.
- Memory: a Client's bootstrap and reply buffers are `held`, `kept` by a quarantine for ever, or `freed`.

`operation_mutex_` is taken under `lifecycle_mutex_` only and is left out. A packet is written whole.

### InternalServer

The three parties are the worker thread (`WorkerStep`), the kernel with the Clients' requests it takes
(`dev`; `Requests`, `DeviceStep`) and one host operation at a time (`caller`, under `host_operation_mutex_`; `Calls`, `CallerStep`). The words of L1 are
`l1`, 32-bit counters reduced to `Span`, started next to their wrap as
`test_initial_counter_` does. A value is `Chunks` units over `Banks`, so that a torn transfer is visible as units
of different versions. `server.mapped` chooses between a NoC-mapped host (pool extents and staging
window) and the copies over PCIe; both are explored. Construction, `close()`, the destructor
with its second close and its quarantine are there with every failure. HostPool has the free list; here an extent holds one value.

### SharedMux

A shard is one `ServerRuntimeCore` with the `ServerDeviceRuntime` around it; `Shards` are the objects of a run, several per
worker group, each constructed and destroyed once. `service` is the service the weak registry leads to, and dies with its last reference
(`Settle`). `memory` follows what the object owns through `preserve_static_intermesh_kernel_resources` and
`quarantine_failed_teardown`. The steps are the critical sections of the service's mutex, so a launch is two: the check of the
shard's own state (`LaunchEnters`) and what happens under the mutex.
`MutexFree` keeps the others out while the last shard waits in `Finish` (`"finishing"`).

A slot claimed and given back because memory ran out is no step; a constructor that fails behind the
registration of its kernels spoils the program for all (`RegisterFails`). The shards' drains and workers are
reasons for `Quarantine`. A write into a destroyed object changes nothing the model has; finding 3 is about it.
`ThreadFails` is in `SpecWithThreadFailures` only, because with it the program starts kernels of a destroyed shard.

## 3. Runs

`CHECK_DEADLOCK FALSE` is given where the system really stops, at a closed Server, or at Clients the
program calls no more: HostPool, ServerLifecycle, InternalServer, ClientSession and SharedMux. The Tiering runs check deadlock.

| Run | Instance | Shows |
| --- | --- | --- |
| `host_pool` | 6 units, values up to 3, 3 slots, generations 1-2 | extents stay coalesced and disjoint, no unit lost, metadata current across the wrap, the unit count right, `UnitOwnership` implemented |
| `tiering` | 1 Client, 3 keys, 2 slots, 3 blocks, FIFO watermark 2, 3 PUTs, all operations | values are never lost, mixed or exposed early; the worker never throws; `KVStore` implemented |
| `tiering_two_clients` | 2 Clients, 2 keys, 2 slots, 3 blocks, colliding tokens, 3 PUTs | the same across Clients, and the barrier of one covers the PUTs of the other |
| `tiering_liveness` | 2 Clients, 1 block, 2 PUTs, all operations | every request is answered |
| `tiering_promote_overrun` | 2 Clients, 2 blocks | finding 1 |
| `tiering_slot_reuse` | 1 Client, 2 blocks | finding 2 |
| `server_lifecycle` | 2 Servers on one core, 2 threads, 1 PUT, 2 calls of `close()` each | memory safety of the teardown, one tenant per core, quarantine for good, closed means drained |
| `server_lifecycle_liveness` | 1 Server, 2 threads, 2 PUTs, 2 calls of `close()` | every constructor, close and destructor returns |
| `internal_server` | 2 slots, 1 extent, values of 3 units over 2 banks, blocks of 2, counters modulo 8 from 7, 2 PUTs, 1 serve or promotion, 1 host call, 1 close | transfers are whole, a drain covers the PUTs before it, host calls answer right, extents are accounted for, the teardown ends and frees nothing in use |
| `client_session` | 3 Clients, 2 on one chip, 2 threads, rings of 2 slots, cursors modulo 4, two generations, up to 2 attempts and 2 calls, `get_parallel` in both orders | both sides agree on a session, a clean close leaves no late write, no circle of waiting threads |
| `shared_mux` | 3 worker groups, 2 shards in turn for each | memory of a running kernel is held, no program is built while another runs |
| `shared_mux_launch` | the same, with threads that cannot be created | finding 3 |

Why the bounds are enough for what can go wrong:

- Pool: three slots of up to three units in six units give every shape of
  neighbourhood a release can meet (none, before, after, both) and a full pool;
  a span of three makes the generation wrap after two publications of a slot.
- Tiering: three keys over two slots force the reuse of a slot; three blocks over two slots let
  a GET admit a second copy; one block makes every PUT wait for the write-through before it;
  two groups are the least that can be torn; three PUTs are one in the FIFO, one
  that outdates it and one behind it. `MaxPuts` is the only bound on the length of a behaviour.
- Tokens: one token is the total collision of two Clients' sequence numbers, two are partial collision.
  `tiering_two_clients` has no MOVE_TO_DEVICE, because with more than one block that
  operation leads to finding 1; with one block the overrun, which needs a second one, cannot happen, so
  `tiering_liveness` keeps every operation.
- Lifecycle: two Servers on one core are what the registries must keep
  apart; a third would only be refused again. Two threads are a close that
  races another one. Two calls of `close()` and the two of the destructor exceed every
  retry the code makes. The threads and Servers are symmetric.
- InternalServer: three units over two banks and blocks of two give partial blocks and banks of unequal length; one
  extent for two slots makes the pool run out, so that a value also lives on the heap; from 7 modulo 8 every counter wraps.
  `MaxOps` is one: with two calls, 7.3 million states, a `remove` that timed out can be followed by another one while its
  request is unread, which no run covers.
- ClientSession: the two Clients of one chip are what a late message could confuse; the first may retry, the third
  has a chip of its own for `get_parallel`. With two generations the count wraps at the second session, and a cursor modulo 4
  after four packets. Threads are symmetric. `RingAssumption` is discussed under "Not modelled".
- SharedMux: with three groups there is a shard that is neither first nor last; two shards in turn for each give a
  complete second generation of the group, and replacements that come too early. The shards of one group are symmetric.

Every property of a passing run has a mutant in `PROJECT.json`: a definition changed the way a plausible bug
would change it, kept next to the definition and marked as a mutant, under
which TLC finds that property violated.

### Fairness

`tiering_liveness` assumes weak fairness of NCRISC, BRISC and the worker: two
processors in endless loops and a running thread. Clients need not ask. There
is no property that every PUT is committed: the FIFO is served only when
no request is waiting or its watermark is reached, so an endless stream of GETs
may delay a queued PUT for ever by design.

`server_lifecycle_liveness` assumes weak fairness of each application thread,
of the worker's own steps, and of the kernel's reaction to its termination word, which
every wait of the kernel polls. It does not assume that the kernel ever
answers the worker or commits a PUT: calls return all the same, because a drain has a timeout
and a teardown cancels the worker's wait before it joins it. `std::mutex` is not
fair; the number of calls of `close()` is bounded, so a thread that waits for it is not overtaken for ever.

## 4. Findings

1. `tiering_promote_overrun` (bug). MOVE_TO_DEVICE posts `DEVICE_PROMOTE` on the single
   `move_req` slot and returns without waiting. A PUT of another Client that landed behind the mover's
   barrier is written through over it (P 12306 tests neither the slot nor `move_processed`).
   The worker then sees the sequence advance by two and throws
   (`server_device_runtime_io.cpp:123`), which stops the Server. The move operations are part of the public
   Client API (`client.hpp:59-60`).
2. `tiering_slot_reuse` (code against comment). P 6555 says that the slot is reusable only when
   `move_req_sem == move_processed`; after a host serve the FIFO reuses it earlier. The
   worker has copied the request by then, so nothing is lost.
3. `shared_mux_launch` (bug). A shard that has registered in the shared mux and whose worker thread cannot be
   created is destroyed without leaving the service: `terminate_server_kernel` would erase it and give the group
   up (`server_program.cpp:1200-1212`), but the runtime is released from `Prepared`, where nothing does. The remaining shards
   complete the count, and the launch passes "expected {} live shards" (line 1046) with a dead one, writes into
   the destroyed object and starts its kernel; nobody will ever tell that kernel to stop. The same property fails in
   plain `Spec` on a longer way: two shards wait to launch, the enqueue of the first throws and its object is destroyed,
   and the second, which passed its state check before it was quarantined, enqueues again.

Seen while modelling, without a run of their own:

- `launch_external_runtime` stores `Ready` after the launch (`server.cpp:405`) even if a peer quarantined the shard between
  its state check and the mutex. Its close then erases the slot, against the comment at `server.cpp:661`
  that `active_slots` still rejects reuse. `ProgramIsFresh` shows why this does no more harm: the quarantine
  keeps the service, which refuses a new program.
- A replacement shard clears the termination word of its core (`server_program.cpp:225`) before it is refused (line 428).
  If the kernel of its predecessor has not read the word by then, the last `Finish` waits for ever.
- The Server's cursor of a session is an unreduced `uint32_t` (P 13956, 14063) and the Client's slot is reduced
  (P 1739). `KVM_SERVER_L1_RING_SLOTS=96` gives each Client three slots; 3 does not divide 2^32, so after 2^32 packets of one
  session the two part and its requests hang, although P 6164 says the number "need not be a power of two".

## 5. Proofs

TLAPS proves the following for every value of the constants that satisfies the named
assumptions of the modules:

- HostPool: at least one unit, values of at least one unit, a generation span above one, `NoSlot` no slot.
- ServerLifecycle, SharedMux: every Server has a core, every shard a group, there are finitely many groups, `None`
  is neither a thread, a Server nor a shard; the bounds are natural numbers.
- ClientSession: finitely many Clients, numbered by their addresses; rings of at least two slots, whose number divides the
  range of the cursor (`RingAssumption`, section 6); a list given to `get_parallel` names no Client twice (`client_operations_adapter.cpp:158` refuses it).
- Tiering: finitely many slots; at least two groups in a value; at least one cache block and one PUT; a watermark between one and
  the number of slots; a generation span above one; `Operations` among the seven kinds; `None` neither a key nor a slot.
- InternalServer: slots and units are numbers; at least one chunk, bank and staging block; counters of any width.

A theorem that needs more has the assumption in its statement: `FifoIsShort` and `MaxOps < Span`, see InternalServer below,
and the three alternatives of `WorkerSurvives`, see Tiering.
Every inductive invariant was checked by TLC on the run's instance before it was proved.

**HostPoolProofs.** `TypeCorrect`, `FreeListWellFormed`, `SingleOwner`, `NoLeak`, `MetadataCurrent`,
`ReleaseAccepted`, from `PoolInvariant == Spec => []IInv`. None of the safety
properties is inductive alone: that a release cannot hit a free unit needs the ownership of
the extent, ownership needs the shape of the receive in progress (a slot
that receives has been retired, so it holds nothing else), and that metadata
stays current needs the agreement of generations, which needs both. `IInv` is their
conjunction with the types, the shape of the receive, and the shape of backings.
Two lemmas say what `pool_alloc` and `pool_release` do to the free list unit by
unit; three more say what taking, giving back and keeping an extent do to the
invariant; each action is one of the three. `ReleaseAccepted` has no run of its own: it says that
the exception which a lease destructor swallows is never thrown.
`LeaseCountExact` reads the counter of the leases as the cardinality of the set of leased units, which an
allocation enlarges by exactly the units of its extent. `PoolImplementsOwnership` is the refinement: over `IInv` the
owner of a unit is determined (`OwnerIsHolder`), so an allocation is `Take`, a release `GiveBack`, and every other step
leaves every owner (`Takes`, `GivesBack`).

**ServerLifecycleProofs.** `TypeCorrect`, `FreedIsUnreachable`, `CoresHaveOneTenant`,
`WorkerOutlivedByRuntime`, `ClosedIsDrainedAndFree` and the action property
`QuarantineLasts`, from `LifecycleInvariant == Spec => []IInv`, for any number of
Servers, cores and threads. `IInv` adds to the types:

- `Shape`: what the fields of a Server are at each point of its life. The
  heart is in `Closing`: an abandoned close whose mutex is free has either drained or
  seen the worker fail, which is why a retry that skips the drain may still report
  success; and a terminated runtime is always inside a call.
- `CallOK`: what a thread relies on at each step, in particular that it holds the mutex and
  that the runtime is in the state the step found it in.
- `Apart`: two threads are inside one Server only if both are in `close()`.
- `SlotsExclude`: Servers on one core do not both hold the inner slot. Together with
  `Shape` (a slot is held exactly while memory is) it gives one tenant per core.

`LocalStep` (a step of the kernel or the worker leaves what threads rely on) and `CallStep` (a
step of a thread leaves what the others rely on) reduce each action to a
statement about one record. `ResetKeeps` is the reason why a quarantine lasts:
the only function that frees memory does not free what was kept.

**SharedMuxProofs.** `TypeCorrect`, `KernelMemoryStays` and the action property `FreshProgram`, from `MuxInvariant`, for any
groups and shards (of `Spec`; `SpecWithThreadFailures` is finding 3). The weak registry forgets the service when nothing
refers to it, so the invariant must name something that refers to it while a kernel may run, the *anchor*. Until the last
shard has told its kernel to stop there is a member that has not: `terminated` is the number of members that
have, each counted once however often its close is retried, and is below the number of members. Afterwards the member that waits in
`Finish` is the anchor, and if that wait fails, or the outcome of a launch is unknown, the quarantine
is. `Phases` follows the service from gathering to compiled to launched, `Holding` and `Stage` what a shard has, and
`KernelOwner` gives each running kernel the member whose memory it addresses.

**ClientSessionProofs.** Two layers. `CallInvariant` gives `TypeCorrect` and `LocksNeverDeadlock`: a call holds a set of its
Clients that lies below the ones it still needs, so of the threads in a circle the one that waits for the highest Client waits
for a thread that holds a higher one. `SessionInvariant` gives `EstablishedSidesAgree` and `FreedMemoryIsQuiet`. It says of each Client and
its chip which of a few sessions it is in, and what may then be in the registry entry, the mailbox, the ring and the
messages under way:

- `Silent`: nothing of the Client has reached the Server; `Shaking`: the handshake, whose answers may be late and doubled;
- `Parked`: established and idle, Client slot and Server cursor at the same place; `InFlight`: so many packets of the
  transaction in the ring, so many replies on the way, and the rest counted; the sum is the advance of the slot;
- `CleanlyClosed`: nothing is under way to the Client, and what the chip still has of it, if anything, is a tombstone: an ESTABLISH
  left in the mailbox is answered by nothing.

`KeysAreExclusive` (one living Client per chip, quarantined ones included) is what keeps sessions apart:
each step disturbs one Client of a chip, and of the others it is enough that none of them lives. `Addressed` says that a chip
sends to its own Clients only.

**InternalServerProofs.** `ServerInvariant` is the conjunction of `Users` (what the life of the handle says of memory, kernel and
worker), `CallSteps` and `Mailbox` (the path of a host operation), `Channel`, `Words`, `Counts` and
`Handshake` (which step of the kernel can meet which step of the worker, and how far the four pairs of cumulative words are apart
then), `Pool` and `Tokens` (the queue of pending writes against the directory). It gives `TypeCorrect`, `MemoryIsKept`
and `PoolAccounting`. Over it:

- `TransfersAreWhole`. `Settled` is the data at rest: a durable entry is whole in the host, a resident one in the heap.
  `Moving`, `Offered` and `Got` follow it through a transfer: the worker has read it, the words offer it, the kernel has taken so many
  chunks of it. Each step moves it from one of the four to the next; the fused serve, where both
  sides stream at once, needs that the progress word never runs ahead of the bytes.
- `DrainCovers`. The code compares `issued` and `committed` modulo their width and calls one ahead when the difference is
  below half of it. `DrainInv` gives both words as the counts they stand for; with at most half the range of PUTs in the FIFO the
  comparison says what it means. `[]FifoIsShort` is this hypothesis: the FIFO has `max_keys_` entries in
  DRAM (`server_runtime_core.hpp:341`), far fewer than 2^31.
- `OperationsAnswer`. `Removing` gives the request, acknowledgement and answer words as counts in this order, none
  apart from the next by more than the operations there were; `Answers` and `Reading` say what a diagnostic that has read the directory may still rely on when it
  reads the value: entries only lose their backing by disappearing, because no PUT is issued meanwhile. `MaxOps < Span`: after a round of
  2^32 timed-out operations an old answer would be taken for a new one.

**TieringProofs.** `TieringInvariant` is the conjunction of ten parts with the types (`TypeCorrect`):

- `Handshake`: for every place BRISC can be in, which request is on the `move_req` slot, which of the three signals are
  outstanding and how far the worker can be. Its cases have names: `Acknowledging`, `Receiving`, `Landed`, `Removing`,
  `Serving`, `Released`, `Promoting`, and `Overrun`, which is finding 1.
- `Phases`, `Directory`, `Reservation`: the way of a request; one slot per key; a granted slot is free until it is
  published and its block has the bytes landed so far; a removed key stays free until the REMOVE is answered.
- `Streaming`, `Queue`: how many groups of a streamed PUT have landed, have been announced and have been pushed;
  `put_issued_total - commit_done` is the FIFO and the streamed tail less the PUT about to be counted; every pending entry has
  a token in the FIFO or its stream.
- `Contents`, `Metadata`, `Pushed`, `Supplying`: the bytes at rest and in every transfer, and which extent the metadata may name.

Most steps of BRISC are `TierStep` on every slot: an entry stays, is freed, is evicted, is read back, or is committed
over a backing that is there. The directory and the bytes are proved once for such a step. Over the invariant:

- `BackingIsDurable` and `GenerationsMatch` are `Contents` and `Metadata` read for durable entries.
- `BarrierIsDurable`: a difference of at most zero with no PUT about to be counted is an empty FIFO and no tail, and then by
  `Queue` nothing is pending. `PendingStaysPinned` goes through the steps with `EntriesStay`, `PendingStays` and `Releases`.
- `WorkerSurvives`. By `Handshake` the worker can only fail on a write-through of a pending entry over a promotion
  (`FailureIsOverrun`). The theorem assumes one Client, no MOVE_TO_DEVICE, or one cache block. With one Client
  (`Fenced`) a move follows that Client's own barrier, so nothing is pending while a promotion is under way; with one block
  a pending entry leaves no room for a promotion. Without the hypothesis the property is false: that is finding 1.
- `ImplementsStore` is the refinement of `KVStore`. `KeyHolds` reads the refinement mapping (a key holds the value of its one
  entry). A step that keeps every entry leaves the store alone (`StoreKeeps`), a freed slot is `Forget` or `Erase`
  (`StoreReleases`), a publication is `Land`. That a prepare only pushes a key out of a full store is a bijection of slots and
  stored keys (`FullStore`).

**Only model-checked.** Every liveness property (`EveryRequestAnswered`, `EveryCallReturns`), and
`TeardownNeverStuck`, which is about ENABLED. Every other property of a passing run is the statement of a theorem. Induction over data and
RECURSIVE operators are beyond the prover; no module that is proved about uses them. The lemmas on remainders in `Numbers` are
about quotients the solver can name, not by induction.

## 6. Not modelled

- Gather and scatter operations, the numerical kernels and model code of patches 0002
  and 0004, and the Fabric changes of patch 0001: data movement with no state
  kept between calls, or changes to code that is not in the repository.
- Resource layout, kernel arguments, bindings, the facade, scripts and benchmarks:
  nothing in them interleaves.
- The profile counters, `test_host_get_direct` and the injected failures of the server-owned host policy.
- Gather and scatter aside, the value rings, packet batching and the GET receiver of the Clients' kernels, and of the directory the probe
  chain, the buddy orders and the lease heap blocks: `Tiering` has what the Server observes of them.
- A ring partition whose size does not divide the cursor's range (`RingAssumption` of `ClientSession`): see section 4.
- The destructor of a Client whose close failed before its enqueue. It is in `ClientSession`, but no property says what
  becomes of the session the Server keeps for it: the comment at `client_lifecycle.cpp:206` calls that path best effort.
- Patch 0005: the eviction observer that unpins after a number of ticks depends on the vLLM scheduler,
  which is not in the repository, and on a store latency nobody bounds.
- Device and Fabric hardware: a write is seen whole and in the order the code
  fences it. The seqlock record of mapped metadata is written atomically.

## 7. Plan

The modules of the plan are written and what can be proved of their properties is proved. `WorkerSurvives` should lose its
hypothesis when finding 1 is repaired: if the FIFO waits for `move_processed` before it posts, `Overrun` leaves the invariant.

Of the code, the mapped GET ingress with its admission worker (`server_host_api.cpp:150-190`, P) and the PUT
leases with the buddy heap are the parts with a state of their own that no module has.
