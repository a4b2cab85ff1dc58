-------------------------- MODULE InternalServer ---------------------------
(***************************************************************************)
(* The Server that owns its host policy (HostPolicyMode::Internal):        *)
(* construction, the tiering worker thread (server_tiering.cpp), the       *)
(* host-value map and pool behind host_values_mutex_ (server_storage.cpp), *)
(* the host-direct diagnostics and the PUT drain (server_host_api.cpp),    *)
(* close(), the destructor and the quarantine (server.cpp).                *)
(*                                                                         *)
(* The worker and the device talk through words of L1: one move request    *)
(* slot, the cumulative counters that answer it, the staging window and    *)
(* the pool the device reads and writes over PCIe.  The counters are the   *)
(* 32-bit ones reduced to Span, so they wrap; a value is Chunks units, and *)
(* a unit holds the number of the PUT that wrote it.  The device side is   *)
(* the part of the kernel that drives these words; Tiering models it whole.*)
(*                                                                         *)
(* Host operations hold host_operation_mutex_ from their first check to    *)
(* their return, so one thread at a time is in one of them.                *)
(***************************************************************************)
EXTENDS Naturals, Sequences, FiniteSets

CONSTANTS
    Slots,          \* directory slots, each the home of one key (1..n)
    Units,          \* extents of the mapped host pool, one value each
    Chunks,         \* heap units of a value
    Banks,          \* DRAM banks the heap units are interleaved over
    StageBlock,     \* kStageBlockChunks: chunks per published staging block
    Span,           \* modulus of the cumulative counters
    InitialCounter, \* test_initial_counter_
    MaxPuts,        \* bound on the PUTs of the Clients
    MaxServes,      \* bound on the host-serves and promotions
    MaxOps,         \* bound on the diagnostics and flushes
    MaxCloses,      \* bound on the closes, the destructor being one
    None

Versions == 0..MaxPuts
Bytes == [1..Chunks -> Versions]
Locations == {"Pending", "Device", "Host"}
Entry == [ver : Versions, at : Locations]
HostValue == [unit : Units \cup {None}, heap : Bytes]

ASSUME ConstantsAssumption ==
    /\ IsFiniteSet(Slots) /\ Slots = 1..Cardinality(Slots)
    /\ Units \subseteq Nat
    /\ Chunks \in Nat \ {0} /\ Banks \in Nat \ {0} /\ StageBlock \in Nat \ {0}
    /\ Span \in Nat /\ Span > 1 /\ InitialCounter \in 0..(Span - 1)
    /\ MaxPuts \in Nat /\ MaxServes \in Nat /\ MaxOps \in Nat
    /\ MaxCloses \in Nat
    /\ None \notin Units /\ None \notin Slots
    /\ None \notin Entry /\ None \notin HostValue

VARIABLES
    server,  \* life cycle and what it owns
    worker,  \* the tiering worker thread
    l1,      \* the words the worker, the device and the host share
    dev,     \* the directory worker of the kernel
    dir,     \* the device directory: slot -> version and location
    heap,    \* the device value heap, a version per heap unit
    values,  \* host_values_
    free,    \* pool_free_
    ram,     \* the pool extents and, at None, the staging window
    caller   \* the host operation that holds host_operation_mutex_

vars == <<server, worker, l1, dev, dir, heap, values, free, ram, caller>>

Whole(v) == [k \in 1..Chunks |-> v]
HeapUnits == 0..(Cardinality(Slots) * Chunks - 1)
Counter == 0..(Span - 1)
Inc(n) == (n + 1) % Span

\* cumulative_counter_is_ahead: a half range comparison of wrapping counts.
Ahead(a, b) == LET d == (a + Span - b) % Span IN 0 < d /\ d < Span \div 2

Ops == {"none", "write", "remove", "serve", "promote"}

ServerState ==
    [life : {"Unborn", "Constructing", "Ready", "Closing", "Quarantined",
             "Closed", "Failed"},
     slot : BOOLEAN, memory : {"none", "held", "kept", "freed"},
     mapped : BOOLEAN, kernel : {"off", "running", "stopped"},
     signalled : BOOLEAN, running : BOOLEAN, workload : BOOLEAN]

WorkerState ==
    [step : {"none", "gated", "poll", "reserve", "ack", "push", "publish",
             "copy", "drop", "source", "reset", "stage", "post", "stream",
             "pull", "finish", "exited"},
     op : Ops, slot : Slots \cup {None}, unit : Units \cup {None},
     seen : Counter, evicts : Counter, commits : Counter,
     stop : BOOLEAN, failed : BOOLEAN]

SharedWords ==
    [move : Counter, op : Ops, slot : Slots \cup {None}, processed : Counter,
     ack : Counter, ackUnit : Units \cup {None}, evicted : Counter,
     commit : Counter, commitUnit : Units \cup {None}, progress : 0..Chunks,
     pulled : Counter, request : Counter, mailbox : Slots \cup {None},
     done : Counter, issued : Counter, committed : Counter]

DeviceState ==
    [step : {"loop", "ack", "push", "drain", "pull", "stream"},
     op : Ops, slot : Slots \cup {None}, ver : Versions,
     unit : Units \cup {None}, chunk : 0..Chunks, got : Bytes,
     request : Counter, acks : Counter, commits : Counter,
     fifo : Seq(Slots \X Versions), puts : Versions, serves : 0..MaxServes]

CallerState ==
    [op : {"none", "get", "remove", "flush", "close"},
     step : {"idle", "drain", "wait", "lookup", "read", "mailbox", "request",
             "reply", "answer", "enter", "terminate", "finish", "stop", "join"},
     slot : Slots \cup {None}, target : Counter, drained : Versions,
     ver : Versions, at : {"none"} \cup Locations,
     got : {None} \cup Bytes, backed : BOOLEAN, attempt : 0..3,
     ops : 0..MaxOps, closes : 0..MaxCloses]

TypeOK ==
    /\ server \in ServerState
    /\ worker \in WorkerState
    /\ l1 \in SharedWords
    /\ dev \in DeviceState
    /\ dir \in [Slots -> {None} \cup Entry]
    /\ heap \in [HeapUnits -> Versions]
    /\ values \in [Slots -> {None} \cup HostValue]
    /\ free \subseteq Units
    /\ ram \in [Units \cup {None} -> Bytes]
    /\ caller \in CallerState

\* attempt: 1 for close() and the first close of the destructor, 2 for its
\* second and 3 for its quarantine.  drained: the PUTs issued when the drain
\* took its target.
Idle(ops, closes) ==
    [op |-> "none", step |-> "idle", slot |-> None, target |-> 0, drained |-> 0,
     ver |-> 0, at |-> "none", got |-> None, backed |-> FALSE, attempt |-> 0,
     ops |-> ops, closes |-> closes]

Init ==
    /\ server \in {[life |-> "Unborn", slot |-> FALSE, memory |-> "none",
                    mapped |-> m, kernel |-> "off", signalled |-> FALSE,
                    running |-> FALSE, workload |-> FALSE] : m \in BOOLEAN}
    /\ worker = [step |-> "none", op |-> "none", slot |-> None, unit |-> None,
                 seen |-> InitialCounter, evicts |-> InitialCounter,
                 commits |-> InitialCounter, stop |-> FALSE, failed |-> FALSE]
    /\ l1 = [move |-> InitialCounter, op |-> "none", slot |-> None,
             processed |-> InitialCounter, ack |-> InitialCounter, ackUnit |-> None,
             evicted |-> InitialCounter, commit |-> InitialCounter,
             commitUnit |-> None, progress |-> 0, pulled |-> InitialCounter,
             request |-> InitialCounter, mailbox |-> None, done |-> InitialCounter,
             issued |-> InitialCounter, committed |-> InitialCounter]
    /\ dev = [step |-> "loop", op |-> "none", slot |-> None, ver |-> 0,
              unit |-> None, chunk |-> 0, got |-> Whole(0),
              request |-> InitialCounter, acks |-> InitialCounter,
              commits |-> InitialCounter, fifo |-> <<>>, puts |-> 0, serves |-> 0]
    /\ dir = [s \in Slots |-> None]
    /\ heap = [u \in HeapUnits |-> 0]
    /\ values = [s \in Slots |-> None]
    /\ free = {}
    /\ ram = [u \in Units \cup {None} |-> Whole(0)]
    /\ caller = Idle(0, 0)

----------------------------------------------------------------------------
(* Construction.  A null pool (no mapping the device can use) never        *)
(* allocates, which an empty free set says.                                *)

Construct ==
    /\ server.life = "Unborn"
    /\ server' = [server EXCEPT !.life = "Constructing", !.slot = TRUE,
                                !.memory = "held"]
    /\ free' = IF server.mapped THEN Units ELSE {}
    /\ worker' = [worker EXCEPT !.step = "gated"]
    /\ UNCHANGED <<l1, dev, dir, heap, values, ram, caller>>

\* A throw before the enqueue: the gated thread is cancelled and joined, the
\* members are destroyed and the slot is free again.
LaunchFails ==
    /\ server.life = "Constructing"
    /\ server' = [server EXCEPT !.life = "Failed", !.slot = FALSE,
                                !.memory = "freed"]
    /\ worker' = [worker EXCEPT !.step = "exited", !.stop = TRUE]
    /\ free' = {}
    /\ UNCHANGED <<l1, dev, dir, heap, values, ram, caller>>

\* A throw after it proves nothing about the device: all is kept.
LaunchOutcomeUnknown ==
    /\ server.life = "Constructing"
    /\ \E kernel \in {"off", "running"} :
           server' = [server EXCEPT !.life = "Quarantined", !.memory = "kept",
                                    !.kernel = kernel, !.workload = TRUE]
    /\ worker' = [worker EXCEPT !.step = "exited", !.stop = TRUE]
    /\ UNCHANGED <<l1, dev, dir, heap, values, free, ram, caller>>

Launch ==
    /\ server.life = "Constructing"
    /\ server' = [server EXCEPT !.life = "Ready", !.kernel = "running",
                                !.workload = TRUE, !.running = TRUE]
    /\ worker' = [worker EXCEPT !.step = "poll"]
    /\ UNCHANGED <<l1, dev, dir, heap, values, free, ram, caller>>

Construction == Construct \/ LaunchFails \/ LaunchOutcomeUnknown \/ Launch

----------------------------------------------------------------------------
(* Host values and the targeted copies of the path without a mapping.      *)

HostBytes(s) == IF values[s].unit # None THEN ram[values[s].unit] ELSE values[s].heap

\* drop_host_value, then pool_alloc (first fit) when a destination is wanted.
Dropped(s) ==
    IF values[s] = None \/ values[s].unit = None THEN free
    ELSE free \cup {values[s].unit}
FirstFit(units) ==
    IF units = {} THEN None ELSE CHOOSE u \in units : \A w \in units : u <= w

\* Heap unit u is page u \div Banks of bank u % Banks.  FirstOf is the first
\* unit of a value that lies in a bank, and PageOf its page there.
UnitAt(bank, page) == page * Banks + bank
Base(s) == (s - 1) * Chunks
FirstOf(bank, base) == (bank + Banks - (base % Banks)) % Banks
PageOf(bank, base) == (base + FirstOf(bank, base)) \div Banks

\* Unit k (from 0) of a value is entry k \div Banks of the transfer of the
\* bank whose first unit is congruent to k.
BankOf(k, base) == CHOOSE b \in 0..(Banks - 1) : FirstOf(b, base) = k % Banks
BankEntry(k, base) ==
    LET b == BankOf(k, base) IN UnitAt(b, PageOf(b, base) + k \div Banks)

\* read_value_units_into: bank by bank when the value spans every bank, else
\* unit by unit.  Nothing writes the value while it is read, so the second
\* read of the stability guard agrees with the first.
ReadUnits(base) ==
    [k \in 1..Chunks |->
        IF Chunks > Banks THEN heap[BankEntry(k - 1, base)]
        ELSE heap[UnitAt((base + k - 1) % Banks, (base + k - 1) \div Banks)]]

\* The coalesced write of stage_value_host_to_device.
WriteUnits(base, bytes) ==
    [u \in HeapUnits |->
        IF \E k \in 1..Chunks : BankEntry(k - 1, base) = u
        THEN bytes[CHOOSE k \in 1..Chunks : BankEntry(k - 1, base) = u]
        ELSE heap[u]]

----------------------------------------------------------------------------
(* tiering_worker_loop.  The device is in its drain or its pull while the  *)
(* worker handles a request, so l1.slot is stable under it.                *)

Working(step) == worker.step = step
WorkerTo(step) == worker' = [worker EXCEPT !.step = step]

Poll ==
    /\ Working("poll") /\ ~worker.stop
    /\ l1.move # worker.seen
    /\ worker' = [worker EXCEPT
                    !.op = l1.op, !.slot = l1.slot,
                    !.step = CASE l1.op = "write" ->
                                    IF server.mapped THEN "reserve" ELSE "copy"
                               [] l1.op = "remove" -> "drop"
                               [] OTHER -> "source"]
    /\ UNCHANGED <<server, l1, dev, dir, heap, values, free, ram, caller>>

\* The destination is reserved and its offset written, then its count.
Reserve ==
    /\ Working("reserve")
    /\ LET s == worker.slot
           pool == Dropped(s)
           unit == FirstFit(pool)
       IN  /\ values' = [values EXCEPT ![s] = None]
           /\ free' = pool \ {unit}
           /\ worker' = [worker EXCEPT !.step = "ack", !.unit = unit,
                                       !.evicts = Inc(@)]
           /\ l1' = [l1 EXCEPT !.ackUnit = unit]
    /\ UNCHANGED <<server, dev, dir, heap, ram, caller>>

Acknowledge ==
    /\ Working("ack")
    /\ l1' = [l1 EXCEPT !.ack = worker.evicts]
    /\ WorkerTo("push")
    /\ UNCHANGED <<server, dev, dir, heap, values, free, ram, caller>>

\* Mutant: the value is published when its destination is acknowledged.
PushedWhenAcknowledged ==
    /\ Working("push") /\ ~worker.stop
    /\ WorkerTo("publish")
    /\ UNCHANGED <<server, l1, dev, dir, heap, values, free, ram, caller>>

Pushed ==
    /\ Working("push") /\ ~worker.stop
    /\ l1.evicted = worker.evicts
    /\ WorkerTo("publish")
    /\ UNCHANGED <<server, l1, dev, dir, heap, values, free, ram, caller>>

\* Mutant: the throw of the stop check is outside the release.
AbandonPushKeepingExtent ==
    /\ Working("push") /\ worker.stop
    /\ worker' = [worker EXCEPT !.step = "exited", !.unit = None]
    /\ UNCHANGED <<server, l1, dev, dir, heap, values, free, ram, caller>>

\* A stop while the device pushes gives the extent back.
AbandonPush ==
    /\ Working("push") /\ worker.stop
    /\ free' = free \cup ({worker.unit} \ {None})
    /\ worker' = [worker EXCEPT !.step = "exited", !.unit = None]
    /\ UNCHANGED <<server, l1, dev, dir, heap, values, ram, caller>>

\* Without an extent the value is copied out of the staging window.
Publish ==
    /\ Working("publish")
    /\ values' = [values EXCEPT ![worker.slot] =
                    [unit |-> worker.unit,
                     heap |-> IF worker.unit = None THEN ram[None] ELSE Whole(0)]]
    /\ worker' = [worker EXCEPT !.step = "finish", !.unit = None]
    /\ UNCHANGED <<server, l1, dev, dir, heap, free, ram, caller>>

\* stage_value_device_to_host: no mapping, hence no pool, hence a heap value.
Copy ==
    /\ Working("copy")
    /\ values' = [values EXCEPT ![worker.slot] =
                    [unit |-> None, heap |-> ReadUnits(Base(worker.slot))]]
    /\ WorkerTo("finish")
    /\ UNCHANGED <<server, l1, dev, dir, heap, free, ram, caller>>

Drop ==
    /\ Working("drop")
    /\ free' = Dropped(worker.slot)
    /\ values' = [values EXCEPT ![worker.slot] = None]
    /\ WorkerTo("finish")
    /\ UNCHANGED <<server, l1, dev, dir, heap, ram, caller>>

\* promote_read_off decides once where the device reads the value from.  A
\* mapped host-serve posts its commit first and streams; the rest stage first.
Fused == worker.op = "serve" /\ server.mapped

Source ==
    /\ Working("source")
    /\ worker' = [worker EXCEPT
                    !.unit = IF values[worker.slot] = None THEN None
                             ELSE values[worker.slot].unit,
                    !.commits = Inc(@),
                    !.step = IF Fused THEN "reset" ELSE "stage"]
    /\ UNCHANGED <<server, l1, dev, dir, heap, values, free, ram, caller>>

\* The progress of the last transfer must not release this one.
ResetProgress ==
    /\ Working("reset")
    /\ l1' = [l1 EXCEPT !.progress = 0]
    /\ WorkerTo("post")
    /\ UNCHANGED <<server, dev, dir, heap, values, free, ram, caller>>

Stage ==
    /\ Working("stage")
    /\ values[worker.slot] # None
    /\ IF server.mapped
       THEN /\ ram' = IF worker.unit # None THEN ram
                      ELSE [ram EXCEPT ![None] = HostBytes(worker.slot)]
            /\ UNCHANGED heap
       ELSE /\ heap' = WriteUnits(Base(worker.slot), HostBytes(worker.slot))
            /\ UNCHANGED ram
    /\ WorkerTo("post")
    /\ UNCHANGED <<server, l1, dev, dir, values, free, caller>>

PostCommit ==
    /\ Working("post")
    /\ l1' = [l1 EXCEPT !.commitUnit = worker.unit, !.commit = worker.commits]
    /\ WorkerTo(IF Fused THEN "stream" ELSE "pull")
    /\ UNCHANGED <<server, dev, dir, heap, values, free, ram, caller>>

\* Mutant: the last block is published whole.
StreamWholeBlocks ==
    /\ Working("stream")
    /\ values[worker.slot] # None
    /\ LET to == IF worker.unit # None THEN Chunks ELSE l1.progress + StageBlock
       IN  /\ ram' = [ram EXCEPT ![worker.unit] = HostBytes(worker.slot)]
           /\ l1' = [l1 EXCEPT !.progress = to]
           /\ IF to >= Chunks THEN WorkerTo("pull") ELSE UNCHANGED worker
    /\ UNCHANGED <<server, dev, dir, heap, values, free, caller>>

\* stage_host_value_for_stream: one write releases a value read in place; a
\* copied one is released block by block.
Stream ==
    /\ Working("stream")
    /\ values[worker.slot] # None
    /\ LET last == l1.progress + StageBlock
           to == IF last < Chunks THEN last ELSE Chunks
       IN  IF worker.unit # None
           THEN /\ l1' = [l1 EXCEPT !.progress = Chunks]
                /\ WorkerTo("pull")
                /\ UNCHANGED ram
           ELSE /\ ram' = [ram EXCEPT ![None] =
                             [k \in 1..Chunks |->
                                 IF k \in (l1.progress + 1)..to
                                 THEN HostBytes(worker.slot)[k]
                                 ELSE ram[None][k]]]
                /\ l1' = [l1 EXCEPT !.progress = to]
                /\ IF to = Chunks THEN WorkerTo("pull") ELSE UNCHANGED worker
    /\ UNCHANGED <<server, dev, dir, heap, values, free, caller>>

Pulled ==
    /\ Working("pull") /\ ~worker.stop
    /\ l1.pulled = worker.commits
    /\ worker' = [worker EXCEPT !.step = "finish", !.unit = None]
    /\ UNCHANGED <<server, l1, dev, dir, heap, values, free, ram, caller>>

Finished ==
    /\ Working("finish")
    /\ worker' = [worker EXCEPT !.step = "poll", !.seen = Inc(@)]
    /\ l1' = [l1 EXCEPT !.processed = Inc(worker.seen)]
    /\ UNCHANGED <<server, dev, dir, heap, values, free, ram, caller>>

\* Mutant: the wait for the device's pull does not look at worker_stop_.
StoppedBetweenRequestsOnly ==
    /\ Working("poll") /\ worker.stop
    /\ worker' = [worker EXCEPT !.step = "exited"]
    /\ UNCHANGED <<server, l1, dev, dir, heap, values, free, ram, caller>>

Stopped ==
    /\ worker.step \in {"poll", "pull"} /\ worker.stop
    /\ worker' = [worker EXCEPT !.step = "exited", !.unit = None]
    /\ UNCHANGED <<server, l1, dev, dir, heap, values, free, ram, caller>>

\* A throw of a device access, an allocation or a TT_FATAL ends the thread.
Raise ==
    /\ worker.step \notin {"none", "gated", "exited"}
    /\ worker' = [worker EXCEPT !.step = "exited", !.failed = TRUE, !.stop = TRUE]
    /\ UNCHANGED <<server, l1, dev, dir, heap, values, free, ram, caller>>

WorkerStep ==
    \/ Poll \/ Reserve \/ Acknowledge \/ Pushed \/ AbandonPush \/ Publish
    \/ Copy \/ Drop \/ Source \/ ResetProgress \/ Stage \/ PostCommit
    \/ Stream \/ Pulled \/ Finished \/ Stopped

----------------------------------------------------------------------------
(* The directory worker of the kernel, as far as it drives the host.       *)

Device(step) == dev.step = step /\ server.kernel = "running"
ChannelIdle == l1.processed = l1.move
Post(op, s) == l1' = [l1 EXCEPT !.move = Inc(@), !.op = op, !.slot = s]

\* The diagnostics must not run concurrently with requests.
Quiet == caller.op \in {"none", "flush", "close"}

\* A PUT is published in the directory and its backing queued.
IssuePut(s) ==
    /\ Device("loop") /\ Quiet
    /\ dev.puts < MaxPuts
    /\ LET v == dev.puts + 1
       IN  /\ dev' = [dev EXCEPT !.puts = v, !.fifo = Append(@, <<s, v>>)]
           /\ dir' = [dir EXCEPT ![s] = [ver |-> v, at |-> "Pending"]]
           /\ heap' = [u \in HeapUnits |->
                          IF u \in Base(s)..(Base(s) + Chunks - 1) THEN v ELSE heap[u]]
    /\ l1' = [l1 EXCEPT !.issued = Inc(@)]
    /\ UNCHANGED <<server, worker, values, free, ram, caller>>

Current(token) ==
    dir[token[1]] # None /\ dir[token[1]].ver = token[2]

\* The head of the FIFO was overwritten or removed: it needs no backing.
SkipStale ==
    /\ Device("loop") /\ dev.fifo # <<>>
    /\ ~Current(Head(dev.fifo))
    /\ dev' = [dev EXCEPT !.fifo = Tail(@)]
    /\ l1' = [l1 EXCEPT !.committed = Inc(@)]
    /\ UNCHANGED <<server, worker, dir, heap, values, free, ram, caller>>

WriteThrough ==
    /\ Device("loop") /\ ChannelIdle /\ dev.fifo # <<>>
    /\ Current(Head(dev.fifo))
    /\ Post("write", Head(dev.fifo)[1])
    /\ dev' = [dev EXCEPT !.step = IF server.mapped THEN "ack" ELSE "drain",
                          !.op = "write", !.slot = Head(dev.fifo)[1],
                          !.ver = Head(dev.fifo)[2], !.chunk = 0]
    /\ UNCHANGED <<server, worker, dir, heap, values, free, ram, caller>>

ReadAck ==
    /\ Device("ack")
    /\ l1.ack # dev.acks
    /\ dev' = [dev EXCEPT !.step = "push", !.acks = l1.ack, !.unit = l1.ackUnit]
    /\ UNCHANGED <<server, worker, l1, dir, heap, values, free, ram, caller>>

\* The worker looks at the bytes only after the count.
Push ==
    /\ Device("push")
    /\ ram' = [ram EXCEPT ![dev.unit] = [k \in 1..Chunks |-> heap[Base(dev.slot) + k - 1]]]
    /\ l1' = [l1 EXCEPT !.evicted = Inc(@)]
    /\ dev' = [dev EXCEPT !.step = "drain"]
    /\ UNCHANGED <<server, worker, dir, heap, values, free, caller>>

\* The request is over when the worker has caught up with the channel.
Drain ==
    /\ Device("drain") /\ ChannelIdle
    /\ dev' = [dev EXCEPT !.step = "loop", !.op = "none", !.slot = None,
                          !.ver = 0, !.unit = None, !.chunk = 0, !.got = Whole(0),
                          !.fifo = IF dev.op = "write" THEN Tail(@) ELSE @]
    /\ dir' = IF dev.op \in {"write", "promote"}
              THEN [dir EXCEPT ![dev.slot].at = "Device"] ELSE dir
    /\ heap' = IF dev.op # "promote" THEN heap
               ELSE [u \in HeapUnits |->
                        IF u \in Base(dev.slot)..(Base(dev.slot) + Chunks - 1)
                        THEN dev.got[u - Base(dev.slot) + 1] ELSE heap[u]]
    /\ l1' = CASE dev.op = "write" -> [l1 EXCEPT !.committed = Inc(@)]
               [] dev.op = "remove" -> [l1 EXCEPT !.done = Inc(@)]
               [] OTHER -> l1
    /\ UNCHANGED <<server, worker, values, free, ram, caller>>

\* The device copy goes; its heap units may hold anything from now on.
Evict(s) ==
    /\ Device("loop") /\ Quiet
    /\ dir[s] # None /\ dir[s].at = "Device"
    /\ dir' = [dir EXCEPT ![s].at = "Host"]
    /\ heap' = [u \in HeapUnits |->
                   IF u \in Base(s)..(Base(s) + Chunks - 1) THEN 0 ELSE heap[u]]
    /\ UNCHANGED <<server, worker, l1, dev, values, free, ram, caller>>

FetchFromHost(op, s) ==
    /\ Device("loop") /\ ChannelIdle
    /\ op = "promote" => Quiet
    /\ dev.serves < MaxServes
    /\ dir[s] # None /\ dir[s].at = "Host"
    /\ Post(op, s)
    /\ dev' = [dev EXCEPT !.step = "pull", !.op = op, !.slot = s,
                          !.ver = dir[s].ver, !.serves = @ + 1]
    /\ UNCHANGED <<server, worker, dir, heap, values, free, ram, caller>>

ReadCommit ==
    /\ Device("pull")
    /\ l1.commit # dev.commits
    /\ dev' = [dev EXCEPT !.step = "stream", !.commits = l1.commit,
                          !.unit = l1.commitUnit, !.chunk = 0]
    /\ UNCHANGED <<server, worker, l1, dir, heap, values, free, ram, caller>>

\* A mapped host-serve is gated by the staged progress; the rest is staged.
Available == IF dev.op = "serve" /\ server.mapped THEN l1.progress ELSE Chunks

Pull ==
    /\ Device("stream")
    /\ dev.chunk < Available
    /\ LET last == Available = Chunks
       IN  /\ dev' = [dev EXCEPT
                        !.chunk = Available,
                        !.got = [k \in 1..Chunks |->
                                    IF k \notin (dev.chunk + 1)..Available
                                    THEN dev.got[k]
                                    ELSE IF server.mapped THEN ram[dev.unit][k]
                                    ELSE heap[Base(dev.slot) + k - 1]],
                        !.step = IF last THEN "drain" ELSE "stream"]
           /\ l1' = IF last THEN [l1 EXCEPT !.pulled = Inc(@)] ELSE l1
    /\ UNCHANGED <<server, worker, dir, heap, values, free, ram, caller>>

\* A hit is cleared before its backing; the answer waits for the worker.
ServeRemove ==
    /\ Device("loop") /\ ChannelIdle
    /\ l1.request # dev.request
    /\ LET s == l1.mailbox
       IN  IF dir[s] = None
           THEN /\ dev' = [dev EXCEPT !.request = l1.request]
                /\ l1' = [l1 EXCEPT !.done = Inc(@)]
                /\ UNCHANGED dir
           ELSE /\ dev' = [dev EXCEPT !.request = l1.request, !.step = "drain",
                                      !.op = "remove", !.slot = s]
                /\ Post("remove", s)
                /\ dir' = [dir EXCEPT ![s] = None]
    /\ UNCHANGED <<server, worker, heap, values, free, ram, caller>>

\* Every wait of the kernel, and its loop, looks at the termination word.
Terminated ==
    /\ server.kernel = "running" /\ server.signalled /\ dev.step # "push"
    /\ server' = [server EXCEPT !.kernel = "stopped"]
    /\ UNCHANGED <<worker, l1, dev, dir, heap, values, free, ram, caller>>

DeviceStep ==
    \/ SkipStale \/ WriteThrough \/ ReadAck \/ Push \/ Drain \/ ReadCommit
    \/ Pull \/ ServeRemove \/ Terminated

Requests ==
    \E s \in Slots : IssuePut(s) \/ Evict(s)
                     \/ \E op \in {"serve", "promote"} : FetchFromHost(op, s)

----------------------------------------------------------------------------
(* Host operations.                                                        *)

Calling(step) == caller.step = step
CallerTo(step) == caller' = [caller EXCEPT !.step = step]
Return == caller' = Idle(caller.ops, caller.closes)
Others == <<worker, l1, dev, dir, heap, values, free, ram>>

\* A throw leaves the operation.  The destructor closes, closes again when
\* that throws and quarantines when the second close throws too.
Throw ==
    IF caller.attempt = 2
    THEN caller' = [caller EXCEPT !.step = "stop", !.attempt = 3]
    ELSE \/ Return
         \/ /\ caller.op = "close"
            /\ caller' = [caller EXCEPT !.step = "enter", !.attempt = 2]

CheckReady == server.life = "Ready" /\ server.running /\ ~worker.failed

Begin(op, s) ==
    /\ Calling("idle") /\ caller.ops < MaxOps
    /\ CheckReady
    /\ caller' = [Idle(caller.ops + 1, caller.closes) EXCEPT
                    !.op = op, !.slot = s, !.step = "drain"]
    /\ UNCHANGED <<server, Others>>

BeginClose ==
    /\ Calling("idle") /\ caller.closes < MaxCloses
    /\ server.life \in {"Ready", "Closing"}
    /\ caller' = [Idle(caller.ops, caller.closes + 1) EXCEPT
                    !.op = "close", !.step = "enter", !.attempt = 1]
    /\ UNCHANGED <<server, Others>>

\* Only the first close of a Ready Server drains.
Enter ==
    /\ Calling("enter")
    /\ server' = [server EXCEPT !.life = "Closing"]
    /\ CallerTo(IF server.life = "Ready" /\ ~worker.failed THEN "drain" ELSE "terminate")
    /\ UNCHANGED Others

Unready == server' = IF caller.op = "close" /\ ~worker.failed
                     THEN [server EXCEPT !.life = "Ready"] ELSE server

DrainTarget ==
    /\ Calling("drain") /\ ~worker.failed
    /\ caller' = [caller EXCEPT !.step = "wait", !.target = l1.issued,
                                !.drained = dev.puts]
    /\ UNCHANGED <<server, Others>>

\* Mutant: the counters are compared as if they never wrapped.
CoveredUnlessWrapped == l1.committed >= caller.target

Covered == l1.committed = caller.target \/ Ahead(l1.committed, caller.target)

Drained ==
    /\ Calling("wait") /\ ~worker.failed
    /\ Covered
    /\ CallerTo(CASE caller.op = "get" -> "lookup"
                  [] caller.op = "remove" -> "mailbox"
                  [] caller.op = "flush" -> "answer"
                  [] OTHER -> "terminate")
    /\ UNCHANGED <<server, Others>>

\* A failed worker or the deadline.  A close goes on past a failed worker and
\* makes the Server usable again after a deadline.
DrainThrows ==
    /\ \/ Calling("drain") /\ worker.failed
       \/ Calling("wait") /\ (worker.failed \/ ~Covered)
    /\ Unready
    /\ IF caller.op = "close" /\ worker.failed THEN CallerTo("terminate") ELSE Throw
    /\ UNCHANGED Others

\* exists: a live entry holds the key.  cache_state adds whether the slot has
\* a host value.
Found(s) == dir[s] # None
Backed(s) == values[s] # None

\* Directory images without the key are read again up to kDirReadMaxRetries
\* times; a miss that stays is the answer.
Lookup ==
    /\ Calling("lookup")
    /\ caller' = IF ~Found(caller.slot) THEN [caller EXCEPT !.step = "answer"]
                 ELSE [caller EXCEPT !.step = "read", !.ver = dir[caller.slot].ver,
                                     !.at = dir[caller.slot].at]
    /\ UNCHANGED <<server, Others>>

\* get reads the tier the directory recorded.
ReadValue ==
    /\ Calling("read")
    /\ caller' = [caller EXCEPT
                    !.step = "answer",
                    !.backed = Backed(caller.slot),
                    !.got = IF caller.at # "Host" THEN ReadUnits(Base(caller.slot))
                            ELSE IF ~Backed(caller.slot) THEN None
                            ELSE HostBytes(caller.slot)]
    /\ UNCHANGED <<server, Others>>

\* remove: mailbox, then count; the count is the shared one plus one.
WriteMailbox ==
    /\ Calling("mailbox")
    /\ caller' = [caller EXCEPT !.step = "request", !.target = Inc(l1.request)]
    /\ l1' = [l1 EXCEPT !.mailbox = caller.slot]
    /\ UNCHANGED <<server, worker, dev, dir, heap, values, free, ram>>

PostRequest ==
    /\ Calling("request")
    /\ l1' = [l1 EXCEPT !.request = caller.target]
    /\ CallerTo("reply")
    /\ UNCHANGED <<server, worker, dev, dir, heap, values, free, ram>>

\* Mutant: the count the device has posted is taken for its answer.
RemovedWhenSeen ==
    /\ Calling("reply") /\ ~worker.failed
    /\ l1.request = caller.target
    /\ CallerTo("answer")
    /\ UNCHANGED <<server, Others>>

Removed ==
    /\ Calling("reply") /\ ~worker.failed
    /\ l1.done = caller.target
    /\ CallerTo("answer")
    /\ UNCHANGED <<server, Others>>

RemoveThrows ==
    /\ Calling("reply")
    /\ worker.failed \/ l1.done # caller.target
    /\ Throw
    /\ UNCHANGED <<server, Others>>

Answer == Calling("answer") /\ Return /\ UNCHANGED <<server, Others>>

\* terminate_server_kernel
Signal ==
    /\ Calling("terminate")
    /\ server' = IF server.workload THEN [server EXCEPT !.signalled = TRUE] ELSE server
    /\ CallerTo(IF server.workload THEN "finish" ELSE "stop")
    /\ UNCHANGED Others

Finish ==
    /\ Calling("finish") /\ server.kernel # "running"
    /\ server' = [server EXCEPT !.running = FALSE, !.workload = FALSE]
    /\ CallerTo("stop")
    /\ UNCHANGED Others

\* Finish itself throws, or the injected failure follows it.
FinishThrows ==
    /\ Calling("finish")
    /\ \E running \in {server.running, FALSE} :
           /\ ~running => server.kernel # "running"
           /\ server' = [server EXCEPT !.running = running]
    /\ Throw
    /\ UNCHANGED Others

StopWorker ==
    /\ Calling("stop")
    /\ worker' = [worker EXCEPT !.stop = TRUE]
    /\ CallerTo("join")
    /\ UNCHANGED <<server, l1, dev, dir, heap, values, free, ram>>

\* Mutant: the members are destroyed without the join.
JoinWithoutWaiting ==
    /\ Calling("join")
    /\ server' = [server EXCEPT !.life = "Closed", !.memory = "freed",
                                !.slot = FALSE]
    /\ values' = [s \in Slots |-> None]
    /\ free' = {}
    /\ Return
    /\ UNCHANGED <<worker, l1, dev, dir, heap, ram>>

\* After the join: everything goes, or the destructor quarantines it.
Join ==
    /\ Calling("join") /\ worker.step = "exited"
    /\ IF caller.attempt = 3
       THEN /\ server' = [server EXCEPT !.life = "Quarantined", !.memory = "kept"]
            /\ UNCHANGED <<values, free>>
       ELSE /\ server' = [server EXCEPT !.life = "Closed", !.memory = "freed",
                                        !.slot = FALSE]
            /\ values' = [s \in Slots |-> None]
            /\ free' = {}
    /\ Return
    /\ UNCHANGED <<worker, l1, dev, dir, heap, ram>>

Calls ==
    \/ \E op \in {"get", "remove"}, s \in Slots : Begin(op, s)
    \/ Begin("flush", None)
    \/ BeginClose

CallerStep ==
    \/ Enter \/ DrainTarget \/ Drained \/ DrainThrows \/ Lookup \/ ReadValue
    \/ WriteMailbox \/ PostRequest \/ Removed \/ RemoveThrows \/ Answer
    \/ Signal \/ Finish \/ StopWorker \/ Join

Next ==
    \/ Construction \/ Calls \/ Requests
    \/ WorkerStep \/ Raise \/ DeviceStep \/ CallerStep \/ FinishThrows

Spec == Init /\ [][Next]_vars

----------------------------------------------------------------------------
(* Properties.                                                             *)

\* drop_host_value, pool_alloc and pool_release in reserve, publish, drop and
\* the abandoned push: an extent is free, or of one host value, or the one
\* destination in flight, and while the worker has not failed none is lost.
PoolAccounted ==
    LET Of(s) == IF values[s] = None THEN {} ELSE {values[s].unit} \ {None}
        InFlight == IF worker.step \in {"ack", "push", "publish"}
                    THEN {worker.unit} \ {None} ELSE {}
        Resident == UNION {Of(s) : s \in Slots}
    IN  /\ \A s, t \in Slots : s # t => Of(s) \cap Of(t) = {}
        /\ free \cap (Resident \cup InFlight) = {}
        /\ InFlight \cap Resident = {}
        /\ (server.mapped /\ server.memory = "held" /\ ~worker.failed)
               => free \cup Resident \cup InFlight = Units

\* The order of destination, push, publication and processed count, of staging
\* and commit, and of progress and data: a value the directory calls durable
\* has a whole backing of that PUT, the device copy is that PUT's too, and what
\* the device pulled for a GET or a promotion is the value it asked for.
TransfersWhole ==
    /\ server.memory = "held" =>
        \A s \in Slots : dir[s] # None =>
            /\ dir[s].at # "Pending" =>
                   values[s] # None /\ HostBytes(s) = Whole(dir[s].ver)
            /\ dir[s].at # "Host" => ReadUnits(Base(s)) = Whole(dir[s].ver)
    /\ (dev.step = "drain" /\ dev.op \in {"serve", "promote"})
           => dev.got = Whole(dev.ver)

\* drain_inflight_puts with wrapping counters: an operation that went past its
\* drain without a worker failure left no PUT issued before it unbacked.
DrainCoversIssuedPuts ==
    (caller.step \in {"lookup", "read", "mailbox", "request", "reply", "answer",
                      "terminate"} /\ ~worker.failed)
        => \A i \in 1..Len(dev.fifo) : dev.fifo[i][2] > caller.drained

\* get, cache_state and remove answer from the directory, the map and the
\* mailbox they read one after the other: get returns the whole value of the
\* entry it found, an entry is host backed, a removed key is gone.
HostOperationsAnswer ==
    caller.step = "answer" =>
        LET s == caller.slot
        IN  /\ caller.op = "get" => \/ caller.ver # 0 /\ caller.got = Whole(caller.ver)
                                    \/ caller.got = None /\ dir[s] = None
            /\ caller.op = "get" => caller.backed \/ dir[s] = None
            /\ caller.op = "remove" => dir[s] = None

\* close(), the failed construction and the quarantine: what the kernel and the
\* worker address, and the slot of the core, go only after both have ended.
MemoryOutlivesUsers ==
    (server.memory = "freed" \/ ~server.slot)
        => /\ server.kernel # "running"
           /\ worker.step \in {"none", "exited"}

\* worker_stop_ and the termination word in every wait: while a close waits for
\* the kernel to finish or for the worker to be joined, the one it waits for
\* can take a step, whatever the other side of its handshake still owes it.
TeardownNeverStuck ==
    /\ caller.step = "finish" => server.kernel # "running" \/ ENABLED DeviceStep
    /\ caller.step = "join" => worker.step = "exited" \/ ENABLED WorkerStep
============================================================================
