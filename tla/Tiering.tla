------------------------------ MODULE Tiering ------------------------------
(***************************************************************************)
(* The request path of one Server in mapped-host mode, and the two         *)
(* processors and one thread that share it:                                *)
(*                                                                         *)
(*   NCRISC   takes one Client request at a time, asks BRISC through the   *)
(*            directory mailbox and answers the Client;                    *)
(*   BRISC    owns the directory, the pending-host FIFO and the device     *)
(*            cache, and posts host work on the single-slot move channel;  *)
(*   worker   Server::Impl's tiering thread: it serves the move channel    *)
(*            and keeps the authoritative host copy of every value.        *)
(*                                                                         *)
(* Both processors run device code (the KV-cache protocol patch to         *)
(* tt-metal); the worker is server_tiering.cpp on top of                   *)
(* server_device_runtime_io.cpp.  Cumulative counter pairs are kept as     *)
(* their difference, which is all the code compares.                       *)
(***************************************************************************)
EXTENDS Integers, Sequences, FiniteSets

CONSTANTS
    Clients,
    Keys,
    Slots,            \* directory slots: max_keys
    None,             \* no key, no slot
    Operations,       \* the request kinds Clients issue
    Tokens,           \* values of request_seq: two Clients may use the same one
    NumChunks,        \* transfer groups of one value
    DeviceBlocks,     \* cache blocks of the device value heap
    HighWatermark,    \* put_host_queue_high_watermark
    GenerationSpan,   \* host generations are uint32_t: 2^32 in the code
    MaxPuts           \* bound: PUTs in a behaviour

ASSUME NoneAssumption == None \notin Keys \cup Slots
ASSUME ChunksAssumption == NumChunks \in Nat /\ NumChunks > 1
ASSUME BlocksAssumption == DeviceBlocks \in Nat \ {0}
ASSUME SlotsAssumption == IsFiniteSet(Slots)
ASSUME OperationsAssumption ==
    Operations \subseteq {"PUT", "GET", "EXISTS", "COMMIT_BARRIER", "REMOVE",
                          "MOVE_TO_HOST", "MOVE_TO_DEVICE"}
ASSUME WatermarkAssumption == HighWatermark \in 1 .. Cardinality(Slots)
ASSUME GenerationAssumption == GenerationSpan \in Nat /\ GenerationSpan > 1
ASSUME MaxPutsAssumption == MaxPuts \in Nat \ {0}

VARIABLES
    \* NCRISC and the Clients
    op,               \* the request being served
    fenced,           \* Clients whose commit_barrier() was answered and which ask next
    frontier,         \* put_issued_total - commit_done
    puts,             \* PUTs submitted so far; each writes a value of its own
    reply,            \* the answer to the last GET or EXISTS
    \* BRISC: directory, device cache, FIFO
    dir,
    dev,              \* the bytes of the cache block that belongs to each slot
    reserved,         \* directory_state[kDirReservedSlotWord]
    fifo,             \* pending-host FIFO: slot and token
    force,            \* force_put_host_commit
    stream,           \* put_stream_*: a PUT that writes through while it is received
    progress,         \* *direct_put_progress - direct_progress_seen
    promote,          \* pending_promote_slot
    brisc,            \* where BRISC is
    job,              \* what it is waiting to finish there
    \* the channels between BRISC and the worker
    move_req,         \* the move_req slot
    move_pending,     \* move_req_sem - move_processed
    ack,              \* evict_ack: where to push and the host generation
    ack_pending,      \* evict_ack_sem # evict_ack_seen
    push_pending,     \* external_evict_issued_ # evict_done
    commit_req,       \* commit_req slot: directory slot and source
    commit_pending,   \* commit_req_sem # commit_req_seen
    supply_pending,   \* external_commit_issued_ # promote_done
    stage_progress,
    \* the worker and host memory
    worker,
    wreq,             \* external_host_request_
    host_values,
    meta,             \* mapped pool metadata: the generation of each slot's extent, 0 if none
    generations,      \* pool_meta_generations_
    pool,             \* the bytes of each slot's extent
    window            \* the staging window

clientVars  == <<op, fenced, frontier, puts, reply>>
cacheVars   == <<dir, dev, reserved, fifo, force, stream, progress, promote>>
channelVars == <<move_req, move_pending, ack, ack_pending, push_pending,
                 commit_req, commit_pending, supply_pending, stage_progress>>
workerVars  == <<worker, wreq, host_values, meta, generations, pool, window>>
vars == <<clientVars, cacheVars, brisc, job, channelVars, workerVars>>

Chunks == 1 .. NumChunks
Values == 0 .. MaxPuts                     \* 0: bytes nobody has written
Bytes == [Chunks -> Values]
Unwritten == [c \in Chunks |-> 0]
Written(v) == [c \in Chunks |-> v]
Present == Written(1)                      \* kStatusFlagFound, as the answer to an EXISTS
Generations == 0 .. (GenerationSpan - 1)

Idle == [kind |-> "NONE", client |-> None, key |-> None, val |-> 0,
         big |-> FALSE, phase |-> "none", landed |-> 0]
Free == [loc |-> "free", key |-> None, tag |-> 0]
NoStream == [state |-> "none", slot |-> None, dst |-> "window", tag |-> 0,
             token |-> 0, pushed |-> 0]
NoJob == [slot |-> None, tag |-> 0, src |-> "window", admit |-> FALSE, got |-> <<>>]
NoBacking == [kind |-> "none", bytes |-> Unwritten]

Tags == Generations \cup Tokens
Sources == {"mapped", "window"}            \* where a value is pushed to or read from

Requests == [kind : Operations \cup {"NONE"}, client : Clients \cup {None},
             key : Keys \cup {None}, val : Values, big : BOOLEAN,
             phase : {"none", "barrier", "prepare", "payload", "publish",
                      "issue", "lookup", "serving"},
             landed : 0 .. NumChunks]
Entries == [loc : {"free", "pending", "device", "host"}, key : Keys \cup {None}, tag : Tags]
QueuedPuts == [slot : Slots, token : Tokens]
Streams == [state : {"none", "prefix", "ready", "tail"}, slot : Slots \cup {None},
            dst : Sources, tag : Generations, token : Tokens \cup {0},
            pushed : 0 .. NumChunks]
Jobs == [slot : Slots \cup {None}, tag : Generations, src : Sources, admit : BOOLEAN,
         got : Seq(Values)]
HostRequests == [op : {"NONE", "WRITE_THROUGH", "REMOVE_BACKING", "HOST_SERVE",
                       "DEVICE_PROMOTE"},
                 slot : Slots \cup {None}]
Backings == [kind : {"none", "heap", "mapped"}, bytes : Bytes]

ClientsTyped ==
    /\ op \in Requests
    /\ fenced \subseteq Clients
    /\ frontier \in -1 .. Cardinality(Slots) + 1
    /\ puts \in Values
    /\ reply \in Bytes
CacheTyped ==
    /\ dir \in [Slots -> Entries]
    /\ dev \in [Slots -> Bytes]
    /\ reserved \in Slots \cup {None}
    /\ fifo \in Seq(QueuedPuts) /\ Len(fifo) <= HighWatermark
    /\ force \in BOOLEAN
    /\ stream \in Streams
    /\ progress \in 0 .. NumChunks
    /\ promote \in Slots \cup {None}
BriscTyped ==
    /\ brisc \in {"loop", "pass_end", "stream_ack", "stream_prefix", "tail_drain",
                  "fifo_ack", "fifo_drain", "remove_drain", "serve_commit", "serve_read"}
    /\ job \in Jobs
ChannelsTyped ==
    /\ move_req \in HostRequests
    /\ move_pending \in 0 .. 2
    /\ ack \in [dst : Sources, tag : Generations]
    /\ ack_pending \in BOOLEAN /\ push_pending \in BOOLEAN
    /\ commit_req \in [slot : Slots \cup {None}, src : Sources]
    /\ commit_pending \in BOOLEAN /\ supply_pending \in BOOLEAN
    /\ stage_progress \in 0 .. NumChunks
WorkerTyped ==
    /\ worker \in {"poll", "retire", "acknowledge", "receive", "supply", "copy",
                   "publish", "await", "complete", "failed"}
    /\ wreq \in HostRequests
    /\ host_values \in [Slots -> Backings]
    /\ meta \in [Slots -> Generations]
    /\ generations \in [Slots -> Generations]
    /\ pool \in [Slots -> Bytes]
    /\ window \in Bytes
TypeOK == ClientsTyped /\ CacheTyped /\ BriscTyped /\ ChannelsTyped /\ WorkerTyped

-----------------------------------------------------------------------------
(* The directory and the device cache.                                     *)

At(d, loc) == { s \in Slots : d[s].loc = loc }
Residents(d) == At(d, "pending") \cup At(d, "device")
Holding(d, k) == { s \in Slots : d[s].loc # "free" /\ d[s].key = k }

\* evict_cached_block: only the location changes; the block's bytes are gone.
Evicted(d, E) == [s \in Slots |-> IF s \in E THEN [d[s] EXCEPT !.loc = "host"] ELSE d[s]]
Dropped(E) == [s \in Slots |-> IF s \in E THEN Unwritten ELSE dev[s]]

\* Mutant: the victim scan does not skip pending entries.
MakesRoomEvictingPending(d, E) ==
    E \subseteq Residents(d) /\ Cardinality(Residents(d) \ E) < DeviceBlocks

\* allocate_cache_block finds a block after evicting E, committed residents only.
\* Block sizes and PUT leases are left open: any E that makes room will do.
MakesRoom(d, E) ==
    E \subseteq At(d, "device") /\ Cardinality(Residents(d) \ E) < DeviceBlocks

\* It fails after evicting every committed resident: pending blocks are pinned.
NoRoom(d) == Cardinality(At(d, "pending")) >= DeviceBlocks

-----------------------------------------------------------------------------
Init ==
    /\ op = Idle /\ fenced = {} /\ frontier = 0 /\ puts = 0 /\ reply = Unwritten
    /\ dir = [s \in Slots |-> Free]
    /\ dev = [s \in Slots |-> Unwritten]
    /\ reserved = None /\ fifo = <<>> /\ force = FALSE
    /\ stream = NoStream /\ progress = 0 /\ promote = None
    /\ brisc = "loop" /\ job = NoJob
    /\ move_req = [op |-> "NONE", slot |-> None] /\ move_pending = 0
    /\ ack = [dst |-> "window", tag |-> 0] /\ ack_pending = FALSE /\ push_pending = FALSE
    /\ commit_req = [slot |-> None, src |-> "window"] /\ commit_pending = FALSE
    /\ supply_pending = FALSE /\ stage_progress = 0
    /\ worker = "poll" /\ wreq = [op |-> "NONE", slot |-> None]
    /\ host_values = [s \in Slots |-> NoBacking]
    /\ meta = [s \in Slots |-> 0]
    /\ generations = [s \in Slots |-> 0]
    /\ pool = [s \in Slots |-> Unwritten]
    /\ window = Unwritten

-----------------------------------------------------------------------------
(* Clients and NCRISC.  Requests are served one at a time.                 *)

Submit(kind, c, k, phase) ==
    /\ kind \in Operations
    /\ op = Idle
    /\ op' = [Idle EXCEPT !.kind = kind, !.client = c, !.key = k, !.phase = phase]
    /\ reply' = Unwritten
    /\ UNCHANGED <<frontier, puts, cacheVars, brisc, job, channelVars, workerVars>>

Answer == op' = Idle /\ UNCHANGED <<fenced, frontier, puts>>

\* Client::put.  A value of at least kPutStreamMinBytes is received group by group.
Put(c, k, big) ==
    /\ "PUT" \in Operations
    /\ op = Idle /\ puts < MaxPuts
    /\ puts' = puts + 1
    /\ op' = [Idle EXCEPT !.kind = "PUT", !.client = c, !.key = k, !.val = puts + 1,
                          !.big = big, !.phase = "prepare"]
    /\ fenced' = fenced \ {c}
    /\ reply' = Unwritten
    /\ UNCHANGED <<frontier, cacheVars, brisc, job, channelVars, workerVars>>

Get(c, k) == Submit("GET", c, k, "lookup") /\ fenced' = fenced \ {c}

\* ClientOperations::commit_barrier, which also begins every remove and move.
CommitBarrier(c) ==
    Submit("COMMIT_BARRIER", c, None, "barrier") /\ UNCHANGED fenced

\* ClientOperations::exists.
Exists(c, k) == Submit("EXISTS", c, k, "barrier") /\ fenced' = fenced \ {c}

\* Mutant: the prefix comparison is off by one.
BarrierDoneOneShort ==
    /\ op.phase = "barrier" /\ frontier <= 1
    /\ IF op.kind = "EXISTS"
       THEN op' = [op EXCEPT !.phase = "lookup"] /\ UNCHANGED fenced
       ELSE op' = Idle /\ fenced' = fenced \cup {op.client}
    /\ UNCHANGED <<frontier, puts, reply, cacheVars, brisc, job, channelVars, workerVars>>

\* wait_for_commit_prefix: no PUT is issued while NCRISC waits here.  It answers a
\* barrier, and goes on to look up the key of an EXISTS.
BarrierDone ==
    /\ op.phase = "barrier" /\ frontier <= 0
    /\ IF op.kind = "EXISTS"
       THEN op' = [op EXCEPT !.phase = "lookup"] /\ UNCHANGED fenced
       ELSE op' = Idle /\ fenced' = fenced \cup {op.client}
    /\ UNCHANGED <<frontier, puts, reply, cacheVars, brisc, job, channelVars, workerVars>>

\* REMOVE, MOVE_TO_HOST or MOVE_TO_DEVICE after its commit barrier.
FencedOperation(kind, c, k) ==
    /\ c \in fenced
    /\ Submit(kind, c, k, "lookup")
    /\ fenced' = fenced \ {c}

\* The Client writes the next group into the granted block; after a group that
\* is not the last one of a big value it bumps the progress word.  After the
\* last one, NCRISC asks BRISC to publish.
LandChunk ==
    /\ op.phase = "payload"
    /\ LET c == op.landed + 1
       IN /\ dev' = [dev EXCEPT ![reserved][c] = op.val]
          /\ op' = [op EXCEPT !.landed = c,
                              !.phase = IF c = NumChunks THEN "publish" ELSE "payload"]
          /\ progress' = IF op.big /\ c < NumChunks THEN progress + 1 ELSE progress
    /\ UNCHANGED <<fenced, frontier, puts, reply, dir, reserved, fifo, force, stream,
                   promote, brisc, job, channelVars, workerVars>>

\* Mutant: the PUT is not counted as issued.
IssuePutUncounted ==
    /\ op.phase = "issue"
    /\ op' = Idle
    /\ UNCHANGED <<fenced, frontier, puts, reply, cacheVars, brisc, job, channelVars,
                   workerVars>>

\* ++put_issued_total, then landed reaches the Client.
IssuePut ==
    /\ op.phase = "issue"
    /\ frontier' = frontier + 1
    /\ op' = Idle
    /\ UNCHANGED <<fenced, puts, reply, cacheVars, brisc, job, channelVars, workerVars>>

-----------------------------------------------------------------------------
(* BRISC: channel (A), the directory requests.                             *)

\* Post on the single move_req slot.
Post(request, s) ==
    /\ move_req' = [op |-> request, slot |-> s]
    /\ move_pending' = move_pending + 1
    /\ UNCHANGED <<ack, ack_pending, push_pending, commit_req, commit_pending,
                   supply_pending, stage_progress>>

Requested == op.phase \in {"prepare", "publish", "lookup"}

\* Mutant: a PUT that cannot be placed does not force the FIFO.
FifoFirstAtWatermark == Len(fifo) >= HighWatermark

\* force_put_host_commit or the high watermark: commits go before requests.
FifoFirst == fifo # <<>> /\ (force \/ Len(fifo) >= HighWatermark)

\* Mutant: requests are consumed while the move_req slot is busy.
ServesRequestWhileBusy ==
    /\ brisc = "loop" /\ stream.state # "tail"
    /\ Requested
    /\ ~ FifoFirst

\* "Do not consume a new request while the single move_req slot is busy, except
\* for the matching direct-PUT publication."
ServesRequest ==
    /\ brisc = "loop" /\ stream.state # "tail"
    /\ Requested
    /\ stream.state = "ready" \/ move_pending = 0
    /\ ~ FifoFirst

\* Mutant: a key whose previous PUT is still pending is replaced at once.
PrepareSlotsPending(k) ==
    IF Holding(dir, k) # {} THEN Holding(dir, k)
    ELSE IF At(dir, "free") # {} THEN At(dir, "free")
    ELSE Slots \ At(dir, "pending")

\* The catalog slots PUT prepare may take for key k: its own, else a free one,
\* else the least recently used one that is not pending.
PrepareSlots(k) ==
    IF Holding(dir, k) # {} THEN Holding(dir, k) \ At(dir, "pending")
    ELSE IF At(dir, "free") # {} THEN At(dir, "free")
    ELSE Slots \ At(dir, "pending")

\* pending_blocks_next_lease: no room for this block and the next session lease.
PendingBlocksNextLease ==
    /\ fifo # <<>> /\ DeviceBlocks >= 2
    /\ Cardinality(At(dir, "pending")) + 2 > DeviceBlocks

\* PUT prepare is refused; NCRISC asks again.
PrepareRetry ==
    /\ ServesRequest /\ op.phase = "prepare"
    /\ PendingBlocksNextLease \/ PrepareSlots(op.key) = {}
    /\ force' = (force \/ fifo # <<>>)
    /\ UNCHANGED <<clientVars, dir, dev, reserved, fifo, stream, progress, promote,
                   brisc, job, channelVars, workerVars>>

\* The old entry of the slot goes and no block can be found: refused as well.
PrepareStarved(s) ==
    /\ ServesRequest /\ op.phase = "prepare"
    /\ ~ PendingBlocksNextLease /\ s \in PrepareSlots(op.key)
    /\ LET d == [dir EXCEPT ![s] = Free]
       IN /\ NoRoom(d)
          /\ dir' = Evicted(d, At(d, "device"))
          /\ dev' = Dropped(At(d, "device") \cup {s})
    /\ force' = (force \/ fifo # <<>>)
    /\ UNCHANGED <<clientVars, reserved, fifo, stream, progress, promote,
                   brisc, job, channelVars, workerVars>>

\* PUT prepare granted: the slot and a block are reserved and NCRISC goes on to
\* the payload.  With nothing queued, a big value's write-through begins now.
PrepareGrant(s, E) ==
    /\ ServesRequest /\ op.phase = "prepare"
    /\ ~ PendingBlocksNextLease /\ s \in PrepareSlots(op.key)
    /\ LET d == [dir EXCEPT ![s] = Free]
       IN /\ MakesRoom(d, E)
          /\ dir' = Evicted(d, E)
          /\ dev' = Dropped(E \cup {s})
    /\ reserved' = s
    /\ force' = FALSE
    /\ op' = [op EXCEPT !.phase = "payload"]
    /\ IF op.big /\ fifo = <<>>
       THEN /\ Post("WRITE_THROUGH", s)
            /\ brisc' = "stream_ack"
            /\ stream' = [NoStream EXCEPT !.state = "prefix", !.slot = s]
       ELSE UNCHANGED <<channelVars, brisc, stream>>
    /\ UNCHANGED <<fenced, frontier, puts, reply, fifo, progress, promote, job, workerVars>>

\* Mutant: a queued PUT leaves its progress events for the next one.
PublishKeepingProgress(token) ==
    /\ ServesRequest /\ op.phase = "publish"
    /\ dir' = [dir EXCEPT ![reserved] = [loc |-> "pending", key |-> op.key, tag |-> token]]
    /\ reserved' = None
    /\ force' = FALSE
    /\ IF stream.state = "ready"
       THEN stream' = [stream EXCEPT !.state = "tail", !.token = token] /\ UNCHANGED fifo
       ELSE fifo' = Append(fifo, [slot |-> reserved, token |-> token]) /\ UNCHANGED stream
    /\ op' = [op EXCEPT !.phase = "issue"]
    /\ UNCHANGED <<fenced, frontier, puts, reply, dev, progress, promote, brisc, job,
                   channelVars, workerVars>>

\* publish_pending_put: the entry becomes visible and, unless its host copy is
\* already being streamed, joins the FIFO.
Publish(token) ==
    /\ ServesRequest /\ op.phase = "publish"
    /\ dir' = [dir EXCEPT ![reserved] = [loc |-> "pending", key |-> op.key, tag |-> token]]
    /\ reserved' = None
    /\ force' = FALSE
    /\ IF stream.state = "ready"
       THEN /\ stream' = [stream EXCEPT !.state = "tail", !.token = token]
            /\ UNCHANGED <<fifo, progress>>
       ELSE /\ fifo' = Append(fifo, [slot |-> reserved, token |-> token])
            /\ progress' = IF op.big THEN progress - (NumChunks - 1) ELSE progress
            /\ UNCHANGED stream
    /\ op' = [op EXCEPT !.phase = "issue"]
    /\ UNCHANGED <<fenced, frontier, puts, reply, dev, promote, brisc, job,
                   channelVars, workerVars>>

-----------------------------------------------------------------------------
(* BRISC: write-through, streamed during a PUT or from the FIFO.           *)

\* The device pushes groups C of slot s to host memory.
Push(dst, s, C) ==
    IF dst = "window"
    THEN /\ window' = [c \in Chunks |-> IF c \in C THEN dev[s][c] ELSE window[c]]
         /\ UNCHANGED pool
    ELSE /\ pool' = [pool EXCEPT ![s] = [c \in Chunks |-> IF c \in C THEN dev[s][c] ELSE @[c]]]
         /\ UNCHANGED window

\* The host copy of slot s is complete: its entry becomes a committed resident.
Committed(s, tag) == [dir EXCEPT ![s].loc = "device", ![s].tag = tag]

StreamAck ==
    /\ brisc = "stream_ack" /\ ack_pending
    /\ ack_pending' = FALSE
    /\ stream' = [stream EXCEPT !.dst = ack.dst, !.tag = ack.tag]
    /\ brisc' = "stream_prefix"
    /\ UNCHANGED <<clientVars, dir, dev, reserved, fifo, force, progress, promote, job,
                   move_req, move_pending, ack, push_pending, commit_req, commit_pending,
                   supply_pending, stage_progress, workerVars>>

\* kvm_push_streamed_prefix: one group per progress event, all but the last.
StreamPrefix ==
    /\ brisc = "stream_prefix" /\ progress > 0
    /\ progress' = progress - 1
    /\ LET c == stream.pushed + 1
           last == c = NumChunks - 1
       IN /\ Push(stream.dst, stream.slot, {c})
          /\ stream' = [stream EXCEPT !.pushed = c,
                                      !.state = IF last THEN "ready" ELSE "prefix"]
          /\ brisc' = IF last THEN "loop" ELSE "stream_prefix"
    /\ UNCHANGED <<clientVars, dir, dev, reserved, fifo, force, promote, job, channelVars,
                   worker, wreq, host_values, meta, generations>>

\* commit_streamed_put: the last group goes out before anything else is served.
StreamTail ==
    /\ brisc = "loop" /\ stream.state = "tail"
    /\ Push(stream.dst, stream.slot, {NumChunks})
    /\ push_pending' = FALSE
    /\ brisc' = "tail_drain"
    /\ UNCHANGED <<clientVars, cacheVars, job, move_req, move_pending, ack, ack_pending,
                   commit_req, commit_pending, supply_pending, stage_progress,
                   worker, wreq, host_values, meta, generations>>

TailDrain ==
    /\ brisc = "tail_drain" /\ move_pending = 0
    /\ dir' = Committed(stream.slot, stream.tag)
    /\ frontier' = frontier - 1
    /\ stream' = NoStream
    /\ brisc' = "loop"
    /\ UNCHANGED <<op, fenced, puts, reply, dev, reserved, fifo, force, progress, promote,
                   job, channelVars, workerVars>>

\* Mutant: a queued token is taken for current whatever its entry says.
CurrentWithoutToken(q) == TRUE

\* The queued PUT still owns its entry: no REMOVE or reuse has outdated it.
Current(q) == dir[q.slot].loc = "pending" /\ dir[q.slot].tag = q.token

\* Channel (B): nothing to serve, or the FIFO goes first.  A second post on a
\* busy slot is possible here: nothing in the code rules it out.
ServesFifo ==
    /\ brisc = "loop" /\ stream.state # "tail"
    /\ ~ ServesRequest
    /\ fifo # <<>>

\* commit_pending_put finds the token outdated: it still counts as completed.
SkipStale ==
    /\ ServesFifo /\ ~ Current(Head(fifo))
    /\ fifo' = Tail(fifo)
    /\ force' = FALSE
    /\ frontier' = frontier - 1
    /\ brisc' = "pass_end"
    /\ UNCHANGED <<op, fenced, puts, reply, dir, dev, reserved, stream, progress, promote,
                   job, channelVars, workerVars>>

CommitHead ==
    /\ ServesFifo /\ Current(Head(fifo))
    /\ Post("WRITE_THROUGH", Head(fifo).slot)
    /\ brisc' = "fifo_ack"
    /\ UNCHANGED <<clientVars, cacheVars, job, workerVars>>

\* The destination is known: push the value and signal evict_done.
FifoAck ==
    /\ brisc = "fifo_ack" /\ ack_pending
    /\ ack_pending' = FALSE
    /\ Push(ack.dst, Head(fifo).slot, Chunks)
    /\ push_pending' = FALSE
    /\ job' = [NoJob EXCEPT !.slot = Head(fifo).slot, !.tag = ack.tag]
    /\ brisc' = "fifo_drain"
    /\ UNCHANGED <<clientVars, cacheVars, move_req, move_pending, ack, commit_req,
                   commit_pending, supply_pending, stage_progress,
                   worker, wreq, host_values, meta, generations>>

\* wait_for_move_channel_drain, then the entry is committed and commit_done counts.
FifoDrain ==
    /\ brisc = "fifo_drain" /\ move_pending = 0
    /\ dir' = Committed(job.slot, job.tag)
    /\ fifo' = Tail(fifo) /\ force' = FALSE
    /\ frontier' = frontier - 1
    /\ job' = NoJob /\ brisc' = "pass_end"
    /\ UNCHANGED <<op, fenced, puts, reply, dev, reserved, stream, progress, promote,
                   channelVars, workerVars>>

-----------------------------------------------------------------------------
(* BRISC: lookups.                                                         *)

\* What the worker keeps for slot s, and what a source of a supply reads.
BackingBytes(s) == IF host_values[s].kind = "mapped" THEN pool[s] ELSE host_values[s].bytes
SourceBytes(src, s) == IF src = "mapped" THEN pool[s] ELSE window

Serves(kind) == ServesRequest /\ op.phase = "lookup" /\ op.kind = kind

\* EXISTS, whatever tier the key is in; it is not an access.
AnswerExists ==
    /\ Serves("EXISTS")
    /\ reply' = IF Holding(dir, op.key) = {} THEN Unwritten ELSE Present
    /\ Answer
    /\ UNCHANGED <<cacheVars, brisc, job, channelVars, workerVars>>

\* A miss, or a move of a key that is already in, or not yet in, the other tier.
LookupWithoutEffect ==
    /\ ServesRequest /\ op.phase = "lookup" /\ op.kind # "EXISTS"
    /\ CASE op.kind = "MOVE_TO_HOST" -> Holding(dir, op.key) \cap At(dir, "device") = {}
         [] op.kind = "MOVE_TO_DEVICE" -> Holding(dir, op.key) \cap At(dir, "host") = {}
         [] OTHER -> Holding(dir, op.key) = {}
    /\ Answer
    /\ UNCHANGED <<reply, cacheVars, brisc, job, channelVars, workerVars>>

GetResident(s) ==
    /\ Serves("GET") /\ s \in Holding(dir, op.key) \cap Residents(dir)
    /\ reply' = dev[s]
    /\ Answer
    /\ UNCHANGED <<cacheVars, brisc, job, channelVars, workerVars>>

\* The mapped metadata names the generation of the entry: read in place.
ServedInPlace(s) == dir[s].tag # 0 /\ meta[s] = dir[s].tag

\* A GET from the host tier that needs no worker; the block it fills, if one can
\* be had, makes the key resident again.
GetInPlace(s, E, admit) ==
    /\ Serves("GET") /\ s \in Holding(dir, op.key) \cap At(dir, "host")
    /\ ServedInPlace(s)
    /\ IF admit
       THEN /\ MakesRoom(dir, E)
            /\ dir' = [Evicted(dir, E) EXCEPT ![s].loc = "device"]
            /\ dev' = [Dropped(E) EXCEPT ![s] = pool[s]]
       ELSE /\ NoRoom(dir) /\ E = At(dir, "device")
            /\ dir' = Evicted(dir, E)
            /\ dev' = Dropped(E)
    /\ reply' = pool[s]
    /\ Answer
    /\ UNCHANGED <<reserved, fifo, force, stream, progress, promote, brisc, job,
                   channelVars, workerVars>>

\* A GET from the host tier through the staging window: HOST_SERVE.
GetThroughWindow(s, E, admit) ==
    /\ Serves("GET") /\ s \in Holding(dir, op.key) \cap At(dir, "host")
    /\ ~ ServedInPlace(s)
    /\ IF admit THEN MakesRoom(dir, E) ELSE NoRoom(dir) /\ E = At(dir, "device")
    /\ dir' = Evicted(dir, E)
    /\ dev' = Dropped(E)
    /\ Post("HOST_SERVE", s)
    /\ op' = [op EXCEPT !.phase = "serving"]
    /\ job' = [NoJob EXCEPT !.slot = s, !.admit = admit]
    /\ brisc' = "serve_commit"
    /\ UNCHANGED <<fenced, frontier, puts, reply, reserved, fifo, force, stream, progress,
                   promote, workerVars>>

ServeCommit ==
    /\ brisc = "serve_commit" /\ commit_pending
    /\ commit_pending' = FALSE
    /\ job' = [job EXCEPT !.src = commit_req.src]
    /\ brisc' = "serve_read"
    /\ UNCHANGED <<clientVars, cacheVars, move_req, move_pending, ack, ack_pending,
                   push_pending, commit_req, supply_pending, stage_progress, workerVars>>

\* One group is streamed to the Client as soon as stage_progress covers it.
ServeRead ==
    /\ brisc = "serve_read"
    /\ Len(job.got) < NumChunks /\ stage_progress > Len(job.got)
    /\ job' = [job EXCEPT !.got = Append(@, SourceBytes(job.src, job.slot)[Len(@) + 1])]
    /\ UNCHANGED <<clientVars, cacheVars, brisc, channelVars, workerVars>>

\* The whole value is out: commit the admission, then release the worker.
ServeDone ==
    /\ brisc = "serve_read" /\ Len(job.got) = NumChunks
    /\ IF job.admit
       THEN /\ dir' = [dir EXCEPT ![job.slot].loc = "device"]
            /\ dev' = [dev EXCEPT ![job.slot] = job.got]
       ELSE UNCHANGED <<dir, dev>>
    /\ reply' = job.got
    /\ Answer
    /\ supply_pending' = FALSE
    /\ job' = NoJob /\ brisc' = "loop"
    /\ UNCHANGED <<reserved, fifo, force, stream, progress, promote, move_req, move_pending,
                   ack, ack_pending, push_pending, commit_req, commit_pending,
                   stage_progress, workerVars>>

\* REMOVE of a stored key: the entry is freed, then its host copy.
Remove(s) ==
    /\ Serves("REMOVE") /\ s \in Holding(dir, op.key)
    /\ dir' = [dir EXCEPT ![s] = Free]
    /\ dev' = Dropped({s})
    /\ Post("REMOVE_BACKING", s)
    /\ op' = [op EXCEPT !.phase = "serving"]
    /\ brisc' = "remove_drain"
    /\ UNCHANGED <<fenced, frontier, puts, reply, reserved, fifo, force, stream, progress,
                   promote, job, workerVars>>

RemoveDrain ==
    /\ brisc = "remove_drain" /\ move_pending = 0
    /\ Answer
    /\ brisc' = "loop"
    /\ UNCHANGED <<reply, cacheVars, job, channelVars, workerVars>>

\* MOVE_TO_HOST: the cache block is dropped, the host copy already exists.
MoveToHost(s) ==
    /\ Serves("MOVE_TO_HOST") /\ s \in Holding(dir, op.key) \cap At(dir, "device")
    /\ dir' = Evicted(dir, {s})
    /\ dev' = Dropped({s})
    /\ Answer
    /\ UNCHANGED <<reply, reserved, fifo, force, stream, progress, promote, brisc, job,
                   channelVars, workerVars>>

\* MOVE_TO_DEVICE: a block is reserved, the worker is asked and nobody waits.
MoveToDevice(s, E) ==
    /\ Serves("MOVE_TO_DEVICE") /\ s \in Holding(dir, op.key) \cap At(dir, "host")
    /\ MakesRoom(dir, E)
    /\ dir' = Evicted(dir, E)
    /\ dev' = Dropped(E)
    /\ promote' = s
    /\ Post("DEVICE_PROMOTE", s)
    /\ Answer
    /\ UNCHANGED <<reply, reserved, fifo, force, stream, progress, brisc, job, workerVars>>

\* No block can be had: the move is dropped, the evictions it caused are not.
MoveToDeviceStarved(s) ==
    /\ Serves("MOVE_TO_DEVICE") /\ s \in Holding(dir, op.key) \cap At(dir, "host")
    /\ NoRoom(dir)
    /\ dir' = Evicted(dir, At(dir, "device"))
    /\ dev' = Dropped(At(dir, "device"))
    /\ Answer
    /\ UNCHANGED <<reply, reserved, fifo, force, stream, progress, promote, brisc, job,
                   channelVars, workerVars>>

\* Channel (C): the worker has a promoted value ready.
PromoteCommit ==
    /\ \/ brisc = "pass_end"
       \/ brisc = "loop" /\ stream.state # "tail" /\ ~ ServesRequest /\ fifo = <<>>
    /\ commit_pending
    /\ commit_pending' = FALSE
    /\ IF dir[commit_req.slot].loc = "host"
       THEN /\ dir' = [dir EXCEPT ![commit_req.slot].loc = "device"]
            /\ dev' = [dev EXCEPT ![commit_req.slot] =
                         SourceBytes(commit_req.src, commit_req.slot)]
       ELSE UNCHANGED <<dir, dev>>
    /\ supply_pending' = FALSE
    /\ promote' = None
    /\ brisc' = "loop"
    /\ UNCHANGED <<clientVars, reserved, fifo, force, stream, progress, job, move_req,
                   move_pending, ack, ack_pending, push_pending, commit_req,
                   stage_progress, workerVars>>

PassEnd ==
    /\ brisc = "pass_end" /\ ~ commit_pending
    /\ brisc' = "loop"
    /\ UNCHANGED <<clientVars, cacheVars, job, channelVars, workerVars>>

-----------------------------------------------------------------------------
(* The tiering worker: poll_external_host_request, handle_host_request and *)
(* complete_external_host_request, one request at a time.                  *)

\* TT_FATAL(posted == external_seen_ + 1): a post the worker never saw is fatal.
Poll ==
    /\ worker = "poll" /\ move_pending > 0
    /\ wreq' = move_req
    /\ worker' = IF move_pending > 1 THEN "failed"
                 ELSE IF move_req.op \in {"WRITE_THROUGH", "REMOVE_BACKING"} THEN "retire"
                 ELSE "supply"
    /\ UNCHANGED <<clientVars, cacheVars, brisc, job, channelVars,
                   host_values, meta, generations, pool, window>>

\* host_values_.erase: a mapped value's lease returns its extent and metadata.
Retire ==
    /\ worker = "retire"
    /\ LET s == wreq.slot
           mapped == host_values[s].kind = "mapped"
       IN /\ host_values' = [host_values EXCEPT ![s] = NoBacking]
          /\ pool' = IF mapped THEN [pool EXCEPT ![s] = Unwritten] ELSE pool
          /\ meta' = IF mapped THEN [meta EXCEPT ![s] = 0] ELSE meta
    /\ worker' = IF wreq.op = "WRITE_THROUGH" THEN "acknowledge" ELSE "complete"
    /\ UNCHANGED <<clientVars, cacheVars, brisc, job, channelVars, wreq, generations, window>>

\* Mutant: the generation does not wrap.
NextGenerationUnwrapped(g) == g + 1

\* publish_pool_meta skips generation zero.
NextGeneration(g) == IF g + 1 = GenerationSpan THEN 1 ELSE g + 1

\* Mutant: the metadata is published although no extent could be reserved.
AcknowledgeAlwaysTagged(dst) ==
    /\ worker = "acknowledge"
    /\ LET s == wreq.slot
           tag == NextGeneration(generations[s])
       IN /\ generations' = [generations EXCEPT ![s] = tag]
          /\ meta' = [meta EXCEPT ![s] = tag]
          /\ pool' = [pool EXCEPT ![s] = Unwritten]
          /\ ack' = [dst |-> dst, tag |-> tag]
    /\ ack_pending' = TRUE /\ push_pending' = TRUE
    /\ worker' = "receive"
    /\ UNCHANGED <<clientVars, cacheVars, brisc, job, move_req, move_pending, commit_req,
                   commit_pending, supply_pending, stage_progress, wreq, host_values, window>>

\* receive_external_value: reserve an extent, or fall back to the window, and
\* tell BRISC where to push.
Acknowledge(dst) ==
    /\ worker = "acknowledge"
    /\ LET s == wreq.slot
           tag == IF dst = "mapped" THEN NextGeneration(generations[s]) ELSE 0
       IN /\ generations' = IF dst = "mapped" THEN [generations EXCEPT ![s] = tag]
                            ELSE generations
          /\ meta' = IF dst = "mapped" THEN [meta EXCEPT ![s] = tag] ELSE meta
          /\ pool' = IF dst = "mapped" THEN [pool EXCEPT ![s] = Unwritten] ELSE pool
          /\ ack' = [dst |-> dst, tag |-> tag]
    /\ ack_pending' = TRUE /\ push_pending' = TRUE
    /\ worker' = "receive"
    /\ UNCHANGED <<clientVars, cacheVars, brisc, job, move_req, move_pending, commit_req,
                   commit_pending, supply_pending, stage_progress, wreq, host_values, window>>

\* The push is complete: the value becomes the slot's host backing.
Receive ==
    /\ worker = "receive" /\ ~ push_pending
    /\ host_values' = [host_values EXCEPT ![wreq.slot] =
                         IF ack.dst = "mapped" THEN [kind |-> "mapped", bytes |-> Unwritten]
                         ELSE [kind |-> "heap", bytes |-> window]]
    /\ worker' = "complete"
    /\ UNCHANGED <<clientVars, cacheVars, brisc, job, channelVars, wreq, meta,
                   generations, pool, window>>

\* Mutant: the read offset of a leased value is not sent.
SupplySourceAlwaysWindow == "window"

\* Where supply_external_value tells BRISC to read from.
SupplySource == IF host_values[wreq.slot].kind = "mapped" THEN "mapped" ELSE "window"

\* supply_external_value.  A host serve resets the progress word and posts the
\* source at once; a promotion is staged completely first.
Supplied ==
    /\ commit_req' = [slot |-> wreq.slot, src |-> SupplySource]
    /\ commit_pending' = TRUE /\ supply_pending' = TRUE
    /\ IF wreq.op = "HOST_SERVE"
       THEN /\ stage_progress' = 0
            /\ worker' = IF SupplySource = "mapped" THEN "publish" ELSE "copy"
            /\ UNCHANGED window
       ELSE /\ worker' = "await"
            /\ window' = IF SupplySource = "mapped" THEN window
                         ELSE host_values[wreq.slot].bytes
            /\ UNCHANGED stage_progress
    /\ UNCHANGED <<move_req, move_pending, ack, ack_pending, push_pending>>

\* "device requested a host backing that manager does not own" ends the worker.
Supply ==
    /\ worker = "supply"
    /\ IF host_values[wreq.slot].kind = "none"
       THEN worker' = "failed" /\ UNCHANGED <<channelVars, window>>
       ELSE Supplied
    /\ UNCHANGED <<clientVars, cacheVars, brisc, job, wreq, host_values, meta,
                   generations, pool>>

StageCopy ==
    /\ worker = "copy"
    /\ LET c == stage_progress + 1
       IN window' = [window EXCEPT ![c] = host_values[wreq.slot].bytes[c]]
    /\ worker' = "publish"
    /\ UNCHANGED <<clientVars, cacheVars, brisc, job, channelVars, wreq, host_values,
                   meta, generations, pool>>

\* publish_stage_progress, all at once for a value that is read in place.
StagePublish ==
    /\ worker = "publish"
    /\ stage_progress' = IF commit_req.src = "mapped" THEN NumChunks ELSE stage_progress + 1
    /\ worker' = IF stage_progress' = NumChunks THEN "await" ELSE "copy"
    /\ UNCHANGED <<clientVars, cacheVars, brisc, job, move_req, move_pending, ack,
                   ack_pending, push_pending, commit_req, commit_pending, supply_pending,
                   wreq, host_values, meta, generations, pool, window>>

AwaitDone ==
    /\ worker = "await" /\ ~ supply_pending
    /\ worker' = "complete"
    /\ UNCHANGED <<clientVars, cacheVars, brisc, job, channelVars, wreq, host_values,
                   meta, generations, pool, window>>

\* complete_external_host_request: move_processed catches up with this request.
Complete ==
    /\ worker = "complete"
    /\ move_pending' = move_pending - 1
    /\ worker' = "poll"
    /\ UNCHANGED <<clientVars, cacheVars, brisc, job, move_req, ack, ack_pending,
                   push_pending, commit_req, commit_pending, supply_pending,
                   stage_progress, wreq, host_values, meta, generations, pool, window>>

-----------------------------------------------------------------------------
ClientNext ==
    \/ \E c \in Clients, k \in Keys :
          \/ \E big \in BOOLEAN : Put(c, k, big)
          \/ Get(c, k) \/ Exists(c, k)
          \/ \E kind \in {"REMOVE", "MOVE_TO_HOST", "MOVE_TO_DEVICE"} :
                FencedOperation(kind, c, k)
    \/ \E c \in Clients : CommitBarrier(c)

NcriscNext == BarrierDone \/ LandChunk \/ IssuePut

BriscNext ==
    \/ PrepareRetry
    \/ \E s \in Slots : \/ PrepareStarved(s)
                        \/ \E E \in SUBSET Slots : PrepareGrant(s, E)
    \/ \E token \in Tokens : Publish(token)
    \/ StreamAck \/ StreamPrefix \/ StreamTail \/ TailDrain
    \/ SkipStale \/ CommitHead \/ FifoAck \/ FifoDrain
    \/ AnswerExists \/ LookupWithoutEffect
    \/ \E s \in Slots :
          \/ GetResident(s)
          \/ \E E \in SUBSET Slots, admit \in BOOLEAN :
                GetInPlace(s, E, admit) \/ GetThroughWindow(s, E, admit)
          \/ Remove(s) \/ MoveToHost(s) \/ MoveToDeviceStarved(s)
          \/ \E E \in SUBSET Slots : MoveToDevice(s, E)
    \/ ServeCommit \/ ServeRead \/ ServeDone \/ RemoveDrain
    \/ PromoteCommit \/ PassEnd

WorkerNext ==
    \/ Poll \/ Retire \/ \E dst \in {"mapped", "window"} : Acknowledge(dst)
    \/ Receive \/ Supply \/ StageCopy \/ StagePublish
    \/ AwaitDone \/ Complete

Next == ClientNext \/ NcriscNext \/ BriscNext \/ WorkerNext

Spec == Init /\ [][Next]_vars

\* Both processors and the worker thread keep running; Clients need not ask.
FairSpec == Spec /\ WF_vars(NcriscNext) /\ WF_vars(BriscNext) /\ WF_vars(WorkerNext)

-----------------------------------------------------------------------------
\* "Every durable retained catalog entry has byte-identical host backing": a
\* committed resident's host copy equals its cache block, and a host-only entry
\* has one whole copy of one PUT, whatever was queued, streamed or evicted.
DurableEntriesAreBacked ==
    \A s \in At(dir, "device") \cup At(dir, "host") :
       /\ host_values[s].kind # "none"
       /\ BackingBytes(s) \in { Written(v) : v \in 1 .. MaxPuts }
       /\ dir[s].loc = "device" => dev[s] = BackingBytes(s)

\* A GET may trust the metadata: if it names the generation a committed entry
\* carries, then the worker still holds that entry's value in that extent.
MatchingGenerationIsHeld ==
    \A s \in At(dir, "device") \cup At(dir, "host") :
       ServedInPlace(s) => host_values[s].kind = "mapped"

\* No request that reaches the worker makes it throw: none names a backing the
\* worker does not own and none arrives over a request it has not seen.
WorkerNeverFails == worker # "failed"

\* A COMMIT_BARRIER answer means what a REMOVE or a MOVE that follows takes it
\* for: no landed PUT of any Client is pending when it leaves, although stale FIFO
\* entries and commits that overtake the issue count are counted too.
BarrierMeansDurable ==
    [][op.phase = "barrier" /\ op'.phase # "barrier" => At(dir, "pending") = {}]_vars

\* A pending entry is pinned until its backing exists: only the commit of its own
\* host copy, or a REMOVE of its key, may take it out of the pending state.
PendingIsPinned ==
    [][\A s \in At(dir, "pending") :
          dir'[s] # dir[s] => \/ dir'[s].loc = "device" /\ dir'[s].key = dir[s].key
                                 /\ BackingBytes(s) = dev[s] /\ host_values[s].kind # "none"
                              \/ dir'[s] = Free /\ op.kind = "REMOVE"]_vars

\* "The single-slot channel is reusable only when move_req_sem == move_processed."
SlotReusedOnlyWhenDrained ==
    [][move_pending' > move_pending => move_pending = 0]_vars

\* The directory, the cache, the FIFO and the worker together behave like the
\* store KVStore describes: no tier transition is visible to a Client.
Store == INSTANCE KVStore WITH
    kv <- [k \in Keys |->
             IF Holding(dir, k) = {} THEN Unwritten
             ELSE LET s == CHOOSE s \in Holding(dir, k) : TRUE
                  IN IF dir[s].loc = "host" THEN BackingBytes(s) ELSE dev[s]],
    asked <- [kind |-> op.kind, key |-> op.key, val |-> op.val],
    answer <- reply,
    Missing <- Unwritten,
    Capacity <- Cardinality(Slots),
    NoRequest <- [kind |-> "NONE", key |-> None, val |-> 0],
    Written <- Written,
    Present <- Present
ImplementsKV == Store!Spec

\* Every request is answered, however far behind the host copies are.
EveryRequestAnswered == op.kind # "NONE" ~> op.kind = "NONE"
=============================================================================
