--------------------------- MODULE TieringProofs ---------------------------
(***************************************************************************)
(* Proofs about Tiering, for every set of Clients, keys and slots, every   *)
(* number of groups, cache blocks, tokens and PUTs, and every generation   *)
(* span: the host copy of a durable entry is the bytes of one whole PUT,   *)
(* whatever was queued, streamed, promoted or evicted; mapped metadata     *)
(* that names an entry's generation names its extent; a barrier is only    *)
(* answered when nothing is pending; a pending entry stays where it is     *)
(* until its host copy exists; and the tiers together are the store that   *)
(* KVStore describes.  That the worker is never made to throw is proved    *)
(* for one Client, for Clients that never move a value to the device tier, *)
(* and for a cache of one block.                                           *)
(***************************************************************************)
EXTENDS Tiering, FunctionTheorems, FiniteSetTheorems, SequenceTheorems, TLAPS

(* The inductive invariant.                                                *)

\* No signal between BRISC and the worker is outstanding.
Silent == ~ack_pending /\ ~push_pending /\ ~commit_pending /\ ~supply_pending

\* The worker was asked to take a value into slot s and has not told BRISC where.
\* Its answer, once given, is still in the mailbox.
Acknowledging(s) ==
    /\ move_pending = 1 /\ move_req = [op |-> "WRITE_THROUGH", slot |-> s]
    /\ worker # "poll" => wreq = move_req
    /\ ~commit_pending /\ ~supply_pending
    /\ \/ worker \in {"poll", "retire", "acknowledge"} /\ ~ack_pending /\ ~push_pending
       \/ worker = "receive" /\ ack_pending /\ push_pending

\* BRISC has read the answer and is pushing.
Receiving(s) ==
    /\ move_pending = 1 /\ move_req = [op |-> "WRITE_THROUGH", slot |-> s]
    /\ wreq = move_req
    /\ worker = "receive"
    /\ ~ack_pending /\ push_pending /\ ~commit_pending /\ ~supply_pending

\* The push is out and the worker owes only move_processed.
Landed(s) ==
    /\ Silent
    /\ \/ move_pending = 0 /\ worker = "poll"
       \/ /\ move_pending = 1 /\ worker \in {"receive", "complete"}
          /\ move_req = [op |-> "WRITE_THROUGH", slot |-> s] /\ wreq = move_req

\* A REMOVE's host copy is being retired.
Removing ==
    /\ Silent
    /\ \/ move_pending = 0 /\ worker = "poll"
       \/ /\ move_pending = 1 /\ move_req.op = "REMOVE_BACKING"
          /\ move_req.slot \in Slots /\ dir[move_req.slot] = Free
          /\ worker \in {"poll", "retire", "complete"}
          /\ worker # "poll" => wreq = move_req

\* HOST_SERVE of slot s was posted; the source has been posted back or not.
Serving(s, posted) ==
    /\ move_pending = 1 /\ move_req = [op |-> "HOST_SERVE", slot |-> s]
    /\ worker # "poll" => wreq = move_req
    /\ ~ack_pending /\ ~push_pending
    /\ IF posted
       THEN worker \in {"copy", "publish", "await"} /\ supply_pending
       ELSE worker \in {"poll", "supply"} /\ ~commit_pending /\ ~supply_pending

\* A released request: the worker owes only move_processed.
Released ==
    /\ Silent /\ promote = None
    /\ worker \in {"await", "complete"} /\ wreq.op \in {"HOST_SERVE", "DEVICE_PROMOTE"}

\* A promotion nobody waits for is under way.
Promoting ==
    /\ promote \in Slots
    /\ ~ack_pending /\ ~push_pending
    /\ worker # "poll" => wreq = [op |-> "DEVICE_PROMOTE", slot |-> promote]
    /\ \/ worker \in {"poll", "supply"} /\ ~commit_pending /\ ~supply_pending
       \/ worker = "await" /\ commit_pending /\ supply_pending

\* The worker found a second post on the slot.
Overrun == promote # None /\ Silent /\ worker = "failed"

\* Where BRISC is, what it asked the worker for and how far the worker is with it.
Handshake ==
    /\ brisc = "stream_ack" => Acknowledging(stream.slot) /\ stream.state = "prefix"
    /\ brisc = "stream_prefix" => Receiving(stream.slot) /\ stream.state = "prefix"
    /\ brisc = "tail_drain" => Landed(stream.slot) /\ stream.state = "tail"
    /\ brisc = "fifo_ack" =>
          /\ stream.state = "none" /\ fifo # <<>>
          /\ \/ promote = None /\ Acknowledging(Head(fifo).slot)
             \/ /\ move_pending = 2
                /\ move_req = [op |-> "WRITE_THROUGH", slot |-> Head(fifo).slot]
                /\ Released \/ Promoting \/ Overrun
    /\ brisc = "fifo_drain" =>
          /\ stream.state = "none" /\ fifo # <<>>
          /\ job.slot = Head(fifo).slot /\ Landed(job.slot)
    /\ brisc = "remove_drain" => Removing /\ stream.state = "none"
    /\ brisc = "serve_commit" =>
          /\ stream.state = "none"
          /\ Serving(job.slot, FALSE) \/ (Serving(job.slot, TRUE) /\ commit_pending)
    /\ brisc = "serve_read" =>
          stream.state = "none" /\ Serving(job.slot, TRUE) /\ ~commit_pending
    /\ brisc = "pass_end" => stream.state = "none"
    /\ brisc \in {"loop", "pass_end"} =>
          /\ stream.state # "prefix"
          /\ stream.state \in {"ready", "tail"} => Receiving(stream.slot)
          /\ stream.state = "none" =>
                \/ move_pending = 0 /\ worker = "poll" /\ Silent /\ promote = None
                \/ move_pending = 1 /\ Released /\ wreq = move_req
                \/ /\ move_pending = 1 /\ Promoting
                   /\ move_req = [op |-> "DEVICE_PROMOTE", slot |-> promote]
    /\ brisc \notin {"loop", "pass_end", "fifo_ack"} => promote = None
    /\ stream.state # "none" => promote = None

\* Which phases a request goes through, and what it has with it.
Phases ==
    /\ op.kind = "NONE" <=> op = Idle
    /\ op.kind # "NONE" => op.client \in Clients /\ reply = Unwritten
    /\ op.kind # "PUT" => op.val = 0
    /\ op.kind = "PUT" =>
          /\ op.key \in Keys /\ op.val \in 1 .. MaxPuts
          /\ op.phase \in {"prepare", "payload", "publish", "issue"}
          /\ op.phase = "prepare" => op.landed = 0
          /\ op.phase = "payload" => op.landed < NumChunks
          /\ op.phase \in {"publish", "issue"} => op.landed = NumChunks
    /\ op.kind = "GET" => op.key \in Keys /\ op.phase \in {"lookup", "serving"}
    /\ op.kind = "EXISTS" => op.key \in Keys /\ op.phase \in {"barrier", "lookup"}
    /\ op.kind = "COMMIT_BARRIER" => op.phase = "barrier"
    /\ op.kind = "REMOVE" => op.key \in Keys /\ op.phase \in {"lookup", "serving"}
    /\ op.kind \in {"MOVE_TO_HOST", "MOVE_TO_DEVICE"} =>
          op.key \in Keys /\ op.phase = "lookup"
    /\ op.phase = "serving" <=> brisc \in {"serve_commit", "serve_read", "remove_drain"}
    /\ brisc = "remove_drain" => op.kind = "REMOVE"
    /\ brisc \in {"serve_commit", "serve_read"} => op.kind = "GET"

\* A slot is free, or it belongs to a key, and no key has two.
Directory ==
    /\ \A s \in Slots : dir[s].loc = "free" => dir[s] = Free
    /\ \A s \in Slots : dir[s].loc # "free" => dir[s].key \in Keys
    /\ \A s \in Slots : dir[s].loc \in {"device", "host"} => dir[s].tag \in Generations
    /\ \A s, t \in Slots :
          dir[s].loc # "free" /\ dir[t].loc # "free" /\ dir[s].key = dir[t].key => s = t

\* The slot granted to a PUT is free, and so is its key, until it is published;
\* so is the key a REMOVE has freed, until it is answered.
Reservation ==
    /\ reserved # None <=> op.phase \in {"payload", "publish"}
    /\ reserved # None =>
          /\ op.kind = "PUT"
          /\ dir[reserved].loc = "free"
          /\ Holding(dir, op.key) = {}
          /\ \A c \in 1 .. op.landed : dev[reserved][c] = op.val
    /\ brisc = "remove_drain" => Holding(dir, op.key) = {}

Earlier(n) == IF n < NumChunks THEN n ELSE NumChunks - 1

\* A PUT that is written through while it is received: its slot, and how many
\* groups have landed, have been announced and have been pushed.
Streaming ==
    /\ stream.state # "none" => stream.slot \in Slots /\ fifo = <<>>
    /\ stream.state \in {"prefix", "ready"} =>
          /\ reserved = stream.slot /\ op.big
          /\ progress + stream.pushed = Earlier(op.landed)
    /\ stream.state = "prefix" => stream.pushed < NumChunks - 1
    /\ stream.state = "ready" => stream.pushed = NumChunks - 1
    /\ stream.state = "tail" =>
          /\ stream.pushed = NumChunks - 1 /\ progress = 0 /\ reserved = None
          /\ dir[stream.slot].loc = "pending"
    /\ stream.state = "none" =>
          progress = IF reserved # None /\ op.big THEN Earlier(op.landed) ELSE 0
    /\ brisc = "stream_ack" => stream.pushed = 0

\* Every pending entry has a commit to come: a token in the FIFO, or its stream.
Queue ==
    /\ frontier = Len(fifo) + (IF stream.state = "tail" THEN 1 ELSE 0)
                  - (IF op.phase = "issue" THEN 1 ELSE 0)
    /\ \A s \in Slots : dir[s].loc = "pending" =>
          \/ stream.state = "tail" /\ stream.slot = s
          \/ \E i \in 1 .. Len(fifo) : fifo[i].slot = s /\ fifo[i].token = dir[s].tag
    /\ brisc \in {"fifo_ack", "fifo_drain"} => Current(Head(fifo))

Whole(b) == \E v \in 1 .. MaxPuts : b = Written(v)

\* The bytes a GET of slot s returns.
ValueOf(s) == IF dir[s].loc = "host" THEN BackingBytes(s) ELSE dev[s]

\* The value of slot s is in host memory, under its slot.
Backed(s) == host_values[s].kind # "none" /\ BackingBytes(s) = dev[s]

\* The bytes of every entry are those of one PUT, and a durable one has them twice.
Contents ==
    /\ \A s \in Slots : dir[s].loc # "free" => Whole(ValueOf(s))
    /\ \A s \in Slots : dir[s].loc = "host" => host_values[s].kind # "none"
    /\ \A s \in Slots : dir[s].loc = "device" => Backed(s)
    /\ op.phase = "issue" =>
          \E s \in Holding(dir, op.key) : ValueOf(s) = Written(op.val)

\* Metadata is of a held extent, or of the one the worker is receiving into.
Metadata ==
    /\ \A s \in Slots : meta[s] # 0 =>
          host_values[s].kind = "mapped" \/ (worker = "receive" /\ wreq.slot = s)
    /\ worker = "acknowledge" => host_values[wreq.slot].kind # "mapped"
    /\ worker = "receive" /\ ack.dst = "window" => meta[wreq.slot] = 0

\* Of what is being pushed, the groups that are out are in place.
Pushed ==
    /\ \/ brisc = "stream_prefix"
       \/ brisc = "loop" /\ stream.state \in {"ready", "tail"}
       => /\ stream.dst = ack.dst
          /\ \A c \in 1 .. stream.pushed :
                SourceBytes(ack.dst, stream.slot)[c] = dev[stream.slot][c]
    /\ brisc = "tail_drain" =>
          IF worker = "receive" THEN SourceBytes(ack.dst, stream.slot) = dev[stream.slot]
          ELSE Backed(stream.slot)
    /\ brisc = "fifo_drain" =>
          IF worker = "receive" THEN SourceBytes(ack.dst, job.slot) = dev[job.slot]
          ELSE Backed(job.slot)

\* What the worker told BRISC to read is the value it was asked for, as far as
\* the progress word says.
Supplying ==
    /\ brisc \in {"serve_commit", "serve_read"} =>
          /\ job.slot \in Slots /\ dir[job.slot].loc = "host" /\ dir[job.slot].key = op.key
    /\ brisc \in {"serve_commit", "serve_read"} /\ supply_pending =>
          /\ commit_req = [slot |-> job.slot, src |-> SupplySource]
          /\ worker = "copy" => SupplySource = "window" /\ stage_progress < NumChunks
          /\ worker = "publish" => stage_progress < NumChunks
          /\ worker = "await" => stage_progress = NumChunks
          /\ SupplySource = "window" =>
                \A c \in 1 .. (IF worker = "publish" THEN stage_progress + 1
                               ELSE stage_progress) :
                   window[c] = host_values[job.slot].bytes[c]
    /\ brisc = "serve_commit" => job.got = <<>>
    /\ brisc = "serve_read" =>
          /\ job.src = SupplySource
          /\ Len(job.got) <= stage_progress
          /\ \A i \in 1 .. Len(job.got) : job.got[i] = BackingBytes(job.slot)[i]
    /\ promote # None => dir[promote].loc = "host"
    /\ promote # None /\ supply_pending =>
          /\ commit_req = [slot |-> promote, src |-> SupplySource]
          /\ SourceBytes(commit_req.src, promote) = BackingBytes(promote)

IInv ==
    /\ TypeOK
    /\ Handshake
    /\ Phases
    /\ Directory
    /\ Reservation
    /\ Streaming
    /\ Queue
    /\ Contents
    /\ Metadata
    /\ Pushed
    /\ Supplying

\* With one Client nothing is pending where a promotion is: it follows the
\* Client's own barrier.
Fenced ==
    /\ op.kind = "PUT" => fenced = {}
    /\ fenced # {} \/ promote # None
          \/ op.kind \in {"REMOVE", "MOVE_TO_HOST", "MOVE_TO_DEVICE"}
       => At(dir, "pending") = {}

-----------------------------------------------------------------------------
(* What a step leaves alone.                                               *)

(* The counts and sets the model is built from are what they are called.   *)
LEMMA Sizes ==
  /\ NumChunks \in Nat /\ NumChunks > 1 /\ NumChunks - 1 \in Chunks
  /\ Chunks # {} /\ NumChunks \in Chunks /\ 1 \in Chunks
  /\ MaxPuts \in Nat \ {0} /\ GenerationSpan \in Nat /\ GenerationSpan > 1
  /\ Cardinality(Slots) \in Nat /\ HighWatermark \in 1 .. Cardinality(Slots)
  /\ 0 \in Generations /\ 0 \in Values /\ 1 \in Values
  /\ "mapped" \in Sources /\ "window" \in Sources
<1>1. Cardinality(Slots) \in Nat
  BY SlotsAssumption, FS_CardinalityType
<1> QED
  BY <1>1, ChunksAssumption, MaxPutsAssumption, GenerationAssumption, WatermarkAssumption
     DEF Chunks, Generations, Values, Sources

(* The bytes of a PUT, and of nothing, are bytes of a block.               *)
LEMMA BytesOf ==
  ASSUME NEW v \in Values
  PROVE  /\ Written(v) \in Bytes /\ Unwritten \in Bytes
         /\ \A c \in Chunks : Written(v)[c] = v /\ Unwritten[c] = 0
BY Sizes DEF Written, Unwritten, Bytes

(* A client or NCRISC step that writes no byte leaves BRISC, the worker    *)
(* and the channels alone.                                                 *)
LEMMA ClientFrame ==
  ASSUME IInv, UNCHANGED <<cacheVars, brisc, job, channelVars, workerVars>>
  PROVE  /\ CacheTyped' /\ BriscTyped' /\ ChannelsTyped' /\ WorkerTyped'
         /\ Handshake' /\ Directory' /\ Metadata' /\ Pushed'
<1>1. UNCHANGED <<cacheVars, brisc, job, channelVars, workerVars>>
  OBVIOUS
<1>2. CacheTyped'
  BY <1>1 DEF IInv, TypeOK, CacheTyped, cacheVars
<1>3. BriscTyped'
  BY <1>1 DEF IInv, TypeOK, BriscTyped
<1>4. ChannelsTyped'
  BY <1>1 DEF IInv, TypeOK, ChannelsTyped, channelVars
<1>5. WorkerTyped'
  BY <1>1 DEF IInv, TypeOK, WorkerTyped, workerVars
<1>6. Handshake'
  BY <1>1 DEF IInv, Handshake, Acknowledging, Receiving, Landed, Removing, Serving, Released,
     Promoting, Overrun, Silent, cacheVars, channelVars, workerVars
<1>7. Directory'
  BY <1>1 DEF IInv, Directory, cacheVars
<1>8. Metadata'
  BY <1>1 DEF IInv, Metadata, channelVars, workerVars
<1>9. Pushed'
  BY <1>1 DEF IInv, Pushed, Backed, BackingBytes, SourceBytes, cacheVars, channelVars, workerVars
<1> QED
  BY <1>2, <1>3, <1>4, <1>5, <1>6, <1>7, <1>8, <1>9

(* A worker step leaves the requests, the directory and BRISC alone.       *)
LEMMA WorkerFrame ==
  ASSUME IInv, UNCHANGED <<clientVars, cacheVars, brisc, job>>
  PROVE  /\ ClientsTyped' /\ CacheTyped' /\ BriscTyped'
         /\ Phases' /\ Directory' /\ Reservation' /\ Streaming' /\ Queue'
<1>1. UNCHANGED <<clientVars, cacheVars, brisc, job>>
  OBVIOUS
<1>2. ClientsTyped'
  BY <1>1 DEF IInv, TypeOK, ClientsTyped, clientVars
<1>3. CacheTyped'
  BY <1>1 DEF IInv, TypeOK, CacheTyped, cacheVars
<1>4. BriscTyped'
  BY <1>1 DEF IInv, TypeOK, BriscTyped
<1>5. Phases'
  BY <1>1 DEF IInv, Phases, clientVars
<1>6. Directory'
  BY <1>1 DEF IInv, Directory, cacheVars
<1>7. Reservation'
  BY <1>1 DEF IInv, Reservation, Holding, clientVars, cacheVars
<1>8. Streaming'
  BY <1>1 DEF IInv, Streaming, clientVars, cacheVars
<1>9. Queue'
  BY <1>1 DEF IInv, Queue, Current, clientVars, cacheVars
<1> QED
  BY <1>2, <1>3, <1>4, <1>5, <1>6, <1>7, <1>8, <1>9

(* A worker step that leaves the host copies of durable entries alone      *)
(* leaves what a GET would read alone.                                     *)
LEMMA HostCopiesStay ==
  ASSUME IInv, UNCHANGED <<clientVars, cacheVars>>,
         \A s \in Slots : dir[s].loc \in {"device", "host"} =>
            host_values'[s] = host_values[s] /\ pool'[s] = pool[s]
  PROVE  /\ Contents'
         /\ \A s \in Slots : dir[s].loc # "free" => ValueOf(s)' = ValueOf(s)
<1>1. \A s \in Slots : dir[s].loc \in {"device", "host"} => BackingBytes(s)' = BackingBytes(s)
  BY DEF BackingBytes
<1>2. UNCHANGED <<op, dir, dev>>
  BY DEF clientVars, cacheVars
<1>3. \A s \in Slots : ValueOf(s)' = ValueOf(s)
  BY <1>1, <1>2 DEF ValueOf
<1>4. \A s \in Slots : dir[s].loc # "free" => Whole(ValueOf(s))'
  BY <1>2, <1>3 DEF IInv, Contents, Whole
<1>5. \A s \in Slots : dir[s].loc = "host" => (host_values'[s]).kind # "none"
  BY <1>2 DEF IInv, Contents
<1>6. \A s \in Slots : dir[s].loc = "device" => Backed(s)'
  BY <1>1, <1>2 DEF IInv, Contents, Backed
<1>7. op.phase = "issue" =>
        \E s \in Holding(dir, op.key) : (ValueOf(s)' = Written(op.val))
  BY <1>3 DEF IInv, Contents, Holding
<1> QED
  BY <1>2, <1>3, <1>4, <1>5, <1>6, <1>7 DEF Contents

-----------------------------------------------------------------------------
(* The worker.                                                             *)

(* A value is taken in, and a host copy retired, only for a slot that has  *)
(* no durable entry: one that is pending, reserved, or just removed.       *)
LEMMA TargetIsNotDurable ==
  ASSUME IInv, worker \in {"retire", "acknowledge", "receive"} \/ brisc = "stream_prefix"
               \/ (brisc = "loop" /\ stream.state = "tail")
  PROVE  /\ wreq.slot \in Slots /\ dir[wreq.slot].loc \in {"free", "pending"}
         /\ worker \in {"retire", "acknowledge", "receive"}
         /\ wreq.op = "WRITE_THROUGH" =>
               \/ brisc \in {"stream_ack", "stream_prefix", "tail_drain"}
                  /\ wreq.slot = stream.slot
               \/ brisc \in {"loop", "pass_end"} /\ stream.state \in {"ready", "tail"}
                  /\ wreq.slot = stream.slot
               \/ brisc = "fifo_ack" /\ fifo # <<>> /\ wreq.slot = Head(fifo).slot
                  /\ Current(Head(fifo)) /\ promote = None /\ move_pending = 1
               \/ brisc = "fifo_drain" /\ fifo # <<>> /\ wreq.slot = Head(fifo).slot
                  /\ wreq.slot = job.slot /\ Current(Head(fifo))
         /\ wreq.op \in {"WRITE_THROUGH", "REMOVE_BACKING"}
         /\ wreq.op = "REMOVE_BACKING" => brisc = "remove_drain" /\ worker = "retire"
<1> USE DEF IInv
<1>1. /\ worker \in {"retire", "acknowledge", "receive"}
      /\ wreq.op \in {"WRITE_THROUGH", "REMOVE_BACKING"}
      /\ \/ brisc \in {"stream_ack", "stream_prefix", "tail_drain"}
            /\ wreq.slot = stream.slot /\ wreq.op = "WRITE_THROUGH"
         \/ brisc \in {"loop", "pass_end"} /\ stream.state \in {"ready", "tail"}
            /\ wreq.slot = stream.slot /\ wreq.op = "WRITE_THROUGH"
         \/ /\ brisc = "fifo_ack" /\ wreq.slot = Head(fifo).slot /\ wreq.op = "WRITE_THROUGH"
            /\ promote = None /\ move_pending = 1 /\ fifo # <<>>
         \/ /\ brisc = "fifo_drain" /\ wreq.slot = Head(fifo).slot /\ wreq.op = "WRITE_THROUGH"
            /\ wreq.slot = job.slot /\ fifo # <<>>
         \/ /\ brisc = "remove_drain" /\ wreq.slot \in Slots /\ dir[wreq.slot] = Free
            /\ wreq.op = "REMOVE_BACKING" /\ worker = "retire"
  BY DEF TypeOK, BriscTyped, CacheTyped, Streams, Handshake, Acknowledging, Receiving, Landed,
     Removing, Serving, Released, Promoting, Overrun, Silent
<1>2. CASE brisc \in {"stream_ack", "stream_prefix", "tail_drain"}
           \/ (brisc \in {"loop", "pass_end"} /\ stream.state \in {"ready", "tail"})
  <2>1. stream.state # "none" /\ wreq.slot = stream.slot
    BY <1>1, <1>2 DEF Handshake
  <2>2. stream.slot \in Slots
    BY <2>1 DEF Streaming
  <2>3. stream.state \in {"prefix", "ready"} => reserved = stream.slot
    BY DEF Streaming
  <2>4. dir[stream.slot].loc \in {"free", "pending"}
    BY <2>1, <2>2, <2>3, NoneAssumption DEF Streaming, Reservation, TypeOK, CacheTyped, Streams
  <2> QED
    BY <1>1, <1>2, <2>1, <2>2, <2>4
<1>3. CASE brisc \in {"fifo_ack", "fifo_drain"}
  <2>1. Current(Head(fifo)) /\ fifo # <<>>
    BY <1>1, <1>3 DEF Queue
  <2>2. Head(fifo).slot \in Slots
    <3>1. Head(fifo) \in QueuedPuts
      BY <2>1 DEF TypeOK, CacheTyped
    <3> QED
      BY <3>1 DEF QueuedPuts
  <2> QED
    BY <1>1, <1>3, <2>1, <2>2 DEF Current
<1> QED
  BY <1>1, <1>2, <1>3 DEF Free

(* A host request found by the worker is the one posted last.              *)
LEMMA PollKeeps == ASSUME IInv, Poll PROVE IInv'
<1>1. /\ UNCHANGED <<clientVars, cacheVars, brisc, job, channelVars>>
      /\ UNCHANGED <<host_values, meta, generations, pool, window>>
      /\ worker = "poll" /\ move_pending > 0
      /\ wreq' = move_req
      /\ worker' = IF move_pending > 1 THEN "failed"
                   ELSE IF move_req.op \in {"WRITE_THROUGH", "REMOVE_BACKING"} THEN "retire"
                   ELSE "supply"
  BY DEF Poll
<1>2. /\ ClientsTyped' /\ CacheTyped' /\ BriscTyped'
      /\ Phases' /\ Directory' /\ Reservation' /\ Streaming' /\ Queue'
  BY <1>1, WorkerFrame
<1>3. Contents'
  BY <1>1, HostCopiesStay
<1>4. ChannelsTyped'
  BY <1>1 DEF IInv, TypeOK, ChannelsTyped, channelVars
<1>5. WorkerTyped'
  BY <1>1 DEF IInv, TypeOK, WorkerTyped, ChannelsTyped
<1>6. Handshake'
  BY <1>1, NoneAssumption DEF IInv, Handshake, Acknowledging, Receiving, Landed, Removing, Serving,
     Released, Promoting, Overrun, Silent, cacheVars, channelVars, TypeOK, BriscTyped, CacheTyped,
     Streams
<1>7. Metadata'
  BY <1>1 DEF IInv, Metadata
<1>8. Pushed'
  BY <1>1 DEF IInv, Pushed, Handshake, Receiving, Landed, Backed, BackingBytes, SourceBytes,
     cacheVars, channelVars
<1>9. Supplying'
  <2>1. ~supply_pending /\ brisc # "serve_read"
    BY <1>1, NoneAssumption
       DEF IInv, Handshake, Acknowledging, Receiving, Landed, Removing, Serving,
       Released, Promoting, Overrun, Silent, TypeOK, BriscTyped, CacheTyped, Streams
  <2> QED
    BY <1>1, <2>1 DEF IInv, Supplying, cacheVars, channelVars, clientVars
<1> QED
  BY <1>2, <1>3, <1>4, <1>5, <1>6, <1>7, <1>8, <1>9 DEF IInv, TypeOK

(* Retiring a host copy: its slot has no durable entry.                    *)
LEMMA RetireKeeps == ASSUME IInv, Retire PROVE IInv'
<1> DEFINE s == wreq.slot
<1>1. /\ UNCHANGED <<clientVars, cacheVars, brisc, job, channelVars, wreq, generations, window>>
      /\ worker = "retire"
      /\ host_values' = [host_values EXCEPT ![s] = NoBacking]
      /\ pool' = pool \/ pool' = [pool EXCEPT ![s] = Unwritten]
      /\ meta' = IF host_values[s].kind = "mapped" THEN [meta EXCEPT ![s] = 0] ELSE meta
      /\ worker' = IF wreq.op = "WRITE_THROUGH" THEN "acknowledge" ELSE "complete"
  BY DEF Retire
<1>2. /\ ClientsTyped' /\ CacheTyped' /\ BriscTyped'
      /\ Phases' /\ Directory' /\ Reservation' /\ Streaming' /\ Queue'
  BY <1>1, WorkerFrame
<1>3. s \in Slots /\ dir[s].loc \in {"free", "pending"}
  BY <1>1, TargetIsNotDurable
<1> HIDE DEF s
<1>4. /\ \A t \in Slots \ {s} : host_values'[t] = host_values[t] /\ pool'[t] = pool[t]
      /\ (host_values'[s]).kind = "none"
      /\ \A t \in Slots \ {s} : meta'[t] = meta[t]
      /\ meta'[s] = 0 \/ (meta'[s] = meta[s] /\ host_values[s].kind # "mapped")
  BY <1>1, <1>3 DEF IInv, TypeOK, WorkerTyped, NoBacking
<1>5. Contents'
  <2>1. \A t \in Slots : dir[t].loc \in {"device", "host"} =>
           host_values'[t] = host_values[t] /\ pool'[t] = pool[t]
    BY <1>3, <1>4
  <2> QED
    BY <1>1, <2>1, HostCopiesStay
<1>6. ChannelsTyped'
  BY <1>1 DEF IInv, TypeOK, ChannelsTyped, channelVars
<1>7. WorkerTyped'
  <2>1. NoBacking \in Backings /\ Unwritten \in Bytes /\ 0 \in Generations
    BY BytesOf, Sizes DEF NoBacking, Backings
  <2>2. WorkerTyped
    BY DEF IInv, TypeOK
  <2>3. host_values' \in [Slots -> Backings] /\ pool' \in [Slots -> Bytes]
        /\ meta' \in [Slots -> Generations]
    BY <1>1, <2>1, <2>2 DEF WorkerTyped
  <2> QED
    BY <1>1, <2>2, <2>3 DEF WorkerTyped
<1>8. brisc \in {"stream_ack", "fifo_ack", "remove_drain"} /\ ~supply_pending /\ promote = None
  BY <1>1, NoneAssumption DEF IInv, Handshake, Acknowledging, Receiving, Landed, Removing, Serving,
     Released, Promoting, Overrun, Silent, TypeOK, BriscTyped, CacheTyped, Streams
<1>9. Handshake'
  BY <1>1, <1>8 DEF IInv, Handshake, Acknowledging, Receiving, Landed, Removing, Serving, Released,
     Promoting, Overrun, Silent, cacheVars, channelVars
<1>10. Metadata'
  <2>1. wreq' = wreq /\ worker' \in {"acknowledge", "complete"}
    BY <1>1
  <2>2. \A t \in Slots : meta[t] # 0 => host_values[t].kind = "mapped"
    BY <1>1 DEF IInv, Metadata
  <2>3. \A t \in Slots : meta'[t] # 0 => (host_values'[t]).kind = "mapped"
    BY <1>3, <1>4, <2>2
  <2> QED
    BY <1>4, <2>1, <2>3 DEF Metadata, s
<1>11. Pushed'
  BY <1>1, <1>8 DEF Pushed, cacheVars
<1>12. Supplying'
  BY <1>1, <1>8 DEF Supplying, cacheVars, channelVars
<1> QED
  BY <1>2, <1>5, <1>6, <1>7, <1>9, <1>10, <1>11, <1>12 DEF IInv, TypeOK

(* An extent is reserved, or the window taken, for a slot without a durable*)
(* entry; its metadata is published before the bytes are there.            *)
LEMMA AcknowledgeKeeps ==
  ASSUME IInv, NEW dst \in {"mapped", "window"}, Acknowledge(dst) PROVE IInv'
<1> DEFINE s == wreq.slot
           tag == IF dst = "mapped" THEN NextGeneration(generations[s]) ELSE 0
<1>1. /\ UNCHANGED <<clientVars, cacheVars, brisc, job, move_req, move_pending, commit_req,
                     commit_pending, supply_pending, stage_progress, wreq, host_values, window>>
      /\ worker = "acknowledge" /\ worker' = "receive"
      /\ generations' = IF dst = "mapped" THEN [generations EXCEPT ![s] = tag] ELSE generations
      /\ meta' = IF dst = "mapped" THEN [meta EXCEPT ![s] = tag] ELSE meta
      /\ pool' = IF dst = "mapped" THEN [pool EXCEPT ![s] = Unwritten] ELSE pool
      /\ ack' = [dst |-> dst, tag |-> tag]
      /\ ack_pending' = TRUE /\ push_pending' = TRUE
  BY DEF Acknowledge
<1>2. /\ ClientsTyped' /\ CacheTyped' /\ BriscTyped'
      /\ Phases' /\ Directory' /\ Reservation' /\ Streaming' /\ Queue'
  BY <1>1, WorkerFrame
<1>3. s \in Slots /\ dir[s].loc \in {"free", "pending"}
  BY <1>1, TargetIsNotDurable
<1>4. tag \in Generations
  <2>1. generations[s] \in 0 .. (GenerationSpan - 1)
    BY <1>3 DEF IInv, TypeOK, WorkerTyped, Generations
  <2> QED
    BY <2>1, Sizes DEF NextGeneration, Generations
<1> HIDE DEF s, tag
<1>5. /\ \A t \in Slots \ {s} : pool'[t] = pool[t] /\ meta'[t] = meta[t]
      /\ dst = "window" => meta' = meta
  BY <1>1, <1>3 DEF IInv, TypeOK, WorkerTyped
<1>6. Contents'
  <2>1. \A t \in Slots : dir[t].loc \in {"device", "host"} =>
           host_values'[t] = host_values[t] /\ pool'[t] = pool[t]
    BY <1>1, <1>3, <1>5
  <2> QED
    BY <1>1, <2>1, HostCopiesStay
<1>7. ChannelsTyped'
  BY <1>1, <1>4, Sizes DEF IInv, TypeOK, ChannelsTyped
<1>8. WorkerTyped'
  <2>1. Unwritten \in Bytes
    BY BytesOf, Sizes
  <2>2. WorkerTyped
    BY DEF IInv, TypeOK
  <2>3. generations' \in [Slots -> Generations] /\ pool' \in [Slots -> Bytes]
        /\ meta' \in [Slots -> Generations]
    BY <1>1, <1>4, <2>1, <2>2 DEF WorkerTyped
  <2> QED
    BY <1>1, <2>2, <2>3 DEF WorkerTyped
<1>9. brisc \in {"stream_ack", "fifo_ack"} /\ ~supply_pending /\ promote = None
  BY <1>1, NoneAssumption DEF IInv, Handshake, Acknowledging, Receiving, Landed, Removing, Serving,
     Released, Promoting, Overrun, Silent, TypeOK, BriscTyped, CacheTyped, Streams
<1>10. Handshake'
  BY <1>1, <1>9 DEF IInv, Handshake, Acknowledging, Receiving, Landed, Removing, Serving, Released,
     Promoting, Overrun, Silent, cacheVars
<1>11. Metadata'
  <2>1. wreq' = wreq /\ wreq.slot = s /\ host_values' = host_values /\ worker' = "receive"
        /\ (ack'.dst = "window" => meta'[s] = meta[s])
    BY <1>1, <1>5 DEF s
  <2>2. \A t \in Slots : meta[t] # 0 => host_values[t].kind = "mapped"
    BY <1>1 DEF IInv, Metadata
  <2>3. host_values[s].kind # "mapped"
    BY <1>1 DEF IInv, Metadata, s
  <2>4. \A t \in Slots : meta'[t] # 0 => host_values[t].kind = "mapped" \/ t = s
    BY <1>3, <1>5, <2>2
  <2>5. meta[s] = 0
    BY <1>3, <2>2, <2>3
  <2> QED
    BY <2>1, <2>4, <2>5 DEF Metadata
<1>12. Pushed'
  BY <1>1, <1>9 DEF Pushed, cacheVars
<1>13. Supplying'
  BY <1>1, <1>9 DEF Supplying, cacheVars
<1> QED
  BY <1>2, <1>6, <1>7, <1>8, <1>10, <1>11, <1>12, <1>13 DEF IInv, TypeOK

(* The value is received where BRISC pushed it: the slot is backed.        *)
LEMMA ReceiveKeeps == ASSUME IInv, Receive PROVE IInv'
<1> DEFINE s == wreq.slot
           b == IF ack.dst = "mapped" THEN [kind |-> "mapped", bytes |-> Unwritten]
                ELSE [kind |-> "heap", bytes |-> window]
<1>1. /\ UNCHANGED <<clientVars, cacheVars, brisc, job, channelVars, wreq, meta, generations,
                     pool, window>>
      /\ worker = "receive" /\ ~push_pending /\ worker' = "complete"
      /\ host_values' = [host_values EXCEPT ![s] = b]
  BY DEF Receive
<1>2. /\ ClientsTyped' /\ CacheTyped' /\ BriscTyped'
      /\ Phases' /\ Directory' /\ Reservation' /\ Streaming' /\ Queue'
  BY <1>1, WorkerFrame
<1>3. s \in Slots /\ dir[s].loc \in {"free", "pending"}
  BY <1>1, TargetIsNotDurable
<1>4. b \in Backings /\ b.kind # "none" /\ (b.kind = "mapped" <=> ack.dst = "mapped")
      /\ (ack.dst # "mapped" => b.bytes = window)
  BY BytesOf, Sizes DEF IInv, TypeOK, WorkerTyped, Backings
<1> HIDE DEF s, b
<1>5. host_values'[s] = b /\ \A t \in Slots \ {s} : host_values'[t] = host_values[t]
  BY <1>1, <1>3 DEF IInv, TypeOK, WorkerTyped
<1>6. Contents'
  <2>1. \A t \in Slots : dir[t].loc \in {"device", "host"} =>
           host_values'[t] = host_values[t] /\ pool'[t] = pool[t]
    BY <1>1, <1>3, <1>5
  <2> QED
    BY <1>1, <2>1, HostCopiesStay
<1>7. ChannelsTyped'
  BY <1>1 DEF IInv, TypeOK, ChannelsTyped, channelVars
<1>8. WorkerTyped'
  BY <1>1, <1>4 DEF IInv, TypeOK, WorkerTyped
<1>9. /\ \/ brisc = "tail_drain" /\ s = stream.slot
         \/ brisc = "fifo_drain" /\ s = job.slot
      /\ ~supply_pending /\ promote = None
  BY <1>1, NoneAssumption DEF IInv, Handshake, Acknowledging, Receiving, Landed, Removing, Serving,
     Released, Promoting, Overrun, Silent, TypeOK, BriscTyped, CacheTyped, Streams, s
<1>10. Handshake'
  BY <1>1, <1>9 DEF IInv, Handshake, Acknowledging, Receiving, Landed, Removing, Serving, Released,
     Promoting, Overrun, Silent, cacheVars, channelVars
<1>11. Metadata'
  <2>1. \A t \in Slots : meta[t] # 0 => host_values[t].kind = "mapped" \/ t = s
    BY DEF IInv, Metadata, s
  <2>2. meta[s] # 0 => ack.dst = "mapped"
    BY <1>1 DEF IInv, Metadata, s, TypeOK, ChannelsTyped, Sources
  <2>3. \A t \in Slots : meta[t] # 0 => (host_values'[t]).kind = "mapped"
    BY <1>3, <1>4, <1>5, <2>1, <2>2
  <2> QED
    BY <1>1, <2>3 DEF Metadata
<1>12. Pushed'
  <2>1. SourceBytes(ack.dst, s) = dev[s]
    BY <1>1, <1>9 DEF IInv, Pushed
  <2>2. UNCHANGED <<dev, pool, window, ack, brisc, stream, job>>
    BY <1>1 DEF cacheVars, channelVars
  <2>3. (host_values'[s]).kind # "none"
        /\ (IF (host_values'[s]).kind = "mapped" THEN pool[s] ELSE (host_values'[s]).bytes) = dev[s]
    BY <1>4, <1>5, <2>1 DEF SourceBytes
  <2>4. ASSUME s = stream.slot PROVE Backed(stream.slot)'
    BY <2>2, <2>3, <2>4 DEF Backed, BackingBytes
  <2>5. ASSUME s = job.slot PROVE Backed(job.slot)'
    BY <2>2, <2>3, <2>5 DEF Backed, BackingBytes
  <2> QED
    BY <1>1, <1>9, <2>2, <2>4, <2>5 DEF Pushed
<1>13. Supplying'
  BY <1>1, <1>9 DEF Supplying, cacheVars, channelVars
<1> QED
  BY <1>2, <1>6, <1>7, <1>8, <1>10, <1>11, <1>12, <1>13 DEF IInv, TypeOK

(* Whatever the worker is asked for, to serve or to promote, is the slot   *)
(* of an entry in the host tier, whose backing it holds.                   *)
LEMMA SupplyIsHeld ==
  ASSUME IInv, worker = "supply"
  PROVE  /\ wreq.slot \in Slots
         /\ dir[wreq.slot].loc = "host"
         /\ host_values[wreq.slot].kind # "none"
         /\ ~ack_pending /\ ~push_pending /\ ~commit_pending /\ ~supply_pending
         /\ \/ /\ brisc = "serve_commit" /\ wreq.op = "HOST_SERVE" /\ wreq.slot = job.slot
               /\ promote = None
            \/ /\ brisc \in {"loop", "pass_end", "fifo_ack"} /\ stream.state = "none"
               /\ wreq = [op |-> "DEVICE_PROMOTE", slot |-> promote] /\ promote \in Slots
<1>1. /\ ~ack_pending /\ ~push_pending /\ ~commit_pending /\ ~supply_pending
      /\ \/ /\ brisc = "serve_commit" /\ wreq = [op |-> "HOST_SERVE", slot |-> job.slot]
            /\ promote = None
         \/ /\ brisc \in {"loop", "pass_end", "fifo_ack"} /\ stream.state = "none"
            /\ wreq = [op |-> "DEVICE_PROMOTE", slot |-> promote] /\ promote \in Slots
  BY NoneAssumption DEF IInv, Handshake, Acknowledging, Receiving, Landed, Removing, Serving,
     Released, Promoting, Overrun, Silent, TypeOK, BriscTyped, CacheTyped, Streams
<1>2. wreq.slot \in Slots /\ dir[wreq.slot].loc = "host"
  BY <1>1, NoneAssumption DEF IInv, Supplying
<1> QED
  BY <1>1, <1>2 DEF IInv, Contents

(* A source is posted only for a backing that is held: the worker does not *)
(* throw here.                                                             *)
LEMMA SupplyKeeps == ASSUME IInv, Supply PROVE IInv'
<1> DEFINE s == wreq.slot
<1>1. /\ s \in Slots /\ dir[s].loc = "host" /\ host_values[s].kind # "none"
      /\ ~ack_pending /\ ~push_pending /\ ~commit_pending /\ ~supply_pending
      /\ \/ /\ brisc = "serve_commit" /\ wreq.op = "HOST_SERVE" /\ s = job.slot
            /\ promote = None
         \/ /\ brisc \in {"loop", "pass_end", "fifo_ack"} /\ stream.state = "none"
            /\ wreq = [op |-> "DEVICE_PROMOTE", slot |-> promote] /\ promote \in Slots
  BY SupplyIsHeld DEF Supply
<1>2. /\ UNCHANGED <<clientVars, cacheVars, brisc, job, wreq, host_values, meta, generations,
                     pool>>
      /\ UNCHANGED <<move_req, move_pending, ack, ack_pending, push_pending>>
      /\ worker = "supply"
      /\ commit_req' = [slot |-> s, src |-> SupplySource]
      /\ commit_pending' = TRUE /\ supply_pending' = TRUE
      /\ IF wreq.op = "HOST_SERVE"
         THEN /\ stage_progress' = 0
              /\ worker' = IF SupplySource = "mapped" THEN "publish" ELSE "copy"
              /\ window' = window
         ELSE /\ worker' = "await"
              /\ window' = IF SupplySource = "mapped" THEN window ELSE host_values[s].bytes
              /\ stage_progress' = stage_progress
  BY <1>1 DEF Supply, Supplied
<1>3. /\ ClientsTyped' /\ CacheTyped' /\ BriscTyped'
      /\ Phases' /\ Directory' /\ Reservation' /\ Streaming' /\ Queue'
  BY <1>2, WorkerFrame
<1>4. Contents'
  BY <1>2, HostCopiesStay
<1>5. SupplySource' = SupplySource /\ SupplySource \in {"mapped", "window"}
      /\ (SupplySource = "mapped" <=> host_values[s].kind = "mapped")
  BY <1>2 DEF SupplySource
<1> HIDE DEF s
<1>6. ChannelsTyped'
  BY <1>1, <1>2, <1>5, Sizes DEF IInv, TypeOK, ChannelsTyped, Sources
<1>7. WorkerTyped'
  <2>1. host_values[s].bytes \in Bytes
    BY <1>1 DEF IInv, TypeOK, WorkerTyped, Backings
  <2> QED
    BY <1>2, <1>5, <2>1 DEF IInv, TypeOK, WorkerTyped
<1>8. Handshake'
  BY <1>1, <1>2, NoneAssumption DEF IInv, Handshake, Acknowledging, Receiving, Landed, Removing,
     Serving, Released, Promoting, Overrun, Silent, cacheVars
<1>9. Metadata'
  BY <1>1, <1>2 DEF IInv, Metadata
<1>10. Pushed'
  BY <1>1, <1>2 DEF Pushed, cacheVars
<1>11. Supplying'
  <2>1. UNCHANGED <<dir, op, job, brisc, promote, wreq, host_values, pool>>
    BY <1>2 DEF cacheVars, clientVars
  <2>2. CASE brisc = "serve_commit"
    <3>1. /\ stage_progress' = 0 /\ worker' = IF SupplySource = "mapped" THEN "publish" ELSE "copy"
          /\ commit_req' = [slot |-> job.slot, src |-> SupplySource'] /\ promote = None
      BY <1>1, <1>2, <1>5, <2>2
    <3>2. SupplySource = "window" => worker' = "copy"
      BY <3>1
    <3>3. \A c \in 1 .. stage_progress' : window'[c] = host_values[job.slot].bytes[c]
      BY <3>1
    <3> QED
      BY <1>5, <2>1, <2>2, <3>1, <3>2, <3>3, Sizes DEF IInv, Supplying
  <2>3. CASE brisc # "serve_commit"
    <3>1. /\ s = promote /\ promote \in Slots /\ brisc \notin {"serve_commit", "serve_read"}
          /\ worker' = "await" /\ wreq.op # "HOST_SERVE"
      BY <1>1, <1>2, <2>3 DEF s
    <3>2. commit_req' = [slot |-> promote, src |-> SupplySource']
      BY <1>2, <1>5, <3>1
    <3>3. SourceBytes(SupplySource, promote)' = BackingBytes(promote)'
      <4>1. CASE SupplySource = "mapped"
        BY <1>5, <2>1, <3>1, <4>1 DEF SourceBytes, BackingBytes
      <4>2. CASE SupplySource = "window"
        BY <1>2, <1>5, <2>1, <3>1, <4>2 DEF SourceBytes, BackingBytes
      <4> QED
        BY <1>5, <4>1, <4>2
    <3>4. (commit_req').src = SupplySource'
      BY <3>2
    <3>5. SourceBytes(commit_req.src, promote)' = BackingBytes(promote)'
      BY <3>3, <3>4, <1>5 DEF SourceBytes
    <3> QED
      BY <1>1, <2>1, <3>1, <3>2, <3>5 DEF IInv, Supplying
  <2> QED
    BY <2>2, <2>3
<1> QED
  BY <1>3, <1>4, <1>6, <1>7, <1>8, <1>9, <1>10, <1>11 DEF IInv, TypeOK

(* A request served through the window: where the worker and BRISC are.    *)
LEMMA StagingIsServing ==
  ASSUME IInv, worker \in {"copy", "publish"}
  PROVE  /\ brisc \in {"serve_commit", "serve_read"} /\ promote = None /\ supply_pending
         /\ ~ack_pending /\ ~push_pending
         /\ wreq = [op |-> "HOST_SERVE", slot |-> job.slot] /\ job.slot \in Slots
         /\ commit_req = [slot |-> job.slot, src |-> SupplySource]
         /\ stage_progress < NumChunks
<1>1. /\ brisc \in {"serve_commit", "serve_read"} /\ promote = None /\ supply_pending
      /\ ~ack_pending /\ ~push_pending
      /\ wreq = [op |-> "HOST_SERVE", slot |-> job.slot]
  BY NoneAssumption DEF IInv, Handshake, Acknowledging, Receiving, Landed, Removing, Serving,
     Released, Promoting, Overrun, Silent, TypeOK, BriscTyped, CacheTyped, Streams
<1> QED
  BY <1>1 DEF IInv, Supplying

(* One group reaches the window before the progress word covers it.        *)
LEMMA StageCopyKeeps == ASSUME IInv, StageCopy PROVE IInv'
<1> DEFINE c == stage_progress + 1
           b == host_values[wreq.slot].bytes
<1>1. /\ UNCHANGED <<clientVars, cacheVars, brisc, job, channelVars, wreq, host_values,
                     meta, generations, pool>>
      /\ worker = "copy" /\ worker' = "publish"
      /\ window' = [window EXCEPT ![c] = b[c]]
  BY DEF StageCopy
<1>2. /\ brisc \in {"serve_commit", "serve_read"} /\ promote = None /\ supply_pending
      /\ ~ack_pending /\ ~push_pending
      /\ wreq = [op |-> "HOST_SERVE", slot |-> job.slot] /\ job.slot \in Slots
      /\ commit_req = [slot |-> job.slot, src |-> SupplySource]
      /\ stage_progress < NumChunks
  BY <1>1, StagingIsServing
<1>3. /\ ClientsTyped' /\ CacheTyped' /\ BriscTyped'
      /\ Phases' /\ Directory' /\ Reservation' /\ Streaming' /\ Queue'
  BY <1>1, WorkerFrame
<1>4. Contents'
  BY <1>1, HostCopiesStay
<1>5. stage_progress \in Nat /\ c \in Chunks /\ b \in Bytes
  BY <1>2, Sizes DEF IInv, TypeOK, ChannelsTyped, WorkerTyped, Backings, Chunks
<1>6. ChannelsTyped'
  BY <1>1 DEF IInv, TypeOK, ChannelsTyped, channelVars
<1>7. WorkerTyped'
  <2>1. b[c] \in Values
    BY <1>5 DEF Bytes
  <2>2. window' \in Bytes
    BY <1>1, <1>5, <2>1 DEF IInv, TypeOK, WorkerTyped, Bytes
  <2> QED
    BY <1>1, <2>2 DEF IInv, TypeOK, WorkerTyped
<1>8. Handshake'
  BY <1>1, <1>2 DEF IInv, Handshake, Acknowledging, Receiving, Landed, Removing,
     Serving, Released, Promoting, Overrun, Silent, cacheVars, channelVars
<1>9. Metadata'
  BY <1>1 DEF IInv, Metadata, channelVars
<1>10. Pushed'
  BY <1>1, <1>2 DEF Pushed, cacheVars
<1>11. Supplying'
  <2>1. UNCHANGED <<dir, op, job, brisc, promote, wreq, host_values, pool, stage_progress,
                    commit_req, supply_pending>>
    BY <1>1 DEF cacheVars, clientVars, channelVars
  <2>2. SupplySource' = SupplySource /\ SupplySource = "window"
    BY <1>1, <1>2, <2>1 DEF SupplySource, IInv, Supplying
  <2>3. \A i \in 1 .. (stage_progress + 1) : window'[i] = b[i]
    <3>1. \A i \in 1 .. stage_progress : window[i] = b[i]
      BY <1>1, <1>2, <2>2 DEF IInv, Supplying
    <3>2. window' \in [Chunks -> Values] /\ window'[c] = b[c]
      BY <1>1, <1>5 DEF IInv, TypeOK, WorkerTyped, Bytes
    <3>3. \A i \in 1 .. stage_progress : i \in Chunks /\ i # c
      BY <1>2, <1>5, Sizes DEF Chunks
    <3>4. \A i \in 1 .. stage_progress : window'[i] = window[i]
      BY <1>1, <1>5, <3>3 DEF IInv, TypeOK, WorkerTyped, Bytes
    <3>5. \A i \in 1 .. (stage_progress + 1) : i \in 1 .. stage_progress \/ i = c
      BY <1>5
    <3> QED
      BY <3>1, <3>2, <3>4, <3>5
  <2>4. \A i \in 1 .. (stage_progress + 1) : window'[i] = host_values[job.slot].bytes[i]
    BY <1>2, <2>3
  <2>5. /\ Len(job.got) <= stage_progress \/ brisc # "serve_read"
        /\ \A s \in Slots : BackingBytes(s)' = BackingBytes(s)
    BY <2>1 DEF IInv, Supplying, BackingBytes
  <2> HIDE DEF c, b
  <2> QED
    BY <1>1, <1>2, <2>1, <2>2, <2>4, <2>5 DEF IInv, Supplying
<1> QED
  BY <1>3, <1>4, <1>6, <1>7, <1>8, <1>9, <1>10, <1>11 DEF IInv, TypeOK

(* The progress word covers what has been staged, or everything at once.   *)
LEMMA StagePublishKeeps == ASSUME IInv, StagePublish PROVE IInv'
<1>1. /\ UNCHANGED <<clientVars, cacheVars, brisc, job, move_req, move_pending, ack,
                     ack_pending, push_pending, commit_req, commit_pending, supply_pending,
                     wreq, host_values, meta, generations, pool, window>>
      /\ worker = "publish"
      /\ stage_progress' = IF commit_req.src = "mapped" THEN NumChunks ELSE stage_progress + 1
      /\ worker' = IF stage_progress' = NumChunks THEN "await" ELSE "copy"
  BY DEF StagePublish
<1>2. /\ brisc \in {"serve_commit", "serve_read"} /\ promote = None /\ supply_pending
      /\ ~ack_pending /\ ~push_pending
      /\ wreq = [op |-> "HOST_SERVE", slot |-> job.slot] /\ job.slot \in Slots
      /\ commit_req = [slot |-> job.slot, src |-> SupplySource]
      /\ stage_progress < NumChunks
  BY <1>1, StagingIsServing
<1>3. /\ ClientsTyped' /\ CacheTyped' /\ BriscTyped'
      /\ Phases' /\ Directory' /\ Reservation' /\ Streaming' /\ Queue'
  BY <1>1, WorkerFrame
<1>4. Contents'
  BY <1>1, HostCopiesStay
<1>5. /\ stage_progress \in Nat /\ stage_progress' \in 0 .. NumChunks
      /\ stage_progress <= stage_progress'
      /\ worker' \in {"await", "copy"} /\ (worker' = "await" <=> stage_progress' = NumChunks)
      /\ (worker' = "copy" => stage_progress' < NumChunks /\ commit_req.src # "mapped")
      /\ (commit_req.src # "mapped" => stage_progress' = stage_progress + 1)
  BY <1>1, <1>2, Sizes DEF IInv, TypeOK, ChannelsTyped
<1>6. ChannelsTyped'
  BY <1>1, <1>5 DEF IInv, TypeOK, ChannelsTyped
<1>7. WorkerTyped'
  BY <1>1, <1>5 DEF IInv, TypeOK, WorkerTyped
<1>8. Handshake'
  BY <1>1, <1>2, <1>5 DEF IInv, Handshake, Acknowledging, Receiving, Landed, Removing,
     Serving, Released, Promoting, Overrun, Silent, cacheVars
<1>9. Metadata'
  BY <1>1, <1>5 DEF IInv, Metadata
<1>10. Pushed'
  BY <1>1, <1>2 DEF Pushed, cacheVars
<1>11. Supplying'
  <2>1. UNCHANGED <<dir, op, job, brisc, promote, wreq, host_values, pool, window,
                    commit_req, supply_pending>>
    BY <1>1 DEF cacheVars, clientVars
  <2>2. SupplySource' = SupplySource /\ SupplySource \in {"mapped", "window"}
        /\ commit_req.src = SupplySource
    BY <1>2, <2>1 DEF SupplySource
  <2>3. SupplySource = "window" =>
           \A i \in 1 .. stage_progress' : window[i] = host_values[job.slot].bytes[i]
    BY <1>1, <1>2, <1>5, <2>2 DEF IInv, Supplying
  <2>4. /\ brisc = "serve_read" => job.src = SupplySource /\ Len(job.got) <= stage_progress'
        /\ \A s \in Slots : BackingBytes(s)' = BackingBytes(s)
    <3>1. Len(job.got) \in Nat
      BY DEF IInv, TypeOK, BriscTyped, Jobs
    <3> QED
      BY <1>5, <2>1, <3>1 DEF IInv, Supplying, BackingBytes
  <2> QED
    BY <1>2, <1>5, <2>1, <2>2, <2>3, <2>4 DEF IInv, Supplying
<1> QED
  BY <1>3, <1>4, <1>6, <1>7, <1>8, <1>9, <1>10, <1>11 DEF IInv, TypeOK

(* BRISC has read what was supplied.                                       *)
LEMMA AwaitDoneKeeps == ASSUME IInv, AwaitDone PROVE IInv'
<1>1. /\ UNCHANGED <<clientVars, cacheVars, brisc, job, channelVars, wreq, host_values,
                     meta, generations, pool, window>>
      /\ worker = "await" /\ ~supply_pending /\ worker' = "complete"
  BY DEF AwaitDone
<1>2. /\ ClientsTyped' /\ CacheTyped' /\ BriscTyped'
      /\ Phases' /\ Directory' /\ Reservation' /\ Streaming' /\ Queue'
  BY <1>1, WorkerFrame
<1>3. Contents'
  BY <1>1, HostCopiesStay
<1>4. ChannelsTyped'
  BY <1>1 DEF IInv, TypeOK, ChannelsTyped, channelVars
<1>5. WorkerTyped'
  BY <1>1 DEF IInv, TypeOK, WorkerTyped
<1>6. /\ brisc \in {"loop", "pass_end", "fifo_ack"} /\ stream.state = "none"
      /\ promote = None
  BY <1>1, NoneAssumption DEF IInv, Handshake, Acknowledging, Receiving, Landed, Removing, Serving,
     Released, Promoting, Overrun, Silent, TypeOK, BriscTyped, CacheTyped, Streams
<1>7. Handshake'
  BY <1>1, <1>6, NoneAssumption DEF IInv, Handshake, Acknowledging, Receiving, Landed, Removing,
     Serving, Released, Promoting, Overrun, Silent, cacheVars, channelVars
<1>8. Metadata'
  BY <1>1 DEF IInv, Metadata
<1>9. Pushed'
  BY <1>1, <1>6 DEF Pushed, cacheVars
<1>10. Supplying'
  BY <1>1, <1>6 DEF Supplying, cacheVars
<1> QED
  BY <1>2, <1>3, <1>4, <1>5, <1>7, <1>8, <1>9, <1>10 DEF IInv, TypeOK

(* The slot of the move channel is free for the next request.              *)
LEMMA CompleteKeeps == ASSUME IInv, Complete PROVE IInv'
<1>1. /\ UNCHANGED <<clientVars, cacheVars, brisc, job, move_req, ack, ack_pending,
                     push_pending, commit_req, commit_pending, supply_pending,
                     stage_progress, wreq, host_values, meta, generations, pool, window>>
      /\ worker = "complete" /\ worker' = "poll"
      /\ move_pending' = move_pending - 1
  BY DEF Complete
<1>2. /\ ClientsTyped' /\ CacheTyped' /\ BriscTyped'
      /\ Phases' /\ Directory' /\ Reservation' /\ Streaming' /\ Queue'
  BY <1>1, WorkerFrame
<1>3. Contents'
  BY <1>1, HostCopiesStay
<1>4. /\ brisc \in {"loop", "pass_end", "fifo_ack", "tail_drain", "fifo_drain", "remove_drain"}
      /\ promote = None /\ move_pending \in {1, 2} /\ ~supply_pending
  BY <1>1, NoneAssumption DEF IInv, Handshake, Acknowledging, Receiving, Landed, Removing, Serving,
     Released, Promoting, Overrun, Silent, TypeOK, BriscTyped, CacheTyped, Streams
<1>5. ChannelsTyped'
  BY <1>1, <1>4 DEF IInv, TypeOK, ChannelsTyped
<1>6. WorkerTyped'
  BY <1>1 DEF IInv, TypeOK, WorkerTyped
<1>7. Handshake'
  BY <1>1, <1>4, NoneAssumption DEF IInv, Handshake, Acknowledging, Receiving, Landed, Removing,
     Serving, Released, Promoting, Overrun, Silent, cacheVars, TypeOK, CacheTyped, Streams
<1>8. Metadata'
  BY <1>1 DEF IInv, Metadata
<1>9. Pushed'
  BY <1>1, <1>4 DEF IInv, Pushed, Handshake, Receiving, Backed, BackingBytes, SourceBytes,
     cacheVars
<1>10. Supplying'
  BY <1>1, <1>4 DEF IInv, Supplying, cacheVars
<1> QED
  BY <1>2, <1>3, <1>5, <1>6, <1>7, <1>8, <1>9, <1>10 DEF IInv, TypeOK

(* No step of the worker breaks the invariant.                             *)
LEMMA WorkerKeeps == ASSUME IInv, WorkerNext PROVE IInv'
BY PollKeeps, RetireKeeps, AcknowledgeKeeps, ReceiveKeeps, SupplyKeeps, StageCopyKeeps,
   StagePublishKeeps, AwaitDoneKeeps, CompleteKeeps DEF WorkerNext

-----------------------------------------------------------------------------
(* The Clients and NCRISC.                                                 *)

(* A request that is taken, passes its barrier or is answered without      *)
(* having reached the payload: whatever BRISC holds stays as it was.       *)
LEMMA RequestFrame ==
  ASSUME IInv, UNCHANGED <<frontier, cacheVars, brisc, job, channelVars, workerVars>>,
         op.phase \notin {"payload", "publish", "issue", "serving"},
         op'.phase \notin {"payload", "publish", "issue", "serving"}
  PROVE  Reservation' /\ Streaming' /\ Queue' /\ Contents' /\ Supplying'
<1>1. UNCHANGED <<dir, dev, reserved, fifo, force, stream, progress, promote, brisc, job,
                  host_values, pool, frontier, commit_req, supply_pending, window, wreq>>
  BY DEF cacheVars, workerVars, channelVars
<1>2. reserved = None /\ brisc \notin {"serve_commit", "serve_read", "remove_drain"}
  BY DEF IInv, Reservation, Phases
<1>3. Reservation'
  BY <1>1, <1>2 DEF Reservation
<1>4. Streaming'
  BY <1>1, <1>2, NoneAssumption DEF IInv, Streaming
<1>5. Queue'
  BY <1>1 DEF IInv, Queue, Current
<1>6. Contents'
  BY <1>1 DEF IInv, Contents, Whole, ValueOf, Backed, BackingBytes
<1>7. Supplying'
  BY <1>1, <1>2 DEF IInv, Supplying, SupplySource, SourceBytes, BackingBytes, channelVars
<1> QED
  BY <1>3, <1>4, <1>5, <1>6, <1>7

(* A Client submits a request that is not a PUT.                           *)
LEMMA SubmitKeeps ==
  ASSUME IInv, NEW kind, NEW c \in Clients, NEW k \in Keys \cup {None}, NEW phase,
         Submit(kind, c, k, phase), fenced' \subseteq Clients,
         \/ kind \in {"GET", "REMOVE", "MOVE_TO_HOST", "MOVE_TO_DEVICE"}
            /\ phase = "lookup" /\ k \in Keys
         \/ kind = "EXISTS" /\ phase = "barrier" /\ k \in Keys
         \/ kind = "COMMIT_BARRIER" /\ phase = "barrier"
  PROVE  IInv'
<1>1. /\ kind \in Operations /\ op = Idle
      /\ op' = [Idle EXCEPT !.kind = kind, !.client = c, !.key = k, !.phase = phase]
      /\ reply' = Unwritten
      /\ UNCHANGED <<frontier, puts, cacheVars, brisc, job, channelVars, workerVars>>
  BY DEF Submit
<1>2. op' = [kind |-> kind, client |-> c, key |-> k, val |-> 0, big |-> FALSE,
             phase |-> phase, landed |-> 0]
  BY <1>1 DEF Idle
<1>3. op.phase = "none" /\ op.kind = "NONE"
  BY <1>1 DEF Idle
<1>4. op' \in Requests
  <2>1. phase \in {"lookup", "barrier"} /\ 0 \in 0 .. NumChunks
    BY Sizes
  <2>2. kind \in Operations \cup {"NONE"} /\ c \in Clients \cup {None} /\ FALSE \in BOOLEAN
        /\ 0 \in Values
    BY <1>1, Sizes
  <2> QED
    BY <1>2, <2>1, <2>2 DEF Requests
<1>5. ClientsTyped'
  BY <1>1, <1>4, BytesOf, Sizes DEF IInv, TypeOK, ClientsTyped
<1>6. /\ CacheTyped' /\ BriscTyped' /\ ChannelsTyped' /\ WorkerTyped'
      /\ Handshake' /\ Directory' /\ Metadata' /\ Pushed'
  BY <1>1, ClientFrame
<1>7. op'.phase = phase /\ op'.kind = kind /\ op'.key = k /\ op'.val = 0
      /\ op'.client = c
  BY <1>2
<1>8. Reservation' /\ Streaming' /\ Queue' /\ Contents' /\ Supplying'
  BY <1>1, <1>3, <1>7, RequestFrame
<1>9. Phases'
  <2>1. brisc \notin {"serve_commit", "serve_read", "remove_drain"} /\ brisc' = brisc
    BY <1>1, <1>3 DEF IInv, Phases
  <2>2. Idle.kind = "NONE" /\ kind # "NONE"
    BY DEF Idle
  <2> QED
    BY <1>1, <1>7, <2>1, <2>2 DEF Phases
<1> QED
  BY <1>5, <1>6, <1>8, <1>9 DEF IInv, TypeOK

(* A Client submits a PUT: its value is one nobody has written yet.        *)
LEMMA PutKeeps ==
  ASSUME IInv, NEW c \in Clients, NEW k \in Keys, NEW big \in BOOLEAN, Put(c, k, big)
  PROVE  IInv'
<1>1. /\ "PUT" \in Operations /\ op = Idle /\ puts < MaxPuts /\ puts' = puts + 1
      /\ op' = [Idle EXCEPT !.kind = "PUT", !.client = c, !.key = k, !.val = puts + 1,
                            !.big = big, !.phase = "prepare"]
      /\ fenced' = fenced \ {c} /\ reply' = Unwritten
      /\ UNCHANGED <<frontier, cacheVars, brisc, job, channelVars, workerVars>>
  BY DEF Put
<1>2. op' = [kind |-> "PUT", client |-> c, key |-> k, val |-> puts + 1, big |-> big,
             phase |-> "prepare", landed |-> 0]
  BY <1>1 DEF Idle
<1>3. op.phase = "none" /\ op.kind = "NONE"
  BY <1>1 DEF Idle
<1>4. puts + 1 \in 1 .. MaxPuts /\ puts + 1 \in Values
  BY <1>1, Sizes DEF IInv, TypeOK, ClientsTyped, Values
<1>5. op' \in Requests
  BY <1>1, <1>2, <1>4, Sizes DEF Requests
<1>6. ClientsTyped'
  BY <1>1, <1>4, <1>5, BytesOf, Sizes DEF IInv, TypeOK, ClientsTyped
<1>7. /\ CacheTyped' /\ BriscTyped' /\ ChannelsTyped' /\ WorkerTyped'
      /\ Handshake' /\ Directory' /\ Metadata' /\ Pushed'
  BY <1>1, ClientFrame
<1>8. op'.phase = "prepare" /\ op'.kind = "PUT" /\ op'.key = k /\ op'.val = puts + 1
      /\ op'.landed = 0 /\ op'.client = c
  BY <1>2
<1>9. Reservation' /\ Streaming' /\ Queue' /\ Contents' /\ Supplying'
  BY <1>1, <1>3, <1>8, RequestFrame
<1>10. Phases'
  <2>1. brisc \notin {"serve_commit", "serve_read", "remove_drain"} /\ brisc' = brisc
    BY <1>1, <1>3 DEF IInv, Phases
  <2>2. Idle.kind = "NONE"
    BY DEF Idle
  <2> QED
    BY <1>1, <1>4, <1>8, <2>1, <2>2 DEF Phases
<1> QED
  BY <1>6, <1>7, <1>9, <1>10 DEF IInv, TypeOK

(* A barrier is answered, or an EXISTS goes on to its lookup.              *)
LEMMA BarrierDoneKeeps == ASSUME IInv, BarrierDone PROVE IInv'
<1>1. /\ op.phase = "barrier"
      /\ IF op.kind = "EXISTS"
         THEN op' = [op EXCEPT !.phase = "lookup"] /\ fenced' = fenced
         ELSE op' = Idle /\ fenced' = fenced \cup {op.client}
      /\ UNCHANGED <<frontier, puts, reply, cacheVars, brisc, job, channelVars, workerVars>>
  BY DEF BarrierDone
<1>2. op \in Requests
  BY DEF IInv, TypeOK, ClientsTyped
<1>3. /\ op.kind \in {"EXISTS", "COMMIT_BARRIER"}
      /\ Idle.phase = "none" /\ Idle.kind = "NONE" /\ Idle.val = 0
  BY <1>1, <1>2, OperationsAssumption DEF IInv, Phases, Idle, Requests
<1>4. Idle \in Requests
  BY Sizes DEF Idle, Requests
<1>5. op' \in Requests
  BY <1>1, <1>2, <1>4 DEF Requests
<1>6. /\ op.kind = "EXISTS" => op'.kind = "EXISTS" /\ op'.phase = "lookup" /\ op'.key = op.key
                               /\ op'.val = op.val /\ op'.client = op.client
      /\ op.kind # "EXISTS" => op' = Idle
  BY <1>1, <1>2 DEF Requests
<1>7. ClientsTyped'
  <2>1. fenced' \subseteq Clients
    <3>1. op.client \in Clients
      BY <1>3 DEF IInv, Phases
    <3> QED
      BY <1>1, <3>1 DEF IInv, TypeOK, ClientsTyped
  <2> QED
    BY <1>1, <1>5, <2>1 DEF IInv, TypeOK, ClientsTyped
<1>8. /\ CacheTyped' /\ BriscTyped' /\ ChannelsTyped' /\ WorkerTyped'
      /\ Handshake' /\ Directory' /\ Metadata' /\ Pushed'
  BY <1>1, ClientFrame
<1>9. Reservation' /\ Streaming' /\ Queue' /\ Contents' /\ Supplying'
  BY <1>1, <1>3, <1>6, RequestFrame
<1>10. Phases'
  <2>1. brisc \notin {"serve_commit", "serve_read", "remove_drain"} /\ brisc' = brisc
    BY <1>1 DEF IInv, Phases
  <2> QED
    BY <1>1, <1>3, <1>6, <2>1 DEF IInv, Phases
<1> QED
  BY <1>7, <1>8, <1>9, <1>10 DEF IInv, TypeOK

(* What has landed is announced once, and never more than all but one      *)
(* group of a value.                                                       *)
LEMMA AnnouncedIsLanded ==
  ASSUME IInv, op.phase = "payload"
  PROVE  /\ reserved \in Slots /\ dir[reserved].loc = "free" /\ op.kind = "PUT"
         /\ op.landed \in Nat /\ op.landed < NumChunks /\ op.landed + 1 \in Chunks
         /\ op.val \in Values /\ op.big \in BOOLEAN
         /\ stream.state \in {"none", "prefix", "ready"}
         /\ stream.state = "none" => progress = IF op.big THEN op.landed ELSE 0
         /\ stream.state # "none" => op.big /\ progress + stream.pushed = op.landed
         /\ progress \in Nat /\ stream.pushed \in Nat
<1>1. /\ reserved # None /\ reserved \in Slots /\ dir[reserved].loc = "free" /\ op.kind = "PUT"
  BY DEF IInv, Reservation, TypeOK, CacheTyped
<1>2. /\ op.landed \in Nat /\ op.landed < NumChunks /\ op.landed + 1 \in Chunks
      /\ op.val \in Values /\ op.big \in BOOLEAN
  BY <1>1, Sizes DEF IInv, Phases, TypeOK, ClientsTyped, Requests, Chunks
<1>3. /\ progress \in Nat /\ stream.pushed \in Nat
      /\ stream.state \in {"none", "prefix", "ready", "tail"}
  BY Sizes DEF IInv, TypeOK, CacheTyped, Streams
<1>4. Earlier(op.landed) = op.landed
  BY <1>2 DEF Earlier
<1> QED
  BY <1>1, <1>2, <1>3, <1>4 DEF IInv, Streaming

(* A group lands in the granted block, which is nobody else's.             *)
LEMMA LandChunkKeeps == ASSUME IInv, LandChunk PROVE IInv'
<1> DEFINE c == op.landed + 1
<1>1. /\ op.phase = "payload"
      /\ dev' = [dev EXCEPT ![reserved][c] = op.val]
      /\ op' = [op EXCEPT !.landed = c, !.phase = IF c = NumChunks THEN "publish" ELSE "payload"]
      /\ progress' = IF op.big /\ c < NumChunks THEN progress + 1 ELSE progress
      /\ UNCHANGED <<fenced, frontier, puts, reply, dir, reserved, fifo, force, stream,
                     promote, brisc, job, channelVars, workerVars>>
  BY DEF LandChunk
<1>2. /\ reserved \in Slots /\ dir[reserved].loc = "free" /\ op.kind = "PUT"
      /\ op.landed \in Nat /\ op.landed < NumChunks /\ c \in Chunks
      /\ op.val \in Values /\ op.big \in BOOLEAN
      /\ stream.state \in {"none", "prefix", "ready"}
      /\ stream.state = "none" => progress = IF op.big THEN op.landed ELSE 0
      /\ stream.state # "none" => op.big /\ progress + stream.pushed = op.landed
      /\ progress \in Nat /\ stream.pushed \in Nat
  BY <1>1, AnnouncedIsLanded
<1>3. op \in Requests
  BY DEF IInv, TypeOK, ClientsTyped
<1>4. /\ op'.kind = op.kind /\ op'.client = op.client /\ op'.key = op.key /\ op'.val = op.val
      /\ op'.big = op.big /\ op'.landed = c
      /\ op'.phase = IF c = NumChunks THEN "publish" ELSE "payload"
  BY <1>1, <1>3 DEF Requests
<1>5. op' \in Requests
  <2>1. c \in 0 .. NumChunks
    BY <1>2, Sizes
  <2> QED
    BY <1>1, <1>3, <2>1 DEF Requests
<1>6. c \in Nat /\ c <= NumChunks /\ c # 0
  BY <1>2, Sizes
<1>7. /\ dev' \in [Slots -> Bytes]
      /\ \A s \in Slots \ {reserved} : dev'[s] = dev[s]
      /\ \A i \in Chunks : dev'[reserved][i] = IF i = c THEN op.val ELSE dev[reserved][i]
  BY <1>1, <1>2 DEF IInv, TypeOK, CacheTyped, Bytes
<1>8. ClientsTyped'
  BY <1>1, <1>5 DEF IInv, TypeOK, ClientsTyped
<1>9. progress' \in Nat /\ progress' <= NumChunks
      /\ (stream.state = "none" => progress' = IF op.big THEN Earlier(c) ELSE 0)
      /\ (stream.state # "none" => progress' + stream.pushed = Earlier(c))
  <2>1. Earlier(c) = IF c < NumChunks THEN op.landed + 1 ELSE op.landed
    BY <1>2, Sizes DEF Earlier
  <2>2. progress <= op.landed
    BY <1>2
  <2>3. progress' = IF op.big /\ c < NumChunks THEN progress + 1 ELSE progress
    BY <1>1
  <2>4. progress' \in Nat /\ progress' <= NumChunks
    BY <1>2, <2>2, <2>3, Sizes
  <2>5. stream.state = "none" => progress' = IF op.big THEN Earlier(c) ELSE 0
    BY <1>2, <2>1, <2>3
  <2>6. stream.state # "none" => progress' + stream.pushed = Earlier(c)
    BY <1>2, <2>1, <2>3
  <2> QED
    BY <2>4, <2>5, <2>6
<1> HIDE DEF c
<1>10. CacheTyped'
  BY <1>1, <1>7, <1>9, Sizes DEF IInv, TypeOK, CacheTyped
<1>11. BriscTyped' /\ ChannelsTyped' /\ WorkerTyped'
  BY <1>1 DEF IInv, TypeOK, BriscTyped, ChannelsTyped, WorkerTyped, channelVars, workerVars
<1>12. Handshake'
  BY <1>1 DEF IInv, Handshake, Acknowledging, Receiving, Landed, Removing, Serving, Released,
     Promoting, Overrun, Silent, channelVars, workerVars
<1>13. Phases'
  <2>1. Idle.kind = "NONE" /\ op'.kind = "PUT"
    BY <1>2, <1>4 DEF Idle
  <2>2. /\ op.key \in Keys /\ op.val \in 1 .. MaxPuts /\ op.client \in Clients
        /\ reply = Unwritten
    BY <1>2 DEF IInv, Phases
  <2>3. brisc \notin {"serve_commit", "serve_read", "remove_drain"}
    BY <1>1 DEF IInv, Phases
  <2>4. IF c = NumChunks THEN op'.phase = "publish" /\ op'.landed = NumChunks
        ELSE op'.phase = "payload" /\ op'.landed < NumChunks
    BY <1>4, <1>6, Sizes
  <2> QED
    BY <1>1, <1>4, <2>1, <2>2, <2>3, <2>4 DEF Phases
<1>14. Directory'
  BY <1>1 DEF IInv, Directory
<1>15. Reservation'
  <2>1. \A i \in 1 .. c : i = c \/ i \in 1 .. op.landed
    BY <1>2 DEF c
  <2>2. \A i \in 1 .. c : i \in Chunks
    BY <1>6, Sizes DEF Chunks
  <2>3. \A i \in 1 .. c : dev'[reserved][i] = op.val
    BY <1>1, <1>7, <2>1, <2>2 DEF IInv, Reservation
  <2>4. Holding(dir, op.key) = {} /\ reserved # None
    BY <1>1, <1>2, NoneAssumption DEF IInv, Reservation
  <2> QED
    BY <1>1, <1>2, <1>4, <2>3, <2>4 DEF Reservation, Holding
<1>16. Streaming'
  <2>1. UNCHANGED <<stream, reserved, fifo, brisc>> /\ reserved # None
    BY <1>1, <1>2, NoneAssumption
  <2> QED
    BY <1>2, <1>4, <1>9, <2>1 DEF IInv, Streaming
<1>17. Queue'
  <2>1. op'.phase # "issue" /\ op.phase # "issue"
    BY <1>1, <1>4
  <2> QED
    BY <1>1, <2>1 DEF IInv, Queue, Current
<1>18. Contents'
  <2>1. \A s \in Slots : dir[s].loc # "free" => dev'[s] = dev[s]
    BY <1>2, <1>7
  <2>2. UNCHANGED <<dir, host_values, pool>>
    BY <1>1 DEF workerVars
  <2>3. \A s \in Slots : BackingBytes(s)' = BackingBytes(s)
    BY <2>2 DEF BackingBytes
  <2>4. \A s \in Slots : dir[s].loc # "free" => ValueOf(s)' = ValueOf(s)
    BY <2>1, <2>2, <2>3 DEF ValueOf
  <2>5. \A s \in Slots : dir[s].loc # "free" => Whole(ValueOf(s))'
    BY <2>4 DEF IInv, Contents, Whole
  <2>6. \A s \in Slots : dir[s].loc = "device" => Backed(s)'
    BY <2>1, <2>2, <2>3 DEF IInv, Contents, Backed
  <2> QED
    BY <1>4, <2>2, <2>5, <2>6 DEF IInv, Contents
<1>19. Metadata'
  BY <1>1 DEF IInv, Metadata, channelVars, workerVars
<1>20. Pushed'
  <2>1. UNCHANGED <<stream, brisc, job, ack, pool, window, worker, host_values>>
    BY <1>1 DEF channelVars, workerVars
  <2>2. \A s \in Slots : BackingBytes(s)' = BackingBytes(s)
                         /\ SourceBytes(ack.dst, s)' = SourceBytes(ack.dst, s)
    BY <2>1 DEF BackingBytes, SourceBytes
  <2>3. brisc = "tail_drain" => stream.slot \in Slots /\ dev'[stream.slot] = dev[stream.slot]
    BY <1>2 DEF IInv, Handshake
  <2>4. brisc = "fifo_drain" => job.slot \in Slots /\ dev'[job.slot] = dev[job.slot]
    <3>1. ASSUME brisc = "fifo_drain" PROVE job.slot \in Slots /\ dir[job.slot].loc = "pending"
      <4>1. fifo # <<>> /\ job.slot = Head(fifo).slot /\ Current(Head(fifo))
        BY <3>1 DEF IInv, Handshake, Queue
      <4>2. Head(fifo) \in QueuedPuts
        BY <4>1 DEF IInv, TypeOK, CacheTyped
      <4> QED
        BY <4>1, <4>2 DEF Current, QueuedPuts
    <3> QED
      BY <1>2, <1>7, <3>1
  <2>5. brisc = "stream_prefix" \/ (brisc = "loop" /\ stream.state \in {"ready", "tail"}) =>
           /\ stream.dst = ack.dst /\ stream.slot \in Slots
           /\ \A i \in 1 .. stream.pushed :
                 SourceBytes(ack.dst, stream.slot)[i] = dev'[stream.slot][i]
    <3> SUFFICES ASSUME brisc = "stream_prefix"
                        \/ (brisc = "loop" /\ stream.state \in {"ready", "tail"})
                 PROVE  /\ stream.dst = ack.dst /\ stream.slot \in Slots
                        /\ \A i \in 1 .. stream.pushed :
                              SourceBytes(ack.dst, stream.slot)[i] = dev'[stream.slot][i]
      OBVIOUS
    <3>1. stream.state # "none" /\ stream.slot = reserved
      BY <1>2 DEF IInv, Handshake, Streaming
    <3>2. \A i \in 1 .. stream.pushed : i \in Chunks /\ i # c
      BY <1>2, <3>1, Sizes DEF c, Chunks
    <3>3. \A i \in 1 .. stream.pushed : dev'[stream.slot][i] = dev[stream.slot][i]
      BY <1>7, <3>1, <3>2
    <3> QED
      BY <1>2, <3>1, <3>3 DEF IInv, Pushed
  <2>6. brisc = "tail_drain" => IF worker = "receive"
                                THEN SourceBytes(ack.dst, stream.slot) = dev'[stream.slot]
                                ELSE Backed(stream.slot)'
    BY <2>1, <2>2, <2>3 DEF IInv, Pushed, Backed
  <2>7. brisc = "fifo_drain" => IF worker = "receive"
                                THEN SourceBytes(ack.dst, job.slot) = dev'[job.slot]
                                ELSE Backed(job.slot)'
    BY <2>1, <2>2, <2>4 DEF IInv, Pushed, Backed
  <2> QED
    BY <2>1, <2>2, <2>3, <2>4, <2>5, <2>6, <2>7 DEF Pushed, SourceBytes
<1>21. Supplying'
  BY <1>1, <1>4 DEF IInv, Supplying, SupplySource, SourceBytes, BackingBytes, channelVars, workerVars
<1> QED
  BY <1>8, <1>10, <1>11, <1>12, <1>13, <1>14, <1>15, <1>16, <1>17, <1>18, <1>19, <1>20, <1>21
     DEF IInv, TypeOK

(* What the queue counts: commits to come, whether queued or streamed,     *)
(* less the PUT whose issue NCRISC has not counted yet.                    *)
LEMMA FrontierCounts ==
  ASSUME IInv
  PROVE  /\ Len(fifo) \in Nat /\ Len(fifo) <= HighWatermark
         /\ stream.state = "tail" => Len(fifo) = 0
         /\ frontier \in Int
         /\ op.phase = "issue" =>
               /\ frontier + 1 = Len(fifo) + (IF stream.state = "tail" THEN 1 ELSE 0)
               /\ frontier + 1 \in -1 .. Cardinality(Slots) + 1
         /\ op.phase # "issue" =>
               frontier = Len(fifo) + (IF stream.state = "tail" THEN 1 ELSE 0)
<1>1. Len(fifo) \in Nat /\ Len(fifo) <= HighWatermark /\ frontier \in Int
  BY Sizes DEF IInv, TypeOK, CacheTyped, ClientsTyped
<1>2. stream.state = "tail" => Len(fifo) = 0
  <2>1. Len(<<>>) = 0
    OBVIOUS
  <2> QED
    BY <2>1 DEF IInv, Streaming
<1>3. frontier = Len(fifo) + (IF stream.state = "tail" THEN 1 ELSE 0)
                 - (IF op.phase = "issue" THEN 1 ELSE 0)
  BY DEF IInv, Queue
<1>4. Len(fifo) + (IF stream.state = "tail" THEN 1 ELSE 0) \in 0 .. Cardinality(Slots) + 1
  BY <1>1, <1>2, Sizes
<1>5. op.phase = "issue" => frontier + 1 = Len(fifo) + (IF stream.state = "tail" THEN 1 ELSE 0)
  BY <1>1, <1>3
<1>6. op.phase # "issue" => frontier = Len(fifo) + (IF stream.state = "tail" THEN 1 ELSE 0)
  BY <1>1, <1>3
<1>7. op.phase = "issue" => frontier + 1 \in -1 .. Cardinality(Slots) + 1
  BY <1>1, <1>4, <1>5, Sizes
<1> QED
  BY <1>1, <1>2, <1>5, <1>6, <1>7

(* NCRISC counts the PUT as issued and answers it.                         *)
LEMMA IssuePutKeeps == ASSUME IInv, IssuePut PROVE IInv'
<1>1. /\ op.phase = "issue" /\ frontier' = frontier + 1 /\ op' = Idle
      /\ UNCHANGED <<fenced, puts, reply, cacheVars, brisc, job, channelVars, workerVars>>
  BY DEF IssuePut
<1>2. /\ Idle.phase = "none" /\ Idle.kind = "NONE" /\ Idle.val = 0 /\ Idle \in Requests
  BY Sizes DEF Idle, Requests
<1>3. ClientsTyped'
  BY <1>1, <1>2, FrontierCounts DEF IInv, TypeOK, ClientsTyped
<1>4. /\ CacheTyped' /\ BriscTyped' /\ ChannelsTyped' /\ WorkerTyped'
      /\ Handshake' /\ Directory' /\ Metadata' /\ Pushed'
  BY <1>1, ClientFrame
<1>5. UNCHANGED <<dir, dev, reserved, fifo, force, stream, progress, promote, brisc, job,
                  host_values, pool, commit_req, supply_pending, window, wreq>>
  BY <1>1 DEF cacheVars, workerVars, channelVars
<1>6. reserved = None /\ brisc \notin {"serve_commit", "serve_read", "remove_drain"}
  BY <1>1 DEF IInv, Reservation, Phases
<1>7. Reservation'
  BY <1>1, <1>2, <1>5, <1>6 DEF Reservation
<1>8. Streaming'
  BY <1>5, <1>6, NoneAssumption DEF IInv, Streaming
<1>9. Queue'
  <2>1. frontier' = Len(fifo) + (IF stream.state = "tail" THEN 1 ELSE 0) - 0
    BY <1>1, FrontierCounts
  <2> QED
    BY <1>1, <1>2, <1>5, <2>1 DEF IInv, Queue, Current
<1>10. Contents'
  BY <1>1, <1>2, <1>5 DEF IInv, Contents, Whole, ValueOf, Backed, BackingBytes
<1>11. Supplying'
  BY <1>1, <1>5, <1>6 DEF IInv, Supplying, SupplySource, SourceBytes, BackingBytes, channelVars
<1>12. Phases'
  BY <1>1, <1>2, <1>5, <1>6 DEF Phases
<1> QED
  BY <1>3, <1>4, <1>7, <1>8, <1>9, <1>10, <1>11, <1>12 DEF IInv, TypeOK

(* No step of a Client breaks the invariant.                               *)
LEMMA ClientKeeps == ASSUME IInv, ClientNext PROVE IInv'
<1>1. ASSUME NEW c \in Clients, NEW k \in Keys, Get(c, k) PROVE IInv'
  <2>1. Submit("GET", c, k, "lookup") /\ fenced' \subseteq Clients
    BY <1>1 DEF Get, IInv, TypeOK, ClientsTyped
  <2> QED
    BY <2>1, SubmitKeeps
<1>2. ASSUME NEW c \in Clients, NEW k \in Keys, Exists(c, k) PROVE IInv'
  <2>1. Submit("EXISTS", c, k, "barrier") /\ fenced' \subseteq Clients
    BY <1>2 DEF Exists, IInv, TypeOK, ClientsTyped
  <2> QED
    BY <2>1, SubmitKeeps
<1>3. ASSUME NEW c \in Clients, NEW k \in Keys,
             NEW kind \in {"REMOVE", "MOVE_TO_HOST", "MOVE_TO_DEVICE"},
             FencedOperation(kind, c, k) PROVE IInv'
  <2>1. Submit(kind, c, k, "lookup") /\ fenced' \subseteq Clients
    BY <1>3 DEF FencedOperation, IInv, TypeOK, ClientsTyped
  <2> QED
    BY <2>1, SubmitKeeps
<1>4. ASSUME NEW c \in Clients, CommitBarrier(c) PROVE IInv'
  <2>1. Submit("COMMIT_BARRIER", c, None, "barrier") /\ fenced' \subseteq Clients
    BY <1>4 DEF CommitBarrier, IInv, TypeOK, ClientsTyped
  <2> QED
    BY <2>1, SubmitKeeps
<1> QED
  BY <1>1, <1>2, <1>3, <1>4, PutKeeps DEF ClientNext

(* No step of NCRISC breaks the invariant.                                 *)
LEMMA NcriscKeeps == ASSUME IInv, NcriscNext PROVE IInv'
BY BarrierDoneKeeps, LandChunkKeeps, IssuePutKeeps DEF NcriscNext

-----------------------------------------------------------------------------
(* BRISC: what a step may do to the tiers.                                 *)

\* What may happen to the entry and the block of slot s, short of a new PUT:
\* nothing, it is freed, evicted, read back from host memory, or committed.
TierStep(s) ==
    \/ dir'[s] = dir[s] /\ dev'[s] = dev[s]
    \/ dir'[s] = Free
    \/ dir[s].loc = "device" /\ dir'[s] = [dir[s] EXCEPT !.loc = "host"]
    \/ /\ dir[s].loc = "host" /\ dir'[s] = [dir[s] EXCEPT !.loc = "device"]
       /\ dev'[s] = BackingBytes(s)
    \/ /\ dir[s].loc = "pending" /\ Backed(s) /\ dev'[s] = dev[s]
       /\ \E tag \in Generations :
             dir'[s] = [dir[s] EXCEPT !.loc = "device", !.tag = tag]

(* Such a step keeps the key and the value of an entry it does not free.   *)
LEMMA TierOfSlot ==
  ASSUME IInv, NEW s \in Slots, TierStep(s), UNCHANGED <<host_values, pool>>
  PROVE  /\ dir'[s] \in Entries
         /\ (dir'[s]).loc = "free" => dir'[s] = Free
         /\ (dir'[s]).loc # "free" =>
               dir[s].loc # "free" /\ (dir'[s]).key = dir[s].key /\ ValueOf(s)' = ValueOf(s)
         /\ (dir'[s]).loc \in {"device", "host"} => (dir'[s]).tag \in Generations
         /\ (dir'[s]).loc = "host" => (host_values'[s]).kind # "none"
         /\ (dir'[s]).loc = "device" => Backed(s)'
         /\ (dir'[s]).loc = "pending" => dir'[s] = dir[s] /\ dev'[s] = dev[s]
<1>1. /\ dir[s] \in Entries /\ dir[s].loc \in {"free", "pending", "device", "host"}
      /\ dir[s].loc = "free" => dir[s] = Free
      /\ dir[s].loc \in {"device", "host"} => dir[s].tag \in Generations
      /\ dir[s].loc = "host" => host_values[s].kind # "none"
      /\ dir[s].loc = "device" => host_values[s].kind # "none" /\ BackingBytes(s) = dev[s]
  BY DEF IInv, TypeOK, CacheTyped, Entries, Directory, Contents, Backed
<1>2. host_values' = host_values /\ BackingBytes(s)' = BackingBytes(s)
  BY DEF BackingBytes
<1>3. CASE dir'[s] = dir[s] /\ dev'[s] = dev[s]
  BY <1>1, <1>2, <1>3 DEF ValueOf, Backed
<1>4. CASE dir'[s] = Free
  <2>1. Free \in Entries /\ Free.loc = "free"
    BY Sizes DEF Free, Entries, Tags
  <2> QED
    BY <1>4, <2>1
<1>5. ASSUME dir[s].loc = "device", dir'[s] = [dir[s] EXCEPT !.loc = "host"]
      PROVE  /\ dir'[s] \in Entries /\ (dir'[s]).loc = "host" /\ (dir'[s]).key = dir[s].key
             /\ (dir'[s]).tag = dir[s].tag
  BY <1>1, <1>5 DEF Entries
<1>6. ASSUME dir[s].loc = "host", dir'[s] = [dir[s] EXCEPT !.loc = "device"]
      PROVE  /\ dir'[s] \in Entries /\ (dir'[s]).loc = "device" /\ (dir'[s]).key = dir[s].key
             /\ (dir'[s]).tag = dir[s].tag
  BY <1>1, <1>6 DEF Entries
<1>7. ASSUME NEW tag \in Generations, dir'[s] = [dir[s] EXCEPT !.loc = "device", !.tag = tag]
      PROVE  /\ dir'[s] \in Entries /\ (dir'[s]).loc = "device" /\ (dir'[s]).key = dir[s].key
             /\ (dir'[s]).tag = tag
  BY <1>1, <1>7 DEF Entries, Tags
<1>8. CASE dir[s].loc = "device" /\ dir'[s] = [dir[s] EXCEPT !.loc = "host"]
  BY <1>1, <1>2, <1>5, <1>8 DEF ValueOf
<1>9. CASE /\ dir[s].loc = "host" /\ dir'[s] = [dir[s] EXCEPT !.loc = "device"]
           /\ dev'[s] = BackingBytes(s)
  BY <1>1, <1>2, <1>6, <1>9 DEF ValueOf, Backed
<1>10. CASE /\ dir[s].loc = "pending" /\ Backed(s) /\ dev'[s] = dev[s]
            /\ \E tag \in Generations :
                  dir'[s] = [dir[s] EXCEPT !.loc = "device", !.tag = tag]
  <2>1. PICK tag \in Generations : dir'[s] = [dir[s] EXCEPT !.loc = "device", !.tag = tag]
    BY <1>10
  <2>2. (dir'[s]).loc = "device" /\ (dir'[s]).tag \in Generations /\ dir'[s] \in Entries
        /\ (dir'[s]).key = dir[s].key
    BY <1>7, <2>1
  <2> QED
    BY <1>2, <1>10, <2>2 DEF ValueOf, Backed
<1> QED
  BY <1>3, <1>4, <1>8, <1>9, <1>10 DEF TierStep

(* Steps of this kind keep the directory in order and every value it names *)
(* in place.                                                               *)
LEMMA TierSteps ==
  ASSUME IInv, \A s \in Slots : TierStep(s), UNCHANGED <<host_values, pool>>
  PROVE  /\ Directory'
         /\ \A s \in Slots : dir'[s] \in Entries
         /\ \A s \in Slots : (dir'[s]).loc # "free" =>
               dir[s].loc # "free" /\ (dir'[s]).key = dir[s].key /\ ValueOf(s)' = ValueOf(s)
         /\ \A s \in Slots : (dir'[s]).loc # "free" => Whole(ValueOf(s))'
         /\ \A s \in Slots : (dir'[s]).loc = "host" => (host_values'[s]).kind # "none"
         /\ \A s \in Slots : (dir'[s]).loc = "device" => Backed(s)'
         /\ \A s \in Slots : (dir'[s]).loc = "pending" => dir'[s] = dir[s] /\ dev'[s] = dev[s]
         /\ \A k : Holding(dir', k) \subseteq Holding(dir, k)
<1>1. \A s \in Slots :
         /\ dir'[s] \in Entries
         /\ (dir'[s]).loc = "free" => dir'[s] = Free
         /\ (dir'[s]).loc # "free" =>
               dir[s].loc # "free" /\ (dir'[s]).key = dir[s].key /\ ValueOf(s)' = ValueOf(s)
         /\ (dir'[s]).loc \in {"device", "host"} => (dir'[s]).tag \in Generations
         /\ (dir'[s]).loc = "host" => (host_values'[s]).kind # "none"
         /\ (dir'[s]).loc = "device" => Backed(s)'
         /\ (dir'[s]).loc = "pending" => dir'[s] = dir[s] /\ dev'[s] = dev[s]
  BY TierOfSlot
<1>2. Directory'
  BY <1>1 DEF IInv, Directory
<1>3. \A s \in Slots : (dir'[s]).loc # "free" => Whole(ValueOf(s))'
  <2> SUFFICES ASSUME NEW s \in Slots, (dir'[s]).loc # "free" PROVE Whole(ValueOf(s))'
    OBVIOUS
  <2>1. Whole(ValueOf(s)) /\ ValueOf(s)' = ValueOf(s)
    BY <1>1 DEF IInv, Contents
  <2> QED
    BY <2>1 DEF Whole
<1>4. \A k : Holding(dir', k) \subseteq Holding(dir, k)
  BY <1>1 DEF Holding
<1> QED
  BY <1>1, <1>2, <1>3, <1>4

(* Evicting committed residents.                                           *)
LEMMA EvictionSteps ==
  ASSUME IInv, NEW E, E \subseteq At(dir, "device"), dir' = Evicted(dir, E), dev' = Dropped(E)
  PROVE  /\ \A s \in Slots : TierStep(s)
         /\ dir' = [s \in Slots |-> dir'[s]] /\ dev' \in [Slots -> Bytes]
         /\ \A s \in Slots : s \notin E => dir'[s] = dir[s] /\ dev'[s] = dev[s]
         /\ \A s \in Slots : dir[s].loc # "free" => (dir'[s]).loc # "free"
<1>1. \A s \in Slots : /\ dir'[s] = IF s \in E THEN [dir[s] EXCEPT !.loc = "host"] ELSE dir[s]
                       /\ dev'[s] = IF s \in E THEN Unwritten ELSE dev[s]
  BY DEF Evicted, Dropped
<1>2. dir' = [s \in Slots |-> dir'[s]]
  BY DEF Evicted
<1>3. Unwritten \in Bytes /\ dev \in [Slots -> Bytes]
  BY BytesOf, Sizes DEF IInv, TypeOK, CacheTyped
<1>4. dev' \in [Slots -> Bytes]
  BY <1>3 DEF Dropped
<1>5. \A s \in E : dir[s].loc = "device"
  BY DEF At
<1>6. \A s \in Slots : s \in E => (dir'[s]).loc = "host"
  BY <1>1 DEF IInv, TypeOK, CacheTyped, Entries
<1> QED
  BY <1>1, <1>2, <1>4, <1>5, <1>6 DEF TierStep

(* Freeing one slot, and evicting committed residents of the others.       *)
LEMMA ReleaseSteps ==
  ASSUME IInv, NEW t \in Slots, NEW E, E \subseteq At([dir EXCEPT ![t] = Free], "device"),
         dir' = Evicted([dir EXCEPT ![t] = Free], E), dev' = Dropped(E \cup {t})
  PROVE  /\ \A s \in Slots : TierStep(s)
         /\ dir' = [s \in Slots |-> dir'[s]] /\ dev' \in [Slots -> Bytes]
         /\ dir'[t] = Free
         /\ \A s \in Slots \ {t} : s \notin E => dir'[s] = dir[s] /\ dev'[s] = dev[s]
<1> DEFINE d == [dir EXCEPT ![t] = Free]
<1>1. dir \in [Slots -> Entries] /\ Unwritten \in Bytes /\ dev \in [Slots -> Bytes]
  BY BytesOf, Sizes DEF IInv, TypeOK, CacheTyped
<1>2. d[t] = Free /\ \A s \in Slots \ {t} : d[s] = dir[s]
  BY <1>1
<1>3. \A s \in Slots : dir'[s] = IF s \in E THEN [d[s] EXCEPT !.loc = "host"] ELSE d[s]
  BY DEF Evicted
<1>4. \A s \in Slots : dev'[s] = IF s \in E \cup {t} THEN Unwritten ELSE dev[s]
  BY DEF Dropped
<1>5. \A s \in E : s \in Slots /\ d[s].loc = "device"
  BY DEF At
<1>6. t \notin E
  BY <1>2, <1>5 DEF Free
<1>7. dir'[t] = Free
  BY <1>2, <1>3, <1>6
<1>8. dir' = [s \in Slots |-> dir'[s]] /\ dev' \in [Slots -> Bytes]
  BY <1>1 DEF Evicted, Dropped
<1>9. \A s \in Slots \ {t} : s \notin E => dir'[s] = dir[s] /\ dev'[s] = dev[s]
  BY <1>2, <1>3, <1>4
<1>10. \A s \in E : dir[s].loc = "device" /\ dir'[s] = [dir[s] EXCEPT !.loc = "host"]
  BY <1>2, <1>3, <1>5, <1>6
<1> QED
  BY <1>7, <1>8, <1>9, <1>10 DEF TierStep

(* BRISC takes up a directory request other than a publication only with   *)
(* nothing reserved, nothing streamed and nothing asked of the worker.     *)
LEMMA QuietBrisc ==
  ASSUME IInv, ServesRequest, op.phase \in {"prepare", "lookup"}
  PROVE  /\ brisc = "loop" /\ stream.state = "none" /\ reserved = None /\ promote = None
         /\ move_pending = 0 /\ worker = "poll" /\ Silent /\ progress = 0
<1>1. reserved = None /\ brisc = "loop"
  BY DEF IInv, Reservation, ServesRequest
<1>2. stream.state \in {"none", "prefix", "ready", "tail"} /\ stream.state # "tail"
  BY DEF IInv, TypeOK, CacheTyped, Streams, ServesRequest
<1>3. stream.state = "none"
  BY <1>1, <1>2, NoneAssumption DEF IInv, Streaming, Handshake
<1>4. move_pending = 0
  BY <1>3 DEF ServesRequest
<1>5. worker = "poll" /\ Silent /\ promote = None
  BY <1>1, <1>3, <1>4 DEF IInv, Handshake
<1> QED
  BY <1>1, <1>3, <1>4, <1>5 DEF IInv, Streaming

(* A step between tiers keeps what is stored and what is reserved.         *)
LEMMA TiersStored ==
  ASSUME IInv, \A s \in Slots : TierStep(s), UNCHANGED <<reserved, host_values, pool>>,
         \/ op' = op
         \/ /\ op.phase \notin {"payload", "publish", "issue"}
            /\ op'.phase \notin {"payload", "publish", "issue"},
         reserved # None => dev'[reserved] = dev[reserved],
         op.phase = "issue" => \A s \in Slots : dir[s].loc # "free" => (dir'[s]).loc # "free",
         brisc' = "remove_drain" => Holding(dir', op'.key) = {}
  PROVE  Directory' /\ Reservation' /\ Contents'
<1>1. /\ UNCHANGED <<host_values, pool>>
      /\ reserved' = reserved
  OBVIOUS
<1>2. /\ Directory'
      /\ \A s \in Slots : (dir'[s]).loc # "free" =>
            dir[s].loc # "free" /\ (dir'[s]).key = dir[s].key /\ ValueOf(s)' = ValueOf(s)
      /\ \A s \in Slots : (dir'[s]).loc # "free" => Whole(ValueOf(s))'
      /\ \A s \in Slots : (dir'[s]).loc = "host" => (host_values'[s]).kind # "none"
      /\ \A s \in Slots : (dir'[s]).loc = "device" => Backed(s)'
      /\ \A k : Holding(dir', k) \subseteq Holding(dir, k)
      /\ \A s \in Slots : dir'[s] \in Entries
  BY <1>1, TierSteps
<1>3. reserved \in Slots \cup {None}
  BY DEF IInv, TypeOK, CacheTyped
<1>4. op' = op \/ reserved = None
  BY DEF IInv, Reservation
<1>5. op'.phase = "issue" <=> op.phase = "issue"
  BY DEF IInv
<1>6. Reservation'
  <2>1. CASE reserved = None
    BY <1>1, <2>1 DEF IInv, Reservation
  <2>2. CASE reserved # None
    <3>1. op' = op /\ reserved \in Slots
      BY <1>3, <1>4, <2>2
    <3>2. (dir'[reserved]).loc = "free"
      BY <1>2, <2>2, <3>1 DEF IInv, Reservation, Entries
    <3>3. Holding(dir', op.key) = {}
      BY <1>2, <2>2 DEF IInv, Reservation
    <3> QED
      BY <1>1, <2>2, <3>1, <3>2, <3>3 DEF IInv, Reservation
  <2> QED
    BY <2>1, <2>2
<1>7. Contents'
  <2>1. op'.phase = "issue" =>
          \E s \in Holding(dir', op'.key) : (ValueOf(s)' = Written(op'.val))
    <3> SUFFICES ASSUME op'.phase = "issue"
                 PROVE  \E s \in Holding(dir', op'.key) : (ValueOf(s)' = Written(op'.val))
      OBVIOUS
    <3>1. op' = op /\ op.phase = "issue"
      BY <1>5
    <3>2. PICK s \in Holding(dir, op.key) : ValueOf(s) = Written(op.val)
      BY <3>1 DEF IInv, Contents
    <3> QED
      BY <1>2, <3>1, <3>2 DEF Holding
  <2> QED
    BY <1>2, <2>1 DEF Contents
<1> QED
  BY <1>2, <1>6, <1>7

(* A step between tiers with no write-through under way keeps what is      *)
(* stored, queued and reserved.                                            *)
LEMMA TiersKeep ==
  ASSUME IInv, \A s \in Slots : TierStep(s), stream.state = "none",
         UNCHANGED <<frontier, reserved, fifo, stream, progress, host_values, pool, meta,
                     worker, wreq, ack>>,
         \/ op' = op
         \/ /\ op.phase \notin {"payload", "publish", "issue"}
            /\ op'.phase \notin {"payload", "publish", "issue"},
         reserved # None => dev'[reserved] = dev[reserved],
         op.phase = "issue" => \A s \in Slots : dir[s].loc # "free" => (dir'[s]).loc # "free",
         brisc' \in {"loop", "pass_end", "remove_drain", "serve_commit", "serve_read"},
         brisc' = "remove_drain" => Holding(dir', op'.key) = {}
  PROVE  /\ Directory' /\ Reservation' /\ Streaming' /\ Queue'
         /\ Contents' /\ Metadata' /\ Pushed'
<1>1. /\ UNCHANGED <<host_values, pool>>
      /\ UNCHANGED <<frontier, reserved, fifo, stream, progress, meta, worker, wreq, ack>>
  OBVIOUS
<1>2. /\ Directory'
      /\ \A s \in Slots : (dir'[s]).loc = "pending" => dir'[s] = dir[s] /\ dev'[s] = dev[s]
  BY <1>1, TierSteps
<1>3. op' = op \/ reserved = None
  BY DEF IInv, Reservation
<1>4. op'.phase = "issue" <=> op.phase = "issue"
  BY DEF IInv
<1>5. Reservation' /\ Contents'
  BY <1>1, TiersStored
<1>6. Streaming'
  BY <1>1, <1>3 DEF IInv, Streaming
<1>7. Queue'
  <2>1. frontier' = Len(fifo') + (IF stream'.state = "tail" THEN 1 ELSE 0)
                    - (IF op'.phase = "issue" THEN 1 ELSE 0)
    BY <1>1, <1>4 DEF IInv, Queue
  <2>2. \A s \in Slots : (dir'[s]).loc = "pending" =>
           \E i \in 1 .. Len(fifo) : fifo[i].slot = s /\ fifo[i].token = dir[s].tag
    BY <1>2 DEF IInv, Queue
  <2> QED
    BY <1>1, <1>2, <2>1, <2>2 DEF Queue
<1>8. Metadata'
  BY <1>1 DEF IInv, Metadata
<1>9. Pushed'
  BY <1>1 DEF IInv, Pushed
<1> QED
  BY <1>2, <1>5, <1>6, <1>7, <1>8, <1>9

(* A request looked up and answered without the worker.                    *)
LEMMA AnswerKeeps ==
  ASSUME IInv, ServesRequest, op.phase = "lookup", Answer,
         \A s \in Slots : TierStep(s), reply' \in Bytes,
         dir' = [s \in Slots |-> dir'[s]], dev' \in [Slots -> Bytes],
         UNCHANGED <<reserved, fifo, force, stream, progress, promote, brisc, job,
                     channelVars, workerVars>>
  PROVE  IInv'
<1>1. /\ brisc = "loop" /\ stream.state = "none" /\ reserved = None /\ promote = None
      /\ move_pending = 0 /\ worker = "poll" /\ Silent /\ progress = 0
  BY QuietBrisc
<1>2. /\ op' = Idle /\ Idle.phase = "none" /\ Idle.kind = "NONE" /\ Idle.val = 0
      /\ Idle \in Requests
      /\ UNCHANGED <<fenced, frontier, puts, host_values, pool, meta, worker, wreq, ack,
                     move_pending>>
      /\ UNCHANGED <<reserved, fifo, force, stream, progress, promote, brisc, job>>
      /\ UNCHANGED <<channelVars, workerVars>>
  BY Sizes DEF Idle, Requests, Answer, channelVars, workerVars
<1>3. /\ Directory' /\ Reservation' /\ Streaming' /\ Queue'
      /\ Contents' /\ Metadata' /\ Pushed'
  BY <1>1, <1>2, TiersKeep
<1>4. \A s \in Slots : dir'[s] \in Entries
  BY <1>2, TierSteps
<1>5. ClientsTyped'
  BY <1>2 DEF IInv, TypeOK, ClientsTyped
<1>6. CacheTyped'
  BY <1>2, <1>4 DEF IInv, TypeOK, CacheTyped
<1>7. BriscTyped'
  BY <1>2 DEF IInv, TypeOK, BriscTyped
<1>8. ChannelsTyped' /\ WorkerTyped'
  BY <1>2 DEF IInv, TypeOK, ChannelsTyped, WorkerTyped, channelVars, workerVars
<1>9. Handshake'
  BY <1>1, <1>2 DEF Handshake, Silent, channelVars
<1>10. Phases'
  BY <1>1, <1>2 DEF Phases
<1>11. Supplying'
  BY <1>1, <1>2 DEF Supplying
<1> QED
  BY <1>3, <1>5, <1>6, <1>7, <1>8, <1>9, <1>10, <1>11 DEF IInv, TypeOK

(* A step that leaves the entries and their blocks alone.                  *)
LEMMA StillSteps ==
  ASSUME IInv, UNCHANGED <<dir, dev>>
  PROVE  /\ \A s \in Slots : TierStep(s)
         /\ dir' = [s \in Slots |-> dir'[s]] /\ dev' \in [Slots -> Bytes]
         /\ dir' \in [Slots -> Entries]
BY DEF IInv, TypeOK, CacheTyped, TierStep

(* EXISTS.                                                                 *)
LEMMA AnswerExistsKeeps == ASSUME IInv, AnswerExists PROVE IInv'
<1>1. /\ ServesRequest /\ op.phase = "lookup" /\ Answer
      /\ reply' = IF Holding(dir, op.key) = {} THEN Unwritten ELSE Present
      /\ UNCHANGED <<cacheVars, brisc, job, channelVars, workerVars>>
  BY DEF AnswerExists, Serves
<1>2. reply' \in Bytes
  BY <1>1, BytesOf, Sizes DEF Present
<1>3. UNCHANGED <<dir, dev>> /\ UNCHANGED <<reserved, fifo, force, stream, progress, promote>>
  BY <1>1 DEF cacheVars
<1>4. /\ \A s \in Slots : TierStep(s)
      /\ dir' = [s \in Slots |-> dir'[s]] /\ dev' \in [Slots -> Bytes]
  BY <1>3, StillSteps
<1> QED
  BY <1>1, <1>2, <1>3, <1>4, AnswerKeeps

(* A lookup that finds nothing to do.                                      *)
LEMMA LookupWithoutEffectKeeps == ASSUME IInv, LookupWithoutEffect PROVE IInv'
<1>1. /\ ServesRequest /\ op.phase = "lookup" /\ Answer
      /\ UNCHANGED <<reply, cacheVars, brisc, job, channelVars, workerVars>>
  BY DEF LookupWithoutEffect
<1>2. reply' \in Bytes
  BY <1>1 DEF IInv, TypeOK, ClientsTyped
<1>3. UNCHANGED <<dir, dev>> /\ UNCHANGED <<reserved, fifo, force, stream, progress, promote>>
  BY <1>1 DEF cacheVars
<1>4. /\ \A s \in Slots : TierStep(s)
      /\ dir' = [s \in Slots |-> dir'[s]] /\ dev' \in [Slots -> Bytes]
  BY <1>3, StillSteps
<1> QED
  BY <1>1, <1>2, <1>3, <1>4, AnswerKeeps

(* A GET of a resident value.                                              *)
LEMMA GetResidentKeeps ==
  ASSUME IInv, NEW s \in Slots, GetResident(s)
  PROVE  IInv'
<1>1. /\ ServesRequest /\ op.phase = "lookup" /\ Answer /\ reply' = dev[s]
      /\ UNCHANGED <<cacheVars, brisc, job, channelVars, workerVars>>
  BY DEF GetResident, Serves
<1>2. reply' \in Bytes
  BY <1>1 DEF IInv, TypeOK, CacheTyped
<1>3. UNCHANGED <<dir, dev>> /\ UNCHANGED <<reserved, fifo, force, stream, progress, promote>>
  BY <1>1 DEF cacheVars
<1>4. /\ \A t \in Slots : TierStep(t)
      /\ dir' = [t \in Slots |-> dir'[t]] /\ dev' \in [Slots -> Bytes]
  BY <1>3, StillSteps
<1> QED
  BY <1>1, <1>2, <1>3, <1>4, AnswerKeeps

(* Metadata that names the generation of a durable entry is of its extent: *)
(* only what the worker is receiving has metadata and no value yet.        *)
LEMMA InPlaceIsMapped ==
  ASSUME IInv, NEW s \in Slots, dir[s].loc \in {"device", "host"}, ServedInPlace(s)
  PROVE  host_values[s].kind = "mapped" /\ BackingBytes(s) = pool[s]
<1>1. meta[s] # 0
  BY DEF ServedInPlace
<1>2. ~(worker = "receive" /\ wreq.slot = s)
  BY TargetIsNotDurable
<1> QED
  BY <1>1, <1>2 DEF IInv, Metadata, BackingBytes

(* A GET from the host tier, read in place: the block it fills gets the    *)
(* host copy.                                                              *)
LEMMA GetInPlaceTiers ==
  ASSUME IInv, NEW s \in Slots, NEW E \in SUBSET Slots, NEW admit \in BOOLEAN,
         GetInPlace(s, E, admit)
  PROVE  /\ dir[s].loc = "host" /\ BackingBytes(s) = pool[s] /\ pool[s] \in Bytes
         /\ \A t \in Slots : TierStep(t)
         /\ dir' = [t \in Slots |-> dir'[t]] /\ dev' \in [Slots -> Bytes]
         /\ \A t \in Slots : dir[t].loc # "free" => (dir'[t]).loc # "free"
<1>1. /\ ServesRequest /\ op.phase = "lookup" /\ Answer
      /\ dir[s].loc = "host" /\ ServedInPlace(s) /\ reply' = pool[s]
      /\ UNCHANGED <<reserved, fifo, force, stream, progress, promote, brisc, job,
                     channelVars, workerVars>>
      /\ IF admit
         THEN /\ MakesRoom(dir, E)
              /\ dir' = [Evicted(dir, E) EXCEPT ![s].loc = "device"]
              /\ dev' = [Dropped(E) EXCEPT ![s] = pool[s]]
         ELSE /\ E = At(dir, "device")
              /\ dir' = Evicted(dir, E)
              /\ dev' = Dropped(E)
  BY DEF GetInPlace, Serves, At
<1>2. pool[s] \in Bytes
  BY DEF IInv, TypeOK, WorkerTyped
<1>3. BackingBytes(s) = pool[s]
  BY <1>1, InPlaceIsMapped
<1>4. /\ \A t \in Slots : TierStep(t)
      /\ dir' = [t \in Slots |-> dir'[t]] /\ dev' \in [Slots -> Bytes]
      /\ \A t \in Slots : dir[t].loc # "free" => (dir'[t]).loc # "free"
  <2>1. CASE ~admit
    BY <1>1, <2>1, EvictionSteps
  <2>2. CASE admit
    <3>1. E \subseteq At(dir, "device") /\ s \notin E
      BY <1>1, <2>2 DEF MakesRoom, At
    <3>2. \A t \in Slots : Evicted(dir, E)[t] =
             IF t \in E THEN [dir[t] EXCEPT !.loc = "host"] ELSE dir[t]
      BY DEF Evicted
    <3>3. \A t \in E : dir[t].loc = "device"
      BY <3>1 DEF At
    <3>4. \A t \in Slots \ {s} : dir'[t] = Evicted(dir, E)[t]
      BY <1>1, <2>2 DEF Evicted
    <3>5. dir'[s] = [dir[s] EXCEPT !.loc = "device"]
      BY <1>1, <2>2, <3>1 DEF Evicted
    <3>6. dir' = [t \in Slots |-> dir'[t]]
      BY <1>1, <2>2 DEF Evicted
    <3>7. /\ dev'[s] = pool[s]
          /\ \A t \in Slots \ {s} : dev'[t] = IF t \in E THEN Unwritten ELSE dev[t]
      BY <1>1, <2>2 DEF Dropped
    <3>8. dev' \in [Slots -> Bytes]
      BY <1>1, <1>2, <2>2, BytesOf, Sizes DEF Dropped, IInv, TypeOK, CacheTyped
    <3>9. TierStep(s)
      BY <1>1, <1>3, <3>5, <3>7 DEF TierStep
    <3>10. \A t \in Slots \ {s} : TierStep(t)
      BY <3>2, <3>3, <3>4, <3>7 DEF TierStep
    <3>11. \A t \in Slots : t \in E => [dir[t] EXCEPT !.loc = "host"].loc = "host"
      BY DEF IInv, TypeOK, CacheTyped, Entries
    <3>12. (dir'[s]).loc = "device"
      BY <3>5 DEF IInv, TypeOK, CacheTyped, Entries
    <3>13. \A t \in Slots \ {s} : dir[t].loc # "free" => (dir'[t]).loc # "free"
      BY <3>2, <3>4, <3>11
    <3> QED
      BY <3>6, <3>8, <3>9, <3>10, <3>12, <3>13
  <2> QED
    BY <2>1, <2>2
<1> QED
  BY <1>1, <1>2, <1>3, <1>4

(* Such a GET is answered.                                                 *)
LEMMA GetInPlaceKeeps ==
  ASSUME IInv, NEW s \in Slots, NEW E \in SUBSET Slots, NEW admit \in BOOLEAN,
         GetInPlace(s, E, admit)
  PROVE  IInv'
<1>1. /\ ServesRequest /\ op.phase = "lookup" /\ Answer /\ reply' = pool[s]
      /\ UNCHANGED <<reserved, fifo, force, stream, progress, promote, brisc, job,
                     channelVars, workerVars>>
  BY DEF GetInPlace, Serves
<1>2. /\ pool[s] \in Bytes
      /\ \A t \in Slots : TierStep(t)
      /\ dir' = [t \in Slots |-> dir'[t]] /\ dev' \in [Slots -> Bytes]
  BY GetInPlaceTiers
<1> QED
  BY <1>1, <1>2, AnswerKeeps

(* A committed resident is moved to the host tier.                         *)
LEMMA MoveToHostKeeps ==
  ASSUME IInv, NEW s \in Slots, MoveToHost(s)
  PROVE  IInv'
<1>1. /\ ServesRequest /\ op.phase = "lookup" /\ Answer /\ {s} \subseteq At(dir, "device")
      /\ dir' = Evicted(dir, {s}) /\ dev' = Dropped({s}) /\ reply' = reply
      /\ UNCHANGED <<reserved, fifo, force, stream, progress, promote, brisc, job,
                     channelVars, workerVars>>
  BY DEF MoveToHost, Serves
<1>2. reply' \in Bytes
  BY <1>1 DEF IInv, TypeOK, ClientsTyped
<1>3. /\ \A t \in Slots : TierStep(t)
      /\ dir' = [t \in Slots |-> dir'[t]] /\ dev' \in [Slots -> Bytes]
  BY <1>1, EvictionSteps
<1> QED
  BY <1>1, <1>2, <1>3, AnswerKeeps

(* A move to the device for which no block can be had.                     *)
LEMMA MoveToDeviceStarvedKeeps ==
  ASSUME IInv, NEW s \in Slots, MoveToDeviceStarved(s)
  PROVE  IInv'
<1> DEFINE E == At(dir, "device")
<1>1. /\ ServesRequest /\ op.phase = "lookup" /\ Answer /\ E \subseteq At(dir, "device")
      /\ dir' = Evicted(dir, E) /\ dev' = Dropped(E) /\ reply' = reply
      /\ UNCHANGED <<reserved, fifo, force, stream, progress, promote, brisc, job,
                     channelVars, workerVars>>
  BY DEF MoveToDeviceStarved, Serves
<1>2. reply' \in Bytes
  BY <1>1 DEF IInv, TypeOK, ClientsTyped
<1>3. /\ \A t \in Slots : TierStep(t)
      /\ dir' = [t \in Slots |-> dir'[t]] /\ dev' \in [Slots -> Bytes]
  BY <1>1, EvictionSteps
<1> QED
  BY <1>1, <1>2, <1>3, AnswerKeeps

(* A refused prepare: NCRISC asks again.                                   *)
LEMMA RefusalKeeps ==
  ASSUME IInv, ServesRequest, op.phase = "prepare", \A s \in Slots : TierStep(s),
         dir' = [s \in Slots |-> dir'[s]], dev' \in [Slots -> Bytes],
         force' = (force \/ fifo # <<>>),
         UNCHANGED <<clientVars, reserved, fifo, stream, progress, promote, brisc, job,
                     channelVars, workerVars>>
  PROVE  IInv'
<1>1. /\ brisc = "loop" /\ stream.state = "none" /\ reserved = None /\ promote = None
      /\ move_pending = 0 /\ worker = "poll" /\ Silent /\ progress = 0
  BY QuietBrisc
<1>2. /\ UNCHANGED <<op, fenced, frontier, puts, reply, host_values, pool, meta, worker, wreq,
                     ack, move_pending>>
      /\ UNCHANGED <<reserved, fifo, stream, progress, promote, brisc, job>>
      /\ UNCHANGED <<channelVars, workerVars>>
  BY DEF clientVars, channelVars, workerVars
<1>3. /\ Directory' /\ Reservation' /\ Streaming' /\ Queue'
      /\ Contents' /\ Metadata' /\ Pushed'
  BY <1>1, <1>2, TiersKeep
<1>4. \A s \in Slots : dir'[s] \in Entries
  BY <1>2, TierSteps
<1>5. ClientsTyped'
  BY <1>2 DEF IInv, TypeOK, ClientsTyped
<1>6. CacheTyped'
  <2>1. force' \in BOOLEAN
    OBVIOUS
  <2> QED
    BY <1>2, <1>4, <2>1 DEF IInv, TypeOK, CacheTyped
<1>7. BriscTyped'
  BY <1>2 DEF IInv, TypeOK, BriscTyped
<1>8. ChannelsTyped' /\ WorkerTyped'
  BY <1>2 DEF IInv, TypeOK, ChannelsTyped, WorkerTyped, channelVars, workerVars
<1>9. Handshake'
  BY <1>1, <1>2 DEF Handshake, Silent, channelVars
<1>10. Phases'
  BY <1>2 DEF IInv, Phases
<1>11. Supplying'
  BY <1>1, <1>2 DEF Supplying
<1> QED
  BY <1>3, <1>5, <1>6, <1>7, <1>8, <1>9, <1>10, <1>11 DEF IInv, TypeOK

(* A prepare for which no slot may be taken.                               *)
LEMMA PrepareRetryKeeps == ASSUME IInv, PrepareRetry PROVE IInv'
<1>1. /\ ServesRequest /\ op.phase = "prepare" /\ force' = (force \/ fifo # <<>>)
      /\ UNCHANGED <<dir, dev>>
      /\ UNCHANGED <<clientVars, reserved, fifo, stream, progress, promote, brisc, job,
                     channelVars, workerVars>>
  BY DEF PrepareRetry
<1>2. /\ \A s \in Slots : TierStep(s)
      /\ dir' = [s \in Slots |-> dir'[s]] /\ dev' \in [Slots -> Bytes]
  BY <1>1, StillSteps
<1> QED
  BY <1>1, <1>2, RefusalKeeps

(* A prepare that frees a slot and finds no block.                         *)
LEMMA PrepareStarvedKeeps ==
  ASSUME IInv, NEW s \in Slots, PrepareStarved(s)
  PROVE  IInv'
<1> DEFINE d == [dir EXCEPT ![s] = Free]
           E == At(d, "device")
<1>1. /\ ServesRequest /\ op.phase = "prepare" /\ force' = (force \/ fifo # <<>>)
      /\ dir' = Evicted(d, E) /\ dev' = Dropped(E \cup {s}) /\ E \subseteq At(d, "device")
      /\ UNCHANGED <<clientVars, reserved, fifo, stream, progress, promote, brisc, job,
                     channelVars, workerVars>>
  BY DEF PrepareStarved
<1>2. /\ \A t \in Slots : TierStep(t)
      /\ dir' = [t \in Slots |-> dir'[t]] /\ dev' \in [Slots -> Bytes]
  BY <1>1, ReleaseSteps
<1> QED
  BY <1>1, <1>2, RefusalKeeps

(* A GET that asks the worker for the value.                               *)
LEMMA GetThroughWindowKeeps ==
  ASSUME IInv, NEW s \in Slots, NEW E \in SUBSET Slots, NEW admit \in BOOLEAN,
         GetThroughWindow(s, E, admit)
  PROVE  IInv'
<1>1. /\ ServesRequest /\ op.phase = "lookup" /\ op.kind = "GET"
      /\ dir[s].loc = "host" /\ dir[s].key = op.key
      /\ E \subseteq At(dir, "device")
      /\ dir' = Evicted(dir, E) /\ dev' = Dropped(E)
      /\ move_req' = [op |-> "HOST_SERVE", slot |-> s] /\ move_pending' = move_pending + 1
      /\ UNCHANGED <<ack, ack_pending, push_pending, commit_req, commit_pending,
                     supply_pending, stage_progress>>
      /\ op' = [op EXCEPT !.phase = "serving"]
      /\ job' = [NoJob EXCEPT !.slot = s, !.admit = admit]
      /\ brisc' = "serve_commit"
      /\ UNCHANGED <<fenced, frontier, puts, reply, reserved, fifo, force, stream, progress,
                     promote, workerVars>>
  BY DEF GetThroughWindow, Serves, Post, MakesRoom, Holding, At
<1>2. /\ brisc = "loop" /\ stream.state = "none" /\ reserved = None /\ promote = None
      /\ move_pending = 0 /\ worker = "poll" /\ Silent /\ progress = 0
  BY <1>1, QuietBrisc
<1>3. /\ UNCHANGED <<host_values, pool, meta, worker, wreq, ack>>
      /\ UNCHANGED workerVars
  BY <1>1 DEF workerVars
<1>4. /\ op'.phase = "serving" /\ op'.kind = "GET" /\ op'.key = op.key /\ op'.val = op.val
      /\ op'.client = op.client /\ op' \in Requests
  BY <1>1 DEF IInv, TypeOK, ClientsTyped, Requests
<1>5. job'.slot = s /\ job'.got = <<>> /\ job' \in Jobs
  <2>1. job' = [slot |-> s, tag |-> 0, src |-> "window", admit |-> admit, got |-> <<>>]
    BY <1>1 DEF NoJob
  <2>2. <<>> \in Seq(Values)
    OBVIOUS
  <2> QED
    BY <2>1, <2>2, Sizes DEF Jobs
<1>6. \A t \in Slots : TierStep(t)
  BY <1>1, EvictionSteps
<1>7. dir' = [t \in Slots |-> dir'[t]] /\ dev' \in [Slots -> Bytes] /\ dir'[s] = dir[s]
  <2>1. s \notin E
    BY <1>1 DEF At
  <2> QED
    BY <1>1, <2>1, EvictionSteps
<1>8. /\ Directory' /\ Reservation' /\ Streaming' /\ Queue'
      /\ Contents' /\ Metadata' /\ Pushed'
  BY <1>1, <1>2, <1>3, <1>4, <1>6, TiersKeep
<1>9. \A t \in Slots : dir'[t] \in Entries
  BY <1>3, <1>6, TierSteps
<1>10. ClientsTyped'
  BY <1>1, <1>4 DEF IInv, TypeOK, ClientsTyped
<1>11. CacheTyped'
  BY <1>1, <1>7, <1>9 DEF IInv, TypeOK, CacheTyped
<1>12. BriscTyped'
  BY <1>1, <1>5 DEF BriscTyped
<1>13. ChannelsTyped'
  BY <1>1, <1>2 DEF IInv, TypeOK, ChannelsTyped, HostRequests
<1>14. WorkerTyped'
  BY <1>3 DEF IInv, TypeOK, WorkerTyped, workerVars
<1>15. Handshake'
  BY <1>1, <1>2, <1>3, <1>5 DEF Handshake, Serving, Silent
<1>16. Phases'
  BY <1>1, <1>4 DEF IInv, Phases, Idle
<1>17. Supplying'
  BY <1>1, <1>2, <1>4, <1>5, <1>7 DEF Supplying, Silent
<1> QED
  BY <1>8, <1>10, <1>11, <1>12, <1>13, <1>14, <1>15, <1>16, <1>17 DEF IInv, TypeOK

(* BRISC learns where the value of a GET is to be read.                    *)
LEMMA ServeCommitKeeps == ASSUME IInv, ServeCommit PROVE IInv'
<1>1. /\ brisc = "serve_commit" /\ commit_pending /\ commit_pending' = FALSE
      /\ job' = [job EXCEPT !.src = commit_req.src]
      /\ brisc' = "serve_read"
      /\ UNCHANGED <<move_req, move_pending, ack, ack_pending, push_pending, commit_req,
                     supply_pending, stage_progress>>
      /\ UNCHANGED <<op, frontier, dir, dev, reserved, fifo, stream, progress, promote,
                     host_values, pool, meta, worker, wreq, window>>
      /\ UNCHANGED <<clientVars, cacheVars, workerVars>>
  BY DEF ServeCommit, clientVars, cacheVars, workerVars
<1>2. stream.state = "none" /\ Serving(job.slot, TRUE) /\ supply_pending
  BY <1>1 DEF IInv, Handshake, Serving
<1>3. /\ commit_req.src \in Sources /\ job \in Jobs
  BY DEF IInv, TypeOK, ChannelsTyped, BriscTyped
<1>4. job' \in Jobs /\ job'.slot = job.slot /\ job'.src = commit_req.src /\ job'.got = job.got
  BY <1>1, <1>3 DEF Jobs
<1>5. \A s \in Slots : TierStep(s)
  BY <1>1, StillSteps
<1>6. /\ Directory' /\ Reservation' /\ Streaming' /\ Queue'
      /\ Contents' /\ Metadata' /\ Pushed'
  BY <1>1, <1>2, <1>5, TiersKeep
<1>7. ClientsTyped' /\ CacheTyped' /\ WorkerTyped'
  BY <1>1 DEF IInv, TypeOK, ClientsTyped, CacheTyped, WorkerTyped, clientVars, cacheVars,
     workerVars
<1>8. BriscTyped' /\ ChannelsTyped'
  BY <1>1, <1>4 DEF IInv, TypeOK, BriscTyped, ChannelsTyped
<1>9. Handshake'
  BY <1>1, <1>2, <1>4 DEF IInv, Handshake, Serving
<1>10. Phases'
  BY <1>1 DEF IInv, Phases, clientVars
<1>11. Supplying'
  <2>1. /\ job.slot \in Slots /\ dir[job.slot].loc = "host" /\ dir[job.slot].key = op.key
        /\ commit_req = [slot |-> job.slot, src |-> SupplySource]
        /\ job.got = <<>> /\ stage_progress \in Nat
    BY <1>1, <1>2, Sizes DEF IInv, Supplying, TypeOK, ChannelsTyped
  <2>2. Len(<<>>) = 0 /\ 1 .. 0 = {}
    OBVIOUS
  <2>3. SupplySource' = SupplySource /\ job'.src = SupplySource
    BY <1>1, <1>4, <2>1 DEF SupplySource
  <2>4. /\ Len(job'.got) <= stage_progress'
        /\ \A i \in 1 .. Len(job'.got) : (job'.got)[i] = (BackingBytes(job.slot)[i])'
    BY <1>1, <1>4, <2>1, <2>2
  <2> QED
    BY <1>1, <1>2, <1>4, <2>1, <2>3, <2>4
       DEF IInv, Supplying, Handshake, SourceBytes, BackingBytes
<1> QED
  BY <1>6, <1>7, <1>8, <1>9, <1>10, <1>11 DEF IInv, TypeOK

(* One more group of a GET goes to the Client.                             *)
LEMMA ServeReadKeeps == ASSUME IInv, ServeRead PROVE IInv'
<1> DEFINE n == Len(job.got)
           v == SourceBytes(job.src, job.slot)[n + 1]
<1>1. /\ brisc = "serve_read" /\ n < NumChunks /\ stage_progress > n
      /\ job' = [job EXCEPT !.got = Append(job.got, v)]
      /\ UNCHANGED <<clientVars, cacheVars, brisc, channelVars, workerVars>>
  BY DEF ServeRead
<1>2. /\ UNCHANGED <<op, frontier, dir, dev, reserved, fifo, stream, progress, promote,
                     host_values, pool, meta, worker, wreq, ack, window, commit_req,
                     supply_pending, commit_pending, stage_progress, brisc>>
  BY <1>1 DEF clientVars, cacheVars, channelVars, workerVars
<1>3. /\ stream.state = "none" /\ Serving(job.slot, TRUE) /\ supply_pending /\ promote = None
      /\ job.slot \in Slots /\ job.src = SupplySource /\ wreq.slot = job.slot
  BY <1>1 DEF IInv, Handshake, Serving, Supplying
<1>4. job \in Jobs /\ job.got \in Seq(Values) /\ n \in Nat /\ stage_progress \in 0 .. NumChunks
  BY DEF IInv, TypeOK, BriscTyped, Jobs, ChannelsTyped
<1>5. n + 1 \in Chunks
  BY <1>1, <1>4, Sizes DEF Chunks
<1>6. v = BackingBytes(job.slot)[n + 1]
  <2>1. CASE job.src = "mapped"
    <3>1. host_values[job.slot].kind = "mapped"
      BY <1>3, <2>1 DEF SupplySource
    <3> QED
      BY <2>1, <3>1 DEF SourceBytes, BackingBytes
  <2>2. CASE job.src # "mapped"
    <3>1. host_values[job.slot].kind # "mapped" /\ SupplySource = "window"
      BY <1>3, <2>2 DEF SupplySource
    <3>2. n + 1 \in 1 .. (IF worker = "publish" THEN stage_progress + 1 ELSE stage_progress)
      BY <1>1, <1>4, Sizes
    <3>3. window[n + 1] = host_values[job.slot].bytes[n + 1]
      BY <1>1, <1>3, <3>1, <3>2 DEF IInv, Supplying
    <3> QED
      BY <2>2, <3>1, <3>3 DEF SourceBytes, BackingBytes
  <2> QED
    BY <2>1, <2>2
<1>7. v \in Values
  <2>1. BackingBytes(job.slot) \in Bytes
    BY <1>3 DEF IInv, TypeOK, WorkerTyped, Backings, BackingBytes
  <2> QED
    BY <1>5, <1>6, <2>1 DEF Bytes
<1>8. Append(job.got, v) \in Seq(Values) /\ Len(Append(job.got, v)) = n + 1
  BY <1>4, <1>7
<1>9. \A i \in 1 .. n + 1 : Append(job.got, v)[i] = BackingBytes(job.slot)[i]
  <2>1. \A i \in 1 .. n : Append(job.got, v)[i] = job.got[i]
    BY <1>4, <1>7
  <2>2. Append(job.got, v)[n + 1] = v
    BY <1>4, <1>7
  <2>3. \A i \in 1 .. n : job.got[i] = BackingBytes(job.slot)[i]
    BY <1>1 DEF IInv, Supplying
  <2> QED
    BY <1>4, <1>6, <2>1, <2>2, <2>3
<1>10. /\ job' \in Jobs /\ job'.got = Append(job.got, v) /\ job'.slot = job.slot
       /\ job'.src = job.src
  BY <1>1, <1>4, <1>8 DEF Jobs
<1> HIDE DEF n, v
<1>11. \A s \in Slots : TierStep(s)
  BY <1>2, StillSteps
<1>12. /\ Directory' /\ Reservation' /\ Streaming' /\ Queue'
       /\ Contents' /\ Metadata' /\ Pushed'
  BY <1>1, <1>2, <1>3, <1>11, TiersKeep
<1>13. ClientsTyped' /\ CacheTyped' /\ WorkerTyped' /\ ChannelsTyped'
  BY <1>1 DEF IInv, TypeOK, ClientsTyped, CacheTyped, WorkerTyped, ChannelsTyped, clientVars,
     cacheVars, workerVars, channelVars
<1>14. BriscTyped'
  BY <1>2, <1>10 DEF IInv, TypeOK, BriscTyped
<1>15. Handshake'
  BY <1>1, <1>2, <1>3, <1>10 DEF IInv, Handshake, Serving, channelVars
<1>16. Phases'
  BY <1>1, <1>2 DEF IInv, Phases, clientVars
<1>17. Supplying'
  <2>1. SupplySource' = SupplySource /\ BackingBytes(job.slot)' = BackingBytes(job.slot)
    BY <1>2, <1>10 DEF SupplySource, BackingBytes
  <2>3. Len(job'.got) <= stage_progress'
    BY <1>1, <1>2, <1>4, <1>8, <1>10 DEF n
  <2>4. \A i \in 1 .. Len(job'.got) : (job'.got)[i] = (BackingBytes(job.slot)')[i]
    BY <1>8, <1>9, <1>10, <2>1
  <2> QED
    BY <1>1, <1>2, <1>3, <1>10, <2>1, <2>3, <2>4 DEF IInv, Supplying, SourceBytes
<1> QED
  BY <1>12, <1>13, <1>14, <1>15, <1>16, <1>17 DEF IInv, TypeOK

(* What a GET through the window has read is the value of its key.         *)
LEMMA ReadIsTheValue ==
  ASSUME IInv, brisc = "serve_read", Len(job.got) = NumChunks
  PROVE  /\ job.got = BackingBytes(job.slot) /\ job.got \in Bytes
         /\ job.slot \in Slots /\ dir[job.slot].loc = "host" /\ dir[job.slot].key = op.key
<1>1. job.got \in Seq(Values)
  BY DEF IInv, TypeOK, BriscTyped, Jobs
<1>2. /\ job.slot \in Slots /\ dir[job.slot].loc = "host" /\ dir[job.slot].key = op.key
      /\ \A i \in 1 .. Len(job.got) : job.got[i] = BackingBytes(job.slot)[i]
  BY DEF IInv, Supplying
<1>3. BackingBytes(job.slot) \in [Chunks -> Values]
  BY <1>2 DEF IInv, TypeOK, WorkerTyped, Backings, BackingBytes, Bytes
<1>4. job.got \in [Chunks -> Values]
  BY <1>1 DEF Chunks
<1>5. job.got = BackingBytes(job.slot)
  BY <1>2, <1>3, <1>4 DEF Chunks
<1> QED
  BY <1>2, <1>4, <1>5 DEF Bytes

(* The whole value is out: the block that was admitted gets it.            *)
LEMMA ServeDoneTiers ==
  ASSUME IInv, ServeDone
  PROVE  /\ \A s \in Slots : TierStep(s)
         /\ dir' = [s \in Slots |-> dir'[s]] /\ dev' \in [Slots -> Bytes]
         /\ \A s \in Slots : dir[s].loc # "free" => (dir'[s]).loc # "free"
<1>1. /\ brisc = "serve_read" /\ Len(job.got) = NumChunks
      /\ IF job.admit
         THEN /\ dir' = [dir EXCEPT ![job.slot].loc = "device"]
              /\ dev' = [dev EXCEPT ![job.slot] = job.got]
         ELSE UNCHANGED <<dir, dev>>
  BY DEF ServeDone
<1>2. /\ job.got = BackingBytes(job.slot) /\ job.got \in Bytes
      /\ job.slot \in Slots /\ dir[job.slot].loc = "host"
  BY <1>1, ReadIsTheValue
<1>3. dir \in [Slots -> Entries] /\ dev \in [Slots -> Bytes]
  BY DEF IInv, TypeOK, CacheTyped
<1>4. CASE job.admit
  <2>1. /\ dir'[job.slot] = [dir[job.slot] EXCEPT !.loc = "device"]
        /\ \A s \in Slots \ {job.slot} : dir'[s] = dir[s]
    BY <1>1, <1>2, <1>3, <1>4
  <2>2. dev'[job.slot] = job.got /\ \A s \in Slots \ {job.slot} : dev'[s] = dev[s]
    BY <1>1, <1>2, <1>3, <1>4
  <2>3. dir' = [s \in Slots |-> dir'[s]] /\ dev' \in [Slots -> Bytes]
    BY <1>1, <1>2, <1>3, <1>4
  <2>4. (dir'[job.slot]).loc = "device"
    BY <1>2, <1>3, <2>1 DEF Entries
  <2> QED
    BY <1>2, <2>1, <2>2, <2>3, <2>4 DEF TierStep
<1>5. CASE ~job.admit
  BY <1>1, <1>5, StillSteps
<1> QED
  BY <1>4, <1>5

(* The whole value is out.                                                 *)
LEMMA ServeDoneKeeps == ASSUME IInv, ServeDone PROVE IInv'
<1>1. /\ brisc = "serve_read" /\ Len(job.got) = NumChunks
      /\ reply' = job.got /\ Answer
      /\ supply_pending' = FALSE /\ job' = NoJob /\ brisc' = "loop"
      /\ UNCHANGED <<reserved, fifo, force, stream, progress, promote, move_req, move_pending,
                     ack, ack_pending, push_pending, commit_req, commit_pending,
                     stage_progress, workerVars>>
      /\ UNCHANGED <<host_values, pool, meta, worker, wreq, window>>
  BY DEF ServeDone, workerVars
<1>2. /\ op' = Idle /\ Idle.phase = "none" /\ Idle.kind = "NONE" /\ Idle.val = 0
      /\ Idle \in Requests /\ UNCHANGED <<fenced, frontier, puts>>
  BY <1>1, Sizes DEF Idle, Requests, Answer
<1>3. /\ stream.state = "none" /\ Serving(job.slot, TRUE) /\ promote = None
      /\ op.phase = "serving" /\ reserved = None /\ ~commit_pending
  BY <1>1 DEF IInv, Handshake, Phases, Reservation
<1>4. job.got \in Bytes
  BY <1>1, ReadIsTheValue
<1>5. /\ \A s \in Slots : TierStep(s)
      /\ dir' = [s \in Slots |-> dir'[s]] /\ dev' \in [Slots -> Bytes]
  BY ServeDoneTiers
<1>6. /\ Directory' /\ Reservation' /\ Streaming' /\ Queue'
      /\ Contents' /\ Metadata' /\ Pushed'
  BY <1>1, <1>2, <1>3, <1>5, TiersKeep
<1>7. \A s \in Slots : dir'[s] \in Entries
  BY <1>1, <1>5, TierSteps
<1>8. ClientsTyped'
  BY <1>1, <1>2, <1>4 DEF IInv, TypeOK, ClientsTyped
<1>9. CacheTyped'
  BY <1>1, <1>5, <1>7 DEF IInv, TypeOK, CacheTyped
<1>10. BriscTyped'
  <2>1. NoJob \in Jobs
    BY Sizes DEF NoJob, Jobs
  <2> QED
    BY <1>1, <2>1 DEF BriscTyped
<1>11. ChannelsTyped' /\ WorkerTyped'
  BY <1>1 DEF IInv, TypeOK, ChannelsTyped, WorkerTyped, workerVars
<1>12. stage_progress = NumChunks
  BY <1>1, Sizes DEF IInv, TypeOK, ChannelsTyped, Supplying
<1>13. worker = "await"
  BY <1>1, <1>3, <1>12, Sizes DEF IInv, Supplying, Serving
<1>14. Handshake'
  BY <1>1, <1>3, <1>13 DEF Handshake, Serving, Released, Silent
<1>15. Phases'
  BY <1>1, <1>2 DEF Phases
<1>16. Supplying'
  BY <1>1, <1>3 DEF Supplying
<1> QED
  BY <1>6, <1>8, <1>9, <1>10, <1>11, <1>14, <1>15, <1>16 DEF IInv, TypeOK

(* A stored key is removed: its entry first, then its host copy.           *)
LEMMA RemoveKeeps ==
  ASSUME IInv, NEW s \in Slots, Remove(s)
  PROVE  IInv'
<1>1. /\ ServesRequest /\ op.phase = "lookup" /\ op.kind = "REMOVE"
      /\ dir[s].loc # "free" /\ dir[s].key = op.key
      /\ dir' = [dir EXCEPT ![s] = Free] /\ dev' = Dropped({s})
      /\ move_req' = [op |-> "REMOVE_BACKING", slot |-> s] /\ move_pending' = move_pending + 1
      /\ UNCHANGED <<ack, ack_pending, push_pending, commit_req, commit_pending,
                     supply_pending, stage_progress>>
      /\ op' = [op EXCEPT !.phase = "serving"]
      /\ brisc' = "remove_drain"
      /\ UNCHANGED <<fenced, frontier, puts, reply, reserved, fifo, force, stream, progress,
                     promote, job, workerVars>>
  BY DEF Remove, Serves, Post, Holding
<1>2. /\ brisc = "loop" /\ stream.state = "none" /\ reserved = None /\ promote = None
      /\ move_pending = 0 /\ worker = "poll" /\ Silent /\ progress = 0
  BY <1>1, QuietBrisc
<1>3. /\ UNCHANGED <<host_values, pool, meta, worker, wreq, ack>>
      /\ UNCHANGED workerVars
  BY <1>1 DEF workerVars
<1>4. /\ op'.phase = "serving" /\ op'.kind = "REMOVE" /\ op'.key = op.key /\ op'.val = op.val
      /\ op'.client = op.client /\ op' \in Requests
  BY <1>1 DEF IInv, TypeOK, ClientsTyped, Requests
<1>5. dir \in [Slots -> Entries] /\ dev \in [Slots -> Bytes] /\ Unwritten \in Bytes
  BY BytesOf, Sizes DEF IInv, TypeOK, CacheTyped
<1>6. dir'[s] = Free /\ \A t \in Slots \ {s} : dir'[t] = dir[t] /\ dev'[t] = dev[t]
  BY <1>1, <1>5 DEF Dropped
<1>7. \A t \in Slots : TierStep(t)
  BY <1>6 DEF TierStep
<1>8. dir' = [t \in Slots |-> dir'[t]] /\ dev' \in [Slots -> Bytes]
  BY <1>1, <1>5 DEF Dropped
<1>9. Holding(dir', op'.key) = {}
  <2> SUFFICES ASSUME NEW t \in Slots, (dir'[t]).loc # "free", (dir'[t]).key = op.key
               PROVE  FALSE
    BY <1>4 DEF Holding
  <2>1. t # s /\ dir'[t] = dir[t]
    BY <1>6 DEF Free
  <2> QED
    BY <1>1, <2>1 DEF IInv, Directory
<1>10. /\ Directory' /\ Reservation' /\ Streaming' /\ Queue'
       /\ Contents' /\ Metadata' /\ Pushed'
  BY <1>1, <1>2, <1>3, <1>4, <1>7, <1>9, TiersKeep
<1>11. \A t \in Slots : dir'[t] \in Entries
  BY <1>3, <1>7, TierSteps
<1>12. ClientsTyped'
  BY <1>1, <1>4 DEF IInv, TypeOK, ClientsTyped
<1>13. CacheTyped'
  BY <1>1, <1>8, <1>11 DEF IInv, TypeOK, CacheTyped
<1>14. BriscTyped'
  BY <1>1 DEF IInv, TypeOK, BriscTyped
<1>15. ChannelsTyped'
  BY <1>1, <1>2 DEF IInv, TypeOK, ChannelsTyped, HostRequests
<1>16. WorkerTyped'
  BY <1>3 DEF IInv, TypeOK, WorkerTyped, workerVars
<1>17. Handshake'
  BY <1>1, <1>2, <1>3, <1>6 DEF Handshake, Removing, Silent
<1>18. Phases'
  BY <1>1, <1>4 DEF IInv, Phases, Idle
<1>19. Supplying'
  BY <1>1, <1>2 DEF Supplying
<1> QED
  BY <1>10, <1>12, <1>13, <1>14, <1>15, <1>16, <1>17, <1>18, <1>19 DEF IInv, TypeOK

(* The host copy of a removed key is gone, and the REMOVE is answered.     *)
LEMMA RemoveDrainKeeps == ASSUME IInv, RemoveDrain PROVE IInv'
<1>1. /\ brisc = "remove_drain" /\ move_pending = 0 /\ Answer /\ brisc' = "loop"
      /\ UNCHANGED <<reply, cacheVars, job, channelVars, workerVars>>
      /\ UNCHANGED <<dir, dev, reserved, fifo, force, stream, progress, promote>>
      /\ UNCHANGED <<host_values, pool, meta, worker, wreq, ack, move_pending>>
  BY DEF RemoveDrain, cacheVars, channelVars, workerVars
<1>2. /\ op' = Idle /\ Idle.phase = "none" /\ Idle.kind = "NONE" /\ Idle.val = 0
      /\ Idle \in Requests /\ UNCHANGED <<fenced, frontier, puts>>
  BY <1>1, Sizes DEF Idle, Requests, Answer
<1>3. /\ stream.state = "none" /\ worker = "poll" /\ Silent /\ promote = None
      /\ op.phase = "serving" /\ reserved = None
  BY <1>1 DEF IInv, Handshake, Removing, Phases, Reservation
<1>4. \A s \in Slots : TierStep(s)
  BY <1>1, StillSteps
<1>5. /\ Directory' /\ Reservation' /\ Streaming' /\ Queue'
      /\ Contents' /\ Metadata' /\ Pushed'
  BY <1>1, <1>2, <1>3, <1>4, TiersKeep
<1>6. ClientsTyped'
  BY <1>1, <1>2 DEF IInv, TypeOK, ClientsTyped
<1>7. CacheTyped' /\ BriscTyped' /\ ChannelsTyped' /\ WorkerTyped'
  BY <1>1 DEF IInv, TypeOK, CacheTyped, BriscTyped, ChannelsTyped, WorkerTyped, channelVars,
     workerVars
<1>8. Handshake'
  BY <1>1, <1>3 DEF Handshake, Silent, channelVars
<1>9. Phases'
  BY <1>1, <1>2 DEF Phases
<1>10. Supplying'
  BY <1>1, <1>3 DEF Supplying
<1> QED
  BY <1>5, <1>6, <1>7, <1>8, <1>9, <1>10 DEF IInv, TypeOK

(* A move to the device is posted and answered; nobody waits for it.       *)
LEMMA MoveToDeviceKeeps ==
  ASSUME IInv, NEW s \in Slots, NEW E \in SUBSET Slots, MoveToDevice(s, E)
  PROVE  IInv'
<1>1. /\ ServesRequest /\ op.phase = "lookup" /\ Answer
      /\ dir[s].loc = "host" /\ E \subseteq At(dir, "device")
      /\ dir' = Evicted(dir, E) /\ dev' = Dropped(E)
      /\ promote' = s
      /\ move_req' = [op |-> "DEVICE_PROMOTE", slot |-> s] /\ move_pending' = move_pending + 1
      /\ UNCHANGED <<ack, ack_pending, push_pending, commit_req, commit_pending,
                     supply_pending, stage_progress>>
      /\ UNCHANGED <<reply, reserved, fifo, force, stream, progress, brisc, job, workerVars>>
      /\ UNCHANGED <<host_values, pool, meta, worker, wreq>>
  BY DEF MoveToDevice, Serves, Post, MakesRoom, At, workerVars
<1>2. /\ brisc = "loop" /\ stream.state = "none" /\ reserved = None /\ promote = None
      /\ move_pending = 0 /\ worker = "poll" /\ Silent /\ progress = 0
  BY <1>1, QuietBrisc
<1>3. /\ op' = Idle /\ Idle.phase = "none" /\ Idle.kind = "NONE" /\ Idle.val = 0
      /\ Idle \in Requests /\ UNCHANGED <<fenced, frontier, puts>>
  BY <1>1, Sizes DEF Idle, Requests, Answer
<1>4. /\ \A t \in Slots : TierStep(t)
      /\ dir' = [t \in Slots |-> dir'[t]] /\ dev' \in [Slots -> Bytes]
      /\ \A t \in Slots : t \notin E => dir'[t] = dir[t]
  BY <1>1, EvictionSteps
<1>5. (dir'[s]).loc = "host"
  BY <1>1, <1>4 DEF At
<1>6. /\ Directory' /\ Reservation' /\ Streaming' /\ Queue'
      /\ Contents' /\ Metadata' /\ Pushed'
  BY <1>1, <1>2, <1>3, <1>4, TiersKeep
<1>7. \A t \in Slots : dir'[t] \in Entries
  BY <1>1, <1>4, TierSteps
<1>8. ClientsTyped'
  BY <1>1, <1>3 DEF IInv, TypeOK, ClientsTyped
<1>9. CacheTyped'
  BY <1>1, <1>4, <1>7 DEF IInv, TypeOK, CacheTyped
<1>10. BriscTyped'
  BY <1>1 DEF IInv, TypeOK, BriscTyped
<1>11. ChannelsTyped'
  BY <1>1, <1>2 DEF IInv, TypeOK, ChannelsTyped, HostRequests
<1>12. WorkerTyped'
  BY <1>1 DEF IInv, TypeOK, WorkerTyped, workerVars
<1>13. Handshake'
  BY <1>1, <1>2 DEF Handshake, Promoting, Silent
<1>14. Phases'
  BY <1>1, <1>2, <1>3 DEF Phases
<1>15. Supplying'
  BY <1>1, <1>2, <1>5 DEF Supplying, Silent
<1> QED
  BY <1>6, <1>8, <1>9, <1>10, <1>11, <1>12, <1>13, <1>14, <1>15 DEF IInv, TypeOK

(* The promoted value is read into its block.                              *)
LEMMA PromoteTiers ==
  ASSUME IInv, PromoteCommit
  PROVE  /\ stream.state = "none" /\ Promoting /\ move_pending = 1
         /\ move_req = [op |-> "DEVICE_PROMOTE", slot |-> promote]
         /\ worker = "await" /\ commit_pending /\ supply_pending
         /\ \A s \in Slots : TierStep(s)
         /\ dir' = [s \in Slots |-> dir'[s]] /\ dev' \in [Slots -> Bytes]
         /\ \A s \in Slots : dir[s].loc # "free" => (dir'[s]).loc # "free"
         /\ reserved # None => dev'[reserved] = dev[reserved]
<1>1. /\ brisc \in {"loop", "pass_end"} /\ commit_pending
      /\ IF dir[commit_req.slot].loc = "host"
         THEN /\ dir' = [dir EXCEPT ![commit_req.slot].loc = "device"]
              /\ dev' = [dev EXCEPT ![commit_req.slot] =
                           SourceBytes(commit_req.src, commit_req.slot)]
         ELSE UNCHANGED <<dir, dev>>
  BY DEF PromoteCommit
<1>2. /\ stream.state \in {"none", "prefix", "ready", "tail"}
      /\ dir \in [Slots -> Entries] /\ dev \in [Slots -> Bytes]
  BY DEF IInv, TypeOK, CacheTyped, Streams
<1>3. /\ stream.state = "none" /\ Promoting /\ move_pending = 1
      /\ move_req = [op |-> "DEVICE_PROMOTE", slot |-> promote]
      /\ worker = "await" /\ commit_pending /\ supply_pending
  BY <1>1, <1>2 DEF IInv, Handshake, Receiving, Released, Promoting, Silent
<1>4. /\ promote \in Slots /\ promote # None /\ dir[promote].loc = "host"
      /\ commit_req.slot = promote
      /\ SourceBytes(commit_req.src, promote) = BackingBytes(promote)
  BY <1>3, NoneAssumption DEF IInv, Promoting, Supplying
<1>5. /\ dir' = [dir EXCEPT ![promote].loc = "device"]
      /\ dev' = [dev EXCEPT ![promote] = BackingBytes(promote)]
  BY <1>1, <1>4
<1>6. BackingBytes(promote) \in Bytes
  BY <1>4 DEF IInv, TypeOK, WorkerTyped, Backings, BackingBytes
<1>7. /\ dir'[promote] = [dir[promote] EXCEPT !.loc = "device"]
      /\ dev'[promote] = BackingBytes(promote)
      /\ \A s \in Slots \ {promote} : dir'[s] = dir[s] /\ dev'[s] = dev[s]
      /\ dir' = [s \in Slots |-> dir'[s]] /\ dev' \in [Slots -> Bytes]
  BY <1>2, <1>4, <1>5, <1>6
<1>8. \A s \in Slots : TierStep(s)
  BY <1>4, <1>7 DEF TierStep
<1>9. \A s \in Slots : dir[s].loc # "free" => (dir'[s]).loc # "free"
  <2>1. (dir'[promote]).loc = "device"
    BY <1>2, <1>4, <1>7 DEF Entries
  <2> QED
    BY <1>7, <2>1
<1>10. reserved # None => dev'[reserved] = dev[reserved]
  BY <1>4, <1>7 DEF IInv, Reservation, TypeOK, CacheTyped
<1> QED
  BY <1>3, <1>7, <1>8, <1>9, <1>10

(* The promotion is over.                                                  *)
LEMMA PromoteCommitKeeps == ASSUME IInv, PromoteCommit PROVE IInv'
<1>1. /\ brisc \in {"loop", "pass_end"} /\ commit_pending /\ commit_pending' = FALSE
      /\ supply_pending' = FALSE /\ promote' = None /\ brisc' = "loop"
      /\ UNCHANGED <<reserved, fifo, force, stream, progress, job, move_req,
                     move_pending, ack, ack_pending, push_pending, commit_req,
                     stage_progress, workerVars>>
      /\ UNCHANGED <<op, fenced, frontier, puts, reply>>
      /\ UNCHANGED <<host_values, pool, meta, worker, wreq>>
  BY DEF PromoteCommit, workerVars, clientVars
<1>2. /\ stream.state = "none" /\ Promoting /\ move_pending = 1
      /\ move_req = [op |-> "DEVICE_PROMOTE", slot |-> promote]
      /\ worker = "await" /\ commit_pending /\ supply_pending
      /\ \A s \in Slots : TierStep(s)
      /\ dir' = [s \in Slots |-> dir'[s]] /\ dev' \in [Slots -> Bytes]
      /\ \A s \in Slots : dir[s].loc # "free" => (dir'[s]).loc # "free"
      /\ reserved # None => dev'[reserved] = dev[reserved]
  BY PromoteTiers
<1>3. /\ Directory' /\ Reservation' /\ Streaming' /\ Queue'
       /\ Contents' /\ Metadata' /\ Pushed'
  BY <1>1, <1>2, TiersKeep
<1>4. \A s \in Slots : dir'[s] \in Entries
  BY <1>1, <1>2, TierSteps
<1>5. ClientsTyped'
  BY <1>1 DEF IInv, TypeOK, ClientsTyped
<1>6. CacheTyped'
  BY <1>1, <1>2, <1>4 DEF IInv, TypeOK, CacheTyped
<1>7. BriscTyped'
  BY <1>1 DEF IInv, TypeOK, BriscTyped
<1>8. ChannelsTyped' /\ WorkerTyped'
  BY <1>1 DEF IInv, TypeOK, ChannelsTyped, WorkerTyped, workerVars
<1>9. Handshake'
  BY <1>1, <1>2 DEF Handshake, Promoting, Released, Silent
<1>10. Phases'
  BY <1>1 DEF IInv, Phases
<1>11. Supplying'
  BY <1>1 DEF Supplying
<1> QED
  BY <1>3, <1>5, <1>6, <1>7, <1>8, <1>9, <1>10, <1>11 DEF IInv, TypeOK

(* A pass that ends with no promotion to commit.                           *)
LEMMA PassEndKeeps == ASSUME IInv, PassEnd PROVE IInv'
<1>1. /\ brisc = "pass_end" /\ brisc' = "loop"
      /\ UNCHANGED <<clientVars, cacheVars, job, channelVars, workerVars>>
      /\ UNCHANGED <<op, fenced, frontier, puts, reply, dir, dev, reserved, fifo, force, stream,
                     progress, promote>>
      /\ UNCHANGED <<host_values, pool, meta, worker, wreq, ack, move_pending, move_req>>
  BY DEF PassEnd, clientVars, cacheVars, channelVars, workerVars
<1>2. stream.state = "none"
  BY <1>1 DEF IInv, Handshake
<1>3. \A s \in Slots : TierStep(s)
  BY <1>1, StillSteps
<1>4. /\ Directory' /\ Reservation' /\ Streaming' /\ Queue'
      /\ Contents' /\ Metadata' /\ Pushed'
  BY <1>1, <1>2, <1>3, TiersKeep
<1>5. ClientsTyped' /\ CacheTyped' /\ BriscTyped' /\ ChannelsTyped' /\ WorkerTyped'
  BY <1>1 DEF IInv, TypeOK, ClientsTyped, CacheTyped, BriscTyped, ChannelsTyped, WorkerTyped,
     channelVars, workerVars
<1>6. Handshake'
  BY <1>1, <1>2 DEF IInv, Handshake, Released, Promoting, Silent, channelVars
<1>7. Phases'
  BY <1>1 DEF IInv, Phases
<1>8. Supplying'
  BY <1>1 DEF IInv, Supplying, SupplySource, SourceBytes, BackingBytes, channelVars, workerVars
<1> QED
  BY <1>4, <1>5, <1>6, <1>7, <1>8 DEF IInv, TypeOK

-----------------------------------------------------------------------------
(* BRISC: write-through.                                                   *)

(* A pending entry whose host copy is complete becomes a resident.         *)
LEMMA CommitTiers ==
  ASSUME IInv, NEW s \in Slots, NEW tag \in Generations, dir[s].loc = "pending", Backed(s),
         dir' = Committed(s, tag), dev' = dev
  PROVE  /\ \A t \in Slots : TierStep(t)
         /\ dir' = [t \in Slots |-> dir'[t]] /\ (dir'[s]).loc = "device"
         /\ \A t \in Slots : dir[t].loc # "free" => (dir'[t]).loc # "free"
<1>1. dir \in [Slots -> Entries] /\ dir' = [dir EXCEPT ![s].loc = "device", ![s].tag = tag]
  BY DEF IInv, TypeOK, CacheTyped, Committed
<1>2. /\ dir'[s] = [dir[s] EXCEPT !.loc = "device", !.tag = tag]
      /\ dir' = [t \in Slots |-> dir'[t]]
      /\ \A t \in Slots \ {s} : dir'[t] = dir[t]
  BY <1>1
<1>3. (dir'[s]).loc = "device"
  BY <1>1, <1>2 DEF Entries
<1> QED
  BY <1>2, <1>3 DEF TierStep

(* The host copy of the streamed PUT is complete: its entry is committed.  *)
LEMMA TailDrainKeeps == ASSUME IInv, TailDrain PROVE IInv'
<1> DEFINE s == stream.slot
<1>1. /\ brisc = "tail_drain" /\ move_pending = 0 /\ brisc' = "loop"
      /\ dir' = Committed(s, stream.tag)
      /\ frontier' = frontier - 1 /\ stream' = NoStream
      /\ UNCHANGED <<op, fenced, puts, reply, dev, reserved, fifo, force, progress, promote,
                     job, channelVars, workerVars>>
      /\ UNCHANGED <<host_values, pool, meta, worker, wreq, ack, move_pending>>
  BY DEF TailDrain, channelVars, workerVars
<1>2. NoStream.state = "none" /\ NoStream \in Streams
  BY Sizes DEF NoStream, Streams
<1>3. /\ stream.state = "tail" /\ worker = "poll" /\ Silent /\ promote = None /\ Backed(s)
  BY <1>1 DEF IInv, Handshake, Landed, Pushed
<1>4. s \in Slots /\ fifo = <<>> /\ progress = 0 /\ reserved = None /\ dir[s].loc = "pending"
  BY <1>3 DEF IInv, Streaming
<1>5. dir \in [Slots -> Entries] /\ dev \in [Slots -> Bytes] /\ stream.tag \in Generations
  BY DEF IInv, TypeOK, CacheTyped, Streams
<1>6. /\ \A t \in Slots : TierStep(t)
      /\ dir' = [t \in Slots |-> dir'[t]] /\ (dir'[s]).loc = "device"
      /\ \A t \in Slots : dir[t].loc # "free" => (dir'[t]).loc # "free"
  <2>1. PICK r \in Slots, tag \in Generations : r = s /\ tag = stream.tag
    BY <1>4, <1>5
  <2>2. dir' = Committed(r, tag) /\ dev' = dev /\ dir[r].loc = "pending" /\ Backed(r)
    BY <1>1, <1>3, <1>4, <2>1
  <2>3. /\ \A t \in Slots : TierStep(t)
        /\ dir' = [t \in Slots |-> dir'[t]] /\ (dir'[r]).loc = "device"
        /\ \A t \in Slots : dir[t].loc # "free" => (dir'[t]).loc # "free"
    BY <2>2, CommitTiers
  <2> QED
    BY <2>1, <2>3
<1> HIDE DEF s
<1>7. Directory' /\ Reservation' /\ Contents'
  BY <1>1, <1>4, <1>6, TiersStored
<1>8. \A t \in Slots : /\ dir'[t] \in Entries
                       /\ (dir'[t]).loc = "pending" => dir'[t] = dir[t]
  BY <1>1, <1>6, TierSteps
<1>9. /\ Len(fifo) = 0 /\ frontier' \in -1 .. Cardinality(Slots) + 1
      /\ op.phase = "issue" => frontier' = -1
      /\ op.phase # "issue" => frontier' = 0
  <2>1. Len(fifo) = 0 /\ frontier \in Int
    BY <1>3, FrontierCounts
  <2>2. frontier' = frontier - 1
    BY <1>1
  <2>3. op.phase = "issue" => frontier + 1 = 1
    BY <1>3, <2>1, FrontierCounts
  <2>4. op.phase # "issue" => frontier = 1
    BY <1>3, <2>1, FrontierCounts
  <2>5. op.phase = "issue" => frontier' = -1
    BY <2>1, <2>2, <2>3
  <2>6. op.phase # "issue" => frontier' = 0
    BY <2>1, <2>2, <2>4
  <2>7. frontier' = -1 \/ frontier' = 0
    BY <2>5, <2>6
  <2>8. frontier' \in -1 .. Cardinality(Slots) + 1
    BY <2>7, Sizes
  <2> QED
    BY <2>1, <2>5, <2>6, <2>8
<1>10. ClientsTyped'
  BY <1>1, <1>9 DEF IInv, TypeOK, ClientsTyped
<1>11. CacheTyped'
  BY <1>1, <1>2, <1>6, <1>8 DEF IInv, TypeOK, CacheTyped
<1>12. BriscTyped' /\ ChannelsTyped' /\ WorkerTyped'
  BY <1>1 DEF IInv, TypeOK, BriscTyped, ChannelsTyped, WorkerTyped, channelVars, workerVars
<1>13. Handshake'
  BY <1>1, <1>2, <1>3 DEF Handshake, Silent, channelVars
<1>14. Phases'
  BY <1>1 DEF IInv, Phases
<1>15. Streaming'
  BY <1>1, <1>2, <1>4 DEF Streaming
<1>16. Queue'
  <2>1. \A t \in Slots : (dir'[t]).loc # "pending"
    <3> SUFFICES ASSUME NEW t \in Slots, (dir'[t]).loc = "pending" PROVE FALSE
      OBVIOUS
    <3>1. dir[t].loc = "pending" /\ t # s
      BY <1>4, <1>5, <1>6, <1>8 DEF Entries
    <3>2. Len(<<>>) = 0 /\ 1 .. 0 = {}
      OBVIOUS
    <3> QED
      BY <1>4, <3>1, <3>2 DEF IInv, Queue, s
  <2>2. frontier' = Len(fifo') + (IF stream'.state = "tail" THEN 1 ELSE 0)
                    - (IF op'.phase = "issue" THEN 1 ELSE 0)
    BY <1>1, <1>2, <1>9
  <2> QED
    BY <1>1, <2>1, <2>2 DEF Queue
<1>17. Metadata'
  BY <1>1 DEF IInv, Metadata
<1>18. Pushed'
  BY <1>1, <1>2 DEF Pushed
<1>19. Supplying'
  BY <1>1, <1>3 DEF Supplying
<1> QED
  BY <1>7, <1>10, <1>11, <1>12, <1>13, <1>14, <1>15, <1>16, <1>17, <1>18, <1>19 DEF IInv, TypeOK

(* The rest of the FIFO keeps every PUT but the one at its head.           *)
LEMMA FifoTail ==
  ASSUME IInv, fifo # <<>>
  PROVE  /\ Head(fifo) \in QueuedPuts /\ Head(fifo) = fifo[1] /\ Head(fifo).slot \in Slots
         /\ Tail(fifo) \in Seq(QueuedPuts) /\ Len(Tail(fifo)) = Len(fifo) - 1
         /\ Len(fifo) > 0 /\ Len(Tail(fifo)) <= HighWatermark
         /\ \A i \in 1 .. Len(fifo) :
               i # 1 => i - 1 \in 1 .. Len(Tail(fifo)) /\ Tail(fifo)[i - 1] = fifo[i]
<1>1. fifo \in Seq(QueuedPuts) /\ Len(fifo) \in Nat /\ Len(fifo) <= HighWatermark
  BY FrontierCounts DEF IInv, TypeOK, CacheTyped
<1>2. Len(fifo) > 0 /\ Head(fifo) = fifo[1] /\ Head(fifo) \in QueuedPuts
  BY <1>1
<1>3. Tail(fifo) \in Seq(QueuedPuts) /\ Len(Tail(fifo)) = Len(fifo) - 1
  BY <1>1, <1>2
<1>4. \A i \in 1 .. Len(fifo) :
         i # 1 => i - 1 \in 1 .. Len(Tail(fifo)) /\ Tail(fifo)[i - 1] = fifo[i]
  BY <1>1, <1>2, <1>3
<1>5. Head(fifo).slot \in Slots
  BY <1>2 DEF QueuedPuts
<1>6. Len(Tail(fifo)) <= HighWatermark
  BY <1>1, <1>3, Sizes
<1> QED
  BY <1>2, <1>3, <1>4, <1>5, <1>6

(* The host copy of the head of the FIFO is complete: it is committed.     *)
LEMMA FifoDrainKeeps == ASSUME IInv, FifoDrain PROVE IInv'
<1> DEFINE s == job.slot
<1>1. /\ brisc = "fifo_drain" /\ move_pending = 0 /\ brisc' = "pass_end"
      /\ dir' = Committed(s, job.tag)
      /\ fifo' = Tail(fifo) /\ force' = FALSE
      /\ frontier' = frontier - 1 /\ job' = NoJob
      /\ UNCHANGED <<op, fenced, puts, reply, dev, reserved, stream, progress, promote,
                     channelVars, workerVars>>
      /\ UNCHANGED <<host_values, pool, meta, worker, wreq, ack, move_pending>>
  BY DEF FifoDrain, channelVars, workerVars
<1>2. NoJob \in Jobs
  BY Sizes DEF NoJob, Jobs
<1>3. /\ stream.state = "none" /\ worker = "poll" /\ Silent /\ promote = None /\ Backed(s)
      /\ fifo # <<>> /\ s = Head(fifo).slot
  BY <1>1 DEF IInv, Handshake, Landed, Pushed
<1>4. /\ s \in Slots /\ dir[s].loc = "pending" /\ Current(Head(fifo))
      /\ Head(fifo) = fifo[1]
  BY <1>1, <1>3, FifoTail DEF IInv, Queue, Current
<1>5. dir \in [Slots -> Entries] /\ dev \in [Slots -> Bytes] /\ job.tag \in Generations
  BY DEF IInv, TypeOK, CacheTyped, BriscTyped, Jobs
<1>6. /\ \A t \in Slots : TierStep(t)
      /\ dir' = [t \in Slots |-> dir'[t]] /\ (dir'[s]).loc = "device"
      /\ \A t \in Slots : dir[t].loc # "free" => (dir'[t]).loc # "free"
  <2>1. PICK r \in Slots, tag \in Generations : r = s /\ tag = job.tag
    BY <1>4, <1>5
  <2>2. dir' = Committed(r, tag) /\ dev' = dev /\ dir[r].loc = "pending" /\ Backed(r)
    BY <1>1, <1>3, <1>4, <2>1
  <2>3. /\ \A t \in Slots : TierStep(t)
        /\ dir' = [t \in Slots |-> dir'[t]] /\ (dir'[r]).loc = "device"
        /\ \A t \in Slots : dir[t].loc # "free" => (dir'[t]).loc # "free"
    BY <2>2, CommitTiers
  <2> QED
    BY <2>1, <2>3
<1> HIDE DEF s
<1>7. Directory' /\ Reservation' /\ Contents'
  BY <1>1, <1>6, TiersStored
<1>8. \A t \in Slots : /\ dir'[t] \in Entries
                       /\ (dir'[t]).loc = "pending" => dir'[t] = dir[t]
  BY <1>1, <1>6, TierSteps
<1>9. /\ frontier' \in -1 .. Cardinality(Slots) + 1
      /\ frontier' = Len(Tail(fifo)) + 0 - (IF op.phase = "issue" THEN 1 ELSE 0)
  BY <1>1, <1>3, FifoTail, FrontierCounts, Sizes
<1>10. ClientsTyped'
  BY <1>1, <1>9 DEF IInv, TypeOK, ClientsTyped
<1>11. CacheTyped'
  BY <1>1, <1>3, <1>6, <1>8, FifoTail DEF IInv, TypeOK, CacheTyped
<1>12. BriscTyped' /\ ChannelsTyped' /\ WorkerTyped'
  BY <1>1, <1>2 DEF IInv, TypeOK, BriscTyped, ChannelsTyped, WorkerTyped, channelVars, workerVars
<1>13. Handshake'
  BY <1>1, <1>3 DEF Handshake, Silent, channelVars
<1>14. Phases'
  BY <1>1 DEF IInv, Phases
<1>15. Streaming'
  BY <1>1, <1>3 DEF IInv, Streaming
<1>16. Queue'
  <2>1. \A t \in Slots : (dir'[t]).loc = "pending" =>
           \E i \in 1 .. Len(fifo') : fifo'[i].slot = t /\ fifo'[i].token = (dir'[t]).tag
    <3> SUFFICES ASSUME NEW t \in Slots, (dir'[t]).loc = "pending"
                 PROVE  \E i \in 1 .. Len(fifo') :
                           fifo'[i].slot = t /\ fifo'[i].token = (dir'[t]).tag
      OBVIOUS
    <3>1. dir'[t] = dir[t] /\ t # s
      BY <1>6, <1>8
    <3>2. PICK i \in 1 .. Len(fifo) : fifo[i].slot = t /\ fifo[i].token = dir[t].tag
      BY <1>3, <3>1 DEF IInv, Queue
    <3>3. i # 1
      BY <1>3, <1>4, <3>1, <3>2
    <3>4. i - 1 \in 1 .. Len(Tail(fifo)) /\ Tail(fifo)[i - 1] = fifo[i]
      BY <1>3, <3>2, <3>3, FifoTail
    <3> QED
      BY <1>1, <3>1, <3>2, <3>4
  <2> QED
    BY <1>1, <1>3, <1>9, <2>1 DEF Queue
<1>17. Metadata'
  BY <1>1 DEF IInv, Metadata
<1>18. Pushed'
  BY <1>1 DEF Pushed
<1>19. Supplying'
  BY <1>1, <1>3 DEF Supplying
<1> QED
  BY <1>7, <1>10, <1>11, <1>12, <1>13, <1>14, <1>15, <1>16, <1>17, <1>18, <1>19 DEF IInv, TypeOK

(* A queued PUT whose entry is gone is dropped and counted.                *)
LEMMA SkipStaleKeeps == ASSUME IInv, SkipStale PROVE IInv'
<1>1. /\ brisc = "loop" /\ stream.state # "tail" /\ fifo # <<>> /\ brisc' = "pass_end"
      /\ ~Current(Head(fifo))
      /\ fifo' = Tail(fifo) /\ force' = FALSE
      /\ frontier' = frontier - 1
      /\ UNCHANGED <<op, fenced, puts, reply, dir, dev, reserved, stream, progress, promote,
                     job, channelVars, workerVars>>
      /\ UNCHANGED <<host_values, pool, meta, worker, wreq, ack, move_pending, move_req>>
  BY DEF SkipStale, ServesFifo, channelVars, workerVars
<1>2. stream.state = "none"
  BY <1>1 DEF IInv, Streaming
<1>3. \A s \in Slots : TierStep(s)
  BY <1>1, StillSteps
<1>4. Directory' /\ Reservation' /\ Contents'
  BY <1>1, <1>3, TiersStored
<1>5. /\ frontier' \in -1 .. Cardinality(Slots) + 1
      /\ frontier' = Len(Tail(fifo)) + 0 - (IF op.phase = "issue" THEN 1 ELSE 0)
  BY <1>1, <1>2, FifoTail, FrontierCounts, Sizes
<1>6. ClientsTyped'
  BY <1>1, <1>5 DEF IInv, TypeOK, ClientsTyped
<1>7. CacheTyped'
  BY <1>1, FifoTail DEF IInv, TypeOK, CacheTyped
<1>8. BriscTyped' /\ ChannelsTyped' /\ WorkerTyped'
  BY <1>1 DEF IInv, TypeOK, BriscTyped, ChannelsTyped, WorkerTyped, channelVars, workerVars
<1>9. Handshake'
  BY <1>1, <1>2 DEF IInv, Handshake, Released, Promoting, Silent, channelVars
<1>10. Phases'
  BY <1>1 DEF IInv, Phases
<1>11. Streaming'
  BY <1>1, <1>2 DEF IInv, Streaming
<1>12. Queue'
  <2>1. \A t \in Slots : dir[t].loc = "pending" =>
           \E i \in 1 .. Len(fifo') : fifo'[i].slot = t /\ fifo'[i].token = dir[t].tag
    <3> SUFFICES ASSUME NEW t \in Slots, dir[t].loc = "pending"
                 PROVE  \E i \in 1 .. Len(fifo') :
                           fifo'[i].slot = t /\ fifo'[i].token = dir[t].tag
      OBVIOUS
    <3>1. PICK i \in 1 .. Len(fifo) : fifo[i].slot = t /\ fifo[i].token = dir[t].tag
      BY <1>2 DEF IInv, Queue
    <3>2. i # 1
      BY <1>1, <3>1, FifoTail DEF Current
    <3>3. i - 1 \in 1 .. Len(Tail(fifo)) /\ Tail(fifo)[i - 1] = fifo[i]
      BY <1>1, <3>1, <3>2, FifoTail
    <3> QED
      BY <1>1, <3>1, <3>3
  <2> QED
    BY <1>1, <1>2, <1>5, <2>1 DEF Queue
<1>13. Metadata'
  BY <1>1 DEF IInv, Metadata
<1>14. Pushed'
  BY <1>1 DEF Pushed
<1>15. Supplying'
  BY <1>1 DEF IInv, Supplying, SupplySource, SourceBytes, BackingBytes, channelVars, workerVars
<1> QED
  BY <1>4, <1>6, <1>7, <1>8, <1>9, <1>10, <1>11, <1>12, <1>13, <1>14, <1>15 DEF IInv, TypeOK

(* The head of the FIFO is posted to the worker, also onto a slot that a   *)
(* promotion nobody waits for still occupies.                              *)
LEMMA CommitHeadKeeps == ASSUME IInv, CommitHead PROVE IInv'
<1>1. /\ brisc = "loop" /\ stream.state # "tail" /\ fifo # <<>> /\ brisc' = "fifo_ack"
      /\ Current(Head(fifo))
      /\ move_req' = [op |-> "WRITE_THROUGH", slot |-> Head(fifo).slot]
      /\ move_pending' = move_pending + 1
      /\ UNCHANGED <<ack, ack_pending, push_pending, commit_req, commit_pending,
                     supply_pending, stage_progress>>
      /\ UNCHANGED <<clientVars, cacheVars, job, workerVars>>
      /\ UNCHANGED <<op, fenced, frontier, puts, reply, dir, dev, reserved, fifo, force, stream,
                     progress, promote>>
      /\ UNCHANGED <<worker, wreq, host_values, meta, generations, pool, window>>
  BY DEF CommitHead, ServesFifo, Post, clientVars, cacheVars, workerVars
<1>2. stream.state = "none"
  BY <1>1 DEF IInv, Streaming
<1>3. \/ move_pending = 0 /\ worker = "poll" /\ Silent /\ promote = None
      \/ move_pending = 1 /\ (Released \/ Promoting)
  BY <1>1, <1>2 DEF IInv, Handshake
<1>4. /\ Directory' /\ Contents'
  <2>1. \A s \in Slots : TierStep(s)
    BY <1>1, StillSteps
  <2> QED
    BY <1>1, <2>1, TiersStored
<1>5. Reservation'
  BY <1>1 DEF IInv, Reservation, Holding
<1>6. Head(fifo) \in QueuedPuts /\ Head(fifo).slot \in Slots
  BY <1>1, FifoTail
<1>7. ClientsTyped' /\ CacheTyped' /\ BriscTyped' /\ WorkerTyped'
  BY <1>1 DEF IInv, TypeOK, ClientsTyped, CacheTyped, BriscTyped, WorkerTyped, workerVars
<1>8. ChannelsTyped'
  <2>1. move_pending' \in 0 .. 2
    BY <1>1, <1>3
  <2> QED
    BY <1>1, <1>6, <2>1 DEF IInv, TypeOK, ChannelsTyped, HostRequests
<1>9. Handshake'
  BY <1>1, <1>2, <1>3 DEF Handshake, Acknowledging, Released, Promoting, Silent
<1>10. Phases'
  BY <1>1 DEF IInv, Phases
<1>11. Streaming'
  BY <1>1 DEF IInv, Streaming
<1>12. Queue'
  BY <1>1 DEF IInv, Queue, Current
<1>13. Metadata'
  BY <1>1 DEF IInv, Metadata
<1>14. Pushed'
  BY <1>1 DEF Pushed
<1>15. Supplying'
  BY <1>1 DEF IInv, Supplying, SupplySource, SourceBytes, BackingBytes
<1> QED
  BY <1>4, <1>5, <1>7, <1>8, <1>9, <1>10, <1>11, <1>12, <1>13, <1>14, <1>15 DEF IInv, TypeOK

(* What a push writes: these groups of this slot, where the worker said.   *)
LEMMA PushWrites ==
  ASSUME IInv, NEW dst \in Sources, NEW s \in Slots, NEW C \in SUBSET Chunks, Push(dst, s, C)
  PROVE  /\ pool' \in [Slots -> Bytes] /\ window' \in Bytes
         /\ \A t \in Slots \ {s} : pool'[t] = pool[t]
         /\ dst = "window" => pool' = pool
         /\ dst = "mapped" => window' = window
         /\ \A c \in C : (IF dst = "mapped" THEN pool'[s] ELSE window')[c] = dev[s][c]
         /\ \A c \in Chunks \ C : (IF dst = "mapped" THEN pool'[s] ELSE window')[c]
                                  = SourceBytes(dst, s)[c]
<1>1. /\ pool \in [Slots -> Bytes] /\ window \in [Chunks -> Values] /\ pool[s] \in [Chunks -> Values]
      /\ dev[s] \in [Chunks -> Values]
  BY DEF IInv, TypeOK, WorkerTyped, CacheTyped, Bytes
<1>2. CASE dst = "window"
  <2>1. window' = [c \in Chunks |-> IF c \in C THEN dev[s][c] ELSE window[c]] /\ pool' = pool
    BY <1>2 DEF Push
  <2>2. window' \in Bytes
    BY <1>1, <2>1 DEF Bytes
  <2>3. \A c \in Chunks : window'[c] = IF c \in C THEN dev[s][c] ELSE window[c]
    BY <2>1
  <2> QED
    BY <1>1, <1>2, <2>1, <2>2, <2>3 DEF SourceBytes
<1>3. CASE dst = "mapped"
  <2> DEFINE b == [c \in Chunks |-> IF c \in C THEN dev[s][c] ELSE pool[s][c]]
  <2>1. pool' = [pool EXCEPT ![s] = b] /\ window' = window
    BY <1>3 DEF Push
  <2>2. b \in Bytes
    BY <1>1 DEF Bytes
  <2>3. \A c \in Chunks : b[c] = IF c \in C THEN dev[s][c] ELSE pool[s][c]
    OBVIOUS
  <2> HIDE DEF b
  <2>4. pool'[s] = b /\ pool' \in [Slots -> Bytes] /\ \A t \in Slots \ {s} : pool'[t] = pool[t]
    BY <1>1, <2>1, <2>2
  <2> QED
    BY <1>1, <1>3, <2>1, <2>3, <2>4 DEF SourceBytes, Bytes
<1> QED
  BY <1>2, <1>3 DEF Sources

(* A push goes to a slot whose host copy nobody reads.                     *)
LEMMA PushStays ==
  ASSUME IInv, NEW dst \in Sources, NEW s \in Slots, NEW C \in SUBSET Chunks, Push(dst, s, C),
         dir[s].loc \in {"free", "pending"}, UNCHANGED <<clientVars, host_values>>,
         UNCHANGED <<dir, dev, reserved>>, brisc' # "remove_drain"
  PROVE  Directory' /\ Reservation' /\ Contents'
<1>1. UNCHANGED <<op, reserved, dir, dev, host_values>>
  BY DEF clientVars
<1>2. \A t \in Slots : dir[t].loc \in {"device", "host"} =>
         BackingBytes(t)' = BackingBytes(t)
  BY <1>1, PushWrites DEF BackingBytes
<1>3. \A t \in Slots : dir[t].loc # "free" => ValueOf(t)' = ValueOf(t)
  BY <1>1, <1>2 DEF ValueOf
<1>4. \A t \in Slots : dir[t].loc # "free" => Whole(ValueOf(t))'
  BY <1>3 DEF IInv, Contents, Whole
<1>5. \A t \in Slots : dir[t].loc = "device" => Backed(t)'
  BY <1>1, <1>2 DEF IInv, Contents, Backed
<1>6. op.phase = "issue" =>
        \E t \in Holding(dir, op.key) : (ValueOf(t)' = Written(op.val))
  BY <1>3 DEF IInv, Contents, Holding
<1>7. Contents'
  BY <1>1, <1>3, <1>4, <1>5, <1>6 DEF IInv, Contents
<1>8. Directory'
  BY <1>1 DEF IInv, Directory
<1>9. Reservation'
  BY <1>1 DEF IInv, Reservation, Holding
<1> QED
  BY <1>7, <1>8, <1>9

(* The value at the head of the FIFO is pushed whole.                      *)
LEMMA FifoAckKeeps == ASSUME IInv, FifoAck PROVE IInv'
<1> DEFINE s == Head(fifo).slot
<1>1. /\ brisc = "fifo_ack" /\ ack_pending /\ brisc' = "fifo_drain"
      /\ ack_pending' = FALSE /\ push_pending' = FALSE
      /\ Push(ack.dst, s, Chunks)
      /\ job' = [NoJob EXCEPT !.slot = s, !.tag = ack.tag]
      /\ UNCHANGED <<clientVars, cacheVars, move_req, move_pending, ack, commit_req,
                     commit_pending, supply_pending, stage_progress,
                     worker, wreq, host_values, meta, generations>>
      /\ UNCHANGED <<op, fenced, frontier, puts, reply, dir, dev, reserved, fifo, force, stream,
                     progress, promote>>
  BY DEF FifoAck, clientVars, cacheVars
<1>2. /\ stream.state = "none" /\ fifo # <<>> /\ promote = None /\ Acknowledging(s)
      /\ worker = "receive" /\ push_pending
  BY <1>1 DEF IInv, Handshake, Acknowledging, Released, Promoting, Overrun, Silent
<1>3. /\ s \in Slots /\ Current(Head(fifo)) /\ dir[s].loc = "pending"
      /\ ack.dst \in Sources /\ ack.tag \in Generations /\ dev[s] \in Bytes
  BY <1>1, <1>2, FifoTail DEF IInv, Queue, Current, TypeOK, ChannelsTyped, CacheTyped
<1>4. wreq = [op |-> "WRITE_THROUGH", slot |-> s] /\ move_pending = 1 /\ move_req = wreq
  BY <1>2 DEF Acknowledging
<1> HIDE DEF s
<1>5. /\ job' \in Jobs /\ job'.slot = s
  <2>1. job' = [slot |-> s, tag |-> ack.tag, src |-> "window", admit |-> FALSE, got |-> <<>>]
    BY <1>1 DEF NoJob
  <2>2. <<>> \in Seq(Values)
    OBVIOUS
  <2> QED
    BY <1>3, <2>1, <2>2, Sizes DEF Jobs
<1>6. PICK dst \in Sources : dst = ack.dst
  BY <1>3
<1>7. /\ pool' \in [Slots -> Bytes] /\ window' \in Bytes
      /\ \A c \in Chunks : (IF dst = "mapped" THEN pool'[s] ELSE window')[c] = dev[s][c]
  BY <1>1, <1>3, <1>6, PushWrites
<1>8. Directory' /\ Reservation' /\ Contents'
  BY <1>1, <1>3, <1>6, PushStays
<1>9. (IF ack.dst = "mapped" THEN pool'[s] ELSE window') = dev[s]
  <2>1. (IF dst = "mapped" THEN pool'[s] ELSE window') \in [Chunks -> Values]
    BY <1>3, <1>7 DEF Bytes
  <2>2. dev[s] \in [Chunks -> Values]
    BY <1>3 DEF Bytes
  <2> QED
    BY <1>6, <1>7, <2>1, <2>2
<1>10. ClientsTyped' /\ CacheTyped'
  BY <1>1 DEF IInv, TypeOK, ClientsTyped, CacheTyped
<1>11. BriscTyped'
  BY <1>1, <1>5 DEF BriscTyped
<1>12. ChannelsTyped'
  BY <1>1 DEF IInv, TypeOK, ChannelsTyped
<1>13. WorkerTyped'
  BY <1>1, <1>7 DEF IInv, TypeOK, WorkerTyped
<1>14. Handshake'
  BY <1>1, <1>2, <1>4, <1>5 DEF Handshake, Acknowledging, Landed, Silent, s
<1>15. Phases'
  BY <1>1 DEF IInv, Phases
<1>16. Streaming'
  BY <1>1 DEF IInv, Streaming
<1>17. Queue'
  BY <1>1 DEF IInv, Queue, Current
<1>18. Metadata'
  BY <1>1 DEF IInv, Metadata
<1>19. Pushed'
  BY <1>1, <1>2, <1>5, <1>9 DEF Pushed, SourceBytes
<1>20. Supplying'
  BY <1>1, <1>2 DEF Supplying
<1> QED
  BY <1>8, <1>10, <1>11, <1>12, <1>13, <1>14, <1>15, <1>16, <1>17, <1>18, <1>19, <1>20
     DEF IInv, TypeOK

(* BRISC learns where the streamed PUT goes.                               *)
LEMMA StreamAckKeeps == ASSUME IInv, StreamAck PROVE IInv'
<1>1. /\ brisc = "stream_ack" /\ ack_pending /\ ack_pending' = FALSE
      /\ stream' = [stream EXCEPT !.dst = ack.dst, !.tag = ack.tag]
      /\ brisc' = "stream_prefix"
      /\ UNCHANGED <<clientVars, dir, dev, reserved, fifo, force, progress, promote, job,
                     move_req, move_pending, ack, push_pending, commit_req, commit_pending,
                     supply_pending, stage_progress, workerVars>>
      /\ UNCHANGED <<op, fenced, frontier, puts, reply>>
      /\ UNCHANGED <<worker, wreq, host_values, meta, generations, pool, window>>
  BY DEF StreamAck, clientVars, workerVars
<1>2. /\ stream.state = "prefix" /\ Acknowledging(stream.slot) /\ worker = "receive"
      /\ push_pending /\ promote = None
  BY <1>1 DEF IInv, Handshake, Acknowledging
<1>3. /\ stream.pushed = 0 /\ stream.slot \in Slots /\ stream.pushed < NumChunks - 1
  BY <1>1, <1>2 DEF IInv, Streaming
<1>4. ack.dst \in Sources /\ ack.tag \in Generations /\ stream \in Streams
  BY DEF IInv, TypeOK, ChannelsTyped, CacheTyped
<1>5. /\ stream' \in Streams /\ stream'.state = stream.state /\ stream'.slot = stream.slot
      /\ stream'.pushed = stream.pushed /\ stream'.dst = ack.dst
  BY <1>1, <1>4 DEF Streams
<1>6. Directory' /\ Contents'
  <2>1. \A s \in Slots : TierStep(s)
    BY <1>1, StillSteps
  <2> QED
    BY <1>1, <2>1, TiersStored
<1>7. Reservation'
  BY <1>1 DEF IInv, Reservation, Holding
<1>8. ClientsTyped' /\ CacheTyped' /\ BriscTyped' /\ ChannelsTyped' /\ WorkerTyped'
  BY <1>1, <1>5 DEF IInv, TypeOK, ClientsTyped, CacheTyped, BriscTyped, ChannelsTyped, WorkerTyped
<1>9. Handshake'
  BY <1>1, <1>2, <1>5 DEF IInv, Handshake, Acknowledging, Receiving
<1>10. Phases'
  BY <1>1, <1>2 DEF IInv, Phases
<1>11. Streaming'
  BY <1>1, <1>5 DEF IInv, Streaming
<1>12. Queue'
  BY <1>1, <1>5 DEF IInv, Queue, Current
<1>13. Metadata'
  BY <1>1 DEF IInv, Metadata
<1>14. Pushed'
  <2>1. 1 .. 0 = {}
    OBVIOUS
  <2> QED
    BY <1>1, <1>3, <1>5, <2>1 DEF Pushed
<1>15. Supplying'
  BY <1>1, <1>2 DEF Supplying
<1> QED
  BY <1>6, <1>7, <1>8, <1>9, <1>10, <1>11, <1>12, <1>13, <1>14, <1>15 DEF IInv, TypeOK

(* The next group of the prefix is pushed.                                 *)
LEMMA StreamPrefixKeeps == ASSUME IInv, StreamPrefix PROVE IInv'
<1> DEFINE c == stream.pushed + 1
           s == stream.slot
<1>1. /\ brisc = "stream_prefix" /\ progress > 0 /\ progress' = progress - 1
      /\ Push(stream.dst, s, {c})
      /\ stream' = [stream EXCEPT !.pushed = c,
                                  !.state = IF c = NumChunks - 1 THEN "ready" ELSE "prefix"]
      /\ brisc' = IF c = NumChunks - 1 THEN "loop" ELSE "stream_prefix"
      /\ UNCHANGED <<clientVars, dir, dev, reserved, fifo, force, promote, job, channelVars,
                     worker, wreq, host_values, meta, generations>>
      /\ UNCHANGED <<op, fenced, frontier, puts, reply>>
      /\ UNCHANGED <<move_req, move_pending, ack, ack_pending, push_pending, commit_req,
                     commit_pending, supply_pending, stage_progress>>
  BY DEF StreamPrefix, clientVars, channelVars
<1>2. /\ stream.state = "prefix" /\ Receiving(s) /\ worker = "receive" /\ promote = None
  BY <1>1 DEF IInv, Handshake, Receiving
<1>3. /\ s \in Slots /\ stream.pushed < NumChunks - 1 /\ reserved = s /\ op.big
      /\ progress + stream.pushed = Earlier(op.landed) /\ fifo = <<>>
  BY <1>1, <1>2 DEF IInv, Streaming
<1>4. stream \in Streams /\ stream.pushed \in 0 .. NumChunks /\ stream.dst \in Sources
  BY DEF IInv, TypeOK, CacheTyped, Streams
<1>5. c \in Chunks /\ c \in 0 .. NumChunks /\ c <= NumChunks - 1
  BY <1>3, <1>4, Sizes DEF Chunks
<1>6. progress \in 0 .. NumChunks
  BY DEF IInv, TypeOK, CacheTyped
<1>7. progress' \in 0 .. NumChunks /\ progress' + c = progress + stream.pushed
  BY <1>1, <1>4, <1>6, Sizes
<1>8. dir[s].loc = "free" /\ reserved # None
  BY <1>3, NoneAssumption DEF IInv, Reservation
<1>9. stream.dst = ack.dst
      /\ \A i \in 1 .. stream.pushed : SourceBytes(ack.dst, s)[i] = dev[s][i]
  BY <1>1 DEF IInv, Pushed
<1> HIDE DEF c, s
<1>10. /\ stream' \in Streams /\ stream'.slot = s /\ stream'.pushed = c
       /\ stream'.dst = stream.dst
       /\ stream'.state = IF c = NumChunks - 1 THEN "ready" ELSE "prefix"
  BY <1>1, <1>4, <1>5 DEF Streams, s
<1>11. PICK dst \in Sources : dst = stream.dst
  BY <1>4
<1>12. /\ pool' \in [Slots -> Bytes] /\ window' \in Bytes
       /\ (IF dst = "mapped" THEN pool'[s] ELSE window')[c] = dev[s][c]
       /\ \A i \in Chunks \ {c} : (IF dst = "mapped" THEN pool'[s] ELSE window')[i]
                                  = SourceBytes(dst, s)[i]
  BY <1>1, <1>3, <1>5, <1>11, PushWrites
<1>13. Directory' /\ Reservation' /\ Contents'
  BY <1>1, <1>3, <1>5, <1>8, <1>11, PushStays
<1>14. \A i \in 1 .. c : (IF ack.dst = "mapped" THEN pool'[s] ELSE window')[i] = dev[s][i]
  <2> SUFFICES ASSUME NEW i \in 1 .. c
               PROVE  (IF dst = "mapped" THEN pool'[s] ELSE window')[i] = dev[s][i]
    BY <1>9, <1>11
  <2>1. CASE i = c
    BY <1>12, <2>1
  <2>2. CASE i # c
    <3>1. i \in 1 .. stream.pushed
      BY <1>4, <2>2, Sizes DEF c
    <3>2. i \in Chunks \ {c}
      BY <1>3, <1>4, <2>2, <3>1, Sizes DEF Chunks
    <3> QED
      BY <1>9, <1>11, <1>12, <3>1, <3>2
  <2> QED
    BY <2>1, <2>2
<1>15. ClientsTyped'
  BY <1>1 DEF IInv, TypeOK, ClientsTyped
<1>16. CacheTyped'
  BY <1>1, <1>7, <1>10 DEF IInv, TypeOK, CacheTyped
<1>17. BriscTyped' /\ ChannelsTyped' /\ WorkerTyped'
  BY <1>1, <1>12 DEF IInv, TypeOK, BriscTyped, ChannelsTyped, WorkerTyped
<1>18. Handshake'
  BY <1>1, <1>2, <1>10 DEF Handshake, Receiving, s
<1>19. Phases'
  <2>1. op.phase # "serving"
    BY <1>1 DEF IInv, Phases
  <2> QED
    BY <1>1, <2>1 DEF IInv, Phases
<1>20. Streaming'
  <2>1. c < NumChunks - 1 \/ c = NumChunks - 1
    BY <1>5, Sizes
  <2> QED
    BY <1>1, <1>3, <1>7, <1>10, <2>1 DEF Streaming
<1>21. Queue'
  <2>1. stream'.state # "tail" /\ stream.state # "tail"
    BY <1>2, <1>10
  <2> QED
    BY <1>1, <2>1 DEF IInv, Queue
<1>22. Metadata'
  BY <1>1 DEF IInv, Metadata
<1>23. Pushed'
  BY <1>1, <1>9, <1>10, <1>14 DEF Pushed, SourceBytes
<1>24. Supplying'
  BY <1>1, <1>2 DEF Supplying
<1> QED
  BY <1>13, <1>15, <1>16, <1>17, <1>18, <1>19, <1>20, <1>21, <1>22, <1>23, <1>24 DEF IInv, TypeOK

(* The last group is pushed.                                               *)
LEMMA StreamTailKeeps == ASSUME IInv, StreamTail PROVE IInv'
<1> DEFINE s == stream.slot
<1>1. /\ brisc = "loop" /\ stream.state = "tail" /\ brisc' = "tail_drain"
      /\ Push(stream.dst, s, {NumChunks}) /\ push_pending' = FALSE
      /\ UNCHANGED <<clientVars, cacheVars, job, move_req, move_pending, ack, ack_pending,
                     commit_req, commit_pending, supply_pending, stage_progress,
                     worker, wreq, host_values, meta, generations>>
      /\ UNCHANGED <<op, fenced, frontier, puts, reply, dir, dev, reserved, fifo, force, stream,
                     progress, promote>>
  BY DEF StreamTail, clientVars, cacheVars
<1>2. Receiving(s) /\ worker = "receive" /\ promote = None
  BY <1>1 DEF IInv, Handshake, Receiving
<1>3. /\ s \in Slots /\ stream.pushed = NumChunks - 1 /\ dir[s].loc = "pending"
      /\ stream.dst \in Sources /\ dev[s] \in Bytes
  BY <1>1 DEF IInv, Streaming, TypeOK, CacheTyped, Streams
<1>4. /\ stream.dst = ack.dst
      /\ \A i \in 1 .. stream.pushed : SourceBytes(ack.dst, s)[i] = dev[s][i]
  BY <1>1 DEF IInv, Pushed
<1> HIDE DEF s
<1>5. PICK dst \in Sources : dst = stream.dst
  BY <1>3
<1>6. {NumChunks} \in SUBSET Chunks
  BY Sizes
<1>7. /\ pool' \in [Slots -> Bytes] /\ window' \in Bytes
      /\ (IF dst = "mapped" THEN pool'[s] ELSE window')[NumChunks] = dev[s][NumChunks]
      /\ \A i \in Chunks \ {NumChunks} : (IF dst = "mapped" THEN pool'[s] ELSE window')[i]
                                         = SourceBytes(dst, s)[i]
  BY <1>1, <1>3, <1>5, <1>6, PushWrites
<1>8. Directory' /\ Reservation' /\ Contents'
  BY <1>1, <1>3, <1>5, <1>6, PushStays
<1>9. (IF ack.dst = "mapped" THEN pool'[s] ELSE window') = dev[s]
  <2>1. \A i \in Chunks : (IF dst = "mapped" THEN pool'[s] ELSE window')[i] = dev[s][i]
    <3> SUFFICES ASSUME NEW i \in Chunks, i # NumChunks
                 PROVE  (IF dst = "mapped" THEN pool'[s] ELSE window')[i] = dev[s][i]
      BY <1>7
    <3>1. i \in 1 .. stream.pushed
      BY <1>3, Sizes DEF Chunks
    <3> QED
      BY <1>4, <1>5, <1>7, <3>1
  <2>2. (IF dst = "mapped" THEN pool'[s] ELSE window') \in [Chunks -> Values]
    BY <1>3, <1>7 DEF Bytes
  <2>3. dev[s] \in [Chunks -> Values]
    BY <1>3 DEF Bytes
  <2> QED
    BY <1>4, <1>5, <2>1, <2>2, <2>3
<1>10. ClientsTyped' /\ CacheTyped' /\ BriscTyped' /\ ChannelsTyped'
  BY <1>1 DEF IInv, TypeOK, ClientsTyped, CacheTyped, BriscTyped, ChannelsTyped
<1>11. WorkerTyped'
  BY <1>1, <1>7 DEF IInv, TypeOK, WorkerTyped
<1>12. Handshake'
  BY <1>1, <1>2 DEF Handshake, Receiving, Landed, Silent, s
<1>13. Phases'
  BY <1>1 DEF IInv, Phases
<1>14. Streaming'
  BY <1>1 DEF IInv, Streaming
<1>15. Queue'
  BY <1>1 DEF IInv, Queue
<1>16. Metadata'
  BY <1>1 DEF IInv, Metadata
<1>17. Pushed'
  BY <1>1, <1>2, <1>9 DEF Pushed, SourceBytes, s
<1>18. Supplying'
  BY <1>1, <1>2 DEF Supplying
<1> QED
  BY <1>8, <1>10, <1>11, <1>12, <1>13, <1>14, <1>15, <1>16, <1>17, <1>18 DEF IInv, TypeOK

-----------------------------------------------------------------------------
(* BRISC: the two requests of a PUT.                                       *)

(* The slots prepare may take are not pending; the key of the PUT is free  *)
(* once its slot is.                                                       *)
LEMMA GrantFreesKey ==
  ASSUME IInv, NEW s \in PrepareSlots(op.key), dir'[s] = Free,
         \A k : Holding(dir', k) \subseteq Holding(dir, k)
  PROVE  Holding(dir', op.key) = {} /\ dir[s].loc # "pending"
<1>1. dir[s].loc # "pending"
  BY DEF PrepareSlots, Holding, At
<1>2. CASE Holding(dir, op.key) = {}
  BY <1>1, <1>2
<1>3. CASE Holding(dir, op.key) # {}
  <2>1. s \in Holding(dir, op.key)
    BY <1>3 DEF PrepareSlots
  <2>2. \A t \in Holding(dir, op.key) : t = s
    BY <2>1 DEF Holding, IInv, Directory
  <2>3. s \notin Holding(dir', op.key)
    BY DEF Holding, Free
  <2> QED
    BY <1>1, <2>2, <2>3
<1> QED
  BY <1>2, <1>3

(* A slot and a block are reserved.                                        *)
LEMMA PrepareGrantKeeps ==
  ASSUME IInv, NEW s \in Slots, NEW E \in SUBSET Slots, PrepareGrant(s, E)
  PROVE  IInv'
<1> DEFINE d == [dir EXCEPT ![s] = Free]
           streamed == op.big /\ fifo = <<>>
<1>1. /\ ServesRequest /\ op.phase = "prepare" /\ s \in PrepareSlots(op.key)
      /\ E \subseteq At(d, "device")
      /\ dir' = Evicted(d, E) /\ dev' = Dropped(E \cup {s})
      /\ reserved' = s /\ force' = FALSE /\ op' = [op EXCEPT !.phase = "payload"]
      /\ IF streamed
         THEN /\ move_req' = [op |-> "WRITE_THROUGH", slot |-> s]
              /\ move_pending' = move_pending + 1
              /\ brisc' = "stream_ack"
              /\ stream' = [NoStream EXCEPT !.state = "prefix", !.slot = s]
         ELSE UNCHANGED <<move_req, move_pending, brisc, stream>>
      /\ UNCHANGED <<ack, ack_pending, push_pending, commit_req, commit_pending,
                     supply_pending, stage_progress>>
      /\ UNCHANGED <<fenced, frontier, puts, reply, fifo, progress, promote, job, workerVars>>
  BY DEF PrepareGrant, Post, MakesRoom, channelVars
<1>2. /\ brisc = "loop" /\ stream.state = "none" /\ reserved = None /\ promote = None
      /\ move_pending = 0 /\ worker = "poll" /\ Silent /\ progress = 0
  BY <1>1, QuietBrisc
<1>3. UNCHANGED <<worker, wreq, host_values, meta, generations, pool, window>>
  BY <1>1 DEF workerVars
<1>4. op \in Requests /\ op.kind = "PUT" /\ op.landed = 0 /\ op.key \in Keys
  <2>1. op \in Requests /\ op.kind \in Operations \cup {"NONE"}
    BY DEF IInv, TypeOK, ClientsTyped, Requests
  <2>2. op.kind = "PUT"
    BY <1>1, <2>1, OperationsAssumption DEF IInv, Phases, Idle
  <2> QED
    BY <1>1, <2>1, <2>2 DEF IInv, Phases
<1>5. /\ op' \in Requests /\ op'.phase = "payload" /\ op'.kind = "PUT" /\ op'.key = op.key
      /\ op'.val = op.val /\ op'.client = op.client /\ op'.landed = 0 /\ op'.big = op.big
  BY <1>1, <1>4 DEF Requests
<1>6. /\ \A t \in Slots : TierStep(t)
      /\ dir' = [t \in Slots |-> dir'[t]] /\ dev' \in [Slots -> Bytes]
      /\ dir'[s] = Free
  BY <1>1, ReleaseSteps
<1>7. /\ Directory'
      /\ \A t \in Slots : dir'[t] \in Entries
      /\ \A t \in Slots : (dir'[t]).loc # "free" => Whole(ValueOf(t))'
      /\ \A t \in Slots : (dir'[t]).loc = "host" => (host_values'[t]).kind # "none"
      /\ \A t \in Slots : (dir'[t]).loc = "device" => Backed(t)'
      /\ \A t \in Slots : (dir'[t]).loc = "pending" => dir'[t] = dir[t]
      /\ \A k : Holding(dir', k) \subseteq Holding(dir, k)
  BY <1>3, <1>6, TierSteps
<1>8. Holding(dir', op.key) = {}
  BY <1>1, <1>6, <1>7, GrantFreesKey
<1> HIDE DEF d
<1>9. /\ stream' \in Streams /\ stream'.state # "tail"
      /\ IF streamed
         THEN stream'.state = "prefix" /\ stream'.slot = s /\ stream'.pushed = 0
         ELSE stream' = stream
  <2>1. CASE streamed
    <3>1. stream' = [state |-> "prefix", slot |-> s, dst |-> "window", tag |-> 0,
                     token |-> 0, pushed |-> 0]
      BY <1>1, <2>1 DEF NoStream
    <3> QED
      BY <2>1, <3>1, Sizes DEF Streams
  <2>2. CASE ~streamed
    BY <1>1, <1>2, <2>2 DEF IInv, TypeOK, CacheTyped
  <2> QED
    BY <2>1, <2>2
<1>10. ClientsTyped'
  BY <1>1, <1>5 DEF IInv, TypeOK, ClientsTyped
<1>11. CacheTyped'
  BY <1>1, <1>6, <1>7, <1>9 DEF IInv, TypeOK, CacheTyped
<1>12. BriscTyped'
  BY <1>1 DEF IInv, TypeOK, BriscTyped
<1>13. ChannelsTyped'
  BY <1>1, <1>2 DEF IInv, TypeOK, ChannelsTyped, HostRequests
<1>14. WorkerTyped'
  BY <1>3 DEF IInv, TypeOK, WorkerTyped
<1>15. Handshake'
  <2>1. CASE streamed
    BY <1>1, <1>2, <1>3, <1>9, <2>1 DEF Handshake, Acknowledging, Silent
  <2>2. CASE ~streamed
    BY <1>1, <1>2, <1>3, <2>2 DEF Handshake, Silent
  <2> QED
    BY <2>1, <2>2
<1>16. Phases'
  BY <1>1, <1>2, <1>4, <1>5, Sizes DEF IInv, Phases, Idle
<1>17. Reservation'
  <2>1. 1 .. 0 = {} /\ (dir'[s]).loc = "free" /\ s # None
    BY <1>6, NoneAssumption DEF Free
  <2> QED
    BY <1>1, <1>2, <1>5, <1>8, <2>1 DEF Reservation
<1>18. Streaming'
  <2>1. Earlier(0) = 0 /\ 0 < NumChunks - 1 /\ 0 + 0 = 0
    BY Sizes DEF Earlier
  <2>2. CASE streamed
    BY <1>1, <1>2, <1>5, <1>9, <2>1, <2>2 DEF Streaming
  <2>3. CASE ~streamed
    BY <1>1, <1>2, <1>5, <1>9, <2>1, <2>3 DEF Streaming
  <2> QED
    BY <2>2, <2>3
<1>19. Queue'
  <2>1. frontier' = Len(fifo') + (IF stream'.state = "tail" THEN 1 ELSE 0)
                    - (IF op'.phase = "issue" THEN 1 ELSE 0)
    BY <1>1, <1>2, <1>5, <1>9 DEF IInv, Queue
  <2>2. \A t \in Slots : (dir'[t]).loc = "pending" =>
           \E i \in 1 .. Len(fifo) : fifo[i].slot = t /\ fifo[i].token = dir[t].tag
    BY <1>2, <1>7 DEF IInv, Queue
  <2> QED
    BY <1>1, <1>2, <1>7, <2>1, <2>2 DEF Queue
<1>20. Contents'
  BY <1>5, <1>7 DEF Contents
<1>21. Metadata'
  BY <1>1, <1>3 DEF IInv, Metadata
<1>22. Pushed'
  BY <1>1, <1>2, <1>9 DEF Pushed
<1>23. Supplying'
  BY <1>1, <1>2 DEF Supplying
<1> QED
  BY <1>7, <1>10, <1>11, <1>12, <1>13, <1>14, <1>15, <1>16, <1>17, <1>18, <1>19, <1>20, <1>21,
     <1>22, <1>23 DEF IInv, TypeOK

(* A PUT that is all there is published only with nothing asked of the     *)
(* worker, or with its own write-through under way.                        *)
LEMMA QuietPublish ==
  ASSUME IInv, ServesRequest, op.phase = "publish"
  PROVE  /\ brisc = "loop" /\ promote = None /\ reserved \in Slots /\ dir[reserved].loc = "free"
         /\ dev[reserved] = Written(op.val) /\ op.val \in 1 .. MaxPuts
         /\ op.kind = "PUT" /\ op.key \in Keys /\ Holding(dir, op.key) = {}
         /\ \/ /\ stream.state = "none" /\ move_pending = 0 /\ worker = "poll" /\ Silent
               /\ progress = IF op.big THEN NumChunks - 1 ELSE 0
            \/ /\ stream.state = "ready" /\ stream.slot = reserved /\ Receiving(reserved)
               /\ progress = 0 /\ stream.pushed = NumChunks - 1 /\ fifo = <<>>
<1>1. brisc = "loop" /\ reserved \in Slots /\ reserved # None
  BY NoneAssumption DEF IInv, Reservation, TypeOK, CacheTyped, ServesRequest
<1>2. stream.state \in {"none", "ready"}
  BY <1>1 DEF IInv, TypeOK, CacheTyped, Streams, ServesRequest, Handshake
<1>3. /\ op.kind = "PUT" /\ op.key \in Keys /\ op.val \in 1 .. MaxPuts /\ op.landed = NumChunks
      /\ dir[reserved].loc = "free" /\ Holding(dir, op.key) = {}
  BY <1>1 DEF IInv, Reservation, Phases
<1>4. dev[reserved] = Written(op.val)
  <2>1. \A c \in Chunks : dev[reserved][c] = op.val
    BY <1>1, <1>3 DEF IInv, Reservation, Chunks
  <2>2. dev[reserved] \in [Chunks -> Values]
    BY <1>1 DEF IInv, TypeOK, CacheTyped, Bytes
  <2> QED
    BY <2>1, <2>2 DEF Written
<1>5. Earlier(NumChunks) = NumChunks - 1
  BY Sizes DEF Earlier
<1>6. CASE stream.state = "none"
  <2>1. move_pending = 0
    BY <1>6 DEF ServesRequest
  <2>2. worker = "poll" /\ Silent /\ promote = None
    BY <1>1, <1>6, <2>1 DEF IInv, Handshake
  <2>3. progress = IF op.big THEN NumChunks - 1 ELSE 0
    BY <1>1, <1>3, <1>5, <1>6 DEF IInv, Streaming
  <2> QED
    BY <1>1, <1>3, <1>4, <1>6, <2>1, <2>2, <2>3
<1>7. CASE stream.state = "ready"
  <2>1. Receiving(stream.slot) /\ promote = None /\ stream.slot = reserved
    BY <1>1, <1>7 DEF IInv, Handshake, Streaming
  <2>2. /\ progress + stream.pushed = NumChunks - 1 /\ stream.pushed = NumChunks - 1
        /\ fifo = <<>>
    BY <1>3, <1>5, <1>7 DEF IInv, Streaming
  <2>3. progress = 0
    BY <2>2, Sizes DEF IInv, TypeOK, CacheTyped
  <2> QED
    BY <1>1, <1>3, <1>4, <1>7, <2>1, <2>2, <2>3
<1> QED
  BY <1>2, <1>6, <1>7

(* The PUT becomes visible and joins the FIFO, or its stream is its commit.*)
LEMMA PublishKeeps ==
  ASSUME IInv, NEW token \in Tokens, Publish(token)
  PROVE  IInv'
<1>0. PICK s \in Slots : s = reserved
  BY QuietPublish DEF Publish
<1> DEFINE new == [loc |-> "pending", key |-> op.key, tag |-> token]
           streamed == stream.state = "ready"
<1>1. /\ ServesRequest /\ op.phase = "publish"
      /\ dir' = [dir EXCEPT ![s] = new]
      /\ reserved' = None /\ force' = FALSE
      /\ IF streamed
         THEN /\ stream' = [stream EXCEPT !.state = "tail", !.token = token]
              /\ UNCHANGED <<fifo, progress>>
         ELSE /\ fifo' = Append(fifo, [slot |-> s, token |-> token])
              /\ progress' = IF op.big THEN progress - (NumChunks - 1) ELSE progress
              /\ UNCHANGED stream
      /\ op' = [op EXCEPT !.phase = "issue"]
      /\ UNCHANGED <<fenced, frontier, puts, reply, dev, promote, brisc, job,
                     channelVars, workerVars>>
      /\ UNCHANGED <<host_values, pool, meta, worker, wreq, ack, move_pending, move_req, window>>
  BY <1>0 DEF Publish, channelVars, workerVars
<1>2. /\ brisc = "loop" /\ promote = None /\ s \in Slots /\ dir[s].loc = "free"
      /\ dev[s] = Written(op.val) /\ op.val \in 1 .. MaxPuts
      /\ op.kind = "PUT" /\ op.key \in Keys /\ Holding(dir, op.key) = {}
  BY <1>0, <1>1, QuietPublish
<1>3. \/ /\ stream.state = "none" /\ move_pending = 0 /\ worker = "poll" /\ Silent
         /\ progress = IF op.big THEN NumChunks - 1 ELSE 0
      \/ /\ streamed /\ stream.slot = s /\ Receiving(s)
         /\ progress = 0 /\ stream.pushed = NumChunks - 1 /\ fifo = <<>>
  BY <1>0, <1>1, QuietPublish
<1>4. dir \in [Slots -> Entries] /\ fifo \in Seq(QueuedPuts) /\ stream \in Streams
  BY DEF IInv, TypeOK, CacheTyped
<1>5. new \in Entries /\ new.loc = "pending" /\ new.key = op.key /\ new.tag = token
  BY <1>2 DEF Entries, Tags
<1>6. op' \in Requests /\ op'.phase = "issue" /\ op'.kind = "PUT" /\ op'.key = op.key
      /\ op'.val = op.val /\ op'.client = op.client /\ op'.landed = op.landed
      /\ op'.big = op.big
  BY <1>1, <1>2 DEF IInv, TypeOK, ClientsTyped, Requests
<1>7. [slot |-> s, token |-> token] \in QueuedPuts
  BY <1>2 DEF QueuedPuts
<1> HIDE DEF new
<1>8. dir'[s] = new /\ dir' \in [Slots -> Entries] /\ \A t \in Slots \ {s} : dir'[t] = dir[t]
  BY <1>1, <1>2, <1>4, <1>5
<1>9. /\ stream' \in Streams
      /\ IF streamed
         THEN /\ stream'.state = "tail" /\ stream'.slot = stream.slot
              /\ stream'.pushed = stream.pushed /\ stream'.dst = stream.dst
         ELSE stream' = stream
  <2>1. CASE streamed
    BY <1>1, <1>4, <2>1 DEF Streams
  <2>2. CASE ~streamed
    BY <1>1, <1>4, <2>2
  <2> QED
    BY <2>1, <2>2
<1>10. progress' = 0
  BY <1>1, <1>3, Sizes
<1>11. Len(fifo) \in Nat /\ Len(fifo) + 1 <= HighWatermark
       /\ (streamed => Len(fifo') = Len(fifo))
       /\ (~streamed => /\ Len(fifo') = Len(fifo) + 1
                        /\ fifo'[Len(fifo) + 1] = [slot |-> s, token |-> token]
                        /\ \A i \in 1 .. Len(fifo) : fifo'[i] = fifo[i])
       /\ fifo' \in Seq(QueuedPuts)
  <2>1. Len(fifo) \in Nat /\ Len(<<>>) = 0
    BY <1>4
  <2>2. ~FifoFirst
    BY <1>1 DEF ServesRequest
  <2>3. Len(fifo) + 1 <= HighWatermark
    BY <2>1, <2>2, Sizes DEF FifoFirst
  <2>4. CASE streamed
    BY <1>1, <1>4, <2>1, <2>3, <2>4
  <2>5. CASE ~streamed
    <3> DEFINE q == [slot |-> s, token |-> token]
    <3>1. q \in QueuedPuts /\ fifo' = Append(fifo, q)
      BY <1>1, <1>7, <2>5
    <3> HIDE DEF q
    <3>2. /\ Len(fifo') = Len(fifo) + 1 /\ fifo'[Len(fifo) + 1] = q
          /\ \A i \in 1 .. Len(fifo) : fifo'[i] = fifo[i]
          /\ fifo' \in Seq(QueuedPuts)
      BY <1>4, <3>1
    <3> QED
      BY <2>1, <2>3, <2>5, <3>2 DEF q
  <2> QED
    BY <2>4, <2>5
<1>12. \A t \in Slots : ValueOf(t)' = ValueOf(t) \/ t = s
  BY <1>1, <1>8 DEF ValueOf, BackingBytes
<1>13. ValueOf(s)' = Written(op.val)
  BY <1>1, <1>2, <1>5, <1>8 DEF ValueOf
<1>14. ClientsTyped'
  BY <1>1, <1>6 DEF IInv, TypeOK, ClientsTyped
<1>15. CacheTyped'
  <2>1. Len(fifo') <= HighWatermark /\ 0 \in 0 .. NumChunks
    BY <1>11, Sizes
  <2> QED
    BY <1>1, <1>8, <1>9, <1>10, <1>11, <2>1 DEF IInv, TypeOK, CacheTyped
<1>16. BriscTyped' /\ ChannelsTyped' /\ WorkerTyped'
  BY <1>1 DEF IInv, TypeOK, BriscTyped, ChannelsTyped, WorkerTyped, channelVars, workerVars
<1>17. Handshake'
  <2>1. CASE streamed
    BY <1>1, <1>2, <1>3, <1>9, <2>1 DEF Handshake, Receiving, channelVars
  <2>2. CASE ~streamed
    BY <1>1, <1>2, <1>3, <1>9, <2>2 DEF Handshake, Silent, channelVars
  <2> QED
    BY <2>1, <2>2
<1>18. Phases'
  BY <1>1, <1>2, <1>6 DEF IInv, Phases, Idle
<1>19. Directory'
  <2>1. \A t \in Slots : dir[t].loc # "free" => dir[t].key # op.key
    BY <1>2 DEF Holding
  <2>2. \A t \in Slots \ {s} :
           /\ (dir'[t]).loc = "free" => dir'[t] = Free
           /\ (dir'[t]).loc # "free" => (dir'[t]).key \in Keys /\ (dir'[t]).key # op.key
           /\ (dir'[t]).loc \in {"device", "host"} => (dir'[t]).tag \in Generations
    BY <1>8, <2>1 DEF IInv, Directory
  <2>3. (dir'[s]).loc = "pending" /\ (dir'[s]).key = op.key
    BY <1>5, <1>8
  <2>4. ASSUME NEW t \in Slots, NEW u \in Slots, (dir'[t]).loc # "free", (dir'[u]).loc # "free",
               (dir'[t]).key = (dir'[u]).key
        PROVE  t = u
    <3>1. CASE t = s \/ u = s
      BY <2>2, <2>3, <2>4, <3>1
    <3>2. CASE t # s /\ u # s
      BY <1>8, <2>4, <3>2 DEF IInv, Directory
    <3> QED
      BY <3>1, <3>2
  <2> QED
    BY <1>2, <2>2, <2>3, <2>4 DEF Directory
<1>20. Reservation'
  BY <1>1, <1>2, <1>6 DEF Reservation
<1>21. Streaming'
  <2>1. CASE streamed
    BY <1>1, <1>2, <1>3, <1>5, <1>8, <1>9, <1>10, <2>1 DEF Streaming
  <2>2. CASE ~streamed
    BY <1>1, <1>2, <1>3, <1>9, <1>10, <2>2 DEF Streaming
  <2> QED
    BY <2>1, <2>2
<1>22. Queue'
  <2>1. frontier = Len(fifo) /\ frontier \in Int
    <3>1. stream.state # "tail"
      BY <1>3
    <3> QED
      BY <1>1, <1>11, <3>1, FrontierCounts
  <2>2. frontier' = Len(fifo') + (IF stream'.state = "tail" THEN 1 ELSE 0)
                    - (IF op'.phase = "issue" THEN 1 ELSE 0)
    <3>1. Len(fifo') + (IF stream'.state = "tail" THEN 1 ELSE 0) = Len(fifo) + 1
      BY <1>3, <1>9, <1>11
    <3> QED
      BY <1>1, <1>6, <1>11, <2>1, <3>1
  <2>3. \A t \in Slots : (dir'[t]).loc = "pending" =>
          \/ stream'.state = "tail" /\ stream'.slot = t
          \/ \E i \in 1 .. Len(fifo') : fifo'[i].slot = t /\ fifo'[i].token = (dir'[t]).tag
    <3> SUFFICES ASSUME NEW t \in Slots, (dir'[t]).loc = "pending", ~streamed \/ t # s
                 PROVE  \/ stream'.state = "tail" /\ stream'.slot = t
                        \/ \E i \in 1 .. Len(fifo') :
                              fifo'[i].slot = t /\ fifo'[i].token = (dir'[t]).tag
      BY <1>3, <1>9
    <3>1. CASE t = s
      <4>1. Len(fifo) + 1 \in 1 .. Len(fifo')
        BY <1>11, <3>1
      <4>2. fifo'[Len(fifo) + 1].slot = s /\ fifo'[Len(fifo) + 1].token = token
        BY <1>11, <3>1
      <4> QED
        BY <1>5, <1>8, <3>1, <4>1, <4>2
    <3>2. CASE t # s
      <4>1. dir'[t] = dir[t] /\ stream.state # "tail"
        BY <1>3, <1>8, <3>2
      <4>2. PICK i \in 1 .. Len(fifo) : fifo[i].slot = t /\ fifo[i].token = dir[t].tag
        BY <4>1 DEF IInv, Queue
      <4>3. ~streamed
        <5>1. Len(<<>>) = 0 /\ 1 .. 0 = {}
          OBVIOUS
        <5> QED
          BY <1>3, <4>2, <5>1
      <4>4. i \in 1 .. Len(fifo') /\ fifo'[i] = fifo[i]
        BY <1>11, <4>3
      <4> QED
        BY <4>1, <4>2, <4>4
    <3> QED
      BY <3>1, <3>2
  <2> QED
    BY <1>1, <1>2, <2>2, <2>3 DEF Queue
<1>23. Contents'
  <2>1. \A t \in Slots : (dir'[t]).loc # "free" => Whole(ValueOf(t))'
    <3> SUFFICES ASSUME NEW t \in Slots, (dir'[t]).loc # "free" PROVE Whole(ValueOf(t))'
      OBVIOUS
    <3>1. CASE t = s
      BY <1>2, <1>13, <3>1 DEF Whole
    <3>2. CASE t # s
      <4>1. Whole(ValueOf(t)) /\ ValueOf(t)' = ValueOf(t)
        BY <1>8, <1>12, <3>2 DEF IInv, Contents
      <4> QED
        BY <4>1 DEF Whole
    <3> QED
      BY <3>1, <3>2
  <2>2. \A t \in Slots : (dir'[t]).loc = "host" => (host_values'[t]).kind # "none"
    BY <1>1, <1>5, <1>8 DEF IInv, Contents
  <2>3. \A t \in Slots : (dir'[t]).loc = "device" => Backed(t)'
    BY <1>1, <1>5, <1>8 DEF IInv, Contents, Backed, BackingBytes
  <2>4. s \in Holding(dir', op'.key)
    BY <1>2, <1>5, <1>6, <1>8 DEF Holding
  <2> QED
    BY <1>6, <1>13, <2>1, <2>2, <2>3, <2>4 DEF Contents
<1>24. Metadata'
  BY <1>1 DEF IInv, Metadata
<1>25. Pushed'
  <2>1. CASE streamed
    BY <1>1, <1>2, <1>9, <2>1 DEF IInv, Pushed, SourceBytes
  <2>2. CASE ~streamed
    BY <1>1, <1>2, <1>3, <1>9, <2>2 DEF Pushed
  <2> QED
    BY <2>1, <2>2
<1>26. Supplying'
  BY <1>1, <1>2 DEF Supplying
<1> QED
  BY <1>14, <1>15, <1>16, <1>17, <1>18, <1>19, <1>20, <1>21, <1>22, <1>23, <1>24, <1>25, <1>26
     DEF IInv, TypeOK

-----------------------------------------------------------------------------
(* The invariant holds.                                                    *)

(* No step of BRISC breaks the invariant.                                  *)
LEMMA BriscKeeps == ASSUME IInv, BriscNext PROVE IInv'
BY PrepareRetryKeeps, PrepareStarvedKeeps, PrepareGrantKeeps, PublishKeeps, StreamAckKeeps,
   StreamPrefixKeeps, StreamTailKeeps, TailDrainKeeps, SkipStaleKeeps, CommitHeadKeeps,
   FifoAckKeeps, FifoDrainKeeps, AnswerExistsKeeps, LookupWithoutEffectKeeps, GetResidentKeeps,
   GetInPlaceKeeps, GetThroughWindowKeeps, RemoveKeeps, MoveToHostKeeps, MoveToDeviceStarvedKeeps,
   MoveToDeviceKeeps, ServeCommitKeeps, ServeReadKeeps, ServeDoneKeeps, RemoveDrainKeeps,
   PromoteCommitKeeps, PassEndKeeps DEF BriscNext

(* It holds of the empty Server.                                           *)
LEMMA InitHolds == ASSUME Init PROVE IInv
<1>1. /\ Idle \in Requests /\ Idle.phase = "none" /\ Idle.kind = "NONE" /\ Idle.val = 0
      /\ Free \in Entries /\ Free.loc = "free"
      /\ NoStream \in Streams /\ NoStream.state = "none"
      /\ [op |-> "NONE", slot |-> None] \in HostRequests
  BY Sizes DEF Idle, Requests, Free, Entries, Tags, NoStream, Streams, HostRequests
<1>2. <<>> \in Seq(Values) /\ <<>> \in Seq(QueuedPuts) /\ Len(<<>>) = 0 /\ 1 .. 0 = {}
  OBVIOUS
<1>3. NoJob \in Jobs
  BY <1>2, Sizes DEF NoJob, Jobs
<1>4. Unwritten \in Bytes /\ NoBacking \in Backings
  BY BytesOf, Sizes DEF NoBacking, Backings
<1>5. ClientsTyped
  BY <1>1, <1>4, Sizes DEF Init, ClientsTyped
<1>6. CacheTyped
  <2>1. 0 \in 0 .. NumChunks /\ 0 <= HighWatermark
    BY Sizes
  <2> QED
    BY <1>1, <1>2, <1>4, <2>1 DEF Init, CacheTyped
<1>7. BriscTyped
  BY <1>3 DEF Init, BriscTyped
<1>8. ChannelsTyped
  <2>1. 0 \in 0 .. 2 /\ 0 \in 0 .. NumChunks
    BY Sizes
  <2> QED
    BY <1>1, <2>1, Sizes DEF Init, ChannelsTyped
<1>9. WorkerTyped
  BY <1>1, <1>4, Sizes DEF Init, WorkerTyped
<1>10. Handshake
  BY <1>1 DEF Init, Handshake, Silent
<1>11. Phases
  BY <1>1 DEF Init, Phases
<1>12. \A s \in Slots : dir[s] = Free /\ meta[s] = 0
  BY DEF Init
<1>13. Directory
  BY <1>1, <1>12 DEF Directory
<1>14. Reservation
  BY <1>1 DEF Init, Reservation
<1>15. Streaming
  BY <1>1 DEF Init, Streaming
<1>16. Queue
  BY <1>1, <1>2, <1>12 DEF Init, Queue
<1>17. Contents
  BY <1>1, <1>12 DEF Init, Contents
<1>18. Metadata
  BY <1>12 DEF Init, Metadata
<1>19. Pushed
  BY <1>1 DEF Init, Pushed
<1>20. Supplying
  BY DEF Init, Supplying
<1> QED
  BY <1>5, <1>6, <1>7, <1>8, <1>9, <1>10, <1>11, <1>13, <1>14, <1>15, <1>16, <1>17, <1>18, <1>19,
     <1>20 DEF IInv, TypeOK

(* A stutter changes nothing.                                              *)
LEMMA StutterKeeps == ASSUME IInv, UNCHANGED vars PROVE IInv'
<1>1. UNCHANGED <<frontier, cacheVars, brisc, job, channelVars, workerVars>>
      /\ UNCHANGED clientVars
  BY DEF vars, clientVars
<1>2. UNCHANGED <<clientVars, cacheVars, brisc, job>>
  BY <1>1
<1>3. /\ CacheTyped' /\ BriscTyped' /\ ChannelsTyped' /\ WorkerTyped'
      /\ Handshake' /\ Directory' /\ Metadata' /\ Pushed'
  BY <1>1, ClientFrame
<1>4. ClientsTyped' /\ Phases' /\ Reservation' /\ Streaming' /\ Queue'
  BY <1>2, WorkerFrame
<1>5. Contents'
  BY <1>1 DEF IInv, Contents, Whole, ValueOf, Backed, BackingBytes, Holding, clientVars, cacheVars,
     workerVars
<1>6. Supplying'
  BY <1>1 DEF IInv, Supplying, SupplySource, SourceBytes, BackingBytes, clientVars, cacheVars,
     channelVars, workerVars
<1> QED
  BY <1>3, <1>4, <1>5, <1>6 DEF IInv, TypeOK

(* The inductive invariant holds in every state the request path of a      *)
(* Server can reach.                                                       *)
THEOREM TieringInvariant == Spec => []IInv
<1>1. Init => IInv
  BY InitHolds
<1>2. IInv /\ [Next]_vars => IInv'
  BY ClientKeeps, NcriscKeeps, BriscKeeps, WorkerKeeps, StutterKeeps DEF Next
<1> QED
  BY <1>1, <1>2, PTL DEF Spec

(* Every queue, channel, directory entry and block keeps its type: what    *)
(* BRISC, NCRISC and the worker exchange is always well formed, the FIFO   *)
(* stays within put_host_queue_high_watermark and move_req within two      *)
(* unprocessed posts.                                                      *)
THEOREM TypeCorrect == Spec => []TypeOK
<1>1. IInv => TypeOK
  BY DEF IInv
<1> QED
  BY <1>1, TieringInvariant, PTL

(* A committed resident's host copy equals its cache block, and a          *)
(* host-only entry has one whole copy of one PUT, however the streamed and *)
(* queued write-through of kvm_brisc_main interleave with requests,        *)
(* evictions and the worker.                                               *)
THEOREM BackingIsDurable == Spec => []DurableEntriesAreBacked
<1>1. IInv => DurableEntriesAreBacked
  <2> SUFFICES ASSUME IInv, NEW s \in Slots, dir[s].loc \in {"device", "host"}
               PROVE  /\ host_values[s].kind # "none"
                      /\ BackingBytes(s) \in { Written(v) : v \in 1 .. MaxPuts }
                      /\ dir[s].loc = "device" => dev[s] = BackingBytes(s)
    BY DEF DurableEntriesAreBacked, At
  <2>1. Whole(ValueOf(s))
    BY DEF IInv, Contents
  <2>2. CASE dir[s].loc = "device"
    BY <2>1, <2>2 DEF IInv, Contents, Backed, ValueOf, Whole
  <2>3. CASE dir[s].loc = "host"
    BY <2>1, <2>3 DEF IInv, Contents, ValueOf, Whole
  <2> QED
    BY <2>2, <2>3
<1> QED
  BY <1>1, TieringInvariant, PTL

(* Mapped metadata that names the generation of a committed entry names an *)
(* extent the worker still holds: a GET may read it in place, although     *)
(* publish_pool_meta wraps the generation and never clears the directory.  *)
THEOREM GenerationsMatch == Spec => []MatchingGenerationIsHeld
<1>1. IInv => MatchingGenerationIsHeld
  BY InPlaceIsMapped DEF MatchingGenerationIsHeld, At
<1> QED
  BY <1>1, TieringInvariant, PTL

-----------------------------------------------------------------------------
(* What a step does to the store.                                          *)

\* Every entry keeps its key and its value, and none comes or goes.
EntriesStay ==
    \A s \in Slots :
       /\ (dir'[s]).loc = "free" <=> dir[s].loc = "free"
       /\ dir[s].loc # "free" => (dir'[s]).key = dir[s].key /\ ValueOf(s)' = ValueOf(s)

\* The same, but for slot t, which is free afterwards.
Releases(t) ==
    /\ dir'[t] = Free
    /\ \A s \in Slots \ {t} :
          /\ (dir'[s]).loc = "free" <=> dir[s].loc = "free"
          /\ dir[s].loc # "free" => (dir'[s]).key = dir[s].key /\ ValueOf(s)' = ValueOf(s)

\* A pending entry that changes is committed, and none appears.
PendingStays ==
    \A s \in Slots :
       dir'[s] # dir[s] /\ (dir[s].loc = "pending" \/ (dir'[s]).loc = "pending") =>
          (dir'[s]).loc = "device" /\ (dir'[s]).key = dir[s].key /\ Backed(s)

(* A step between tiers that frees nothing.                                *)
LEMMA TiersStay ==
  ASSUME IInv, \A s \in Slots : TierStep(s), UNCHANGED <<host_values, pool>>,
         \A s \in Slots : dir[s].loc # "free" => (dir'[s]).loc # "free"
  PROVE  EntriesStay /\ PendingStays
<1>1. \A s \in Slots : (dir'[s]).loc # "free" =>
         dir[s].loc # "free" /\ (dir'[s]).key = dir[s].key /\ ValueOf(s)' = ValueOf(s)
  BY TierSteps
<1>2. EntriesStay
  BY <1>1 DEF EntriesStay
<1>3. PendingStays
  <2>0. \A s \in Slots : (dir'[s]).loc = "pending" => dir'[s] = dir[s]
    BY TierSteps
  <2> SUFFICES ASSUME NEW s \in Slots, dir[s].loc = "pending", dir'[s] # dir[s]
               PROVE  (dir'[s]).loc = "device" /\ (dir'[s]).key = dir[s].key /\ Backed(s)
    BY <2>0 DEF PendingStays
  <2>1. (dir'[s]).loc # "free" /\ Free.loc = "free" /\ dir[s] \in Entries
    BY DEF Free, IInv, TypeOK, CacheTyped
  <2>2. PICK tag \in Generations : dir'[s] = [dir[s] EXCEPT !.loc = "device", !.tag = tag]
    BY <2>1 DEF TierStep
  <2>3. Backed(s)
    BY <2>1 DEF TierStep
  <2> QED
    BY <2>1, <2>2, <2>3 DEF Entries
<1> QED
  BY <1>2, <1>3

(* A step that leaves the entries, the blocks and the host copies alone.   *)
LEMMA StillStays ==
  ASSUME IInv, UNCHANGED <<dir, dev, host_values, pool>>
  PROVE  EntriesStay /\ PendingStays
BY DEF EntriesStay, PendingStays, ValueOf, BackingBytes

(* Evicting committed residents.                                           *)
LEMMA EvictionStays ==
  ASSUME IInv, NEW E, E \subseteq At(dir, "device"), dir' = Evicted(dir, E), dev' = Dropped(E),
         UNCHANGED <<host_values, pool>>
  PROVE  EntriesStay /\ PendingStays
<1>1. /\ \A s \in Slots : TierStep(s)
      /\ \A s \in Slots : dir[s].loc # "free" => (dir'[s]).loc # "free"
  BY EvictionSteps
<1> QED
  BY <1>1, TiersStay

(* The worker touches no host copy of a durable entry.                     *)
LEMMA WorkerStays ==
  ASSUME IInv, WorkerNext
  PROVE  /\ EntriesStay /\ PendingStays
         /\ UNCHANGED <<op, fenced, frontier, puts, reply, dir, dev, promote, fifo, brisc>>
<1>1. UNCHANGED <<clientVars, cacheVars, brisc>>
  BY DEF WorkerNext, Poll, Retire, Acknowledge, Receive, Supply, StageCopy, StagePublish,
     AwaitDone, Complete
<1>2. UNCHANGED <<op, fenced, frontier, puts, reply, dir, dev, promote, fifo, brisc>>
  BY <1>1 DEF clientVars, cacheVars
<1>3. \A s \in Slots : dir[s].loc \in {"device", "host"} =>
         host_values'[s] = host_values[s] /\ pool'[s] = pool[s]
  <2>1. CASE worker \in {"retire", "acknowledge", "receive"}
    <3>1. wreq.slot \in Slots /\ dir[wreq.slot].loc \in {"free", "pending"}
      BY <2>1, TargetIsNotDurable
    <3>2. host_values \in [Slots -> Backings] /\ pool \in [Slots -> Bytes]
      BY DEF IInv, TypeOK, WorkerTyped
    <3>3. \A s \in Slots \ {wreq.slot} : host_values'[s] = host_values[s] /\ pool'[s] = pool[s]
      BY <2>1, <3>1, <3>2 DEF WorkerNext, Poll, Retire, Acknowledge, Receive, Supply, StageCopy,
         StagePublish, AwaitDone, Complete
    <3> QED
      BY <3>1, <3>3
  <2>2. CASE worker \notin {"retire", "acknowledge", "receive"}
    BY <2>2 DEF WorkerNext, Poll, Retire, Acknowledge, Receive, Supply, StageCopy,
       StagePublish, AwaitDone, Complete
  <2> QED
    BY <2>1, <2>2
<1>4. \A s \in Slots : dir[s].loc # "free" => ValueOf(s)' = ValueOf(s)
  BY <1>1, <1>3, HostCopiesStay
<1> QED
  BY <1>2, <1>4 DEF EntriesStay, PendingStays

(* Neither do the Clients and NCRISC: a payload lands in a slot that is    *)
(* only reserved.                                                          *)
LEMMA RequestStays ==
  ASSUME IInv, ClientNext \/ NcriscNext
  PROVE  EntriesStay /\ PendingStays /\ UNCHANGED <<dir, promote, fifo, brisc>>
<1>1. CASE ClientNext \/ BarrierDone \/ IssuePut
  <2>1. UNCHANGED <<dir, dev, host_values, pool, promote, fifo, brisc>>
    BY <1>1 DEF ClientNext, Put, Get, Exists, CommitBarrier, FencedOperation, Submit, BarrierDone,
       IssuePut, cacheVars, workerVars
  <2> QED
    BY <2>1, StillStays
<1>2. CASE LandChunk
  <2>1. /\ op.phase = "payload" /\ UNCHANGED <<dir, host_values, pool, promote, fifo, brisc>>
        /\ \E b : dev' = [dev EXCEPT ![reserved] = b]
    BY <1>2 DEF LandChunk, workerVars
  <2>2. reserved \in Slots /\ dir[reserved].loc = "free" /\ dev \in [Slots -> Bytes]
    BY <2>1 DEF IInv, Reservation, TypeOK, CacheTyped
  <2>3. \A s \in Slots : dir[s].loc # "free" => dev'[s] = dev[s]
    BY <2>1, <2>2
  <2> QED
    BY <2>1, <2>3 DEF EntriesStay, PendingStays, ValueOf, BackingBytes
<1> QED
  BY <1>1, <1>2 DEF NcriscNext

(* A push writes the extent of a slot that has no durable entry.           *)
LEMMA PushedOutside ==
  ASSUME IInv, StreamPrefix \/ StreamTail \/ FifoAck
  PROVE  EntriesStay /\ PendingStays
<1>1. UNCHANGED <<dir, dev, host_values>>
  BY DEF StreamPrefix, StreamTail, FifoAck, cacheVars
<1>2. PICK t : /\ t \in Slots /\ dir[t].loc \in {"free", "pending"}
               /\ pool' = pool \/ \E b : pool' = [pool EXCEPT ![t] = b]
  <2>1. CASE StreamPrefix
    <3>1. stream.slot \in Slots /\ dir[stream.slot].loc \in {"free", "pending"}
      BY <2>1, TargetIsNotDurable DEF StreamPrefix, IInv, Handshake, Receiving
    <3> QED
      BY <2>1, <3>1 DEF StreamPrefix, Push
  <2>2. CASE StreamTail
    <3>1. stream.slot \in Slots /\ dir[stream.slot].loc = "pending"
      BY <2>2 DEF StreamTail, IInv, Streaming
    <3> QED
      BY <2>2, <3>1 DEF StreamTail, Push
  <2>3. CASE FifoAck
    <3>1. fifo # <<>> /\ Current(Head(fifo))
      BY <2>3 DEF FifoAck, IInv, Handshake, Queue
    <3>2. Head(fifo).slot \in Slots /\ dir[Head(fifo).slot].loc = "pending"
      BY <3>1, FifoTail DEF Current
    <3> QED
      BY <2>3, <3>2 DEF FifoAck, Push
  <2> QED
    BY <2>1, <2>2, <2>3
<1>3. \A s \in Slots : dir[s].loc \in {"device", "host"} => pool'[s] = pool[s]
  <2>1. pool \in [Slots -> Bytes]
    BY DEF IInv, TypeOK, WorkerTyped
  <2> QED
    BY <1>2, <2>1
<1>4. \A s \in Slots : dir[s].loc # "free" => ValueOf(s)' = ValueOf(s)
  <2> SUFFICES ASSUME NEW s \in Slots, dir[s].loc # "free" PROVE ValueOf(s)' = ValueOf(s)
    OBVIOUS
  <2>1. dir[s].loc = "host" => BackingBytes(s)' = BackingBytes(s)
    BY <1>1, <1>3 DEF BackingBytes
  <2> QED
    BY <1>1, <2>1 DEF ValueOf
<1> QED
  BY <1>1, <1>4 DEF EntriesStay, PendingStays

\* The steps of BRISC that free no entry and make none.
Moving ==
    \/ PrepareRetry \/ StreamAck \/ StreamPrefix \/ StreamTail \/ TailDrain
    \/ SkipStale \/ CommitHead \/ FifoAck \/ FifoDrain
    \/ AnswerExists \/ LookupWithoutEffect
    \/ \E s \in Slots :
          \/ GetResident(s)
          \/ \E E \in SUBSET Slots, admit \in BOOLEAN :
                GetInPlace(s, E, admit) \/ GetThroughWindow(s, E, admit)
          \/ MoveToHost(s) \/ MoveToDeviceStarved(s)
          \/ \E E \in SUBSET Slots : MoveToDevice(s, E)
    \/ ServeCommit \/ ServeRead \/ ServeDone \/ RemoveDrain
    \/ PromoteCommit \/ PassEnd

(* They move values between tiers and change none.                         *)
LEMMA MovingStays ==
  ASSUME IInv, Moving
  PROVE  EntriesStay /\ PendingStays
<1>1. CASE \/ PrepareRetry \/ StreamAck \/ SkipStale \/ CommitHead \/ AnswerExists
           \/ LookupWithoutEffect \/ (\E s \in Slots : GetResident(s))
           \/ ServeCommit \/ ServeRead \/ RemoveDrain \/ PassEnd
  <2>1. UNCHANGED <<dir, dev, host_values, pool>>
    BY <1>1 DEF PrepareRetry, StreamAck, SkipStale, CommitHead, AnswerExists, LookupWithoutEffect,
       GetResident, ServeCommit, ServeRead, RemoveDrain, PassEnd, cacheVars, workerVars
  <2> QED
    BY <2>1, StillStays
<1>2. CASE StreamPrefix \/ StreamTail \/ FifoAck
  BY <1>2, PushedOutside
<1>3. CASE TailDrain
  <2>1. UNCHANGED <<host_values, pool, dev>> /\ brisc = "tail_drain" /\ move_pending = 0
        /\ dir' = Committed(stream.slot, stream.tag)
    BY <1>3 DEF TailDrain, workerVars
  <2>2. stream.state = "tail" /\ worker = "poll" /\ Backed(stream.slot)
    BY <2>1 DEF IInv, Handshake, Landed, Pushed
  <2>3. stream.slot \in Slots /\ dir[stream.slot].loc = "pending" /\ stream.tag \in Generations
    BY <2>2 DEF IInv, Streaming, TypeOK, CacheTyped, Streams
  <2>4. PICK s \in Slots, tag \in Generations : s = stream.slot /\ tag = stream.tag
    BY <2>3
  <2>5. /\ \A t \in Slots : TierStep(t)
        /\ \A t \in Slots : dir[t].loc # "free" => (dir'[t]).loc # "free"
    BY <2>1, <2>2, <2>3, <2>4, CommitTiers
  <2> QED
    BY <2>1, <2>5, TiersStay
<1>4. CASE FifoDrain
  <2>1. UNCHANGED <<host_values, pool, dev>> /\ brisc = "fifo_drain" /\ move_pending = 0
        /\ dir' = Committed(job.slot, job.tag)
    BY <1>4 DEF FifoDrain, workerVars
  <2>2. worker = "poll" /\ Backed(job.slot) /\ fifo # <<>> /\ job.slot = Head(fifo).slot
    BY <2>1 DEF IInv, Handshake, Landed, Pushed
  <2>3. job.slot \in Slots /\ dir[job.slot].loc = "pending" /\ job.tag \in Generations
    BY <2>1, <2>2, FifoTail DEF IInv, Queue, Current, TypeOK, BriscTyped, Jobs
  <2>4. PICK s \in Slots, tag \in Generations : s = job.slot /\ tag = job.tag
    BY <2>3
  <2>5. /\ \A t \in Slots : TierStep(t)
        /\ \A t \in Slots : dir[t].loc # "free" => (dir'[t]).loc # "free"
    BY <2>1, <2>2, <2>3, <2>4, CommitTiers
  <2> QED
    BY <2>1, <2>5, TiersStay
<1>5. ASSUME NEW s \in Slots, NEW E \in SUBSET Slots, NEW admit \in BOOLEAN,
             GetInPlace(s, E, admit)
      PROVE  EntriesStay /\ PendingStays
  <2>1. UNCHANGED <<host_values, pool>>
    BY <1>5 DEF GetInPlace, workerVars
  <2>2. /\ \A t \in Slots : TierStep(t)
        /\ \A t \in Slots : dir[t].loc # "free" => (dir'[t]).loc # "free"
    BY <1>5, GetInPlaceTiers
  <2> QED
    BY <2>1, <2>2, TiersStay
<1>6. ASSUME NEW s \in Slots, NEW E \in SUBSET Slots, NEW admit \in BOOLEAN,
             \/ GetThroughWindow(s, E, admit) \/ MoveToHost(s) \/ MoveToDeviceStarved(s)
             \/ MoveToDevice(s, E)
      PROVE  EntriesStay /\ PendingStays
  <2>1. UNCHANGED <<host_values, pool>>
    BY <1>6 DEF GetThroughWindow, MoveToHost, MoveToDeviceStarved, MoveToDevice, workerVars
  <2>2. PICK F \in SUBSET Slots :
           F \subseteq At(dir, "device") /\ dir' = Evicted(dir, F) /\ dev' = Dropped(F)
    <3>1. CASE GetThroughWindow(s, E, admit) \/ MoveToDevice(s, E)
      BY <3>1 DEF GetThroughWindow, MoveToDevice, MakesRoom
    <3>2. CASE MoveToHost(s)
      <4>1. {s} \in SUBSET Slots /\ {s} \subseteq At(dir, "device")
        BY <3>2 DEF MoveToHost
      <4> QED
        BY <3>2, <4>1 DEF MoveToHost
    <3>3. CASE MoveToDeviceStarved(s)
      <4>1. At(dir, "device") \in SUBSET Slots
        BY DEF At
      <4> QED
        BY <3>3, <4>1 DEF MoveToDeviceStarved
    <3> QED
      BY <1>6, <3>1, <3>2, <3>3
  <2> QED
    BY <2>1, <2>2, EvictionStays
<1>7. CASE ServeDone
  <2>1. UNCHANGED <<host_values, pool>>
    BY <1>7 DEF ServeDone, workerVars
  <2>2. /\ \A t \in Slots : TierStep(t)
        /\ \A t \in Slots : dir[t].loc # "free" => (dir'[t]).loc # "free"
    BY <1>7, ServeDoneTiers
  <2> QED
    BY <2>1, <2>2, TiersStay
<1>8. CASE PromoteCommit
  <2>1. UNCHANGED <<host_values, pool>>
    BY <1>8 DEF PromoteCommit, workerVars
  <2>2. /\ \A t \in Slots : TierStep(t)
        /\ \A t \in Slots : dir[t].loc # "free" => (dir'[t]).loc # "free"
    BY <1>8, PromoteTiers
  <2> QED
    BY <2>1, <2>2, TiersStay
<1> QED
  BY <1>1, <1>2, <1>3, <1>4, <1>5, <1>6, <1>7, <1>8 DEF Moving

(* A prepare frees the slot it picks, and nothing else.                    *)
LEMMA PrepareReleases ==
  ASSUME IInv, NEW s \in Slots, NEW E \in SUBSET Slots, PrepareStarved(s) \/ PrepareGrant(s, E)
  PROVE  /\ Releases(s) /\ PendingStays /\ dir[s].loc # "pending" /\ s \in PrepareSlots(op.key)
         /\ op.kind = "PUT" /\ op.phase = "prepare" /\ reserved = None
<1>1. PICK F \in SUBSET Slots :
         /\ F \subseteq At([dir EXCEPT ![s] = Free], "device")
         /\ dir' = Evicted([dir EXCEPT ![s] = Free], F) /\ dev' = Dropped(F \cup {s})
  <2>1. CASE PrepareGrant(s, E)
    BY <2>1 DEF PrepareGrant, MakesRoom
  <2>2. CASE PrepareStarved(s)
    <3>1. At([dir EXCEPT ![s] = Free], "device") \in SUBSET Slots
      BY DEF At
    <3> QED
      BY <2>2, <3>1 DEF PrepareStarved
  <2> QED
    BY <2>1, <2>2
<1>2. /\ UNCHANGED <<host_values, pool>> /\ s \in PrepareSlots(op.key) /\ op.phase = "prepare"
  BY DEF PrepareGrant, PrepareStarved, workerVars
<1>3. op.kind = "PUT" /\ reserved = None
  <2>1. op.kind \in Operations \cup {"NONE"}
    BY DEF IInv, TypeOK, ClientsTyped, Requests
  <2>2. op.kind \in {"PUT", "GET", "EXISTS", "COMMIT_BARRIER", "REMOVE", "MOVE_TO_HOST",
                    "MOVE_TO_DEVICE", "NONE"}
    BY <2>1, OperationsAssumption
  <2>3. Idle.phase = "none"
    BY DEF Idle
  <2>4. op.kind = "PUT"
    BY <1>2, <2>2, <2>3 DEF IInv, Phases
  <2>5. reserved = None
    BY <1>2 DEF IInv, Reservation
  <2> QED
    BY <2>4, <2>5
<1>4. dir[s].loc # "pending"
  BY <1>2 DEF PrepareSlots, Holding, At
<1>5. /\ \A t \in Slots : TierStep(t)
      /\ dir'[s] = Free
      /\ \A t \in Slots \ {s} : t \notin F => dir'[t] = dir[t]
  BY <1>1, ReleaseSteps
<1>6. \A t \in Slots : (dir'[t]).loc # "free" =>
         dir[t].loc # "free" /\ (dir'[t]).key = dir[t].key /\ ValueOf(t)' = ValueOf(t)
  BY <1>2, <1>5, TierSteps
<1>7. dir \in [Slots -> Entries]
  BY DEF IInv, TypeOK, CacheTyped
<1>8. \A t \in F : t # s /\ dir[t].loc = "device" /\ (dir'[t]).loc = "host"
  <2> SUFFICES ASSUME NEW t \in F
               PROVE  t # s /\ dir[t].loc = "device" /\ (dir'[t]).loc = "host"
    OBVIOUS
  <2>1. t \in Slots /\ [dir EXCEPT ![s] = Free][t].loc = "device"
    BY <1>1 DEF At
  <2>2. t # s
    BY <1>7, <2>1 DEF Free
  <2>3. dir'[t] = [dir[t] EXCEPT !.loc = "host"]
    BY <1>1, <1>7, <2>1, <2>2 DEF Evicted
  <2> QED
    BY <1>7, <2>1, <2>2, <2>3 DEF Entries
<1>9. Releases(s)
  <2>1. \A t \in Slots \ {s} : (dir'[t]).loc = "free" <=> dir[t].loc = "free"
    BY <1>5, <1>8
  <2> QED
    BY <1>5, <1>6, <2>1 DEF Releases
<1>10. PendingStays
  BY <1>4, <1>5, <1>8 DEF PendingStays, Free
<1> QED
  BY <1>2, <1>3, <1>4, <1>9, <1>10

(* A REMOVE frees the slot of its key, and nothing else.                   *)
LEMMA RemoveReleases ==
  ASSUME IInv, NEW s \in Slots, Remove(s)
  PROVE  /\ Releases(s) /\ op.kind = "REMOVE" /\ dir[s].loc # "free" /\ dir[s].key = op.key
         /\ \A t \in Slots \ {s} : dir'[t] = dir[t]
<1>1. /\ UNCHANGED <<host_values, pool>> /\ dir' = [dir EXCEPT ![s] = Free] /\ dev' = Dropped({s})
      /\ op.kind = "REMOVE" /\ dir[s].loc # "free" /\ dir[s].key = op.key
  BY DEF Remove, Serves, Holding, workerVars
<1>2. dir \in [Slots -> Entries] /\ dev \in [Slots -> Bytes]
  BY DEF IInv, TypeOK, CacheTyped
<1>3. dir'[s] = Free /\ \A t \in Slots \ {s} : dir'[t] = dir[t] /\ dev'[t] = dev[t]
  BY <1>1, <1>2 DEF Dropped
<1>4. \A t \in Slots \ {s} : ValueOf(t)' = ValueOf(t)
  BY <1>1, <1>3 DEF ValueOf, BackingBytes
<1> QED
  BY <1>1, <1>3, <1>4 DEF Releases

(* A publication makes the reserved slot the entry of its key, with the    *)
(* bytes of the PUT.                                                       *)
LEMMA PublishLands ==
  ASSUME IInv, NEW token \in Tokens, Publish(token)
  PROVE  /\ UNCHANGED <<dev, host_values, pool, fenced, promote, reply>>
         /\ op' = [op EXCEPT !.phase = "issue"] /\ op.kind = "PUT" /\ op.phase = "publish"
         /\ op.key \in Keys /\ Holding(dir, op.key) = {} /\ op.val \in 1 .. MaxPuts
         /\ promote = None
         /\ \E s \in Slots :
               /\ dir[s].loc = "free" /\ dev[s] = Written(op.val)
               /\ dir'[s] = [loc |-> "pending", key |-> op.key, tag |-> token]
               /\ \A t \in Slots \ {s} : dir'[t] = dir[t]
<1>1. /\ ServesRequest /\ op.phase = "publish"
      /\ dir' = [dir EXCEPT ![reserved] = [loc |-> "pending", key |-> op.key, tag |-> token]]
      /\ op' = [op EXCEPT !.phase = "issue"]
      /\ UNCHANGED <<dev, host_values, pool, fenced, promote, reply>>
  BY DEF Publish, workerVars
<1>2. /\ promote = None /\ reserved \in Slots /\ dir[reserved].loc = "free"
      /\ dev[reserved] = Written(op.val) /\ op.val \in 1 .. MaxPuts
      /\ op.kind = "PUT" /\ op.key \in Keys /\ Holding(dir, op.key) = {}
  BY <1>1, QuietPublish
<1>3. dir \in [Slots -> Entries]
  BY DEF IInv, TypeOK, CacheTyped
<1>4. /\ dir'[reserved] = [loc |-> "pending", key |-> op.key, tag |-> token]
      /\ \A t \in Slots \ {reserved} : dir'[t] = dir[t]
  BY <1>1, <1>2, <1>3
<1> QED
  BY <1>1, <1>2, <1>4

(* The requests a step of BRISC moves on: only those it serves.            *)
LEMMA MovingRequests ==
  ASSUME IInv, Moving
  PROVE  /\ fenced' = fenced
         /\ \/ op' = op
            \/ /\ op.phase \in {"lookup", "serving"}
               /\ op' = Idle \/ op' = [op EXCEPT !.phase = "serving"]
         /\ \/ promote' \in {promote, None}
            \/ op.kind = "MOVE_TO_DEVICE" /\ \E E : MakesRoom(dir, E)
<1>1. CASE \/ PrepareRetry \/ StreamAck \/ StreamPrefix \/ StreamTail \/ SkipStale \/ CommitHead
           \/ FifoAck \/ ServeCommit \/ ServeRead \/ PassEnd
  BY <1>1 DEF PrepareRetry, StreamAck, StreamPrefix, StreamTail, SkipStale, CommitHead,
     FifoAck, ServeCommit, ServeRead, PassEnd, clientVars, cacheVars
<1>2. CASE TailDrain \/ FifoDrain \/ PromoteCommit
  BY <1>2 DEF TailDrain, FifoDrain, PromoteCommit, clientVars
<1>3. CASE ServeDone \/ RemoveDrain
  <2>1. brisc \in {"serve_read", "remove_drain"} /\ op' = Idle /\ UNCHANGED <<fenced, promote>>
    BY <1>3 DEF ServeDone, RemoveDrain, Answer, cacheVars
  <2>2. op.phase = "serving"
    BY <2>1 DEF IInv, Phases
  <2> QED
    BY <2>1, <2>2
<1>4. CASE AnswerExists \/ LookupWithoutEffect
  BY <1>4 DEF AnswerExists, LookupWithoutEffect, Answer, Serves, cacheVars
<1>5. ASSUME NEW s \in Slots,
             \/ GetResident(s)
             \/ \E E \in SUBSET Slots, admit \in BOOLEAN :
                   GetInPlace(s, E, admit) \/ GetThroughWindow(s, E, admit)
             \/ MoveToHost(s) \/ MoveToDeviceStarved(s)
             \/ \E E \in SUBSET Slots : MoveToDevice(s, E)
      PROVE  /\ fenced' = fenced /\ op.phase = "lookup"
             /\ op' = Idle \/ op' = [op EXCEPT !.phase = "serving"]
             /\ promote' = promote \/ (op.kind = "MOVE_TO_DEVICE" /\ \E E : MakesRoom(dir, E))
  BY <1>5 DEF GetResident, GetInPlace, GetThroughWindow, MoveToHost, MoveToDeviceStarved,
     MoveToDevice, Answer, Serves, cacheVars
<1> QED
  BY <1>1, <1>2, <1>3, <1>4, <1>5 DEF Moving

(* What a step of BRISC is.                                                *)
LEMMA BriscSteps ==
  ASSUME BriscNext
  PROVE  \/ Moving
         \/ \E s \in Slots : \/ PrepareStarved(s) \/ Remove(s)
                             \/ \E E \in SUBSET Slots : PrepareGrant(s, E)
         \/ \E token \in Tokens : Publish(token)
BY DEF BriscNext, Moving

(* A pending entry is pinned until its backing exists: with PUTs, streams, *)
(* evictions, promotions and the FIFO interleaved, only the commit of its  *)
(* own host copy, or a REMOVE of its key, takes it out of the pending      *)
(* state that publish_pending_put gave it.                                 *)
THEOREM PendingStaysPinned == Spec => PendingIsPinned
<1> DEFINE Pinned ==
      \A s \in At(dir, "pending") :
         dir'[s] # dir[s] => \/ dir'[s].loc = "device" /\ dir'[s].key = dir[s].key
                                /\ BackingBytes(s) = dev[s] /\ host_values[s].kind # "none"
                             \/ dir'[s] = Free /\ op.kind = "REMOVE"
<1>1. ASSUME IInv, PendingStays PROVE Pinned
  BY <1>1 DEF PendingStays, Backed, At
<1>2. ASSUME IInv, NEW s \in Slots, Remove(s) PROVE Pinned
  <2>1. dir'[s] = Free /\ op.kind = "REMOVE" /\ \A t \in Slots \ {s} : dir'[t] = dir[t]
    BY <1>2, RemoveReleases DEF Releases
  <2> QED
    BY <2>1 DEF At
<1>3. ASSUME IInv, NEW token \in Tokens, Publish(token) PROVE Pinned
  <2>1. PICK s \in Slots : dir[s].loc = "free" /\ \A t \in Slots \ {s} : dir'[t] = dir[t]
    BY <1>3, PublishLands
  <2> QED
    BY <2>1 DEF At
<1>4. ASSUME IInv, BriscNext PROVE Pinned
  <2>1. ASSUME NEW s \in Slots, PrepareStarved(s) \/ \E E \in SUBSET Slots : PrepareGrant(s, E)
        PROVE  Pinned
    <3>1. PendingStays
      BY <1>4, <2>1, PrepareReleases
    <3> QED
      BY <1>1, <1>4, <3>1
  <2>2. CASE Moving
    BY <1>1, <1>4, <2>2, MovingStays
  <2> HIDE DEF Pinned
  <2> QED
    BY <1>2, <1>3, <1>4, <2>1, <2>2, BriscSteps
<1>5. IInv /\ [Next]_vars => Pinned
  <2> SUFFICES ASSUME IInv, [Next]_vars PROVE Pinned
    OBVIOUS
  <2>1. CASE UNCHANGED vars
    BY <2>1 DEF vars, cacheVars
  <2>2. CASE ClientNext \/ NcriscNext
    BY <1>1, <2>2, RequestStays
  <2>3. CASE WorkerNext
    BY <1>1, <2>3, WorkerStays
  <2> HIDE DEF Pinned
  <2> QED
    BY <1>4, <2>1, <2>2, <2>3 DEF Next
<1>6. IInv /\ [Next]_vars => [Pinned]_vars
  BY <1>5
<1> QED
  BY <1>6, TieringInvariant, PTL DEF Spec, PendingIsPinned

(* wait_for_commit_prefix is over when nothing is pending.                 *)
LEMMA BarrierWaits ==
  ASSUME IInv, BarrierDone
  PROVE  At(dir, "pending") = {}
<1>1. op.phase = "barrier" /\ frontier <= 0
  BY DEF BarrierDone
<1>2. stream.state # "tail" /\ Len(fifo) = 0
  BY <1>1, FrontierCounts
<1> QED
  BY <1>2 DEF IInv, Queue, At

(* A barrier is answered by wait_for_commit_prefix and by nothing else.    *)
LEMMA BarrierStays ==
  ASSUME IInv, op.phase = "barrier", Next
  PROVE  op' = op \/ BarrierDone
<1>1. CASE ClientNext
  <2>1. op = Idle
    BY <1>1 DEF ClientNext, Put, Get, Exists, CommitBarrier, FencedOperation, Submit
  <2> QED
    BY <2>1 DEF Idle
<1>2. CASE NcriscNext
  BY <1>2 DEF NcriscNext, LandChunk, IssuePut
<1>3. CASE WorkerNext
  BY <1>3, WorkerStays
<1>4. CASE BriscNext
  <2>1. CASE Moving
    BY <2>1, MovingRequests
  <2>2. ASSUME NEW s \in Slots, PrepareStarved(s) \/ \E E \in SUBSET Slots : PrepareGrant(s, E)
        PROVE  FALSE
    BY <2>2, PrepareReleases
  <2>3. ASSUME NEW s \in Slots, Remove(s) PROVE FALSE
    BY <2>3 DEF Remove, Serves
  <2>4. ASSUME NEW token \in Tokens, Publish(token) PROVE FALSE
    BY <2>4, PublishLands
  <2> QED
    BY <1>4, <2>1, <2>2, <2>3, <2>4, BriscSteps
<1> QED
  BY <1>1, <1>2, <1>3, <1>4 DEF Next

(* When a COMMIT_BARRIER is answered, no landed PUT of any Client is       *)
(* pending: put_issued_total - commit_done counts the FIFO and the streamed*)
(* tail exactly, stale entries and commits that overtake the issue count   *)
(* included.                                                               *)
THEOREM BarrierIsDurable == Spec => BarrierMeansDurable
<1> DEFINE Durable == op.phase = "barrier" /\ op'.phase # "barrier" => At(dir, "pending") = {}
<1>1. IInv /\ [Next]_vars => Durable
  <2> SUFFICES ASSUME IInv, [Next]_vars, op.phase = "barrier", op'.phase # "barrier"
               PROVE  At(dir, "pending") = {}
    OBVIOUS
  <2>1. CASE UNCHANGED vars
    BY <2>1 DEF vars, clientVars
  <2>2. CASE Next
    BY <2>2, BarrierStays, BarrierWaits
  <2> QED
    BY <2>1, <2>2
<1>2. IInv /\ [Next]_vars => [Durable]_vars
  BY <1>1
<1> QED
  BY <1>2, TieringInvariant, PTL DEF Spec, BarrierMeansDurable

-----------------------------------------------------------------------------
(* The worker is not made to throw.                                        *)

(* The only request that can fail it is the write-through of a pending     *)
(* entry posted over a promotion.                                          *)
LEMMA FailureIsOverrun ==
  ASSUME IInv, worker = "failed"
  PROVE  promote # None /\ At(dir, "pending") # {}
<1>1. brisc \in {"loop", "pass_end", "stream_ack", "stream_prefix", "tail_drain",
                 "fifo_ack", "fifo_drain", "remove_drain", "serve_commit", "serve_read"}
      /\ stream.state \in {"none", "prefix", "ready", "tail"}
  BY DEF IInv, TypeOK, BriscTyped, CacheTyped, Streams
<1>2. brisc \notin {"stream_ack", "stream_prefix", "tail_drain", "fifo_drain", "remove_drain"}
  BY DEF IInv, Handshake, Acknowledging, Receiving, Landed, Removing
<1>3. brisc \notin {"serve_commit", "serve_read"}
  BY DEF IInv, Handshake, Serving
<1>4. brisc \notin {"loop", "pass_end"}
  BY <1>1 DEF IInv, Handshake, Receiving, Released, Promoting
<1>5. brisc = "fifo_ack"
  BY <1>1, <1>2, <1>3, <1>4
<1>6. promote # None
  BY <1>5 DEF IInv, Handshake, Acknowledging, Released, Promoting, Overrun
<1>7. fifo # <<>> /\ Current(Head(fifo))
  BY <1>5 DEF IInv, Handshake, Queue
<1>8. Head(fifo).slot \in Slots /\ dir[Head(fifo).slot].loc = "pending"
  BY <1>7, FifoTail DEF Current
<1> QED
  BY <1>6, <1>8 DEF At

(* Steps that queue no entry, start no request and promote nothing unless  *)
(* it is asked for keep promotions away from pending entries.              *)
LEMMA FencedStays ==
  ASSUME Fenced, PendingStays, fenced' = fenced,
         op' = Idle \/ op'.kind = op.kind,
         promote' \in {promote, None} \/ op.kind = "MOVE_TO_DEVICE"
  PROVE  Fenced'
<1>1. At(dir', "pending") \subseteq At(dir, "pending")
  BY DEF PendingStays, At
<1>2. Idle.kind = "NONE"
  BY DEF Idle
<1>3. At(dir, "pending")' = At(dir', "pending")
  BY DEF At
<1> QED
  BY <1>1, <1>2, <1>3 DEF Fenced

(* With one Client, whose every move follows a barrier of its own, no      *)
(* promotion is under way while an entry is pending.                       *)
LEMMA OneClientFenced ==
  ASSUME IInv, Fenced, \A c, d \in Clients : c = d, [Next]_vars
  PROVE  Fenced'
<1>1. fenced \subseteq Clients
  BY DEF IInv, TypeOK, ClientsTyped
<1>2. CASE UNCHANGED vars
  BY <1>2 DEF vars, clientVars, cacheVars, Fenced, At
<1>3. CASE ClientNext
  <2>1. UNCHANGED <<dir, promote>>
    BY <1>3, RequestStays
  <2>2. At(dir, "pending")' = At(dir, "pending")
    BY <2>1 DEF At
  <2>3. ASSUME NEW c \in Clients, NEW k \in Keys, NEW big \in BOOLEAN, Put(c, k, big)
        PROVE  Fenced'
    <3>1. op'.kind = "PUT" /\ fenced' = fenced \ {c}
      BY <2>3 DEF Put, Idle
    <3>2. fenced' = {}
      BY <1>1, <3>1
    <3> QED
      BY <2>1, <2>2, <3>1, <3>2 DEF Fenced
  <2>4. ASSUME NEW kind, NEW c, NEW k, NEW phase, Submit(kind, c, k, phase),
               kind \in {"GET", "EXISTS", "COMMIT_BARRIER"}, fenced' \subseteq fenced
        PROVE  Fenced'
    <3>1. op'.kind = kind
      BY <2>4 DEF Submit, Idle
    <3> QED
      BY <2>1, <2>2, <2>4, <3>1 DEF Fenced
  <2>5. ASSUME NEW kind \in {"REMOVE", "MOVE_TO_HOST", "MOVE_TO_DEVICE"}, NEW c \in Clients,
               NEW k \in Keys, FencedOperation(kind, c, k)
        PROVE  Fenced'
    <3>1. op'.kind = kind /\ c \in fenced
      BY <2>5 DEF FencedOperation, Submit, Idle
    <3>2. At(dir, "pending") = {}
      BY <3>1 DEF Fenced
    <3> QED
      BY <2>2, <3>1, <3>2 DEF Fenced
  <2>6. ASSUME NEW c \in Clients, NEW k \in Keys, Get(c, k) \/ Exists(c, k) PROVE Fenced'
    BY <2>4, <2>6 DEF Get, Exists
  <2>7. ASSUME NEW c \in Clients, CommitBarrier(c) PROVE Fenced'
    BY <2>4, <2>7 DEF CommitBarrier
  <2> QED
    BY <1>3, <2>3, <2>5, <2>6, <2>7 DEF ClientNext
<1>4. CASE NcriscNext
  <2>1. PendingStays /\ UNCHANGED <<dir, promote>>
    BY <1>4, RequestStays
  <2>2. CASE BarrierDone
    <3>1. At(dir, "pending") = {}
      BY <2>2, BarrierWaits
    <3>2. op.kind # "PUT" /\ (op'.kind = op.kind \/ op' = Idle)
      BY <2>2 DEF BarrierDone, IInv, Phases, TypeOK, ClientsTyped, Requests
    <3>3. op'.kind # "PUT"
      BY <3>2 DEF Idle
    <3>4. At(dir, "pending")' = At(dir, "pending")
      BY <2>1 DEF At
    <3> QED
      BY <3>1, <3>3, <3>4 DEF Fenced
  <2>3. CASE LandChunk
    <3>1. fenced' = fenced /\ op'.kind = op.kind
      BY <2>3 DEF LandChunk, IInv, TypeOK, ClientsTyped, Requests
    <3> QED
      BY <2>1, <3>1, FencedStays
  <2>4. CASE IssuePut
    <3>1. fenced' = fenced /\ op' = Idle
      BY <2>4 DEF IssuePut
    <3> QED
      BY <2>1, <3>1, FencedStays
  <2> QED
    BY <1>4, <2>2, <2>3, <2>4 DEF NcriscNext
<1>5. CASE WorkerNext
  <2>1. PendingStays /\ UNCHANGED <<op, fenced, promote>>
    BY <1>5, WorkerStays
  <2> QED
    BY <2>1, FencedStays
<1>6. CASE BriscNext
  <2>0. op \in Requests
    BY DEF IInv, TypeOK, ClientsTyped
  <2>1. CASE Moving
    <3>1. PendingStays
      BY <2>1, MovingStays
    <3>2. op' = Idle \/ op'.kind = op.kind
      BY <2>0, <2>1, MovingRequests DEF Requests
    <3> QED
      BY <2>1, <3>1, <3>2, MovingRequests, FencedStays
  <2>2. ASSUME NEW s \in Slots, PrepareStarved(s) \/ \E E \in SUBSET Slots : PrepareGrant(s, E)
        PROVE  Fenced'
    <3>1. PendingStays
      BY <2>2, PrepareReleases
    <3>2. UNCHANGED <<fenced, promote>> /\ op'.kind = op.kind
      BY <2>0, <2>2 DEF PrepareStarved, PrepareGrant, clientVars, Requests
    <3> QED
      BY <3>1, <3>2, FencedStays
  <2>3. ASSUME NEW s \in Slots, Remove(s) PROVE Fenced'
    <3>1. PendingStays \/ At(dir, "pending") = {}
      BY <2>3, RemoveReleases DEF Fenced
    <3>2. UNCHANGED <<fenced, promote>> /\ op'.kind = op.kind /\ op.kind = "REMOVE"
      BY <2>0, <2>3 DEF Remove, Serves, Requests
    <3>3. At(dir, "pending") = {}
      BY <3>2 DEF Fenced
    <3>4. dir'[s] = Free /\ \A t \in Slots \ {s} : dir'[t] = dir[t]
      BY <2>3, RemoveReleases DEF Releases
    <3>5. At(dir, "pending")' = {}
      BY <3>3, <3>4 DEF At, Free
    <3> QED
      BY <3>2, <3>5 DEF Fenced
  <2>4. ASSUME NEW token \in Tokens, Publish(token) PROVE Fenced'
    <3>1. promote' = None /\ fenced' = fenced /\ op.kind = "PUT" /\ op'.kind = "PUT"
      BY <2>0, <2>4, PublishLands DEF Requests
    <3> QED
      BY <3>1 DEF Fenced
  <2> QED
    BY <1>6, <2>1, <2>2, <2>3, <2>4, BriscSteps
<1> QED
  BY <1>2, <1>3, <1>4, <1>5, <1>6 DEF Next

(* Without moves to the device there is no promotion.                      *)
LEMMA NoMoveNoPromotion ==
  ASSUME IInv, "MOVE_TO_DEVICE" \notin Operations, promote = None, [Next]_vars
  PROVE  promote' = None
<1>1. op.kind # "MOVE_TO_DEVICE"
  BY DEF IInv, TypeOK, ClientsTyped, Requests
<1>2. CASE UNCHANGED vars
  BY <1>2 DEF vars, cacheVars
<1>3. CASE ClientNext \/ NcriscNext
  BY <1>3, RequestStays
<1>4. CASE WorkerNext
  BY <1>4, WorkerStays
<1>5. CASE BriscNext
  <2>1. CASE Moving
    BY <1>1, <2>1, MovingRequests
  <2>2. ASSUME NEW s \in Slots,
               PrepareStarved(s) \/ Remove(s) \/ \E E \in SUBSET Slots : PrepareGrant(s, E)
        PROVE  promote' = None
    BY <2>2 DEF PrepareStarved, PrepareGrant, Remove
  <2>3. ASSUME NEW token \in Tokens, Publish(token) PROVE promote' = None
    BY <2>3, PublishLands
  <2> QED
    BY <1>5, <2>1, <2>2, <2>3, BriscSteps
<1> QED
  BY <1>2, <1>3, <1>4, <1>5 DEF Next

\* No promotion is under way while an entry is pending.
PromotesAlone == promote # None => At(dir, "pending") = {}

(* With one cache block a pending entry leaves no room for a promotion.    *)
LEMMA OneBlockAlone ==
  ASSUME IInv, DeviceBlocks = 1, PromotesAlone, [Next]_vars
  PROVE  PromotesAlone'
<1>1. ASSUME PendingStays, promote' \in {promote, None} PROVE PromotesAlone'
  <2>1. At(dir, "pending")' \subseteq At(dir, "pending")
    BY <1>1 DEF PendingStays, At
  <2> QED
    BY <1>1, <2>1 DEF PromotesAlone
<1>2. CASE UNCHANGED vars
  BY <1>2 DEF vars, cacheVars, PromotesAlone, At
<1>3. CASE ClientNext \/ NcriscNext \/ WorkerNext
  BY <1>1, <1>3, RequestStays, WorkerStays
<1>4. CASE BriscNext
  <2>1. CASE Moving
    <3>1. ASSUME NEW E, MakesRoom(dir, E) PROVE At(dir, "pending") = {}
      <4>1. /\ Residents(dir) \ E \in SUBSET Slots
            /\ Cardinality(Residents(dir) \ E) < 1 /\ E \subseteq At(dir, "device")
        BY <3>1 DEF MakesRoom, Residents, At
      <4>2. IsFiniteSet(Residents(dir) \ E) /\ Cardinality(Residents(dir) \ E) \in Nat
        BY <4>1, SlotsAssumption, FS_Subset, FS_CardinalityType
      <4>3. Cardinality(Residents(dir) \ E) = 0
        BY <4>1, <4>2
      <4>4. Residents(dir) \ E = {}
        BY <4>2, <4>3, FS_EmptySet
      <4> QED
        BY <4>1, <4>4 DEF Residents, At
    <3>2. PendingStays
      BY <2>1, MovingStays
    <3>3. promote' \in {promote, None} \/ At(dir, "pending") = {}
      BY <2>1, <3>1, MovingRequests
    <3>4. ASSUME At(dir, "pending") = {} PROVE At(dir, "pending")' = {}
      BY <3>2, <3>4 DEF PendingStays, At
    <3> QED
      BY <1>1, <3>2, <3>3, <3>4 DEF PromotesAlone
  <2>2. ASSUME NEW s \in Slots, PrepareStarved(s) \/ \E E \in SUBSET Slots : PrepareGrant(s, E)
        PROVE  PromotesAlone'
    <3>1. PendingStays
      BY <2>2, PrepareReleases
    <3>2. promote' = promote
      BY <2>2 DEF PrepareStarved, PrepareGrant
    <3> QED
      BY <1>1, <3>1, <3>2
  <2>3. ASSUME NEW s \in Slots, Remove(s) PROVE PromotesAlone'
    <3>1. promote' = promote /\ dir'[s] = Free /\ \A t \in Slots \ {s} : dir'[t] = dir[t]
      BY <2>3, RemoveReleases DEF Remove, Releases
    <3>2. At(dir, "pending")' \subseteq At(dir, "pending")
      BY <3>1 DEF At, Free
    <3> QED
      BY <3>1, <3>2 DEF PromotesAlone
  <2>4. ASSUME NEW token \in Tokens, Publish(token) PROVE PromotesAlone'
    BY <2>4, PublishLands DEF PromotesAlone
  <2> QED
    BY <1>4, <2>1, <2>2, <2>3, <2>4, BriscSteps
<1> QED
  BY <1>2, <1>3, <1>4 DEF Next

(* No request makes the tiering worker throw, neither for a backing it does*)
(* not own nor for a post over one it has not seen, as long as one Client  *)
(* uses the Server, none moves values to the device, or there is one cache *)
(* block: kvm_brisc_main does not wait for a promotion before it posts the *)
(* head of the FIFO, and without the hypothesis the property fails.        *)
THEOREM WorkerSurvives ==
  ASSUME "MOVE_TO_DEVICE" \notin Operations \/ DeviceBlocks = 1 \/ \A c, d \in Clients : c = d
  PROVE  Spec => []WorkerNeverFails
<1> DEFINE Apart == IF "MOVE_TO_DEVICE" \notin Operations THEN promote = None
                    ELSE IF DeviceBlocks = 1 THEN PromotesAlone
                    ELSE Fenced
           Safe == IInv /\ Apart
<1>1. Init => Safe
  <2> SUFFICES ASSUME Init PROVE Safe
    OBVIOUS
  <2>1. promote = None /\ fenced = {} /\ op.kind = "NONE" /\ At(dir, "pending") = {}
    BY DEF Init, Idle, At, Free
  <2>2. Fenced /\ PromotesAlone
    BY <2>1 DEF Fenced, PromotesAlone
  <2> QED
    BY <2>1, <2>2, InitHolds
<1>2. Safe /\ [Next]_vars => Safe'
  <2> SUFFICES ASSUME IInv, Apart, [Next]_vars PROVE Safe'
    OBVIOUS
  <2>1. IInv'
    BY ClientKeeps, NcriscKeeps, BriscKeeps, WorkerKeeps, StutterKeeps DEF Next
  <2>2. CASE "MOVE_TO_DEVICE" \notin Operations
    BY <2>1, <2>2, NoMoveNoPromotion
  <2>3. CASE "MOVE_TO_DEVICE" \in Operations /\ DeviceBlocks = 1
    BY <2>1, <2>3, OneBlockAlone
  <2>4. CASE "MOVE_TO_DEVICE" \in Operations /\ DeviceBlocks # 1
    BY <2>1, <2>4, OneClientFenced
  <2> QED
    BY <2>2, <2>3, <2>4
<1>3. Safe => WorkerNeverFails
  BY FailureIsOverrun DEF WorkerNeverFails, Fenced, PromotesAlone
<1> HIDE DEF Safe
<1> QED
  BY <1>1, <1>2, <1>3, PTL DEF Spec

-----------------------------------------------------------------------------
(* The tiers together are the store of KVStore.                            *)

\* What a key holds, wherever it is, and the request a Client waits for.
KV == [k \in Keys |->
         IF Holding(dir, k) = {} THEN Unwritten
         ELSE LET s == CHOOSE s \in Holding(dir, k) : TRUE
              IN IF dir[s].loc = "host" THEN BackingBytes(s) ELSE dev[s]]
Asked == [kind |-> op.kind, key |-> op.key, val |-> op.val]
Nothing == [kind |-> "NONE", key |-> None, val |-> 0]
Held == { k \in Keys : KV[k] # Unwritten }

(* KV, Asked and reply are the variables of the store.                     *)
LEMMA StoreStates ==
  /\ Store!Init <=> KV = [k \in Keys |-> Unwritten] /\ Asked = Nothing /\ reply = Unwritten
  /\ Store!Stored = Held
BY DEF Store!Init, Store!Stored, KV, Asked, Nothing, Held

(* Its cardinalities are the ones of finite sets.                          *)
LEMMA StoreCardinality == \A S : Store!Cardinality(S) = Cardinality(S)
BY DEF Store!Cardinality, Cardinality

\* Its actions in these terms.
StoreAsks == Asked = Nothing /\ Asked' # Nothing /\ reply' = Unwritten /\ KV' = KV
StoreForgets(k) ==
    /\ Asked # Nothing /\ Asked.kind = "PUT"
    /\ k = Asked.key \/ (Asked.key \notin Held /\ Cardinality(Held) = Cardinality(Slots))
    /\ KV' = [KV EXCEPT ![k] = Unwritten] /\ Asked' = Asked /\ reply' = reply
StoreLands ==
    /\ Asked # Nothing /\ Asked.kind = "PUT" /\ KV[Asked.key] = Unwritten
    /\ KV' = [KV EXCEPT ![Asked.key] = Written(Asked.val)] /\ Asked' = Asked /\ reply' = reply
StoreErases ==
    /\ Asked # Nothing /\ Asked.kind = "REMOVE"
    /\ KV' = [KV EXCEPT ![Asked.key] = Unwritten] /\ Asked' = Asked /\ reply' = reply
StoreAnswers ==
    /\ Asked # Nothing /\ Asked' = Nothing /\ KV' = KV
    /\ \/ Asked.kind = "PUT" /\ KV[Asked.key] = Written(Asked.val) /\ reply' = reply
       \/ Asked.kind = "GET" /\ reply' = KV[Asked.key]
       \/ /\ Asked.kind = "EXISTS"
          /\ reply' = IF Asked.key \in Held THEN Present ELSE Unwritten
       \/ Asked.kind = "REMOVE" /\ KV[Asked.key] = Unwritten /\ reply' = reply
       \/ /\ Asked.kind \in {"COMMIT_BARRIER", "MOVE_TO_HOST", "MOVE_TO_DEVICE"}
          /\ reply' = reply
StoreStutters == KV' = KV /\ Asked' = Asked /\ reply' = reply
StoreMoves ==
    \/ StoreAsks \/ StoreLands \/ StoreErases \/ StoreAnswers \/ StoreStutters
    \/ \E k \in Keys : StoreForgets(k)

(* Each is a step of the store, or leaves it alone.                        *)
LEMMA StoreSteps ==
  ASSUME StoreMoves
  PROVE  Store!Next \/ (KV' = KV /\ Asked' = Asked /\ reply' = reply)
<1>1. StoreAsks => Store!Ask
  BY DEF StoreAsks, Store!Ask, KV, Asked, Nothing
<1>2. \A k \in Keys : StoreForgets(k) => Store!Forget(k)
  BY StoreStates, StoreCardinality DEF Store!Forget, StoreForgets, KV, Asked, Nothing
<1>3. StoreLands => Store!Land
  BY DEF StoreLands, Store!Land, KV, Asked, Nothing
<1>4. StoreErases => Store!Erase
  BY DEF StoreErases, Store!Erase, KV, Asked, Nothing
<1>5. StoreAnswers => \/ Store!AnswerPut \/ Store!AnswerGet \/ Store!AnswerExists
                      \/ Store!AnswerRemove \/ Store!AnswerOther
  BY StoreStates DEF StoreAnswers, Store!AnswerPut, Store!AnswerGet, Store!AnswerExists,
     Store!AnswerRemove, Store!AnswerOther, KV, Asked, Nothing
<1> QED
  BY <1>1, <1>2, <1>3, <1>4, <1>5 DEF StoreMoves, StoreStutters, Store!Next

(* A key holds the value of the one entry it has.                          *)
LEMMA KeyHolds ==
  ASSUME IInv, NEW k \in Keys
  PROVE  /\ Holding(dir, k) = {} => KV[k] = Unwritten
         /\ \A s \in Slots : dir[s].loc # "free" /\ dir[s].key = k => KV[k] = ValueOf(s)
         /\ KV[k] # Unwritten <=> Holding(dir, k) # {}
<1>1. Holding(dir, k) = {} => KV[k] = Unwritten
  BY DEF KV
<1>2. ASSUME NEW s \in Slots, dir[s].loc # "free", dir[s].key = k
      PROVE  KV[k] = ValueOf(s) /\ ValueOf(s) # Unwritten
  <2>1. Holding(dir, k) = {s}
    BY <1>2 DEF IInv, Directory, Holding
  <2>2. (CHOOSE t \in {s} : TRUE) = s
    OBVIOUS
  <2>3. KV[k] = ValueOf(s)
    BY <2>1, <2>2 DEF KV, ValueOf
  <2>4. PICK v \in 1 .. MaxPuts : ValueOf(s) = Written(v)
    BY <1>2 DEF IInv, Contents, Whole
  <2>5. v \in Values /\ v # 0
    BY Sizes DEF Values
  <2>6. Written(v)[1] = v /\ Unwritten[1] = 0
    BY <2>5, BytesOf, Sizes
  <2> QED
    BY <2>3, <2>4, <2>5, <2>6
<1>3. KV[k] # Unwritten <=> Holding(dir, k) # {}
  BY <1>1, <1>2 DEF Holding
<1> QED
  BY <1>1, <1>2, <1>3

(* The same after a step.                                                  *)
LEMMA KeyHoldsNext ==
  ASSUME IInv', NEW k \in Keys
  PROVE  /\ Holding(dir', k) = {} => KV'[k] = Unwritten
         /\ \A s \in Slots : (dir'[s]).loc # "free" /\ (dir'[s]).key = k =>
               KV'[k] = ValueOf(s)'
<1>1. Holding(dir', k) = {} => KV'[k] = Unwritten
  BY DEF KV
<1>2. ASSUME NEW s \in Slots, (dir'[s]).loc # "free", (dir'[s]).key = k
      PROVE  KV'[k] = ValueOf(s)'
  <2>1. Holding(dir', k) = {s}
    BY <1>2 DEF IInv, Directory, Holding
  <2>2. (CHOOSE t \in {s} : TRUE) = s
    OBVIOUS
  <2> QED
    BY <2>1, <2>2 DEF KV, ValueOf
<1> QED
  BY <1>1, <1>2

(* KV is the function of what the keys hold.                               *)
LEMMA KeysOnly ==
  /\ KV = [k \in Keys |-> KV[k]]
  /\ KV' = [k \in Keys |-> KV'[k]]
BY DEF KV

(* Where every entry keeps its key and value, so does every key.           *)
LEMMA StoreKeeps ==
  ASSUME IInv, IInv', EntriesStay
  PROVE  KV' = KV
<1>1. ASSUME NEW k \in Keys PROVE KV'[k] = KV[k]
  <2>1. CASE Holding(dir, k) = {}
    <3>1. Holding(dir', k) = {}
      BY <2>1 DEF EntriesStay, Holding
    <3> QED
      BY <2>1, <3>1, KeyHolds, KeyHoldsNext
  <2>2. CASE Holding(dir, k) # {}
    <3>1. PICK s \in Slots : dir[s].loc # "free" /\ dir[s].key = k
      BY <2>2 DEF Holding
    <3>2. (dir'[s]).loc # "free" /\ (dir'[s]).key = k /\ ValueOf(s)' = ValueOf(s)
      BY <3>1 DEF EntriesStay
    <3>3. KV[k] = ValueOf(s) /\ KV'[k] = ValueOf(s)'
      BY <3>1, <3>2, KeyHolds, KeyHoldsNext
    <3> QED
      BY <3>2, <3>3
  <2> QED
    BY <2>1, <2>2
<1> QED
  BY <1>1, KeysOnly

(* A slot that is freed takes its key with it.                             *)
LEMMA StoreReleases ==
  ASSUME IInv, IInv', NEW t \in Slots, Releases(t), dir[t].loc # "free"
  PROVE  dir[t].key \in Keys /\ KV' = [KV EXCEPT ![dir[t].key] = Unwritten]
<1>0. PICK old \in Keys : old = dir[t].key
  BY DEF IInv, Directory
<1>1. KV'[old] = Unwritten
  <2>1. Holding(dir', old) = {}
    BY <1>0 DEF Releases, Holding, IInv, Directory, Free
  <2> QED
    BY <2>1, KeyHoldsNext
<1>2. ASSUME NEW k \in Keys, k # old PROVE KV'[k] = KV[k]
  <2>1. CASE Holding(dir, k) = {}
    <3>1. Holding(dir', k) = {}
      BY <2>1 DEF Releases, Holding, Free
    <3> QED
      BY <2>1, <3>1, KeyHolds, KeyHoldsNext
  <2>2. CASE Holding(dir, k) # {}
    <3>1. PICK s \in Slots : dir[s].loc # "free" /\ dir[s].key = k
      BY <2>2 DEF Holding
    <3>2. (dir'[s]).loc # "free" /\ (dir'[s]).key = k /\ ValueOf(s)' = ValueOf(s)
      BY <1>0, <1>2, <3>1 DEF Releases
    <3>3. KV[k] = ValueOf(s) /\ KV'[k] = ValueOf(s)'
      BY <3>1, <3>2, KeyHolds, KeyHoldsNext
    <3> QED
      BY <3>2, <3>3
  <2> QED
    BY <2>1, <2>2
<1> QED
  BY <1>0, <1>1, <1>2, KeysOnly

(* Without a free slot the store holds as many keys as there are slots.    *)
LEMMA FullStore ==
  ASSUME IInv, At(dir, "free") = {}
  PROVE  Cardinality(Held) = Cardinality(Slots)
<1> DEFINE keyOf == [s \in Slots |-> dir[s].key]
<1>1. \A s \in Slots : dir[s].loc # "free" /\ dir[s].key \in Keys
  BY DEF At, IInv, Directory
<1>2. \A k : k \in Held <=> k \in Keys /\ Holding(dir, k) # {}
  BY KeyHolds DEF Held
<1>3. keyOf \in [Slots -> Held]
  BY <1>1, <1>2 DEF Holding
<1>4. \A k \in Held : \E s \in Slots : keyOf[s] = k
  BY <1>2 DEF Holding
<1>5. \A s, t \in Slots : keyOf[s] = keyOf[t] => s = t
  BY <1>1 DEF IInv, Directory
<1> HIDE DEF keyOf
<1>6. keyOf \in Bijection(Slots, Held)
  BY <1>3, <1>4, <1>5, Fun_IsBij
<1>7. ExistsBijection(Slots, Held)
  BY <1>6 DEF ExistsBijection
<1> QED
  BY <1>7, SlotsAssumption, FS_Bijection

(* The request that is asked is the one BRISC and NCRISC serve.            *)
LEMMA AskedIs ==
  ASSUME IInv
  PROVE  /\ op.kind = "NONE" <=> Asked = Nothing
         /\ Asked.kind = op.kind /\ Asked.key = op.key /\ Asked.val = op.val
         /\ op' = Idle => Asked' = Nothing
         /\ op' = op \/ (\E p : op' = [op EXCEPT !.phase = p])
               \/ (\E p, n : op' = [op EXCEPT !.landed = n, !.phase = p])
            => Asked' = Asked
<1>1. op.kind = "NONE" <=> Asked = Nothing
  BY DEF IInv, Phases, Idle, Asked, Nothing
<1>2. Asked.kind = op.kind /\ Asked.key = op.key /\ Asked.val = op.val
  BY DEF Asked
<1>3. op' = Idle => Asked' = Nothing
  BY DEF Idle, Asked, Nothing
<1>4. op \in Requests
  BY DEF IInv, TypeOK, ClientsTyped
<1>5. /\ \A p : op' = [op EXCEPT !.phase = p] => Asked' = Asked
      /\ \A p, n : op' = [op EXCEPT !.landed = n, !.phase = p] => Asked' = Asked
  BY <1>4 DEF Requests, Asked
<1> QED
  BY <1>1, <1>2, <1>3, <1>5 DEF Asked

(* A Client asks.                                                          *)
LEMMA ClientStores ==
  ASSUME IInv, IInv', ClientNext
  PROVE  StoreMoves
<1>1. op = Idle /\ reply' = Unwritten /\ op'.kind # "NONE"
  <2>1. ASSUME NEW kind, NEW c, NEW k, NEW phase, Submit(kind, c, k, phase)
        PROVE  op = Idle /\ reply' = Unwritten /\ op'.kind = kind
    BY <2>1 DEF Submit, Idle
  <2>2. ASSUME NEW c, NEW k, NEW big, Put(c, k, big)
        PROVE  op = Idle /\ reply' = Unwritten /\ op'.kind = "PUT"
    BY <2>2 DEF Put, Idle
  <2> QED
    BY <2>1, <2>2 DEF ClientNext, Get, Exists, CommitBarrier, FencedOperation
<1>2. Asked = Nothing
  BY <1>1, AskedIs DEF Idle
<1>3. Asked' # Nothing
  BY <1>1 DEF Asked, Nothing
<1>4. KV' = KV
  BY RequestStays, StoreKeeps
<1> QED
  BY <1>1, <1>2, <1>3, <1>4 DEF StoreMoves, StoreAsks

(* NCRISC answers a PUT that is stored, and a barrier.                     *)
LEMMA NcriscStores ==
  ASSUME IInv, IInv', NcriscNext
  PROVE  StoreMoves
<1>1. KV' = KV
  BY RequestStays, StoreKeeps
<1>2. reply' = reply
  BY DEF NcriscNext, BarrierDone, LandChunk, IssuePut
<1>3. op \in Requests
  BY DEF IInv, TypeOK, ClientsTyped
<1>4. CASE LandChunk
  <2>1. \E p, n : op' = [op EXCEPT !.landed = n, !.phase = p]
    BY <1>4 DEF LandChunk
  <2> QED
    BY <1>1, <1>2, <2>1, AskedIs DEF StoreMoves, StoreStutters
<1>5. CASE IssuePut
  <2>1. op.phase = "issue" /\ op' = Idle
    BY <1>5 DEF IssuePut
  <2>2. op.kind = "PUT" /\ op.key \in Keys
    <3>1. op.kind \in {"PUT", "GET", "EXISTS", "COMMIT_BARRIER", "REMOVE", "MOVE_TO_HOST",
                       "MOVE_TO_DEVICE", "NONE"}
      BY <1>3, OperationsAssumption DEF Requests
    <3>2. Idle.phase = "none"
      BY DEF Idle
    <3> QED
      BY <2>1, <3>1, <3>2 DEF IInv, Phases
  <2>3. PICK s \in Holding(dir, op.key) : ValueOf(s) = Written(op.val)
    BY <2>1 DEF IInv, Contents
  <2>4. KV[op.key] = Written(op.val)
    BY <2>2, <2>3, KeyHolds DEF Holding
  <2>5. StoreAnswers
    BY <1>1, <1>2, <2>1, <2>2, <2>4, AskedIs DEF StoreAnswers
  <2> QED
    BY <2>5 DEF StoreMoves
<1>6. CASE BarrierDone
  <2>1. CASE op.kind = "EXISTS"
    <3>1. \E p : op' = [op EXCEPT !.phase = p]
      BY <1>6, <2>1 DEF BarrierDone
    <3> QED
      BY <1>1, <1>2, <3>1, AskedIs DEF StoreMoves, StoreStutters
  <2>2. CASE op.kind # "EXISTS"
    <3>1. op.phase = "barrier" /\ op' = Idle
      BY <1>6, <2>2 DEF BarrierDone
    <3>2. op.kind = "COMMIT_BARRIER"
      <4>1. op.kind \in {"PUT", "GET", "EXISTS", "COMMIT_BARRIER", "REMOVE", "MOVE_TO_HOST",
                         "MOVE_TO_DEVICE", "NONE"}
        BY <1>3, OperationsAssumption DEF Requests
      <4>2. Idle.phase = "none"
        BY DEF Idle
      <4> QED
        BY <2>2, <3>1, <4>1, <4>2 DEF IInv, Phases
    <3>3. StoreAnswers
      BY <1>1, <1>2, <3>1, <3>2, AskedIs DEF StoreAnswers
    <3> QED
      BY <3>3 DEF StoreMoves
  <2> QED
    BY <2>1, <2>2
<1> QED
  BY <1>4, <1>5, <1>6 DEF NcriscNext

(* The worker is not seen.                                                 *)
LEMMA WorkerStores ==
  ASSUME IInv, IInv', WorkerNext
  PROVE  StoreMoves
<1>1. EntriesStay /\ op' = op /\ reply' = reply
  BY WorkerStays
<1>2. KV' = KV
  BY <1>1, StoreKeeps
<1> QED
  BY <1>1, <1>2 DEF StoreMoves, StoreStutters, Asked

(* The lookups of BRISC answer what the key holds.                         *)
LEMMA LookupStores ==
  ASSUME IInv, IInv', AnswerExists \/ LookupWithoutEffect
  PROVE  StoreMoves
<1>1. KV' = KV
  BY MovingStays, StoreKeeps DEF Moving
<1>2. op.phase = "lookup" /\ op' = Idle
  BY DEF AnswerExists, LookupWithoutEffect, Serves, Answer
<1>3. op \in Requests
  BY DEF IInv, TypeOK, ClientsTyped
<1>4. op.kind \in {"PUT", "GET", "EXISTS", "COMMIT_BARRIER", "REMOVE", "MOVE_TO_HOST",
                   "MOVE_TO_DEVICE", "NONE"}
  BY <1>3, OperationsAssumption DEF Requests
<1>5. Idle.phase = "none"
  BY DEF Idle
<1>6. op.kind \in {"GET", "EXISTS", "REMOVE", "MOVE_TO_HOST", "MOVE_TO_DEVICE"}
      /\ op.key \in Keys /\ reply = Unwritten
  BY <1>2, <1>4, <1>5 DEF IInv, Phases
<1>7. CASE AnswerExists
  <2>1. op.kind = "EXISTS" /\ reply' = IF Holding(dir, op.key) = {} THEN Unwritten ELSE Present
    BY <1>7 DEF AnswerExists, Serves
  <2>2. op.key \in Held <=> Holding(dir, op.key) # {}
    BY <1>6, KeyHolds DEF Held
  <2>3. reply' = IF op.key \in Held THEN Present ELSE Unwritten
    BY <2>1, <2>2
  <2>4. StoreAnswers
    BY <1>1, <1>2, <2>1, <2>3, AskedIs DEF StoreAnswers
  <2> QED
    BY <2>4 DEF StoreMoves
<1>8. CASE LookupWithoutEffect
  <2>1. /\ op.kind # "EXISTS" /\ reply' = reply
        /\ op.kind \in {"GET", "REMOVE"} => Holding(dir, op.key) = {}
    BY <1>8 DEF LookupWithoutEffect
  <2>2. op.kind \in {"GET", "REMOVE"} => KV[op.key] = Unwritten
    BY <1>6, <2>1, KeyHolds
  <2>3. StoreAnswers
    BY <1>1, <1>2, <1>6, <2>1, <2>2, AskedIs DEF StoreAnswers
  <2> QED
    BY <2>3 DEF StoreMoves
<1> QED
  BY <1>7, <1>8

(* A GET that finds its key answers the value of the key's entry.          *)
LEMMA GetStores ==
  ASSUME IInv, IInv', NEW s \in Slots, EntriesStay,
         op.kind = "GET", dir[s].loc # "free", dir[s].key = op.key,
         reply' = ValueOf(s), op' = Idle
  PROVE  StoreMoves
<1>1. KV' = KV
  BY StoreKeeps
<1>2. KV[op.key] = ValueOf(s)
  BY KeyHolds DEF IInv, Phases
<1>3. StoreAnswers
  BY <1>1, <1>2, AskedIs DEF StoreAnswers
<1> QED
  BY <1>3 DEF StoreMoves

(* The other steps between tiers are not seen, or end a move or a REMOVE.  *)
LEMMA MovingStores ==
  ASSUME IInv, IInv', Moving
  PROVE  StoreMoves
<1>0. EntriesStay /\ KV' = KV
  BY MovingStays, StoreKeeps
<1>1. CASE \/ PrepareRetry \/ StreamAck \/ StreamPrefix \/ StreamTail \/ SkipStale \/ CommitHead
           \/ FifoAck \/ ServeCommit \/ ServeRead \/ PassEnd
           \/ TailDrain \/ FifoDrain \/ PromoteCommit
  <2>1. op' = op /\ reply' = reply
    BY <1>1 DEF PrepareRetry, StreamAck, StreamPrefix, StreamTail, SkipStale, CommitHead,
       FifoAck, ServeCommit, ServeRead, PassEnd, TailDrain, FifoDrain, PromoteCommit, clientVars
  <2> QED
    BY <1>0, <2>1 DEF StoreMoves, StoreStutters, Asked
<1>2. CASE AnswerExists \/ LookupWithoutEffect
  BY <1>2, LookupStores
<1>3. ASSUME NEW s \in Slots, GetResident(s) PROVE StoreMoves
  <2>1. op.kind = "GET" /\ dir[s].loc \in {"pending", "device"} /\ dir[s].key = op.key
        /\ reply' = dev[s] /\ op' = Idle
    BY <1>3 DEF GetResident, Serves, Answer, Holding, Residents, At
  <2>2. ValueOf(s) = dev[s]
    BY <2>1 DEF ValueOf
  <2> QED
    BY <1>0, <2>1, <2>2, GetStores
<1>4. ASSUME NEW s \in Slots, NEW E \in SUBSET Slots, NEW admit \in BOOLEAN,
             GetInPlace(s, E, admit)
      PROVE  StoreMoves
  <2>1. op.kind = "GET" /\ dir[s].key = op.key /\ reply' = pool[s] /\ op' = Idle
    BY <1>4 DEF GetInPlace, Serves, Answer, Holding
  <2>2. dir[s].loc = "host" /\ BackingBytes(s) = pool[s]
    BY <1>4, GetInPlaceTiers
  <2>3. ValueOf(s) = pool[s]
    BY <2>2 DEF ValueOf
  <2> QED
    BY <1>0, <2>1, <2>2, <2>3, GetStores
<1>5. ASSUME NEW s \in Slots, NEW E \in SUBSET Slots, NEW admit \in BOOLEAN,
             GetThroughWindow(s, E, admit)
      PROVE  StoreMoves
  <2>1. op' = [op EXCEPT !.phase = "serving"] /\ reply' = reply
    BY <1>5 DEF GetThroughWindow
  <2> QED
    BY <1>0, <2>1, AskedIs DEF StoreMoves, StoreStutters
<1>6. ASSUME NEW s \in Slots,
             \/ MoveToHost(s) \/ MoveToDeviceStarved(s)
             \/ \E E \in SUBSET Slots : MoveToDevice(s, E)
      PROVE  StoreMoves
  <2>1. op.kind \in {"MOVE_TO_HOST", "MOVE_TO_DEVICE"} /\ op' = Idle /\ reply' = reply
    BY <1>6 DEF MoveToHost, MoveToDeviceStarved, MoveToDevice, Serves, Answer
  <2>2. StoreAnswers
    BY <1>0, <2>1, AskedIs DEF StoreAnswers
  <2> QED
    BY <2>2 DEF StoreMoves
<1>7. CASE ServeDone
  <2>1. brisc = "serve_read" /\ Len(job.got) = NumChunks /\ reply' = job.got /\ op' = Idle
    BY <1>7 DEF ServeDone, Answer
  <2>2. PICK s \in Slots : s = job.slot
    BY <2>1, ReadIsTheValue
  <2>3. op.kind = "GET" /\ dir[s].loc = "host" /\ dir[s].key = op.key
        /\ reply' = BackingBytes(s)
    BY <2>1, <2>2, ReadIsTheValue DEF IInv, Phases
  <2>4. reply' = ValueOf(s)
    BY <2>3 DEF ValueOf
  <2> QED
    BY <1>0, <2>1, <2>3, <2>4, GetStores
<1>8. CASE RemoveDrain
  <2>1. brisc = "remove_drain" /\ op' = Idle /\ reply' = reply
    BY <1>8 DEF RemoveDrain, Answer
  <2>2. op.kind = "REMOVE" /\ op.key \in Keys /\ Holding(dir, op.key) = {}
    BY <2>1 DEF IInv, Phases, Reservation
  <2>3. KV[op.key] = Unwritten
    BY <2>2, KeyHolds
  <2>4. StoreAnswers
    BY <1>0, <2>1, <2>2, <2>3, AskedIs DEF StoreAnswers
  <2> QED
    BY <2>4 DEF StoreMoves
<1> QED
  BY <1>1, <1>2, <1>3, <1>4, <1>5, <1>6, <1>7, <1>8 DEF Moving

(* A prepare forgets the old value of its key, or of a key that makes room,*)
(* or nothing.                                                             *)
LEMMA PrepareStores ==
  ASSUME IInv, IInv', NEW s \in Slots, NEW E \in SUBSET Slots,
         PrepareStarved(s) \/ PrepareGrant(s, E)
  PROVE  StoreMoves
<1>1. Releases(s) /\ s \in PrepareSlots(op.key) /\ op.kind = "PUT"
  BY PrepareReleases
<1>2. reply' = reply /\ Asked' = Asked
  <2>1. reply' = reply /\ (op' = op \/ op' = [op EXCEPT !.phase = "payload"])
    BY DEF PrepareStarved, PrepareGrant, clientVars
  <2> QED
    BY <2>1, AskedIs
<1>3. op.key \in Keys
  BY <1>1 DEF IInv, Phases
<1>4. CASE dir[s].loc = "free"
  <2>1. EntriesStay
    BY <1>1, <1>4 DEF Releases, EntriesStay, Free
  <2> QED
    BY <1>2, <2>1, StoreKeeps DEF StoreMoves, StoreStutters
<1>5. CASE dir[s].loc # "free"
  <2>1. PICK k \in Keys : k = dir[s].key /\ KV' = [KV EXCEPT ![k] = Unwritten]
    BY <1>1, <1>5, StoreReleases
  <2>2. k = op.key \/ (op.key \notin Held /\ Cardinality(Held) = Cardinality(Slots))
    <3>1. CASE Holding(dir, op.key) # {}
      BY <1>1, <2>1, <3>1 DEF PrepareSlots, Holding
    <3>2. CASE Holding(dir, op.key) = {}
      <4>1. At(dir, "free") = {}
        BY <1>1, <1>5, <3>2 DEF PrepareSlots, At
      <4>2. Cardinality(Held) = Cardinality(Slots)
        BY <4>1, FullStore
      <4>3. op.key \notin Held
        BY <1>3, <3>2, KeyHolds DEF Held
      <4> QED
        BY <4>2, <4>3
    <3> QED
      BY <3>1, <3>2
  <2>3. StoreForgets(k)
    BY <1>1, <1>2, <2>1, <2>2, AskedIs DEF StoreForgets
  <2> QED
    BY <2>3 DEF StoreMoves
<1> QED
  BY <1>4, <1>5

(* A publication makes the key hold what the PUT wrote.                    *)
LEMMA PublishStores ==
  ASSUME IInv, IInv', NEW token \in Tokens, Publish(token)
  PROVE  StoreMoves
<1>1. /\ UNCHANGED <<dev, host_values, pool, reply>>
      /\ op' = [op EXCEPT !.phase = "issue"] /\ op.kind = "PUT"
      /\ op.key \in Keys /\ Holding(dir, op.key) = {}
  BY PublishLands
<1>2. PICK s \in Slots :
         /\ dir[s].loc = "free" /\ dev[s] = Written(op.val)
         /\ dir'[s] = [loc |-> "pending", key |-> op.key, tag |-> token]
         /\ \A t \in Slots \ {s} : dir'[t] = dir[t]
  BY PublishLands
<1>3. (dir'[s]).loc = "pending" /\ (dir'[s]).key = op.key /\ ValueOf(s)' = Written(op.val)
  BY <1>1, <1>2 DEF ValueOf
<1>4. KV'[op.key] = Written(op.val)
  BY <1>1, <1>3, KeyHoldsNext
<1>5. ASSUME NEW k \in Keys, k # op.key PROVE KV'[k] = KV[k]
  <2>1. CASE Holding(dir, k) = {}
    <3>1. Holding(dir', k) = {}
      BY <1>2, <1>3, <1>5, <2>1 DEF Holding
    <3> QED
      BY <2>1, <3>1, KeyHolds, KeyHoldsNext
  <2>2. CASE Holding(dir, k) # {}
    <3>1. PICK t \in Slots : dir[t].loc # "free" /\ dir[t].key = k
      BY <2>2 DEF Holding
    <3>2. t # s /\ dir'[t] = dir[t]
      BY <1>2, <3>1
    <3>3. ValueOf(t)' = ValueOf(t)
      BY <1>1, <3>2 DEF ValueOf, BackingBytes
    <3>4. KV[k] = ValueOf(t) /\ KV'[k] = ValueOf(t)'
      BY <3>1, <3>2, KeyHolds, KeyHoldsNext
    <3> QED
      BY <3>3, <3>4
  <2> QED
    BY <2>1, <2>2
<1>6. KV' = [KV EXCEPT ![op.key] = Written(op.val)]
  BY <1>1, <1>4, <1>5, KeysOnly
<1>7. KV[op.key] = Unwritten
  BY <1>1, KeyHolds
<1>8. Asked' = Asked
  BY <1>1, AskedIs
<1>9. StoreLands
  BY <1>1, <1>6, <1>7, <1>8, AskedIs DEF StoreLands
<1> QED
  BY <1>9 DEF StoreMoves

(* A REMOVE erases its key.                                                *)
LEMMA RemoveStores ==
  ASSUME IInv, IInv', NEW s \in Slots, Remove(s)
  PROVE  StoreMoves
<1>1. Releases(s) /\ op.kind = "REMOVE" /\ dir[s].loc # "free" /\ dir[s].key = op.key
  BY RemoveReleases
<1>2. op' = [op EXCEPT !.phase = "serving"] /\ reply' = reply
  BY DEF Remove
<1>3. KV' = [KV EXCEPT ![op.key] = Unwritten]
  BY <1>1, StoreReleases
<1>4. Asked' = Asked
  BY <1>2, AskedIs
<1>5. StoreErases
  BY <1>1, <1>2, <1>3, <1>4, AskedIs DEF StoreErases
<1> QED
  BY <1>5 DEF StoreMoves

(* No tier transition is visible to a Client: the directory, the device    *)
(* cache, the FIFO, the streams and the worker together are the store of   *)
(* KVStore, which answers a GET with the bytes of the last landed PUT of   *)
(* its key and forgets a key only for a REMOVE, a PUT of the same key or a *)
(* new key in a full store.                                                *)
THEOREM ImplementsStore == Spec => ImplementsKV
<1>1. Init => Store!Init
  <2> SUFFICES ASSUME Init PROVE Store!Init
    OBVIOUS
  <2>1. op = Idle /\ reply = Unwritten /\ \A s \in Slots : dir[s].loc = "free"
    BY DEF Init, Free
  <2>2. \A k : Holding(dir, k) = {}
    BY <2>1 DEF Holding
  <2>3. KV = [k \in Keys |-> Unwritten]
    BY <2>2 DEF KV
  <2>4. Asked = Nothing
    BY <2>1 DEF Idle, Asked, Nothing
  <2> QED
    BY <2>1, <2>3, <2>4, StoreStates
<1>2. IInv /\ IInv' /\ [Next]_vars => StoreMoves
  <2> SUFFICES ASSUME IInv, IInv', [Next]_vars PROVE StoreMoves
    OBVIOUS
  <2>1. CASE UNCHANGED vars
    <3>1. UNCHANGED <<op, reply, dir, dev, host_values, pool>>
      BY <2>1 DEF vars, clientVars, cacheVars, workerVars
    <3>2. KV' = KV
      BY <3>1, StillStays, StoreKeeps
    <3> QED
      BY <3>1, <3>2 DEF StoreMoves, StoreStutters, Asked
  <2>2. CASE BriscNext
    BY <2>2, BriscSteps, MovingStores, PrepareStores, RemoveStores, PublishStores
  <2> QED
    BY <2>1, <2>2, ClientStores, NcriscStores, WorkerStores DEF Next
<1>3. IInv /\ IInv' /\ [Next]_vars => [Store!Next]_<<KV, Asked, reply>>
  BY <1>2, StoreSteps
<1> QED
  BY <1>1, <1>3, TieringInvariant, PTL DEF Spec, ImplementsKV, Store!Spec, KV, Asked
=============================================================================
