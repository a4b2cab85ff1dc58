------------------------ MODULE InternalServerProofs ------------------------
(***************************************************************************)
(* The theorems about InternalServer, for any directory, arena, value      *)
(* size, width of the shared words and amount of traffic.                  *)
(*                                                                         *)
(* The invariant is a conjunction of layers, each inductive over the ones  *)
(* before it.                                                              *)
(*   Users      what the life of the handle says of its memory, its kernel *)
(*              and its worker;                                            *)
(*   CallSteps, the path of a host operation and the request it writes;    *)
(*   Mailbox                                                               *)
(*   Channel,   the four pairs of words between the tiering kernel and the *)
(*   Words,     worker, and the steps the two can be at together;          *)
(*   Handshake                                                             *)
(*   Pool       every unit of the arena has one place;                     *)
(*   Tokens     the queue of pending writes against the directory.         *)
(* ServerInv is these.  Over it, Transfers follows the bytes of a value    *)
(* from the PUT to the host and back, DrainInv the counters of the PUT     *)
(* drain, and Removing and Answers a host diagnostic, which reads the      *)
(* directory and the values one after the other.                           *)
(***************************************************************************)
EXTENDS InternalServer, Numbers, FiniteSetTheorems, TLAPS

----------------------------------------------------------------------------
(* The life of the Server and of what uses its memory.                     *)

Users ==
    /\ server.life = "Unborn" =>
          /\ server.memory = "none" /\ ~server.slot /\ server.kernel = "off"
          /\ worker.step = "none" /\ worker.op = "none"
          /\ free = {}
    /\ server.life = "Constructing" =>
          /\ server.memory = "held" /\ server.slot /\ server.kernel = "off"
          /\ worker.step = "gated"
    /\ server.life \in {"Ready", "Closing"} =>
          /\ server.memory = "held" /\ server.slot
          /\ worker.step \notin {"none", "gated"}
          /\ server.workload \/ server.kernel # "running"
    /\ server.life \in {"Closed", "Failed"} =>
          /\ server.memory = "freed" /\ ~server.slot
          /\ server.kernel # "running" /\ worker.step = "exited"
    /\ server.life = "Quarantined" =>
          server.memory = "kept" /\ server.slot /\ worker.step = "exited"
    /\ caller.step # "idle" => server.life \in {"Ready", "Closing"}
    /\ caller.step \in {"stop", "join"} =>
          caller.attempt = 3 \/ server.kernel # "running"

Diagnosing == caller.op \in {"get", "remove"}

CallSteps ==
    /\ caller.op = "none" <=> caller.step = "idle"
    /\ caller.op # "close" => caller.attempt = 0
    /\ Diagnosing => caller.slot \in Slots
    /\ caller.op = "get" => caller.step \in {"drain", "wait", "lookup", "read", "answer"}
    /\ caller.op = "remove" =>
          caller.step \in {"drain", "wait", "mailbox", "request", "reply", "answer"}
    /\ caller.op = "flush" => caller.step \in {"drain", "wait", "answer"}
    /\ caller.op = "close" =>
          caller.step \in {"enter", "drain", "wait", "terminate", "finish",
                           "stop", "join"}

(* A request the device has not seen names a slot.                         *)
Mailbox ==
    l1.request # dev.request \/ caller.step = "request" => l1.mailbox \in Slots

----------------------------------------------------------------------------
(* The handshake of the device and the worker.                             *)

Busy == worker.step \notin {"none", "gated", "poll", "exited"}
Alive == worker.step # "exited"
Fetching == dev.op \in {"serve", "promote"}

Channel ==
    /\ l1.move \in {l1.processed, Inc(l1.processed)}
    /\ dev.step = "loop" => l1.move = l1.processed
    /\ dev.step # "loop" =>
          /\ dev.op # "none" /\ dev.slot \in Slots
          /\ l1.op = dev.op /\ l1.slot = dev.slot
    /\ dev.step \in {"ack", "push"} => dev.op = "write" /\ server.mapped
    /\ dev.step \in {"pull", "stream"} => Fetching
    /\ dev.step \notin {"loop", "drain"} => l1.move # l1.processed

Words ==
    /\ l1.ack = IF dev.step = "ack" THEN l1.ack ELSE dev.acks
    /\ l1.ack \in {dev.acks, Inc(dev.acks)}
    /\ dev.acks = IF dev.step = "push" THEN Inc(l1.evicted) ELSE l1.evicted
    /\ l1.commit = IF dev.step = "pull" THEN l1.commit ELSE dev.commits
    /\ l1.commit \in {dev.commits, Inc(dev.commits)}
    /\ dev.commits = IF dev.step = "stream" THEN Inc(l1.pulled) ELSE l1.pulled

Counts ==
    /\ worker.seen = l1.processed
    /\ worker.evicts = IF worker.step = "ack" THEN Inc(l1.ack) ELSE l1.ack
    /\ worker.commits = IF worker.step \in {"reset", "stage", "post"}
                        THEN Inc(l1.commit) ELSE l1.commit
    /\ l1.ack # dev.acks => worker.step = "push"
    /\ l1.commit # dev.commits => worker.step \in {"stream", "pull"}

Partners(step) ==
    CASE step \in {"none", "gated"} -> {"loop"}
      [] step = "poll" -> {"loop", "ack", "pull", "drain"}
      [] step \in {"reserve", "ack"} -> {"ack"}
      [] step = "push" -> {"ack", "push", "drain"}
      [] step \in {"publish", "copy", "drop", "finish"} -> {"drain"}
      [] step \in {"source", "reset", "stage", "post"} -> {"pull"}
      [] step = "stream" -> {"pull", "stream"}
      [] step = "pull" -> {"pull", "stream", "drain"}
      [] OTHER -> {"loop", "ack", "push", "pull", "stream", "drain"}

Requested(step) ==
    CASE step \in {"reserve", "ack", "push", "publish"} ->
              dev.op = "write" /\ server.mapped
      [] step = "copy" -> dev.op = "write" /\ ~server.mapped
      [] step = "drop" -> dev.op = "remove"
      [] step \in {"source", "post", "pull"} -> Fetching
      [] step = "stage" -> Fetching /\ ~Fused
      [] step \in {"reset", "stream"} -> Fused
      [] OTHER -> TRUE

Handshake ==
    /\ dev.step \in Partners(worker.step)
    /\ Requested(worker.step)
    /\ Alive => Counts
    /\ Busy => /\ l1.move # l1.processed
               /\ worker.op = dev.op /\ worker.slot = dev.slot
    /\ worker.step = "push" /\ dev.step = "ack" => l1.ack # dev.acks
    /\ worker.step \in {"stream", "pull"} /\ dev.step = "pull" =>
          l1.commit # dev.commits
    /\ worker.step = "poll" /\ dev.step = "drain" =>
          \/ l1.move = l1.processed
          \/ dev.op = "remove" \/ (dev.op = "write" /\ ~server.mapped)
    /\ worker.step \in {"ack", "push"} /\ dev.step = "ack" =>
          l1.ackUnit = worker.unit
    /\ worker.step = "push" /\ dev.step = "push" => dev.unit = worker.unit
    /\ worker.step = "stream" => l1.progress < Chunks
    /\ worker.step = "post" /\ Fused => l1.progress = 0

----------------------------------------------------------------------------
(* The pool.                                                               *)

Extent(s) == IF values[s] = None THEN {} ELSE {values[s].unit} \ {None}
InFlight == IF worker.step \in {"ack", "push", "publish"}
            THEN {worker.unit} \ {None} ELSE {}
Spare(u) == \A s \in Slots : u \notin Extent(s)

Pool ==
    /\ \A s, t \in Slots : s # t => Extent(s) \cap Extent(t) = {}
    /\ free \cap InFlight = {}
    /\ \A s \in Slots : Extent(s) \cap (free \cup InFlight) = {}
    /\ server.mapped /\ server.memory = "held" /\ ~worker.failed =>
          \A u \in Units : u \in free \cup InFlight \/ ~Spare(u)
    /\ ~server.mapped \/ server.memory = "none" =>
          free = {} /\ \A s \in Slots : Extent(s) = {}
    /\ worker.step \in {"ack", "push", "publish"} => values[worker.slot] = None
    /\ dev.step = "ack" /\ l1.ack # dev.acks => Spare(l1.ackUnit)
    /\ dev.step = "push" => Spare(dev.unit)

----------------------------------------------------------------------------
(* The versions.                                                           *)

Backed0 == dev.puts - Len(dev.fifo)
Tokens ==
    /\ Len(dev.fifo) <= dev.puts
    /\ \A i \in DOMAIN dev.fifo : dev.fifo[i][2] = Backed0 + i
    /\ \A s \in Slots : dir[s] # None =>
          /\ dir[s].ver \in 1..dev.puts
          /\ dir[s].at # "Pending" => dir[s].ver <= Backed0
          /\ dir[s].at = "Pending" =>
                dir[s].ver > Backed0 /\ dev.fifo[dir[s].ver - Backed0][1] = s
    /\ dev.op = "write" =>
          /\ dev.fifo # <<>> /\ Head(dev.fifo) = <<dev.slot, dev.ver>>
          /\ dir[dev.slot] = [ver |-> dev.ver, at |-> "Pending"]
    /\ Fetching => dir[dev.slot] = [ver |-> dev.ver, at |-> "Host"]
    /\ dev.op = "remove" => dir[dev.slot] = None
    /\ dev.step = "loop" <=> dev.op = "none"

----------------------------------------------------------------------------
(* The data.                                                               *)

UnitsOf(s) == {Base(s) + k - 1 : k \in 1..Chunks}
OnDevice(s, v) == \A u \in UnitsOf(s) : heap[u] = v
InHost(s, v) == values[s] # None /\ HostBytes(s) = Whole(v)

Staged(unit) ==
    IF ~server.mapped THEN OnDevice(dev.slot, dev.ver)
    ELSE /\ unit # None => unit \in Extent(dev.slot)
         /\ \A k \in 1..(IF dev.op = "serve" THEN l1.progress ELSE Chunks) :
                ram[unit][k] = dev.ver

Settled ==
    \A s \in Slots : dir[s] # None =>
        /\ dir[s].at # "Pending" => InHost(s, dir[s].ver)
        /\ dir[s].at # "Host" => OnDevice(s, dir[s].ver)

Moving ==
    /\ worker.step \in {"push", "publish"} /\ dev.step = "drain" =>
          ram[worker.unit] = Whole(dev.ver)
    /\ dev.op = "write" /\ (worker.step = "finish" \/ l1.move = l1.processed) =>
          InHost(dev.slot, dev.ver)
    /\ worker.step \in {"reset", "stage", "post", "stream"} =>
          worker.unit = values[worker.slot].unit
    /\ worker.step = "post" /\ ~Fused => Staged(worker.unit)
    /\ worker.step = "stream" /\ dev.step = "pull" => l1.commitUnit = worker.unit
    /\ worker.step = "stream" /\ dev.step = "stream" => dev.unit = worker.unit

Offered ==
    /\ dev.step = "pull" /\ l1.commit # dev.commits => Staged(l1.commitUnit)
    /\ dev.step = "stream" => Staged(dev.unit)

Got ==
    /\ dev.step = "stream" => \A k \in 1..dev.chunk : dev.got[k] = dev.ver
    /\ dev.step = "drain" /\ Fetching => dev.got = Whole(dev.ver)

Transfers == Got /\ (server.memory # "freed" => Settled /\ Moving /\ Offered)

----------------------------------------------------------------------------
(* The drain.                                                              *)

\* An operation that took its target and went past the drain.
PastDrain ==
    \/ caller.step \in {"lookup", "read", "mailbox", "request", "reply", "answer",
                       "terminate", "finish"}
    \/ caller.step = "enter" /\ server.life # "Ready"

PutCounts ==
    /\ l1.issued = (InitialCounter + dev.puts) % Span
    /\ l1.committed = (InitialCounter + Backed0) % Span

DrainInv ==
    /\ PutCounts
    /\ caller.drained <= dev.puts
    /\ caller.step = "wait" => caller.target = (InitialCounter + caller.drained) % Span
    /\ caller.step \in {"drain", "wait"} /\ caller.op = "close" => server.life = "Closing"
    /\ PastDrain /\ ~worker.failed => Backed0 >= caller.drained

\* The pending-write FIFO of the kernel holds a token per directory slot.
FifoIsShort == Len(dev.fifo) <= Span \div 2

----------------------------------------------------------------------------
(* The host operations.                                                    *)

Counted(r, q, n) ==
    /\ n <= q /\ q <= r /\ r <= caller.ops
    /\ l1.request = (InitialCounter + r) % Span
    /\ dev.request = (InitialCounter + q) % Span
    /\ l1.done = (InitialCounter + n) % Span
    /\ dev.op = "remove" => n < q
    /\ caller.op = "remove" /\ caller.step \in {"drain", "wait", "mailbox", "request"} =>
          r < caller.ops
    /\ caller.step = "request" => caller.target = (InitialCounter + (r + 1)) % Span
    /\ caller.step = "reply" =>
          caller.target = l1.request /\ (q = r => dir[caller.slot] = None)

Removing == \E r, q, n \in Nat : Counted(r, q, n)

Reading ==
    LET s == caller.slot
        v == caller.ver
    IN  /\ v # 0 /\ caller.at \in {"Device", "Host"}
        /\ dir[s] # None => dir[s].ver = v
        /\ caller.at = "Device" =>
               (dir[s] # None => dir[s].at = "Device") /\ OnDevice(s, v)
        /\ caller.at = "Host" /\ values[s] # None => HostBytes(s) = Whole(v)

Answers ==
    /\ Diagnosing /\ caller.step = "wait" => caller.drained = dev.puts
    /\ Diagnosing /\ caller.step \notin {"drain", "wait"} => dev.fifo = <<>>
    /\ caller.step \in {"request", "reply"} => l1.mailbox = caller.slot
    /\ Diagnosing /\ caller.step \in {"drain", "wait", "lookup"} =>
          caller.ver = 0 /\ caller.got = None
    /\ caller.step = "read" => Reading
    /\ HostOperationsAnswer

ServerInv ==
    /\ TypeOK /\ Users /\ CallSteps /\ Mailbox /\ Channel /\ Words /\ Handshake
    /\ Pool /\ Tokens

----------------------------------------------------------------------------
(* Counters and addresses.                                                 *)

(* The sizes are positive numbers and None names no unit, slot or          *)
(* record.                                                                 *)
LEMMA Constants ==
  /\ Span \in Nat /\ Span > 1 /\ InitialCounter \in 0..(Span - 1)
  /\ Chunks \in Nat \ {0} /\ Banks \in Nat \ {0} /\ StageBlock \in Nat \ {0}
  /\ MaxPuts \in Nat /\ MaxServes \in Nat /\ MaxOps \in Nat
  /\ MaxCloses \in Nat /\ Units \subseteq Nat
  /\ None \notin Units /\ None \notin Slots
  /\ None \notin Entry /\ None \notin HostValue
BY ConstantsAssumption

(* A slot is a row of the directory, counted from 1.                       *)
LEMMA SlotsAreNumbers ==
  /\ Cardinality(Slots) \in Nat
  /\ \A s \in Slots : s \in Nat /\ s >= 1 /\ s <= Cardinality(Slots)
<1>1. Cardinality(Slots) \in Nat
  BY ConstantsAssumption, FS_CardinalityType
<1> QED
  BY <1>1, ConstantsAssumption

(* A wrapping counter moves with every increment.                          *)
LEMMA Increments ==
  ASSUME NEW n \in Counter
  PROVE  Inc(n) \in Counter /\ Inc(n) # n
<1>1. /\ n \in Nat /\ n < Span /\ n + 1 \in Nat /\ n + 1 < 2 * Span
      /\ Span \in Nat \ {0}
  BY Constants DEF Counter
<1>2. (n + 1) % Span = IF n + 1 < Span THEN n + 1 ELSE (n + 1) - Span
  BY <1>1, ModShort
<1>3. Inc(n) = IF n + 1 < Span THEN n + 1 ELSE (n + 1) - Span
  BY <1>2 DEF Inc
<1> QED
  BY <1>1, <1>3, Constants DEF Counter

(* pool_alloc returns a free extent while there is one.                    *)
LEMMA FirstFitIs ==
  ASSUME NEW units \in SUBSET Units
  PROVE  /\ units = {} => FirstFit(units) = None
         /\ units # {} => FirstFit(units) \in units
<1>1. CASE units = {}
  BY <1>1 DEF FirstFit
<1>2. CASE units # {}
  <2>1. units \in SUBSET Nat
    BY Constants
  <2>2. \E u \in units : \A w \in units : u <= w
    BY <1>2, <2>1, First
  <2> QED
    BY <1>2, <2>2 DEF FirstFit
<1> QED
  BY <1>1, <1>2

(* The heap units of a value.                                              *)
LEMMA BaseIs ==
  ASSUME NEW s \in Slots
  PROVE  /\ Base(s) \in Nat
         /\ Base(s) + Chunks <= Cardinality(Slots) * Chunks
         /\ \A t \in Slots : s < t => Base(s) + Chunks <= Base(t)
<1>1. /\ s \in Nat /\ s >= 1 /\ s - 1 \in Nat /\ Chunks \in Nat
      /\ Cardinality(Slots) \in Nat /\ s <= Cardinality(Slots)
  BY Constants, SlotsAreNumbers
<1>2. Base(s) \in Nat /\ Base(s) + Chunks = s * Chunks
  BY <1>1 DEF Base
<1>3. s * Chunks <= Cardinality(Slots) * Chunks
  BY <1>1, MoreTakesMore
<1>4. ASSUME NEW t \in Slots, s < t
      PROVE  s * Chunks <= Base(t)
  <2>1. t - 1 \in Nat /\ s <= t - 1
    BY <1>1, <1>4, SlotsAreNumbers
  <2> QED
    BY <1>1, <2>1, MoreTakesMore DEF Base
<1> QED
  BY <1>2, <1>3, <1>4

(* The units of a slot are a range of the heap.                            *)
LEMMA UnitsInHeap ==
  ASSUME NEW s \in Slots
  PROVE  /\ UnitsOf(s) = Base(s)..(Base(s) + Chunks - 1)
         /\ UnitsOf(s) \subseteq HeapUnits
         /\ \A k \in 1..Chunks : Base(s) + k - 1 \in UnitsOf(s)
<1>1. /\ Base(s) \in Nat /\ Base(s) + Chunks <= Cardinality(Slots) * Chunks
      /\ Chunks \in Nat \ {0} /\ Cardinality(Slots) * Chunks \in Nat
  BY BaseIs, Constants, SlotsAreNumbers
<1>2. \A k \in 1..Chunks : Base(s) + k - 1 \in UnitsOf(s)
  BY DEF UnitsOf
<1>3. ASSUME NEW u \in Base(s)..(Base(s) + Chunks - 1)
      PROVE  u \in UnitsOf(s)
  <2>1. u - Base(s) + 1 \in 1..Chunks /\ u = Base(s) + (u - Base(s) + 1) - 1
    BY <1>1
  <2> QED
    BY <1>2, <2>1
<1>4. UnitsOf(s) \subseteq Base(s)..(Base(s) + Chunks - 1)
  BY <1>1 DEF UnitsOf
<1>5. Base(s)..(Base(s) + Chunks - 1) \subseteq HeapUnits
  BY <1>1 DEF HeapUnits
<1> QED
  BY <1>2, <1>3, <1>4, <1>5

(* No two values share a heap unit.                                        *)
LEMMA UnitsApart ==
  ASSUME NEW s \in Slots, NEW t \in Slots, s # t
  PROVE  UnitsOf(s) \cap UnitsOf(t) = {}
<1>1. /\ UnitsOf(s) = Base(s)..(Base(s) + Chunks - 1)
      /\ UnitsOf(t) = Base(t)..(Base(t) + Chunks - 1)
      /\ Base(s) \in Nat /\ Base(t) \in Nat /\ Chunks \in Nat
  BY UnitsInHeap, BaseIs, Constants
<1>2. s < t \/ t < s
  BY SlotsAreNumbers
<1>3. Base(s) + Chunks <= Base(t) \/ Base(t) + Chunks <= Base(s)
  BY <1>2, BaseIs
<1> QED
  BY <1>1, <1>3


(* The transfers of the banks name every unit of a value once: the bank of *)
(* unit k is the one whose first unit is congruent to k.                   *)
LEMMA FirstOfIs ==
  ASSUME NEW base \in Nat, NEW b \in 0..(Banks - 1)
  PROVE  FirstOf(b, base) = IF b >= base % Banks THEN b - (base % Banks)
                            ELSE b + Banks - (base % Banks)
<1> DEFINE r == base % Banks
<1>1. Banks \in Nat \ {0}
  BY Constants
<1>2. r \in 0..(Banks - 1)
  BY <1>1, ModRange
<1> HIDE DEF r
<1> DEFINE x == b + Banks - r
<1>3. x \in Nat /\ x < 2 * Banks
  BY <1>1, <1>2
<1>4. x % Banks = IF x < Banks THEN x ELSE x - Banks
  <2> HIDE DEF x
  <2> QED
    BY <1>1, <1>3, ModShort
<1>5. FirstOf(b, base) = x % Banks
  BY DEF FirstOf, r
<1>6. FirstOf(b, base) = IF b >= r THEN b - r ELSE b + Banks - r
  BY <1>1, <1>2, <1>4, <1>5
<1> QED
  BY <1>6 DEF r

(* Page k of a transfer is unit base + k: the bank walk loses none.        *)
LEMMA BankEntryIs ==
  ASSUME NEW base \in Nat, NEW k \in Nat
  PROVE  BankEntry(k, base) = base + k
<1> DEFINE b == BankOf(k, base)
<1>1. Banks \in Nat \ {0}
  BY Constants
<1>2. PICK q \in Nat, r \in 0..(Banks - 1) : base = Banks * q + r
  BY <1>1, Division
<1>3. PICK p \in Nat, f \in 0..(Banks - 1) : k = Banks * p + f
  BY <1>1, Division
<1>4. base % Banks = r /\ k % Banks = f /\ k \div Banks = p
  BY <1>1, <1>2, <1>3, ModOf, DivOf
<1>5. \A a \in 0..(Banks - 1) :
          FirstOf(a, base) = IF a >= r THEN a - r ELSE a + Banks - r
  BY <1>4, FirstOfIs
<1>6. \E a \in 0..(Banks - 1) : FirstOf(a, base) = f
  <2>1. CASE r + f < Banks
    <3>1. r + f \in 0..(Banks - 1) /\ FirstOf(r + f, base) = f
      BY <1>1, <1>5, <2>1
    <3> QED
      BY <3>1
  <2>2. CASE r + f >= Banks
    <3>1. /\ r + f - Banks \in 0..(Banks - 1)
          /\ FirstOf(r + f - Banks, base) = f
      BY <1>1, <1>5, <2>2
    <3> QED
      BY <3>1
  <2> QED
    BY <1>1, <2>1, <2>2
<1>7. b \in 0..(Banks - 1) /\ FirstOf(b, base) = f
  BY <1>4, <1>6 DEF BankOf
<1> HIDE DEF b
<1>8. /\ f = IF b >= r THEN b - r ELSE b + Banks - r
  BY <1>5, <1>7
<1>9. base + f = Banks * PageOf(b, base) + b /\ PageOf(b, base) \in Nat
  <2>1. PageOf(b, base) = (base + f) \div Banks
    BY <1>7 DEF PageOf
  <2>2. CASE b >= r
    <3>1. base + f = Banks * q + b
      <4>1. f = b - r /\ Banks * q \in Nat
        BY <1>1, <1>8, <2>2
      <4> DEFINE m == Banks * q
      <4>2. base = m + r /\ m \in Nat
        BY <1>2, <4>1
      <4> HIDE DEF m
      <4>3. base + f = m + b
        BY <1>1, <1>7, <4>1, <4>2
      <4> QED
        BY <4>3 DEF m
    <3>2. (Banks * q + b) \div Banks = q
      BY <1>1, <1>7, DivOf
    <3> QED
      BY <2>1, <3>1, <3>2
  <2>3. CASE b < r
    <3>1. base + f = Banks * (q + 1) + b /\ q + 1 \in Nat
      <4>1. f = b + Banks - r /\ Banks * q \in Nat
        BY <1>1, <1>7, <1>8, <2>3
      <4> DEFINE m == Banks * q
      <4>2. base = m + r /\ Banks * (q + 1) = m + Banks /\ m \in Nat
        BY <1>1, <1>2, <4>1
      <4> HIDE DEF m
      <4>3. base + f = (m + Banks) + b
        BY <1>1, <1>7, <4>1, <4>2
      <4> QED
        BY <4>2, <4>3
    <3>2. (Banks * (q + 1) + b) \div Banks = q + 1
      BY <1>1, <1>7, <3>1, DivOf
    <3> QED
      BY <2>1, <3>1, <3>2
  <2> QED
    BY <1>7, <2>2, <2>3
<1>10. BankEntry(k, base) = (PageOf(b, base) + p) * Banks + b
  BY <1>4 DEF BankEntry, UnitAt, b
<1> DEFINE g == PageOf(b, base)
<1>11. g \in Nat /\ base + f = Banks * g + b /\ k = Banks * p + f
  BY <1>3, <1>9
<1> HIDE DEF g
<1>12. (g + p) * Banks + b = base + k
  <2>1. (g + p) * Banks = Banks * g + Banks * p
    BY <1>1, <1>11
  <2> QED
    BY <1>1, <1>7, <1>11, <2>1
<1> QED
  BY <1>10, <1>12 DEF g

(* A unit's bank and offset name the unit again.                           *)
LEMMA UnitEntryIs ==
  ASSUME NEW u \in Nat
  PROVE  UnitAt(u % Banks, u \div Banks) = u
<1>1. Banks \in Nat \ {0}
  BY Constants
<1>2. PICK q \in Nat, r \in 0..(Banks - 1) : u = Banks * q + r
  BY <1>1, Division
<1>3. u % Banks = r /\ u \div Banks = q
  BY <1>1, <1>2, ModOf, DivOf
<1> QED
  BY <1>1, <1>2, <1>3 DEF UnitAt

(* read_value_units_into reads the value's own units in order, in both of  *)
(* its forms.                                                              *)
LEMMA ReadIs ==
  ASSUME NEW s \in Slots
  PROVE  /\ ReadUnits(Base(s)) = [k \in 1..Chunks |-> heap[Base(s) + k - 1]]
<1>1. Base(s) \in Nat
  BY BaseIs
<1> DEFINE e(k) == IF Chunks > Banks THEN heap[BankEntry(k - 1, Base(s))]
                   ELSE heap[UnitAt((Base(s) + k - 1) % Banks,
                                    (Base(s) + k - 1) \div Banks)]
<1>2. ASSUME NEW k \in 1..Chunks
      PROVE  e(k) = heap[Base(s) + k - 1]
  <2>1. /\ k - 1 \in Nat /\ Base(s) + k - 1 \in Nat
        /\ Base(s) + (k - 1) = Base(s) + k - 1
    BY <1>1, Constants
  <2>2. BankEntry(k - 1, Base(s)) = Base(s) + k - 1
    BY <1>1, <2>1, BankEntryIs
  <2>3. UnitAt((Base(s) + k - 1) % Banks, (Base(s) + k - 1) \div Banks)
            = Base(s) + k - 1
    BY <2>1, UnitEntryIs
  <2> QED
    BY <2>2, <2>3
<1>3. ReadUnits(Base(s)) = [k \in 1..Chunks |-> e(k)]
  BY DEF ReadUnits
<1> HIDE DEF e
<1> QED
  BY <1>2, <1>3

(* The coalesced write puts the value in its own units and nowhere else.   *)
LEMMA WriteIs ==
  ASSUME NEW s \in Slots, NEW bytes
  PROVE  /\ WriteUnits(Base(s), bytes) = [u \in HeapUnits |->
                IF u \in UnitsOf(s) THEN bytes[u - Base(s) + 1] ELSE heap[u]]
<1>1. Base(s) \in Nat /\ Chunks \in Nat \ {0}
  BY BaseIs, Constants
<1>2. ASSUME NEW k \in 1..Chunks
      PROVE  BankEntry(k - 1, Base(s)) = Base(s) + k - 1
  <2>1. k - 1 \in Nat /\ Base(s) + (k - 1) = Base(s) + k - 1
    BY <1>1
  <2> QED
    BY <1>1, <2>1, BankEntryIs
<1> DEFINE hit(u) == \E k \in 1..Chunks : BankEntry(k - 1, Base(s)) = u
           of(u) == CHOOSE k \in 1..Chunks : BankEntry(k - 1, Base(s)) = u
           w(u) == IF hit(u) THEN bytes[of(u)] ELSE heap[u]
           x(u) == IF u \in UnitsOf(s) THEN bytes[u - Base(s) + 1] ELSE heap[u]
<1>3. ASSUME NEW u \in HeapUnits
      PROVE  w(u) = x(u)
  <2>1. u \in UnitsOf(s) <=> hit(u)
    BY <1>2 DEF UnitsOf
  <2>2. ASSUME hit(u)
        PROVE  of(u) = u - Base(s) + 1
    <3>1. of(u) \in 1..Chunks /\ BankEntry(of(u) - 1, Base(s)) = u
      BY <2>2
    <3> HIDE DEF of
    <3>2. u = Base(s) + of(u) - 1
      BY <1>2, <3>1
    <3> QED
      BY <1>1, <3>1, <3>2
  <2> HIDE DEF hit, of
  <2> QED
    BY <2>1, <2>2
<1>4. WriteUnits(Base(s), bytes) = [u \in HeapUnits |-> w(u)]
  BY DEF WriteUnits
<1> HIDE DEF w, x
<1>5. WriteUnits(Base(s), bytes) = [u \in HeapUnits |-> x(u)]
  BY <1>3, <1>4
<1> QED
  BY <1>5 DEF x


----------------------------------------------------------------------------
(* Types.                                                                  *)

(* A whole value is Chunks units of one version.                           *)
LEMMA WholeType ==
  ASSUME NEW v \in Versions
  PROVE  Whole(v) \in Bytes /\ \A k \in 1..Chunks : Whole(v)[k] = v
BY DEF Whole, Bytes

(* A published value reads as Chunks units.                                *)
LEMMA HostBytesType ==
  ASSUME TypeOK, NEW s \in Slots, values[s] # None
  PROVE  /\ values[s] \in HostValue /\ HostBytes(s) \in Bytes
BY DEF TypeOK, HostValue, HostBytes

(* Dropping a value leaves a set of free units.                            *)
LEMMA DroppedType ==
  ASSUME TypeOK, NEW s \in Slots
  PROVE  Dropped(s) \in SUBSET Units
BY DEF TypeOK, HostValue, Dropped

(* A read of the heap has Chunks units, each a version.                    *)
LEMMA ReadType ==
  ASSUME TypeOK, NEW s \in Slots
  PROVE  /\ ReadUnits(Base(s)) \in Bytes
         /\ \A k \in 1..Chunks : heap[Base(s) + k - 1] \in Versions
<1>1. \A k \in 1..Chunks : heap[Base(s) + k - 1] \in Versions
  BY UnitsInHeap DEF TypeOK
<1> QED
  BY <1>1, ReadIs DEF Bytes

(* The values with one entry replaced are well typed.                      *)
LEMMA ValueSet ==
  ASSUME TypeOK, NEW s, NEW x \in {None} \cup HostValue
  PROVE  [values EXCEPT ![s] = x] \in [Slots -> {None} \cup HostValue]
BY DEF TypeOK

(* A worker at work has the slot of the device's request.                  *)
LEMMA BusyOn ==
  ASSUME TypeOK, Channel, Handshake, Busy
  PROVE  worker.slot \in Slots /\ dev.slot = worker.slot
<1>1. dev.step # "loop" /\ worker.slot = dev.slot
  BY DEF Handshake, Busy, Partners, TypeOK, WorkerState
<1> QED
  BY <1>1 DEF Channel

(* The handle before construction is well typed.                           *)
LEMMA InitTypes == Init => TypeOK
<1> SUFFICES ASSUME Init
             PROVE  TypeOK
  OBVIOUS
<1> USE Constants
<1>1. server \in ServerState
  <2>1. PICK m \in BOOLEAN :
            server = [life |-> "Unborn", slot |-> FALSE, memory |-> "none",
                      mapped |-> m, kernel |-> "off", signalled |-> FALSE,
                      running |-> FALSE, workload |-> FALSE]
    BY DEF Init
  <2> QED
    BY <2>1 DEF ServerState
<1>2. worker \in WorkerState
  BY DEF Init, WorkerState, Counter, Ops
<1>3. l1 \in SharedWords
  BY DEF Init, SharedWords, Counter, Ops
<1>4. dev \in DeviceState
  <2>1. Whole(0) \in Bytes
    BY DEF Whole, Bytes, Versions
  <2>2. <<>> \in Seq(Slots \X Versions)
    OBVIOUS
  <2> QED
    BY <2>1, <2>2 DEF Init, DeviceState, Counter, Ops, Versions
<1>5. caller \in CallerState
  BY DEF Init, Idle, CallerState, Counter, Versions
<1>6. ram \in [Units \cup {None} -> Bytes]
  BY DEF Init, Whole, Bytes, Versions
<1>7. /\ dir \in [Slots -> {None} \cup Entry] /\ heap \in [HeapUnits -> Versions]
      /\ values \in [Slots -> {None} \cup HostValue] /\ free \subseteq Units
  BY DEF Init, Versions
<1> QED
  BY <1>1, <1>2, <1>3, <1>4, <1>5, <1>6, <1>7 DEF TypeOK

(* prepare, the worker start, its gate and their failures keep the         *)
(* types.                                                                  *)
LEMMA ConstructionTypes ==
  ASSUME TypeOK, Construction
  PROVE  TypeOK'
<1>1. CASE Construct
  BY <1>1 DEF TypeOK, Construct, ServerState, WorkerState
<1>2. CASE LaunchFails
  BY <1>2 DEF TypeOK, LaunchFails, ServerState, WorkerState
<1>3. CASE LaunchOutcomeUnknown
  BY <1>3 DEF TypeOK, LaunchOutcomeUnknown, ServerState, WorkerState
<1>4. CASE Launch
  BY <1>4 DEF TypeOK, Launch, ServerState, WorkerState
<1> QED
  BY <1>1, <1>2, <1>3, <1>4 DEF Construction

(* Steps of the worker that move no value.                                 *)
LEMMA WorkerTypes ==
  ASSUME TypeOK, Channel, Handshake,
         \/ Poll \/ Acknowledge \/ Pushed \/ AbandonPush \/ Source
         \/ ResetProgress \/ PostCommit \/ Pulled \/ Finished \/ Stopped
         \/ Raise
  PROVE  TypeOK'
<1>1. CASE Poll
  <2>1. worker' \in WorkerState
    BY <1>1 DEF TypeOK, Poll, WorkerState, SharedWords
  <2> QED
    BY <1>1, <2>1 DEF TypeOK, Poll
<1>2. CASE Acknowledge
  BY <1>2 DEF TypeOK, Acknowledge, WorkerState, WorkerTo, SharedWords
<1>3. CASE Pushed
  BY <1>3 DEF TypeOK, Pushed, WorkerState, WorkerTo
<1>4. CASE AbandonPush
  BY <1>4 DEF TypeOK, AbandonPush, WorkerState
<1>5. CASE Source
  <2>1. worker.slot \in Slots
    BY <1>5, BusyOn DEF Source, Working, Busy
  <2>2. worker.commits \in Counter /\ Inc(worker.commits) \in Counter
    BY Increments DEF TypeOK, WorkerState
  <2>3. values[worker.slot] # None => values[worker.slot].unit \in Units \cup {None}
    BY <2>1, HostBytesType DEF HostValue
  <2>4. worker' \in WorkerState
    BY <1>5, <2>2, <2>3 DEF TypeOK, Source, WorkerState
  <2> QED
    BY <1>5, <2>4 DEF TypeOK, Source
<1>6. CASE ResetProgress
  BY <1>6, Constants
     DEF TypeOK, ResetProgress, WorkerState, WorkerTo, SharedWords
<1>7. CASE PostCommit
  BY <1>7 DEF TypeOK, PostCommit, WorkerState, WorkerTo, SharedWords
<1>8. CASE Pulled
  BY <1>8 DEF TypeOK, Pulled, WorkerState
<1>9. CASE Finished
  <2>1. Inc(worker.seen) \in Counter
    BY Increments DEF TypeOK, WorkerState
  <2> QED
    BY <1>9, <2>1 DEF TypeOK, Finished, WorkerState, SharedWords
<1>10. CASE Stopped
  BY <1>10 DEF TypeOK, Stopped, WorkerState
<1>11. CASE Raise
  BY <1>11 DEF TypeOK, Raise, WorkerState
<1> QED
  BY <1>1, <1>2, <1>3, <1>4, <1>5, <1>6, <1>7, <1>8, <1>9, <1>10, <1>11

(* What the worker does to the values and the arena keeps the types.       *)
LEMMA ValueTypes ==
  ASSUME TypeOK, Channel, Handshake,
         Reserve \/ Publish \/ Copy \/ Drop \/ Stage \/ Stream
  PROVE  TypeOK'
<1>1. worker.slot \in Slots
  BY BusyOn DEF Reserve, Publish, Copy, Drop, Stage, Stream, Working, Busy
<1>2. Dropped(worker.slot) \in SUBSET Units
  BY <1>1, DroppedType
<1>3. CASE Reserve
  <2> DEFINE pool == Dropped(worker.slot)
             unit == FirstFit(pool)
  <2>1. unit \in Units \cup {None}
    BY <1>2, FirstFitIs
  <2>2. Inc(worker.evicts) \in Counter
    BY Increments DEF TypeOK, WorkerState
  <2>3. /\ worker' = [worker EXCEPT !.step = "ack", !.unit = unit,
                                    !.evicts = Inc(worker.evicts)]
        /\ l1' = [l1 EXCEPT !.ackUnit = unit]
        /\ free' = pool \ {unit}
        /\ values' = [values EXCEPT ![worker.slot] = None]
        /\ UNCHANGED <<server, dev, dir, heap, ram, caller>>
    BY <1>3 DEF Reserve
  <2> HIDE DEF unit, pool
  <2>4. worker' \in WorkerState
    BY <2>1, <2>2, <2>3 DEF TypeOK, WorkerState
  <2>5. l1' \in SharedWords
    BY <2>1, <2>3 DEF TypeOK, SharedWords
  <2>6. free' \subseteq Units
    BY <1>2, <2>3 DEF pool
  <2>7. values' \in [Slots -> {None} \cup HostValue]
    BY <2>3, ValueSet
  <2> QED
    BY <2>3, <2>4, <2>5, <2>6, <2>7 DEF TypeOK
<1>4. CASE Publish
  <2> DEFINE x == [unit |-> worker.unit,
                   heap |-> IF worker.unit = None THEN ram[None] ELSE Whole(0)]
  <2>1. Whole(0) \in Bytes
    BY Constants, WholeType DEF Versions
  <2>2. x \in HostValue
    BY <2>1 DEF TypeOK, WorkerState, HostValue
  <2>3. values' = [values EXCEPT ![worker.slot] = x]
    BY <1>4 DEF Publish
  <2> HIDE DEF x
  <2>4. values' \in [Slots -> {None} \cup HostValue]
    BY <2>2, <2>3, ValueSet
  <2> QED
    BY <1>4, <2>4 DEF TypeOK, Publish, WorkerState
<1>5. CASE Copy
  <2> DEFINE x == [unit |-> None, heap |-> ReadUnits(Base(worker.slot))]
  <2>1. x \in HostValue
    BY <1>1, ReadType DEF HostValue
  <2>2. values' = [values EXCEPT ![worker.slot] = x]
    BY <1>5 DEF Copy
  <2> HIDE DEF x
  <2>3. values' \in [Slots -> {None} \cup HostValue]
    BY <2>1, <2>2, ValueSet
  <2> QED
    BY <1>5, <2>3 DEF TypeOK, Copy, WorkerState, WorkerTo
<1>6. CASE Drop
  BY <1>2, <1>6 DEF TypeOK, Drop, WorkerState, WorkerTo
<1>7. CASE Stage
  <2>1. HostBytes(worker.slot) \in Bytes
    BY <1>1, <1>7, HostBytesType DEF Stage
  <2>2. heap' \in [HeapUnits -> Versions]
    <3> DEFINE bytes == HostBytes(worker.slot)
               s == worker.slot
    <3>1. \A u \in UnitsOf(s) : u - Base(s) + 1 \in 1..Chunks
      BY <1>1, UnitsInHeap, BaseIs, Constants
    <3>2. WriteUnits(Base(s), bytes) \in [HeapUnits -> Versions]
      <4> HIDE DEF bytes
      <4>1. \A u \in UnitsOf(s) : bytes[u - Base(s) + 1] \in Versions
        BY <2>1, <3>1 DEF Bytes, bytes
      <4> QED
        BY <1>1, <4>1, WriteIs DEF TypeOK
    <3> QED
      BY <1>7, <3>2 DEF Stage, TypeOK
  <2>3. ram' \in [Units \cup {None} -> Bytes]
    BY <1>7, <2>1 DEF Stage, TypeOK
  <2>4. worker' \in WorkerState
    BY <1>7 DEF TypeOK, Stage, WorkerState, WorkerTo
  <2> QED
    BY <1>7, <2>2, <2>3, <2>4 DEF TypeOK, Stage
<1>8. CASE Stream
  <2> DEFINE last == l1.progress + StageBlock
             to == IF last < Chunks THEN last ELSE Chunks
  <2>1. HostBytes(worker.slot) \in Bytes
    BY <1>1, <1>8, HostBytesType DEF Stream
  <2>2. l1.progress \in 0..Chunks
    BY DEF TypeOK, SharedWords
  <2>3. to \in 0..Chunks /\ Chunks \in 0..Chunks
    BY <2>2, Constants
  <2>4. /\ l1' = [l1 EXCEPT !.progress = Chunks] \/ l1' = [l1 EXCEPT !.progress = to]
        /\ worker' = [worker EXCEPT !.step = "pull"] \/ worker' = worker
        /\ UNCHANGED <<server, dev, dir, heap, values, free, caller>>
    BY <1>8 DEF Stream, WorkerTo
  <2>5. l1' \in SharedWords
    <3> HIDE DEF to
    <3> QED
      BY <2>3, <2>4 DEF TypeOK, SharedWords
  <2>6. worker' \in WorkerState
    BY <2>4 DEF TypeOK, WorkerState
  <2>7. ram' \in [Units \cup {None} -> Bytes]
    <3>1. ram[None] \in Bytes
      BY DEF TypeOK
    <3>2. [k \in 1..Chunks |-> IF k \in (l1.progress + 1)..to
                               THEN HostBytes(worker.slot)[k]
                               ELSE ram[None][k]] \in Bytes
      <4> HIDE DEF to
      <4> QED
        BY <2>1, <3>1 DEF Bytes
    <3>3. \/ ram' = ram
          \/ ram' = [ram EXCEPT ![None] =
                        [k \in 1..Chunks |-> IF k \in (l1.progress + 1)..to
                                             THEN HostBytes(worker.slot)[k]
                                             ELSE ram[None][k]]]
      BY <1>8 DEF Stream
    <3> QED
      BY <3>2, <3>3 DEF TypeOK
  <2> QED
    BY <2>4, <2>5, <2>6, <2>7 DEF TypeOK
<1> QED
  BY <1>3, <1>4, <1>5, <1>6, <1>7, <1>8

(* A record of the device, or of a call, with one field set.               *)
LEMMA DeviceWith ==
  ASSUME NEW d \in DeviceState
  PROVE  /\ \A x \in {"loop", "ack", "push", "drain", "pull", "stream"} : [d EXCEPT !.step = x] \in DeviceState
         /\ \A x \in Ops : [d EXCEPT !.op = x] \in DeviceState
         /\ \A x \in Slots \cup {None} : [d EXCEPT !.slot = x] \in DeviceState
         /\ \A x \in Versions : [d EXCEPT !.ver = x] \in DeviceState
         /\ \A x \in Units \cup {None} : [d EXCEPT !.unit = x] \in DeviceState
         /\ \A x \in 0..Chunks : [d EXCEPT !.chunk = x] \in DeviceState
         /\ \A x \in Bytes : [d EXCEPT !.got = x] \in DeviceState
         /\ \A x \in Counter : [d EXCEPT !.acks = x] \in DeviceState
         /\ \A x \in Counter : [d EXCEPT !.commits = x] \in DeviceState
         /\ \A x \in Counter : [d EXCEPT !.request = x] \in DeviceState
         /\ \A x \in Seq(Slots \X Versions) : [d EXCEPT !.fifo = x] \in DeviceState
         /\ \A x \in 0..MaxServes : [d EXCEPT !.serves = x] \in DeviceState
<1>1. \A x \in {"loop", "ack", "push", "drain", "pull", "stream"} : [d EXCEPT !.step = x] \in DeviceState
  BY DEF DeviceState
<1>2. \A x \in Ops : [d EXCEPT !.op = x] \in DeviceState
  BY DEF DeviceState
<1>3. \A x \in Slots \cup {None} : [d EXCEPT !.slot = x] \in DeviceState
  BY DEF DeviceState
<1>4. \A x \in Versions : [d EXCEPT !.ver = x] \in DeviceState
  BY DEF DeviceState
<1>5. \A x \in Units \cup {None} : [d EXCEPT !.unit = x] \in DeviceState
  BY DEF DeviceState
<1>6. \A x \in 0..Chunks : [d EXCEPT !.chunk = x] \in DeviceState
  BY DEF DeviceState
<1>7. \A x \in Bytes : [d EXCEPT !.got = x] \in DeviceState
  BY DEF DeviceState
<1>8. \A x \in Counter : [d EXCEPT !.acks = x] \in DeviceState
  BY DEF DeviceState
<1>9. \A x \in Counter : [d EXCEPT !.commits = x] \in DeviceState
  BY DEF DeviceState
<1>10. \A x \in Counter : [d EXCEPT !.request = x] \in DeviceState
  BY DEF DeviceState
<1>11. \A x \in Seq(Slots \X Versions) : [d EXCEPT !.fifo = x] \in DeviceState
  BY DEF DeviceState
<1>12. \A x \in 0..MaxServes : [d EXCEPT !.serves = x] \in DeviceState
  BY DEF DeviceState
<1> QED
  BY <1>1, <1>2, <1>3, <1>4, <1>5, <1>6, <1>7, <1>8, <1>9, <1>10, <1>11, <1>12

(* A caller record with one field changed is a caller record.              *)
LEMMA CallerWith ==
  ASSUME NEW c \in CallerState
  PROVE  /\ \A x \in {"get", "remove", "flush", "close"} : [c EXCEPT !.op = x] \in CallerState
         /\ \A x \in {"drain", "answer", "read", "enter", "stop"} : [c EXCEPT !.step = x] \in CallerState
         /\ \A x \in Slots \cup {None} : [c EXCEPT !.slot = x] \in CallerState
         /\ \A x \in Versions : [c EXCEPT !.ver = x] \in CallerState
         /\ \A x \in Locations : [c EXCEPT !.at = x] \in CallerState
         /\ \A x \in {None} \cup Bytes : [c EXCEPT !.got = x] \in CallerState
         /\ \A x \in BOOLEAN : [c EXCEPT !.backed = x] \in CallerState
         /\ \A x \in 0..3 : [c EXCEPT !.attempt = x] \in CallerState
<1>1. \A x \in {"get", "remove", "flush", "close"} : [c EXCEPT !.op = x] \in CallerState
  BY DEF CallerState
<1>2. \A x \in {"drain", "answer", "read", "enter", "stop"} : [c EXCEPT !.step = x] \in CallerState
  BY DEF CallerState
<1>3. \A x \in Slots \cup {None} : [c EXCEPT !.slot = x] \in CallerState
  BY DEF CallerState
<1>4. \A x \in Versions : [c EXCEPT !.ver = x] \in CallerState
  BY DEF CallerState
<1>5. \A x \in Locations : [c EXCEPT !.at = x] \in CallerState
  BY DEF CallerState
<1>6. \A x \in {None} \cup Bytes : [c EXCEPT !.got = x] \in CallerState
  BY DEF CallerState
<1>7. \A x \in BOOLEAN : [c EXCEPT !.backed = x] \in CallerState
  BY DEF CallerState
<1>8. \A x \in 0..3 : [c EXCEPT !.attempt = x] \in CallerState
  BY DEF CallerState
<1> QED
  BY <1>1, <1>2, <1>3, <1>4, <1>5, <1>6, <1>7, <1>8


(* The scheduler's steps that move no data keep the types.                 *)
LEMMA DeviceTypes ==
  ASSUME TypeOK, Channel, Handshake, Tokens,
         \/ SkipStale \/ WriteThrough \/ ReadAck \/ ReadCommit \/ ServeRemove
         \/ Terminated
  PROVE  TypeOK'
<1>1. dev \in DeviceState /\ l1 \in SharedWords
  BY DEF TypeOK
<1>2. CASE SkipStale
  <2>1. Tail(dev.fifo) \in Seq(Slots \X Versions)
    BY <1>1, <1>2 DEF SkipStale, DeviceState
  <2>2. Inc(l1.committed) \in Counter
    BY <1>1, Increments DEF SharedWords
  <2>3. dev' \in DeviceState
    BY <1>1, <1>2, <2>1 DEF SkipStale, DeviceState
  <2>4. l1' \in SharedWords
    BY <1>1, <1>2, <2>2 DEF SkipStale, SharedWords
  <2> QED
    BY <1>2, <2>3, <2>4 DEF TypeOK, SkipStale
<1>3. CASE WriteThrough
  <2>1. Head(dev.fifo) \in Slots \X Versions
    BY <1>1, <1>3 DEF WriteThrough, DeviceState
  <2>2. Head(dev.fifo)[1] \in Slots /\ Head(dev.fifo)[2] \in Versions
    BY <2>1
  <2>3. Inc(l1.move) \in Counter
    BY <1>1, Increments DEF SharedWords
  <2>4. dev' \in DeviceState
    <3> DEFINE step == IF server.mapped THEN "ack" ELSE "drain"
               d1 == [dev EXCEPT !.step = step]
               d2 == [d1 EXCEPT !.op = "write"]
               d3 == [d2 EXCEPT !.slot = Head(dev.fifo)[1]]
               d4 == [d3 EXCEPT !.ver = Head(dev.fifo)[2]]
               d5 == [d4 EXCEPT !.chunk = 0]
    <3>1. d1 \in DeviceState
      BY <1>1, DeviceWith
    <3>2. d2 \in DeviceState
      BY <3>1, DeviceWith DEF Ops
    <3>3. d3 \in DeviceState
      BY <2>2, <3>2, DeviceWith
    <3>4. d4 \in DeviceState
      BY <2>2, <3>3, DeviceWith
    <3>5. d5 \in DeviceState
      <4>1. 0 \in 0..Chunks
        BY Constants
      <4> HIDE DEF d4
      <4> QED
        BY <3>4, <4>1, DeviceWith
    <3> QED
      BY <1>3, <3>5 DEF WriteThrough
  <2>5. l1' \in SharedWords
    BY <1>1, <1>3, <2>2, <2>3 DEF WriteThrough, Post, SharedWords, Ops
  <2> QED
    BY <1>3, <2>4, <2>5 DEF TypeOK, WriteThrough
<1>4. CASE ReadAck
  <2>1. dev' \in DeviceState
    <3> DEFINE d1 == [dev EXCEPT !.step = "push"]
               d2 == [d1 EXCEPT !.acks = l1.ack]
               d3 == [d2 EXCEPT !.unit = l1.ackUnit]
    <3>1. d1 \in DeviceState
      BY <1>1, DeviceWith
    <3>2. d2 \in DeviceState
      BY <1>1, <3>1, DeviceWith DEF SharedWords
    <3>3. d3 \in DeviceState
      BY <1>1, <3>2, DeviceWith DEF SharedWords
    <3> QED
      BY <1>4, <3>3 DEF ReadAck
  <2> QED
    BY <1>4, <2>1 DEF TypeOK, ReadAck
<1>5. CASE ReadCommit
  <2>1. dev' \in DeviceState
    <3> DEFINE d1 == [dev EXCEPT !.step = "stream"]
               d2 == [d1 EXCEPT !.commits = l1.commit]
               d3 == [d2 EXCEPT !.unit = l1.commitUnit]
               d4 == [d3 EXCEPT !.chunk = 0]
    <3>1. d1 \in DeviceState
      BY <1>1, DeviceWith
    <3>2. d2 \in DeviceState
      BY <1>1, <3>1, DeviceWith DEF SharedWords
    <3>3. d3 \in DeviceState
      BY <1>1, <3>2, DeviceWith DEF SharedWords
    <3>4. d4 \in DeviceState
      <4>1. 0 \in 0..Chunks
        BY Constants
      <4> HIDE DEF d3
      <4> QED
        BY <3>3, <4>1, DeviceWith
    <3> QED
      BY <1>5, <3>4 DEF ReadCommit
  <2> QED
    BY <1>5, <2>1 DEF TypeOK, ReadCommit
<1>6. CASE ServeRemove
  <2>1. Inc(l1.move) \in Counter /\ Inc(l1.done) \in Counter
    BY <1>1, Increments DEF SharedWords
  <2>2. dev' \in DeviceState
    <3> DEFINE d1 == [dev EXCEPT !.request = l1.request]
               d2 == [d1 EXCEPT !.step = "drain"]
               d3 == [d2 EXCEPT !.op = "remove"]
               d4 == [d3 EXCEPT !.slot = l1.mailbox]
    <3>1. d1 \in DeviceState
      BY <1>1, DeviceWith DEF SharedWords
    <3>2. d2 \in DeviceState
      BY <3>1, DeviceWith
    <3>3. d3 \in DeviceState
      BY <3>2, DeviceWith DEF Ops
    <3>4. d4 \in DeviceState
      BY <1>1, <3>3, DeviceWith DEF SharedWords
    <3>5. dev' = d1 \/ dev' = d4
      BY <1>6 DEF ServeRemove
    <3> QED
      BY <3>1, <3>4, <3>5
  <2>3. l1' \in SharedWords
    BY <1>1, <1>6, <2>1 DEF ServeRemove, Post, SharedWords, Ops
  <2>4. dir' \in [Slots -> {None} \cup Entry]
    BY <1>6 DEF ServeRemove, TypeOK
  <2> QED
    BY <1>6, <2>2, <2>3, <2>4 DEF TypeOK, ServeRemove
<1>7. CASE Terminated
  BY <1>7 DEF TypeOK, Terminated, ServerState
<1> QED
  BY <1>2, <1>3, <1>4, <1>5, <1>6, <1>7

(* The device's three data movements keep the types.                       *)
LEMMA TransferTypes ==
  ASSUME TypeOK, Channel, Handshake, Tokens, Push \/ Pull \/ Drain
  PROVE  TypeOK'
<1>1. dev \in DeviceState /\ l1 \in SharedWords
  BY DEF TypeOK
<1>2. dev.slot \in Slots
  BY DEF Channel, Push, Pull, Drain, Device
<1>3. CASE Push
  <2>1. Inc(l1.evicted) \in Counter
    BY <1>1, Increments DEF SharedWords
  <2>2. dev' \in DeviceState
    BY <1>1, <1>3 DEF Push, DeviceState
  <2>3. l1' \in SharedWords
    BY <1>1, <1>3, <2>1 DEF Push, SharedWords
  <2>4. [k \in 1..Chunks |-> heap[Base(dev.slot) + k - 1]] \in Bytes
    BY <1>2, ReadType DEF Bytes
  <2>5. ram' \in [Units \cup {None} -> Bytes]
    BY <1>3, <2>4 DEF Push, TypeOK
  <2> QED
    BY <1>3, <2>2, <2>3, <2>5 DEF TypeOK, Push
<1>4. CASE Pull
  <2> DEFINE g == [k \in 1..Chunks |->
                      IF k \notin (dev.chunk + 1)..Available
                      THEN dev.got[k]
                      ELSE IF server.mapped THEN ram[dev.unit][k]
                      ELSE heap[Base(dev.slot) + k - 1]]
             step == IF Available = Chunks THEN "drain" ELSE "stream"
  <2>1. /\ dev' = [dev EXCEPT !.chunk = Available, !.got = g, !.step = step]
        /\ l1' = [l1 EXCEPT !.pulled = Inc(l1.pulled)] \/ l1' = l1
        /\ UNCHANGED <<server, worker, dir, heap, values, free, ram, caller>>
    BY <1>4 DEF Pull
  <2>2. Available \in 0..Chunks
    BY <1>1, Constants DEF SharedWords, Available
  <2>3. g \in Bytes
    <3>1. ram[dev.unit] \in Bytes /\ dev.got \in Bytes
      BY <1>1 DEF TypeOK, DeviceState
    <3> QED
      BY <1>2, <3>1, ReadType DEF Bytes
  <2>4. Inc(l1.pulled) \in Counter
    BY <1>1, Increments DEF SharedWords
  <2>5. step \in {"drain", "stream"}
    OBVIOUS
  <2> HIDE DEF g, step
  <2>6. dev' \in DeviceState
    BY <1>1, <2>1, <2>2, <2>3, <2>5 DEF DeviceState
  <2>7. l1' \in SharedWords
    BY <1>1, <2>1, <2>4 DEF SharedWords
  <2> QED
    BY <2>1, <2>6, <2>7 DEF TypeOK
<1>5. CASE Drain
  <2>1. Inc(l1.committed) \in Counter /\ Inc(l1.done) \in Counter
    BY <1>1, Increments DEF SharedWords
  <2>2. l1' \in SharedWords
    BY <1>1, <1>5, <2>1 DEF Drain, SharedWords
  <2>3. dev' \in DeviceState
    <3>1. Whole(0) \in Bytes
      BY Constants, WholeType DEF Versions
    <3>2. dev.op = "write" => dev.fifo # <<>>
      BY DEF Tokens
    <3>3. dev.fifo \in Seq(Slots \X Versions)
      BY <1>1 DEF DeviceState
    <3>4. dev.op = "write" => Tail(dev.fifo) \in Seq(Slots \X Versions)
      BY <3>2, <3>3
    <3> DEFINE fifo == IF dev.op = "write" THEN Tail(dev.fifo) ELSE dev.fifo
    <3>5. fifo \in Seq(Slots \X Versions) /\ 0 \in Versions /\ 0 \in 0..Chunks
      BY <3>3, <3>4, Constants DEF Versions
    <3>6. dev' = [dev EXCEPT !.step = "loop", !.op = "none", !.slot = None,
                             !.ver = 0, !.unit = None, !.chunk = 0,
                             !.got = Whole(0), !.fifo = fifo]
      BY <1>5 DEF Drain
    <3> HIDE DEF fifo
    <3> DEFINE d1 == [dev EXCEPT !.step = "loop"]
               d2 == [d1 EXCEPT !.op = "none"]
               d3 == [d2 EXCEPT !.slot = None]
               d4 == [d3 EXCEPT !.ver = 0]
               d5 == [d4 EXCEPT !.unit = None]
               d6 == [d5 EXCEPT !.chunk = 0]
               d7 == [d6 EXCEPT !.got = Whole(0)]
               d8 == [d7 EXCEPT !.fifo = fifo]
    <3>7. d1 \in DeviceState
      BY <1>1, DeviceWith
    <3>8. d2 \in DeviceState
      BY <3>7, DeviceWith DEF Ops
    <3>9. d3 \in DeviceState
      BY <3>8, DeviceWith
    <3>10. d4 \in DeviceState
      BY <3>5, <3>9, DeviceWith
    <3>11. d5 \in DeviceState
      BY <3>10, DeviceWith
    <3>12. d6 \in DeviceState
      BY <3>5, <3>11, DeviceWith
    <3>13. d7 \in DeviceState
      BY <3>1, <3>12, DeviceWith
    <3>14. d8 \in DeviceState
      BY <3>5, <3>13, DeviceWith
    <3> QED
      BY <3>6, <3>14
  <2>4. dir' \in [Slots -> {None} \cup Entry]
    <3>1. dev.op \in {"write", "promote"} => dir[dev.slot] \in Entry
      BY <1>2, Constants DEF Tokens, TypeOK, Entry, Fetching, DeviceState,
         Locations
    <3> QED
      <4>1. \A e \in Entry : [e EXCEPT !.at = "Device"] \in Entry
        BY DEF Entry, Locations
      <4>2. dir' = IF dev.op \in {"write", "promote"}
                   THEN [dir EXCEPT ![dev.slot] =
                            [dir[dev.slot] EXCEPT !.at = "Device"]]
                   ELSE dir
        BY <1>5 DEF Drain
      <4> QED
        BY <3>1, <4>1, <4>2 DEF TypeOK
  <2>5. heap' \in [HeapUnits -> Versions]
    <3>1. \A u \in Base(dev.slot)..(Base(dev.slot) + Chunks - 1) :
              dev.got[u - Base(dev.slot) + 1] \in Versions
      <4>1. \A u \in Base(dev.slot)..(Base(dev.slot) + Chunks - 1) :
                u - Base(dev.slot) + 1 \in 1..Chunks
        BY <1>2, BaseIs, Constants
      <4> QED
        BY <1>1, <4>1 DEF DeviceState, Bytes
    <3> QED
      BY <1>5, <3>1 DEF Drain, TypeOK
  <2> QED
    BY <1>5, <2>2, <2>3, <2>4, <2>5 DEF TypeOK, Drain
<1> QED
  BY <1>3, <1>4, <1>5

(* PUTs, evictions, serves and promotions keep the types.                  *)
LEMMA RequestTypes ==
  ASSUME TypeOK, Channel, Handshake, Requests
  PROVE  TypeOK'
<1>1. dev \in DeviceState /\ l1 \in SharedWords
  BY DEF TypeOK
<1>2. ASSUME NEW s \in Slots, IssuePut(s)
      PROVE  TypeOK'
  <2>1. dev.puts + 1 \in Versions
    BY <1>1, <1>2, Constants DEF IssuePut, DeviceState, Versions
  <2>2. Append(dev.fifo, <<s, dev.puts + 1>>) \in Seq(Slots \X Versions)
    BY <1>1, <2>1 DEF DeviceState
  <2>3. dev' \in DeviceState
    BY <1>1, <1>2, <2>1, <2>2 DEF IssuePut, DeviceState
  <2>4. Inc(l1.issued) \in Counter
    BY <1>1, Increments DEF SharedWords
  <2>5. l1' \in SharedWords
    BY <1>1, <1>2, <2>4 DEF IssuePut, SharedWords
  <2>6. dir' \in [Slots -> {None} \cup Entry]
    BY <1>2, <2>1 DEF IssuePut, TypeOK, Entry, Locations
  <2>7. heap' \in [HeapUnits -> Versions]
    BY <1>2, <2>1 DEF IssuePut, TypeOK
  <2> QED
    BY <1>2, <2>3, <2>5, <2>6, <2>7 DEF TypeOK, IssuePut
<1>3. ASSUME NEW s \in Slots, Evict(s)
      PROVE  TypeOK'
  <2>1. dir' \in [Slots -> {None} \cup Entry]
    <3>1. dir[s] \in Entry
      BY <1>3 DEF Evict, TypeOK
    <3> QED
      BY <1>3, <3>1 DEF Evict, TypeOK, Entry, Locations
  <2>2. heap' \in [HeapUnits -> Versions]
    BY <1>3, Constants DEF Evict, TypeOK, Versions
  <2> QED
    BY <1>3, <2>1, <2>2 DEF TypeOK, Evict
<1>4. ASSUME NEW s \in Slots, NEW op \in {"serve", "promote"},
             FetchFromHost(op, s)
      PROVE  TypeOK'
  <2>1. dir[s] \in Entry /\ dir[s].ver \in Versions
    BY <1>4 DEF FetchFromHost, TypeOK, Entry
  <2>2. dev.serves + 1 \in 0..MaxServes
    BY <1>1, <1>4, Constants DEF FetchFromHost, DeviceState
  <2>3. Inc(l1.move) \in Counter
    BY <1>1, Increments DEF SharedWords
  <2>4. dev' \in DeviceState
    BY <1>1, <1>4, <2>1, <2>2 DEF FetchFromHost, DeviceState, Ops
  <2>5. l1' \in SharedWords
    BY <1>1, <1>4, <2>3 DEF FetchFromHost, Post, SharedWords, Ops
  <2> QED
    BY <1>4, <2>4, <2>5 DEF TypeOK, FetchFromHost
<1> QED
  BY <1>2, <1>3, <1>4 DEF Requests

(* A host thread between two operations is a caller record.                *)
LEMMA IdleType ==
  ASSUME NEW ops \in 0..MaxOps, NEW closes \in 0..MaxCloses
  PROVE  Idle(ops, closes) \in CallerState
BY Constants DEF Idle, CallerState, Counter, Versions

(* An operation that returns leaves a caller record.                       *)
LEMMA ReturnType ==
  ASSUME TypeOK, Return
  PROVE  caller' \in CallerState
BY IdleType DEF TypeOK, CallerState, Return

(* So does one that throws, whatever attempt of close it unwinds to.       *)
LEMMA ThrowType ==
  ASSUME TypeOK, Throw
  PROVE  caller' \in CallerState
<1>1. caller \in CallerState
  BY DEF TypeOK
<1>2. ASSUME caller' = [caller EXCEPT !.step = "stop", !.attempt = 3]
      PROVE  caller' \in CallerState
  <2> DEFINE c == [caller EXCEPT !.step = "stop"]
  <2>1. c \in CallerState
    BY <1>1, CallerWith
  <2>2. [c EXCEPT !.attempt = 3] \in CallerState
    <3>1. 3 \in 0..3
      OBVIOUS
    <3> HIDE DEF c
    <3> QED
      BY <2>1, <3>1, CallerWith
  <2> QED
    BY <1>2, <2>2
<1>3. ASSUME caller' = [caller EXCEPT !.step = "enter", !.attempt = 2]
      PROVE  caller' \in CallerState
  <2> DEFINE c == [caller EXCEPT !.step = "enter"]
  <2>1. c \in CallerState
    BY <1>1, CallerWith
  <2>2. [c EXCEPT !.attempt = 2] \in CallerState
    <3>1. 2 \in 0..3
      OBVIOUS
    <3> HIDE DEF c
    <3> QED
      BY <2>1, <3>1, CallerWith
  <2> QED
    BY <1>3, <2>2
<1> QED
  BY <1>2, <1>3, ReturnType DEF Throw

(* Entering a host operation keeps the types.                              *)
LEMMA CallTypes ==
  ASSUME TypeOK, Calls
  PROVE  TypeOK'
<1>1. caller \in CallerState
  BY DEF TypeOK
<1>2. ASSUME NEW op \in {"get", "remove", "flush"}, NEW s \in Slots \cup {None},
             Begin(op, s)
      PROVE  TypeOK'
  <2> DEFINE i == Idle(caller.ops + 1, caller.closes)
  <2>1. i \in CallerState
    <3>1. caller.ops + 1 \in 0..MaxOps /\ caller.closes \in 0..MaxCloses
      BY <1>1, <1>2, Constants DEF Begin, CallerState
    <3> QED
      BY <3>1, IdleType
  <2>2. caller' = [i EXCEPT !.op = op, !.slot = s, !.step = "drain"]
    BY <1>2 DEF Begin
  <2> HIDE DEF i
  <2> DEFINE c1 == [i EXCEPT !.op = op]
             c2 == [c1 EXCEPT !.slot = s]
             c3 == [c2 EXCEPT !.step = "drain"]
  <2>3. c1 \in CallerState
    BY <2>1, CallerWith
  <2>4. c2 \in CallerState
    BY <2>3, CallerWith
  <2>5. c3 \in CallerState
    BY <2>4, CallerWith
  <2>6. caller' \in CallerState
    BY <2>2, <2>5
  <2> QED
    BY <1>2, <2>6 DEF TypeOK, Begin, Others
<1>3. CASE BeginClose
  <2> DEFINE i == Idle(caller.ops, caller.closes + 1)
  <2>1. i \in CallerState
    <3>1. caller.ops \in 0..MaxOps /\ caller.closes + 1 \in 0..MaxCloses
      BY <1>1, <1>3, Constants DEF BeginClose, CallerState
    <3> QED
      BY <3>1, IdleType
  <2>2. caller' = [i EXCEPT !.op = "close", !.step = "enter", !.attempt = 1]
    BY <1>3 DEF BeginClose
  <2> HIDE DEF i
  <2> DEFINE c1 == [i EXCEPT !.op = "close"]
             c2 == [c1 EXCEPT !.step = "enter"]
             c3 == [c2 EXCEPT !.attempt = 1]
  <2>3. c1 \in CallerState
    BY <2>1, CallerWith
  <2>4. c2 \in CallerState
    BY <2>3, CallerWith
  <2>5. c3 \in CallerState
    <3>1. 1 \in 0..3
      OBVIOUS
    <3> HIDE DEF c2
    <3> QED
      BY <2>4, <3>1, CallerWith
  <2>6. caller' \in CallerState
    BY <2>2, <2>5
  <2> QED
    BY <1>3, <2>6 DEF TypeOK, BeginClose, Others
<1> QED
  BY <1>2, <1>3 DEF Calls

(* The drain and the diagnostics keep the types.                           *)
LEMMA CallerTypes ==
  ASSUME TypeOK, CallSteps,
         \/ Enter \/ DrainTarget \/ Drained \/ DrainThrows \/ Lookup
         \/ ReadValue \/ WriteMailbox \/ PostRequest
  PROVE  TypeOK'
<1>1. caller \in CallerState /\ l1 \in SharedWords
  BY DEF TypeOK
<1>2. CASE Enter
  BY <1>2 DEF TypeOK, Enter, Others, CallerTo, CallerState, ServerState
<1>3. CASE DrainTarget
  BY <1>3 DEF TypeOK, DrainTarget, Others, CallerState, SharedWords, DeviceState
<1>4. CASE Drained
  <2>1. caller' \in CallerState
    BY <1>1, <1>4 DEF Drained, CallerTo, CallerState
  <2> QED
    BY <1>4, <2>1 DEF TypeOK, Drained, Others
<1>5. CASE DrainThrows
  <2>1. caller' \in CallerState
    <3>1. ASSUME caller' = [caller EXCEPT !.step = "terminate"]
          PROVE  caller' \in CallerState
      BY <1>1, <3>1 DEF CallerState
    <3> QED
      BY <1>5, <3>1, ThrowType DEF DrainThrows, CallerTo
  <2>2. server' \in ServerState
    BY <1>5 DEF TypeOK, DrainThrows, Unready, ServerState
  <2> QED
    BY <1>5, <2>1, <2>2 DEF TypeOK, DrainThrows, Others
<1>6. CASE Lookup
  <2>1. caller.slot \in Slots
    BY <1>1, <1>6 DEF CallSteps, Lookup, Calling, Diagnosing, CallerState
  <2>2. dir[caller.slot] # None =>
            /\ dir[caller.slot].ver \in Versions
            /\ dir[caller.slot].at \in Locations
    BY <2>1 DEF TypeOK, Entry
  <2>3. caller' \in CallerState
    <3> DEFINE c1 == [caller EXCEPT !.step = "read"]
               c2 == [c1 EXCEPT !.ver = dir[caller.slot].ver]
               c3 == [c2 EXCEPT !.at = dir[caller.slot].at]
    <3>1. c1 \in CallerState /\ [caller EXCEPT !.step = "answer"] \in CallerState
      BY <1>1, CallerWith
    <3>2. dir[caller.slot] # None => c2 \in CallerState
      BY <2>2, <3>1, CallerWith
    <3>3. dir[caller.slot] # None => c3 \in CallerState
      BY <2>2, <3>2, CallerWith
    <3>4. IF ~Found(caller.slot) THEN caller' = [caller EXCEPT !.step = "answer"]
          ELSE caller' = c3
      BY <1>6 DEF Lookup
    <3> QED
      BY <3>1, <3>3, <3>4 DEF Found
  <2> QED
    BY <1>6, <2>3 DEF TypeOK, Lookup, Others
<1>7. CASE ReadValue
  <2> DEFINE bytes == IF caller.at # "Host" THEN ReadUnits(Base(caller.slot))
                      ELSE IF ~Backed(caller.slot) THEN None
                      ELSE HostBytes(caller.slot)
  <2>1. caller.slot \in Slots
    BY <1>1, <1>7 DEF CallSteps, ReadValue, Calling, Diagnosing, CallerState
  <2>2. bytes \in {None} \cup Bytes
    BY <2>1, ReadType, HostBytesType DEF Backed
  <2>3. Backed(caller.slot) \in BOOLEAN
    BY DEF Backed
  <2>4. caller' = [caller EXCEPT !.step = "answer", !.got = bytes,
                                 !.backed = Backed(caller.slot)]
    BY <1>7 DEF ReadValue, CallerState, TypeOK
  <2> HIDE DEF bytes
  <2>5. caller' \in CallerState
    <3> DEFINE c1 == [caller EXCEPT !.step = "answer"]
               c2 == [c1 EXCEPT !.got = bytes]
               c3 == [c2 EXCEPT !.backed = Backed(caller.slot)]
    <3>1. c1 \in CallerState
      BY <1>1, CallerWith
    <3>2. c2 \in CallerState
      BY <2>2, <3>1, CallerWith
    <3>3. c3 \in CallerState
      BY <2>3, <3>2, CallerWith
    <3> QED
      BY <2>4, <3>3
  <2> QED
    BY <1>7, <2>5 DEF TypeOK, ReadValue, Others
<1>8. CASE WriteMailbox
  <2>1. Inc(l1.request) \in Counter
    BY <1>1, Increments DEF SharedWords
  <2>2. caller' \in CallerState
    BY <1>1, <1>8, <2>1 DEF WriteMailbox, CallerState
  <2>3. l1' \in SharedWords
    BY <1>1, <1>8 DEF WriteMailbox, CallerState, SharedWords
  <2> QED
    BY <1>8, <2>2, <2>3 DEF TypeOK, WriteMailbox
<1>9. CASE PostRequest
  <2>1. caller' \in CallerState
    BY <1>1, <1>9 DEF PostRequest, CallerTo, CallerState
  <2>2. l1' \in SharedWords
    BY <1>1, <1>9 DEF PostRequest, CallerState, SharedWords
  <2> QED
    BY <1>9, <2>1, <2>2 DEF TypeOK, PostRequest
<1> QED
  BY <1>2, <1>3, <1>4, <1>5, <1>6, <1>7, <1>8, <1>9

(* Answers, and the steps of close and Join, keep the types.               *)
LEMMA EndingTypes ==
  ASSUME TypeOK,
         \/ Removed \/ RemoveThrows \/ Answer \/ Signal \/ Finish
         \/ FinishThrows \/ StopWorker \/ Join
  PROVE  TypeOK'
<1>1. caller \in CallerState /\ server \in ServerState
  BY DEF TypeOK
<1>2. CASE Removed
  <2>1. caller' \in CallerState
    BY <1>1, <1>2 DEF Removed, CallerTo, CallerState
  <2> QED
    BY <1>2, <2>1 DEF TypeOK, Removed, Others
<1>3. CASE RemoveThrows
  <2>1. caller' \in CallerState
    BY <1>3, ThrowType DEF RemoveThrows
  <2> QED
    BY <1>3, <2>1 DEF TypeOK, RemoveThrows, Others
<1>4. CASE Answer
  <2>1. caller' \in CallerState
    BY <1>4, ReturnType DEF Answer
  <2> QED
    BY <1>4, <2>1 DEF TypeOK, Answer, Others
<1>5. CASE Signal
  <2>1. caller' \in CallerState
    BY <1>1, <1>5 DEF Signal, CallerTo, CallerState
  <2>2. server' \in ServerState
    BY <1>1, <1>5 DEF Signal, ServerState
  <2> QED
    BY <1>5, <2>1, <2>2 DEF TypeOK, Signal, Others
<1>6. CASE Finish
  <2>1. caller' \in CallerState
    BY <1>1, <1>6 DEF Finish, CallerTo, CallerState
  <2>2. server' \in ServerState
    BY <1>1, <1>6 DEF Finish, ServerState
  <2> QED
    BY <1>6, <2>1, <2>2 DEF TypeOK, Finish, Others
<1>7. CASE FinishThrows
  <2>1. caller' \in CallerState
    BY <1>7, ThrowType DEF FinishThrows
  <2>2. server' \in ServerState
    BY <1>1, <1>7 DEF FinishThrows, ServerState
  <2> QED
    BY <1>7, <2>1, <2>2 DEF TypeOK, FinishThrows, Others
<1>8. CASE StopWorker
  <2>1. caller' \in CallerState
    BY <1>1, <1>8 DEF StopWorker, CallerTo, CallerState
  <2>2. worker' \in WorkerState
    BY <1>8 DEF TypeOK, StopWorker, WorkerState
  <2> QED
    BY <1>8, <2>1, <2>2 DEF TypeOK, StopWorker
<1>9. CASE Join
  <2>1. caller' \in CallerState
    BY <1>9, ReturnType DEF Join
  <2>2. server' \in ServerState
    BY <1>1, <1>9 DEF Join, ServerState
  <2>3. values' \in [Slots -> {None} \cup HostValue] /\ free' \subseteq Units
    BY <1>9 DEF Join, TypeOK
  <2> QED
    BY <1>9, <2>1, <2>2, <2>3 DEF TypeOK, Join
<1> QED
  BY <1>2, <1>3, <1>4, <1>5, <1>6, <1>7, <1>8, <1>9


(* Every step keeps the types.                                             *)
LEMMA TypesStep ==
  ASSUME TypeOK, CallSteps, Channel, Handshake, Tokens, [Next]_vars
  PROVE  TypeOK'
<1>1. CASE Construction
  BY <1>1, ConstructionTypes
<1>2. CASE WorkerStep \/ Raise
  BY <1>2, WorkerTypes, ValueTypes DEF WorkerStep
<1>3. CASE DeviceStep
  BY <1>3, DeviceTypes, TransferTypes DEF DeviceStep
<1>4. CASE Requests
  BY <1>4, RequestTypes
<1>5. CASE Calls
  BY <1>5, CallTypes
<1>6. CASE CallerStep \/ FinishThrows
  BY <1>6, CallerTypes, EndingTypes DEF CallerStep
<1>7. CASE UNCHANGED vars
  BY <1>7 DEF TypeOK, vars
<1> QED
  BY <1>1, <1>2, <1>3, <1>4, <1>5, <1>6, <1>7 DEF Next

----------------------------------------------------------------------------
(* Users.                                                                  *)

(* The worker of a Server that is not usable does not run: its thread is   *)
(* not started, still gated, or has ended.                                 *)
LEMMA WorkersOfTheReady ==
  ASSUME TypeOK, Users, worker.step \notin {"none", "gated", "exited"}
  PROVE  server.life \in {"Ready", "Closing"}
BY DEF TypeOK, ServerState, Users

(* Construction keeps the life of the memory.                              *)
LEMMA UsersConstruction ==
  ASSUME TypeOK, TypeOK', Users, CallSteps, Construction
  PROVE  Users'
<1>1. caller' = caller /\ (caller.step = "idle" \/ server.life \in {"Ready", "Closing"})
  BY DEF Users, Construction, Construct, LaunchFails, LaunchOutcomeUnknown,
     Launch
<1>2. CASE Construct
  BY <1>1, <1>2 DEF Users, Construct, TypeOK, ServerState, WorkerState
<1>3. CASE LaunchFails
  BY <1>1, <1>3 DEF Users, LaunchFails, TypeOK, ServerState, WorkerState
<1>4. CASE LaunchOutcomeUnknown
  BY <1>1, <1>4 DEF Users, LaunchOutcomeUnknown, TypeOK, ServerState,
     WorkerState
<1>5. CASE Launch
  BY <1>1, <1>5 DEF Users, Launch, TypeOK, ServerState, WorkerState
<1> QED
  BY <1>2, <1>3, <1>4, <1>5 DEF Construction

(* What the steps of the worker have in common.                            *)
LEMMA WorkerMoves ==
  ASSUME TypeOK, WorkerStep \/ Raise
  PROVE  /\ worker.step \notin {"none", "gated", "exited"}
         /\ worker'.step \notin {"none", "gated"}
         /\ server' = server /\ caller' = caller
<1> USE DEF Working, WorkerTo, TypeOK, WorkerState
<1>1. CASE Poll \/ Reserve \/ Acknowledge \/ Pushed \/ AbandonPush
  BY <1>1 DEF Poll, Reserve, Acknowledge, Pushed, AbandonPush
<1>2. CASE Publish \/ Copy \/ Drop \/ Source \/ ResetProgress
  BY <1>2 DEF Publish, Copy, Drop, Source, ResetProgress
<1>3. CASE Stage \/ PostCommit \/ Stream
  BY <1>3 DEF Stage, PostCommit, Stream
<1>4. CASE Pulled \/ Finished \/ Stopped \/ Raise
  BY <1>4 DEF Pulled, Finished, Stopped, Raise
<1> QED
  BY <1>1, <1>2, <1>3, <1>4 DEF WorkerStep

(* What the steps of the device have in common.                            *)
LEMMA DeviceMoves ==
  ASSUME DeviceStep \/ Requests
  PROVE  /\ server.kernel = "running"
         /\ worker' = worker /\ values' = values /\ free' = free
         /\ caller' = caller
         /\ ~Terminated => server' = server
<1> USE DEF Device
<1>1. CASE SkipStale \/ WriteThrough \/ ReadAck \/ Push \/ Drain
  BY <1>1 DEF SkipStale, WriteThrough, ReadAck, Push, Drain
<1>2. CASE ReadCommit \/ Pull \/ ServeRemove \/ Terminated
  BY <1>2 DEF ReadCommit, Pull, ServeRemove, Terminated
<1>3. CASE Requests
  BY <1>3 DEF Requests, IssuePut, Evict, FetchFromHost
<1> QED
  BY <1>1, <1>2, <1>3 DEF DeviceStep

(* The worker and the device keep it.                                      *)
LEMMA UsersRuntime ==
  ASSUME TypeOK, TypeOK', Users, CallSteps,
         WorkerStep \/ Raise \/ DeviceStep \/ Requests
  PROVE  Users'
<1>1. CASE WorkerStep \/ Raise
  <2>1. /\ server.life \in {"Ready", "Closing"}
        /\ worker'.step \notin {"none", "gated"}
        /\ server' = server /\ caller' = caller
    BY <1>1, WorkerMoves, WorkersOfTheReady
  <2> QED
    BY <2>1 DEF Users
<1>2. CASE (DeviceStep \/ Requests) /\ ~Terminated
  BY <1>2, DeviceMoves DEF Users
<1>3. CASE Terminated
  BY <1>3 DEF Users, Terminated, TypeOK, ServerState
<1> QED
  BY <1>1, <1>2, <1>3

(* An operation that throws ends, or close goes on to its next attempt.    *)
LEMMA ThrowMoves ==
  ASSUME TypeOK, Throw
  PROVE  \/ caller' = Idle(caller.ops, caller.closes)
         \/ /\ caller.op = "close"
            /\ caller' = [caller EXCEPT !.step = "enter", !.attempt = 2]
         \/ caller' = [caller EXCEPT !.step = "stop", !.attempt = 3]
BY DEF Throw, Return

(* The fields of the caller after a throw.                                 *)
LEMMA ThrowFields ==
  ASSUME TypeOK, CallSteps, Throw
  PROVE  \/ /\ caller'.step = "idle" /\ caller'.op = "none" /\ caller'.slot = None
            /\ caller'.attempt = 0 /\ caller'.drained = 0
         \/ /\ caller.op = "close" /\ caller'.step = "enter"
            /\ caller'.op = caller.op /\ caller'.slot = caller.slot
            /\ caller'.drained = caller.drained
         \/ /\ caller.op = "close" /\ caller'.step = "stop" /\ caller'.attempt = 3
            /\ caller'.op = caller.op /\ caller'.slot = caller.slot
            /\ caller'.drained = caller.drained
<1>1. caller \in CallerState
  BY DEF TypeOK
<1>2. ASSUME caller' = Idle(caller.ops, caller.closes)
      PROVE  /\ caller'.step = "idle" /\ caller'.op = "none" /\ caller'.slot = None
             /\ caller'.attempt = 0 /\ caller'.drained = 0
  BY <1>2 DEF Idle
<1>3. ASSUME caller' = [caller EXCEPT !.step = "enter", !.attempt = 2]
      PROVE  /\ caller'.step = "enter" /\ caller'.op = caller.op
             /\ caller'.slot = caller.slot /\ caller'.drained = caller.drained
  BY <1>1, <1>3 DEF CallerState
<1>4. ASSUME caller' = [caller EXCEPT !.step = "stop", !.attempt = 3]
      PROVE  /\ caller'.step = "stop" /\ caller'.attempt = 3
             /\ caller'.op = caller.op
             /\ caller'.slot = caller.slot /\ caller'.drained = caller.drained
  BY <1>1, <1>4 DEF CallerState
<1>5. caller' = [caller EXCEPT !.step = "stop", !.attempt = 3] => caller.op = "close"
  <2>1. caller.attempt = 2 => caller.op = "close"
    BY DEF CallSteps
  <2>2. caller.attempt # 2 => caller'.step \in {"idle", "enter"}
    BY <1>2, <1>3 DEF Throw, Return
  <2> QED
    BY <1>4, <2>1, <2>2
<1> QED
  BY <1>2, <1>3, <1>4, <1>5, ThrowMoves

(* Operations, close and teardown keep the life of the memory.             *)
LEMMA UsersCaller ==
  ASSUME TypeOK, TypeOK', Users, CallSteps, Calls \/ CallerStep \/ FinishThrows
  PROVE  Users'
<1> USE DEF Calling, CallerTo, Others
<1>1. caller \in CallerState /\ server \in ServerState
  BY DEF TypeOK
<1>2. CASE Calls
  BY <1>1, <1>2
     DEF Users, Calls, Begin, BeginClose, CheckReady, Idle, ServerState
<1>3. CASE Enter
  BY <1>1, <1>3 DEF Users, Enter, CallerState, ServerState
<1>4. CASE DrainTarget \/ Drained \/ Lookup \/ ReadValue
  <2>1. /\ server' = server /\ worker' = worker /\ free' = free
        /\ caller.step # "idle" /\ caller'.step \notin {"stop", "join"}
    BY <1>1, <1>4
       DEF DrainTarget, Drained, Lookup, ReadValue, CallerState
  <2> QED
    BY <2>1 DEF Users
<1>5. CASE DrainThrows
  <2>1. /\ worker' = worker /\ free' = free /\ caller.step # "idle"
        /\ server' = server \/ server' = [server EXCEPT !.life = "Ready"]
    BY <1>5 DEF DrainThrows, Unready
  <2>2. caller'.step \in {"stop", "join"} => caller'.attempt = 3
    BY <1>1, <1>5, ThrowFields DEF DrainThrows, CallerState
  <2> QED
    BY <1>1, <2>1, <2>2 DEF Users, ServerState
<1>6. CASE WriteMailbox \/ PostRequest \/ Removed
  <2>1. /\ server' = server /\ worker' = worker /\ free' = free
        /\ caller.step # "idle" /\ caller'.step \notin {"stop", "join"}
    BY <1>1, <1>6 DEF WriteMailbox, PostRequest, Removed, CallerState
  <2> QED
    BY <2>1 DEF Users
<1>7. CASE RemoveThrows \/ Answer
  <2>1. /\ server' = server /\ worker' = worker /\ free' = free
        /\ caller.step # "idle"
    BY <1>7 DEF RemoveThrows, Answer
  <2>2. caller'.step \in {"stop", "join"} => caller'.attempt = 3
    BY <1>1, <1>7, ThrowFields DEF RemoveThrows, Answer, Return, Idle
  <2> QED
    BY <2>1, <2>2 DEF Users
<1>8. CASE Signal
  BY <1>1, <1>8 DEF Users, Signal, CallerState, ServerState
<1>9. CASE Finish
  BY <1>1, <1>9 DEF Users, Finish, CallerState, ServerState
<1>10. CASE FinishThrows
  <2>1. /\ worker' = worker /\ free' = free /\ caller.step # "idle"
        /\ \E r \in BOOLEAN : server' = [server EXCEPT !.running = r]
    BY <1>1, <1>10 DEF FinishThrows, ServerState
  <2>2. caller'.step \in {"stop", "join"} => caller'.attempt = 3
    BY <1>1, <1>10, ThrowFields DEF FinishThrows
  <2> QED
    BY <1>1, <2>1, <2>2 DEF Users, ServerState
<1>11. CASE StopWorker
  BY <1>1, <1>11 DEF Users, StopWorker, CallerState, TypeOK, WorkerState
<1>12. CASE Join
  BY <1>1, <1>12 DEF Users, Join, Return, Idle, ServerState
<1> QED
  BY <1>2, <1>3, <1>4, <1>5, <1>6, <1>7, <1>8, <1>9, <1>10, <1>11, <1>12
     DEF CallerStep

(* Every step does.                                                        *)
LEMMA UsersStep ==
  ASSUME TypeOK, TypeOK', Users, CallSteps, [Next]_vars
  PROVE  Users'
<1>1. CASE UNCHANGED vars
  BY <1>1 DEF Users, vars
<1> QED
  BY <1>1, UsersConstruction, UsersRuntime, UsersCaller DEF Next

(* Every step keeps a host operation on its own path.                      *)
LEMMA CallsStep ==
  ASSUME TypeOK, TypeOK', CallSteps, [Next]_vars
  PROVE  CallSteps'
<1> USE DEF Calling, CallerTo, CallSteps, Diagnosing
<1>1. caller \in CallerState /\ caller' \in CallerState
  BY DEF TypeOK
<1>2. CASE Calls
  <2>1. ASSUME NEW op \in {"get", "remove"}, NEW s \in Slots, Begin(op, s)
        PROVE  CallSteps'
    BY <2>1 DEF Begin, Idle
  <2>2. CASE Begin("flush", None)
    BY <2>2 DEF Begin, Idle
  <2>3. CASE BeginClose
    BY <2>3 DEF BeginClose, Idle
  <2> QED
    BY <1>2, <2>1, <2>2, <2>3 DEF Calls
<1>3. CASE Enter \/ DrainTarget
  BY <1>1, <1>3 DEF Enter, DrainTarget, CallerState
<1>4. CASE Drained
  BY <1>1, <1>4 DEF Drained, CallerState
<1>5. CASE Throw
  <2>1. CASE caller'.step = "idle" /\ caller'.op = "none" /\ caller'.slot = None
             /\ caller'.attempt = 0
    BY <2>1
  <2>2. CASE caller'.op = "close" /\ caller'.step \in {"enter", "stop"}
    BY <2>2
  <2> QED
    BY <1>5, <2>1, <2>2, ThrowFields
<1>6. CASE caller.op = "close" /\ CallerTo("terminate")
  BY <1>1, <1>6 DEF CallerState
<1>7. CASE Lookup \/ ReadValue
  BY <1>1, <1>7 DEF Lookup, ReadValue, CallerState
<1>8. CASE WriteMailbox \/ PostRequest \/ Removed
  BY <1>1, <1>8 DEF WriteMailbox, PostRequest, Removed, CallerState
<1>9. CASE Return
  BY <1>9 DEF Return, Idle
<1>10. CASE Signal \/ Finish \/ StopWorker
  BY <1>1, <1>10 DEF Signal, Finish, StopWorker, CallerState
<1>11. CASE CallerStep \/ FinishThrows
  BY <1>3, <1>4, <1>5, <1>6, <1>7, <1>8, <1>9, <1>10, <1>11
     DEF CallerStep, FinishThrows, DrainThrows, RemoveThrows, Answer, Join
<1>12. CASE WorkerStep \/ Raise
  BY <1>12, WorkerMoves
<1>13. CASE DeviceStep \/ Requests
  BY <1>13, DeviceMoves
<1>14. CASE Construction
  BY <1>14 DEF Construction, Construct, LaunchFails, LaunchOutcomeUnknown,
     Launch
<1>15. CASE UNCHANGED vars
  BY <1>15 DEF vars
<1> QED
  BY <1>2, <1>11, <1>12, <1>13, <1>14, <1>15 DEF Next


----------------------------------------------------------------------------
(* The handshake.                                                          *)

(* Every step of the worker keeps the handshake.                           *)
LEMMA HandshakeByWorker ==
  ASSUME TypeOK, Users, Mailbox, Channel, Words, Handshake,
         Poll \/ Reserve \/ Acknowledge \/ Pushed \/ AbandonPush \/ Publish
         \/ Copy \/ Drop \/ Source \/ ResetProgress \/ Stage \/ PostCommit
         \/ Stream \/ Pulled \/ Finished \/ Stopped \/ Raise
  PROVE  Channel' /\ Words' /\ Handshake'
<1> USE DEF Working, WorkerTo, Device, ChannelIdle, Post
<1>1. CASE Poll
  <2>1. Channel'
    BY <1>1, Increments DEF TypeOK, WorkerState, SharedWords, Channel, Poll,
       Handshake, Counts, Partners, Busy, Alive, Fetching
  <2>2. Words'
    BY <1>1, Increments DEF TypeOK, WorkerState, SharedWords, Words,
       Handshake, Counts, Channel, Partners, Alive, Poll
  <2>3. Handshake'
    BY <1>1, Increments DEF TypeOK, WorkerState, SharedWords, Handshake,
       Counts, Partners, Requested, Busy, Alive, Fused, Fetching, Channel,
       Words, Users, Poll
  <2> QED
    BY <2>1, <2>2, <2>3
<1>2. CASE Reserve
  <2>1. Channel'
    BY <1>2, Increments DEF TypeOK, WorkerState, SharedWords, Channel,
       Reserve, Handshake, Counts, Partners, Busy, Alive, Fetching
  <2>2. Words'
    BY <1>2, Increments DEF TypeOK, WorkerState, SharedWords, Words,
       Handshake, Counts, Channel, Partners, Alive, Reserve
  <2>3. Handshake'
    BY <1>2, Increments DEF TypeOK, WorkerState, SharedWords, Handshake,
       Counts, Partners, Requested, Busy, Alive, Fused, Fetching, Channel,
       Words, Users, Reserve
  <2> QED
    BY <2>1, <2>2, <2>3
<1>3. CASE Acknowledge
  <2>1. Channel'
    BY <1>3, Increments DEF TypeOK, WorkerState, SharedWords, Channel,
       Acknowledge, Handshake, Counts, Partners, Busy, Alive, Fetching
  <2>2. Words'
    BY <1>3, Increments DEF TypeOK, WorkerState, SharedWords, Words,
       Handshake, Counts, Channel, Partners, Alive, Acknowledge
  <2>3. Handshake'
    BY <1>3, Increments DEF TypeOK, WorkerState, SharedWords, Handshake,
       Counts, Partners, Requested, Busy, Alive, Fused, Fetching, Channel,
       Words, Users, Acknowledge
  <2> QED
    BY <2>1, <2>2, <2>3
<1>4. CASE Pushed
  <2>1. Channel'
    BY <1>4, Increments DEF TypeOK, WorkerState, Channel, Pushed, Handshake,
       Counts, Partners, Busy, Alive, Fetching
  <2>2. Words'
    BY <1>4, Increments DEF TypeOK, WorkerState, Words, Handshake, Counts,
       Channel, Partners, Alive, Pushed
  <2>3. Handshake'
    BY <1>4, Increments DEF TypeOK, WorkerState, Handshake, Counts, Partners,
       Requested, Busy, Alive, Fused, Fetching, Channel, Words, Users, Pushed
  <2> QED
    BY <2>1, <2>2, <2>3
<1>5. CASE AbandonPush
  <2>1. Channel'
    BY <1>5, Increments DEF TypeOK, WorkerState, Channel, AbandonPush,
       Handshake, Counts, Partners, Busy, Alive, Fetching
  <2>2. Words'
    BY <1>5, Increments DEF TypeOK, WorkerState, Words, Handshake, Counts,
       Channel, Partners, Alive, AbandonPush
  <2>3. Handshake'
    BY <1>5, Increments DEF TypeOK, WorkerState, Handshake, Counts, Partners,
       Requested, Busy, Alive, Fused, Fetching, Channel, Words, Users,
       AbandonPush
  <2> QED
    BY <2>1, <2>2, <2>3
<1>6. CASE Publish
  <2>1. Channel'
    BY <1>6, Increments DEF TypeOK, WorkerState, Channel, Publish, Handshake,
       Counts, Partners, Busy, Alive, Fetching
  <2>2. Words'
    BY <1>6, Increments DEF TypeOK, WorkerState, Words, Handshake, Counts,
       Channel, Partners, Alive, Publish
  <2>3. Handshake'
    BY <1>6, Increments DEF TypeOK, WorkerState, Handshake, Counts, Partners,
       Requested, Busy, Alive, Fused, Fetching, Channel, Words, Users, Publish
  <2> QED
    BY <2>1, <2>2, <2>3
<1>7. CASE Copy
  <2>1. Channel'
    BY <1>7, Increments DEF TypeOK, WorkerState, Channel, Copy, Handshake,
       Counts, Partners, Busy, Alive, Fetching
  <2>2. Words'
    BY <1>7, Increments DEF TypeOK, WorkerState, Words, Handshake, Counts,
       Channel, Partners, Alive, Copy
  <2>3. Handshake'
    BY <1>7, Increments DEF TypeOK, WorkerState, Handshake, Counts, Partners,
       Requested, Busy, Alive, Fused, Fetching, Channel, Words, Users, Copy
  <2> QED
    BY <2>1, <2>2, <2>3
<1>8. CASE Drop
  <2>1. Channel'
    BY <1>8, Increments DEF TypeOK, WorkerState, Channel, Drop, Handshake,
       Counts, Partners, Busy, Alive, Fetching
  <2>2. Words'
    BY <1>8, Increments DEF TypeOK, WorkerState, Words, Handshake, Counts,
       Channel, Partners, Alive, Drop
  <2>3. Handshake'
    BY <1>8, Increments DEF TypeOK, WorkerState, Handshake, Counts, Partners,
       Requested, Busy, Alive, Fused, Fetching, Channel, Words, Users, Drop
  <2> QED
    BY <2>1, <2>2, <2>3
<1>9. CASE Source
  <2>1. Channel'
    BY <1>9, Increments DEF TypeOK, WorkerState, Channel, Source, Handshake,
       Counts, Partners, Busy, Alive, Fetching
  <2>2. Words'
    BY <1>9, Increments DEF TypeOK, WorkerState, Words, Handshake, Counts,
       Channel, Partners, Alive, Source
  <2>3. Handshake'
    BY <1>9, Increments DEF TypeOK, WorkerState, Handshake, Counts, Partners,
       Requested, Busy, Alive, Fused, Fetching, Channel, Words, Users, Source
  <2> QED
    BY <2>1, <2>2, <2>3
<1>10. CASE ResetProgress
  <2>1. Channel'
    BY <1>10, Increments DEF TypeOK, WorkerState, SharedWords, Channel,
       ResetProgress, Handshake, Counts, Partners, Busy, Alive, Fetching
  <2>2. Words'
    BY <1>10, Increments DEF TypeOK, WorkerState, SharedWords, Words,
       Handshake, Counts, Channel, Partners, Alive, ResetProgress
  <2>3. Handshake'
    BY <1>10, Increments DEF TypeOK, WorkerState, SharedWords, Handshake,
       Counts, Partners, Requested, Busy, Alive, Fused, Fetching, Channel,
       Words, Users, ResetProgress
  <2> QED
    BY <2>1, <2>2, <2>3
<1>11. CASE Stage
  <2>1. Channel'
    BY <1>11, Increments DEF TypeOK, WorkerState, Channel, Stage, Handshake,
       Counts, Partners, Busy, Alive, Fetching
  <2>2. Words'
    BY <1>11, Increments DEF TypeOK, WorkerState, Words, Handshake, Counts,
       Channel, Partners, Alive, Stage
  <2>3. Handshake'
    BY <1>11, Increments DEF TypeOK, WorkerState, Handshake, Counts, Partners,
       Requested, Busy, Alive, Fused, Fetching, Channel, Words, Users, Stage
  <2> QED
    BY <2>1, <2>2, <2>3
<1>12. CASE PostCommit
  <2>1. Channel'
    BY <1>12, Increments DEF TypeOK, WorkerState, SharedWords, Channel,
       PostCommit, Handshake, Counts, Partners, Busy, Alive, Fetching
  <2>2. Words'
    BY <1>12, Increments DEF TypeOK, WorkerState, SharedWords, Words,
       Handshake, Counts, Channel, Partners, Alive, PostCommit
  <2>3. Handshake'
    <3>1. /\ dev.step = "pull" /\ Fetching /\ l1.commit = dev.commits
          /\ worker.commits = Inc(l1.commit) /\ worker.commits # dev.commits
          /\ l1.move # l1.processed
          /\ worker.op = dev.op /\ worker.slot = dev.slot
          /\ worker.seen = l1.processed /\ worker.evicts = l1.ack
          /\ l1.ack = dev.acks /\ (Fused => l1.progress = 0)
      BY <1>12, Increments
         DEF PostCommit, TypeOK, WorkerState, SharedWords, DeviceState,
             Handshake, Counts, Partners, Requested, Busy, Alive
    <3>2. /\ worker' = [worker EXCEPT !.step = IF Fused THEN "stream" ELSE "pull"]
          /\ l1' = [l1 EXCEPT !.commitUnit = worker.unit,
                              !.commit = worker.commits]
          /\ dev' = dev /\ server' = server
      BY <1>12 DEF PostCommit
    <3>3. /\ worker'.step = IF Fused THEN "stream" ELSE "pull"
          /\ worker'.op = worker.op /\ worker'.slot = worker.slot
          /\ worker'.seen = worker.seen /\ worker'.evicts = worker.evicts
          /\ worker'.commits = worker.commits
          /\ l1'.commit = worker.commits /\ l1'.move = l1.move
          /\ l1'.processed = l1.processed /\ l1'.ack = l1.ack
          /\ l1'.progress = l1.progress
      BY <3>2 DEF TypeOK, WorkerState, SharedWords
    <3>4. Fused' <=> Fused
      BY <3>2, <3>3 DEF Fused
    <3> QED
      BY <3>1, <3>2, <3>3, <3>4, Constants
         DEF Handshake, Counts, Partners, Requested, Busy, Alive, Fused, Fetching
  <2> QED
    BY <2>1, <2>2, <2>3
<1>13. CASE Stream
  <2>1. Channel'
    BY <1>13, Increments DEF TypeOK, WorkerState, SharedWords, Channel,
       Stream, Handshake, Counts, Partners, Busy, Alive, Fetching
  <2>2. Words'
    BY <1>13, Increments DEF TypeOK, WorkerState, SharedWords, Words,
       Handshake, Counts, Channel, Partners, Alive, Stream
  <2>3. Handshake'
    BY <1>13, Increments DEF TypeOK, WorkerState, SharedWords, Handshake,
       Counts, Partners, Requested, Busy, Alive, Fused, Fetching, Channel,
       Words, Users, Stream
  <2> QED
    BY <2>1, <2>2, <2>3
<1>14. CASE Pulled
  <2>1. Channel'
    BY <1>14, Increments DEF TypeOK, WorkerState, Channel, Pulled, Handshake,
       Counts, Partners, Busy, Alive, Fetching
  <2>2. Words'
    BY <1>14, Increments DEF TypeOK, WorkerState, Words, Handshake, Counts,
       Channel, Partners, Alive, Pulled
  <2>3. Handshake'
    BY <1>14, Increments DEF TypeOK, WorkerState, Handshake, Counts, Partners,
       Requested, Busy, Alive, Fused, Fetching, Channel, Words, Users, Pulled
  <2> QED
    BY <2>1, <2>2, <2>3
<1>15. CASE Finished
  <2>1. Channel'
    BY <1>15, Increments DEF TypeOK, WorkerState, SharedWords, Channel,
       Finished, Handshake, Counts, Partners, Busy, Alive, Fetching
  <2>2. Words'
    BY <1>15, Increments DEF TypeOK, WorkerState, SharedWords, Words,
       Handshake, Counts, Channel, Partners, Alive, Finished
  <2>3. Handshake'
    BY <1>15, Increments DEF TypeOK, WorkerState, SharedWords, Handshake,
       Counts, Partners, Requested, Busy, Alive, Fused, Fetching, Channel,
       Words, Users, Finished
  <2> QED
    BY <2>1, <2>2, <2>3
<1>16. CASE Stopped
  <2>1. Channel'
    BY <1>16, Increments DEF TypeOK, WorkerState, Channel, Stopped, Handshake,
       Counts, Partners, Busy, Alive, Fetching
  <2>2. Words'
    BY <1>16, Increments DEF TypeOK, WorkerState, Words, Handshake, Counts,
       Channel, Partners, Alive, Stopped
  <2>3. Handshake'
    BY <1>16, Increments DEF TypeOK, WorkerState, Handshake, Counts, Partners,
       Requested, Busy, Alive, Fused, Fetching, Channel, Words, Users, Stopped
  <2> QED
    BY <2>1, <2>2, <2>3
<1>17. CASE Raise
  <2>1. Channel'
    BY <1>17, Increments DEF TypeOK, WorkerState, Channel, Raise, Handshake,
       Counts, Partners, Busy, Alive, Fetching
  <2>2. Words'
    BY <1>17, Increments DEF TypeOK, WorkerState, Words, Handshake, Counts,
       Channel, Partners, Alive, Raise
  <2>3. Handshake'
    BY <1>17, Increments DEF TypeOK, WorkerState, Handshake, Counts, Partners,
       Requested, Busy, Alive, Fused, Fetching, Channel, Words, Users, Raise
  <2> QED
    BY <2>1, <2>2, <2>3
<1> QED
  BY <1>1, <1>2, <1>3, <1>4, <1>5, <1>6, <1>7, <1>8, <1>9, <1>10, <1>11,
     <1>12, <1>13, <1>14, <1>15, <1>16, <1>17

(* Every step of the scheduler keeps it.                                   *)
LEMMA HandshakeByDevice ==
  ASSUME TypeOK, Users, Mailbox, Channel, Words, Handshake,
         SkipStale \/ WriteThrough \/ ReadAck \/ Push \/ Drain \/ ReadCommit
         \/ Pull \/ ServeRemove \/ Terminated
  PROVE  Channel' /\ Words' /\ Handshake'
<1> USE DEF Working, WorkerTo, Device, ChannelIdle, Post
<1>1. CASE SkipStale
  <2>1. Channel'
    BY <1>1, Increments DEF TypeOK, SharedWords, DeviceState, Channel,
       SkipStale, Handshake, Counts, Partners, Busy, Alive, Fetching
  <2>2. Words'
    BY <1>1, Increments DEF TypeOK, SharedWords, DeviceState, Words,
       Handshake, Counts, Channel, Partners, Alive, SkipStale
  <2>3. Handshake'
    BY <1>1, Increments DEF TypeOK, SharedWords, DeviceState, Handshake,
       Counts, Partners, Requested, Busy, Alive, Fused, Fetching, Channel,
       Words, Users, SkipStale
  <2> QED
    BY <2>1, <2>2, <2>3
<1>2. CASE WriteThrough
  <2>1. /\ dev' = [dev EXCEPT !.step = IF server.mapped THEN "ack" ELSE "drain",
                              !.op = "write", !.slot = Head(dev.fifo)[1],
                              !.ver = Head(dev.fifo)[2], !.chunk = 0]
        /\ l1' = [l1 EXCEPT !.move = Inc(l1.move), !.op = "write",
                            !.slot = Head(dev.fifo)[1]]
        /\ dev.step = "loop" /\ dev.fifo # <<>>
        /\ worker' = worker /\ server' = server
    BY <1>2 DEF WriteThrough
  <2>2. Head(dev.fifo)[1] \in Slots
    BY <2>1 DEF TypeOK, DeviceState
  <2>3. /\ dev'.step = IF server.mapped THEN "ack" ELSE "drain"
        /\ dev'.op = "write" /\ dev'.slot \in Slots
        /\ dev'.acks = dev.acks /\ dev'.commits = dev.commits
        /\ l1'.move = Inc(l1.move) /\ l1'.processed = l1.processed
        /\ l1'.op = dev'.op /\ l1'.slot = dev'.slot
        /\ l1'.ack = l1.ack /\ l1'.commit = l1.commit
        /\ l1'.evicted = l1.evicted /\ l1'.pulled = l1.pulled
    BY <2>1, <2>2 DEF TypeOK, DeviceState, SharedWords
  <2>4. l1.move = l1.processed /\ l1'.move # l1.processed
    BY <2>1, <2>3, Increments DEF Channel, TypeOK, SharedWords
  <2>5. worker.step \in {"none", "gated", "poll", "exited"}
    BY <2>4 DEF Handshake, Busy
  <2>6. worker.step \notin {"none", "gated"}
    BY <1>2 DEF Users, WriteThrough, TypeOK, ServerState
  <2>7. Channel' /\ Words'
    BY <2>1, <2>3, <2>4 DEF Channel, Words, Fetching
  <2> QED
    BY <2>1, <2>3, <2>4, <2>5, <2>6, <2>7
       DEF Handshake, Counts, Partners, Requested, Busy, Alive
<1>3. CASE ReadAck
  <2>1. Channel'
    BY <1>3, Increments DEF TypeOK, DeviceState, Channel, ReadAck, Handshake,
       Counts, Partners, Busy, Alive, Fetching
  <2>2. Words'
    BY <1>3, Increments DEF TypeOK, DeviceState, Words, Handshake, Counts,
       Channel, Partners, Alive, ReadAck
  <2>3. Handshake'
    BY <1>3, Increments DEF TypeOK, DeviceState, Handshake, Counts, Partners,
       Requested, Busy, Alive, Fused, Fetching, Channel, Words, Users, ReadAck
  <2> QED
    BY <2>1, <2>2, <2>3
<1>4. CASE Push
  <2>1. Channel'
    BY <1>4, Increments DEF TypeOK, SharedWords, DeviceState, Channel, Push,
       Handshake, Counts, Partners, Busy, Alive, Fetching
  <2>2. Words'
    BY <1>4, Increments DEF TypeOK, SharedWords, DeviceState, Words,
       Handshake, Counts, Channel, Partners, Alive, Push
  <2>3. Handshake'
    BY <1>4, Increments DEF TypeOK, SharedWords, DeviceState, Handshake,
       Counts, Partners, Requested, Busy, Alive, Fused, Fetching, Channel,
       Words, Users, Push
  <2> QED
    BY <2>1, <2>2, <2>3
<1>5. CASE Drain
  <2>1. Channel'
    BY <1>5, Increments DEF TypeOK, SharedWords, DeviceState, Channel, Drain,
       Handshake, Counts, Partners, Busy, Alive, Fetching
  <2>2. Words'
    BY <1>5, Increments DEF TypeOK, SharedWords, DeviceState, Words,
       Handshake, Counts, Channel, Partners, Alive, Drain
  <2>3. Handshake'
    BY <1>5, Increments DEF TypeOK, SharedWords, DeviceState, Handshake,
       Counts, Partners, Requested, Busy, Alive, Fused, Fetching, Channel,
       Words, Users, Drain
  <2> QED
    BY <2>1, <2>2, <2>3
<1>6. CASE ReadCommit
  <2>1. Channel'
    BY <1>6, Increments DEF TypeOK, DeviceState, Channel, ReadCommit,
       Handshake, Counts, Partners, Busy, Alive, Fetching
  <2>2. Words'
    BY <1>6, Increments DEF TypeOK, DeviceState, Words, Handshake, Counts,
       Channel, Partners, Alive, ReadCommit
  <2>3. Handshake'
    BY <1>6, Increments DEF TypeOK, DeviceState, Handshake, Counts, Partners,
       Requested, Busy, Alive, Fused, Fetching, Channel, Words, Users,
       ReadCommit
  <2> QED
    BY <2>1, <2>2, <2>3
<1>7. CASE Pull
  <2>1. /\ dev.step = "stream" /\ dev'.step \in {"stream", "drain"}
        /\ dev'.op = dev.op /\ dev'.slot = dev.slot /\ dev'.unit = dev.unit
        /\ dev'.acks = dev.acks /\ dev'.commits = dev.commits
    BY <1>7 DEF Pull, TypeOK, DeviceState
  <2>2. /\ l1'.pulled = IF dev'.step = "drain" THEN Inc(l1.pulled) ELSE l1.pulled
        /\ l1'.move = l1.move /\ l1'.processed = l1.processed
        /\ l1'.op = l1.op /\ l1'.slot = l1.slot /\ l1'.progress = l1.progress
        /\ l1'.ack = l1.ack /\ l1'.commit = l1.commit
        /\ l1'.evicted = l1.evicted /\ l1'.ackUnit = l1.ackUnit
    BY <1>7 DEF Pull, TypeOK, DeviceState, SharedWords
  <2>3. worker' = worker /\ server' = server
    BY <1>7 DEF Pull
  <2>4. worker.step = "stream" => dev'.step = "stream"
    <3>1. ASSUME worker.step = "stream"
          PROVE  Available # Chunks
      BY <3>1, Constants
         DEF Available, Handshake, Requested, Busy, Fused, TypeOK, SharedWords
    <3> QED
      BY <1>7, <3>1 DEF Pull, TypeOK, DeviceState
  <2>5. Channel'
    BY <2>1, <2>2, <2>3 DEF Channel, Fetching
  <2>6. Words'
    BY <2>1, <2>2, <2>3 DEF Words
  <2>7. worker.step \in {"stream", "pull", "exited"}
    BY <2>1 DEF Handshake, Partners, TypeOK, WorkerState
  <2> QED
    BY <2>1, <2>2, <2>3, <2>4, <2>5, <2>6, <2>7
       DEF Handshake, Counts, Partners, Requested, Busy, Alive, Fused, Fetching
<1>8. CASE ServeRemove
  <2>1. /\ dev.step = "loop" /\ l1.processed = l1.move
        /\ worker' = worker /\ server' = server
    BY <1>8 DEF ServeRemove
  <2>2. worker.step \in {"none", "gated", "poll", "exited"}
    BY <2>1 DEF Handshake, Busy
  <2>3. worker.step \notin {"none", "gated"}
    BY <1>8 DEF Users, ServeRemove, TypeOK, ServerState
  <2>4. CASE dir[l1.mailbox] = None
    <3>1. /\ dev' = [dev EXCEPT !.request = l1.request]
          /\ l1' = [l1 EXCEPT !.done = Inc(l1.done)]
      BY <1>8, <2>4 DEF ServeRemove
    <3>2. /\ dev'.step = "loop" /\ dev'.op = dev.op /\ dev'.slot = dev.slot
          /\ dev'.acks = dev.acks /\ dev'.commits = dev.commits
          /\ l1'.move = l1.move /\ l1'.processed = l1.processed
          /\ l1'.ack = l1.ack /\ l1'.commit = l1.commit
          /\ l1'.evicted = l1.evicted /\ l1'.pulled = l1.pulled
      BY <2>1, <3>1 DEF TypeOK, DeviceState, SharedWords
    <3>3. Channel' /\ Words'
      BY <2>1, <3>2 DEF Channel, Words
    <3> QED
      BY <2>1, <2>2, <2>3, <3>2, <3>3
         DEF Handshake, Counts, Partners, Requested, Busy, Alive
  <2>5. CASE dir[l1.mailbox] # None
    <3>1. /\ dev' = [dev EXCEPT !.request = l1.request, !.step = "drain",
                                !.op = "remove", !.slot = l1.mailbox]
          /\ l1' = [l1 EXCEPT !.move = Inc(l1.move), !.op = "remove",
                              !.slot = l1.mailbox]
      BY <1>8, <2>5 DEF ServeRemove
    <3>2. /\ dev'.step = "drain" /\ dev'.op = "remove" /\ dev'.slot = l1.mailbox
          /\ dev'.acks = dev.acks /\ dev'.commits = dev.commits
          /\ l1'.move = Inc(l1.move) /\ l1'.processed = l1.processed
          /\ l1'.op = dev'.op /\ l1'.slot = dev'.slot
          /\ l1'.ack = l1.ack /\ l1'.commit = l1.commit
          /\ l1'.evicted = l1.evicted /\ l1'.pulled = l1.pulled
      BY <3>1 DEF TypeOK, DeviceState, SharedWords
    <3>3. l1.mailbox \in Slots
      BY <1>8 DEF ServeRemove, Mailbox
    <3>4. l1'.move # l1.processed
      BY <2>1, <3>2, Increments DEF TypeOK, SharedWords
    <3>5. Channel' /\ Words'
      BY <2>1, <3>2, <3>3, <3>4 DEF Channel, Words
    <3> QED
      BY <2>1, <2>2, <2>3, <3>2, <3>4, <3>5
         DEF Handshake, Counts, Partners, Requested, Busy, Alive
  <2> QED
    BY <2>4, <2>5
<1>9. CASE Terminated
  <2>1. Channel'
    BY <1>9, Increments DEF TypeOK, ServerState, Channel, Terminated,
       Handshake, Counts, Partners, Busy, Alive, Fetching
  <2>2. Words'
    BY <1>9, Increments DEF TypeOK, ServerState, Words, Handshake, Counts,
       Channel, Partners, Alive, Terminated
  <2>3. Handshake'
    BY <1>9, Increments DEF TypeOK, ServerState, Handshake, Counts, Partners,
       Requested, Busy, Alive, Fused, Fetching, Channel, Words, Users,
       Terminated
  <2> QED
    BY <2>1, <2>2, <2>3
<1> QED
  BY <1>1, <1>2, <1>3, <1>4, <1>5, <1>6, <1>7, <1>8, <1>9

(* A new request starts it from rest.                                      *)
LEMMA HandshakeByRequests ==
  ASSUME TypeOK, Users, Channel, Words, Handshake, Requests
  PROVE  Channel' /\ Words' /\ Handshake'
<1>1. /\ dev.step = "loop" /\ server.kernel = "running"
      /\ worker' = worker /\ server' = server
  BY DEF Requests, IssuePut, Evict, FetchFromHost, Device
<1>2. ASSUME NEW s \in Slots, IssuePut(s)
      PROVE  Channel' /\ Words' /\ Handshake'
  <2>1. /\ dev'.step = dev.step /\ dev'.op = dev.op /\ dev'.slot = dev.slot
        /\ dev'.unit = dev.unit
        /\ dev'.acks = dev.acks /\ dev'.commits = dev.commits
    BY <1>2 DEF IssuePut, TypeOK, DeviceState
  <2>2. /\ l1'.move = l1.move /\ l1'.processed = l1.processed
        /\ l1'.op = l1.op /\ l1'.slot = l1.slot
        /\ l1'.progress = l1.progress /\ l1'.ackUnit = l1.ackUnit
        /\ l1'.ack = l1.ack /\ l1'.commit = l1.commit
        /\ l1'.evicted = l1.evicted /\ l1'.pulled = l1.pulled
    BY <1>2 DEF IssuePut, TypeOK, SharedWords
  <2> QED
    BY <1>1, <2>1, <2>2
       DEF Channel, Words, Handshake, Counts, Partners, Requested, Busy, Alive,
           Fused, Fetching
<1>3. ASSUME NEW s \in Slots, Evict(s)
      PROVE  Channel' /\ Words' /\ Handshake'
  BY <1>1, <1>3
     DEF Evict, Channel, Words, Handshake, Counts, Partners, Requested, Busy,
         Alive, Fused, Fetching
<1>4. ASSUME NEW s \in Slots, NEW op \in {"serve", "promote"},
             FetchFromHost(op, s)
      PROVE  Channel' /\ Words' /\ Handshake'
  <2>1. /\ l1.processed = l1.move
        /\ dev'.step = "pull" /\ dev'.op = op /\ dev'.slot = s
        /\ dev'.acks = dev.acks /\ dev'.commits = dev.commits
        /\ l1'.move = Inc(l1.move) /\ l1'.processed = l1.processed
        /\ l1'.op = op /\ l1'.slot = s
        /\ l1'.ack = l1.ack /\ l1'.commit = l1.commit
        /\ l1'.evicted = l1.evicted /\ l1'.pulled = l1.pulled
    BY <1>4 DEF FetchFromHost, ChannelIdle, Post, TypeOK, DeviceState,
       SharedWords
  <2>2. worker.step \in {"none", "gated", "poll", "exited"}
    BY <2>1 DEF Handshake, Busy
  <2>3. worker.step \notin {"none", "gated"}
    BY <1>1 DEF Users, TypeOK, ServerState
  <2>4. l1'.move # l1.processed
    BY <2>1, Increments DEF TypeOK, SharedWords
  <2>5. Channel' /\ Words'
    BY <1>1, <2>1, <2>4 DEF Channel, Words, Fetching
  <2> QED
    BY <1>1, <2>1, <2>2, <2>3, <2>4, <2>5
       DEF Handshake, Counts, Partners, Requested, Busy, Alive, Fetching
<1> QED
  BY <1>2, <1>3, <1>4 DEF Requests

(* Construction starts the worker at rest.                                 *)
LEMMA HandshakeByConstruction ==
  ASSUME TypeOK, Users, Channel, Words, Handshake, Construction
  PROVE  Channel' /\ Words' /\ Handshake'
<1>1. /\ l1' = l1 /\ dev' = dev /\ server'.mapped = server.mapped
      /\ worker.step \in {"none", "gated"}
      /\ worker'.step \in {"gated", "poll", "exited"}
      /\ worker'.seen = worker.seen /\ worker'.evicts = worker.evicts
      /\ worker'.commits = worker.commits
  BY DEF Users, Construction, Construct, LaunchFails, LaunchOutcomeUnknown,
         Launch, TypeOK, WorkerState, ServerState
<1>2. dev.step = "loop"
  BY <1>1 DEF Handshake, Partners
<1> QED
  BY <1>1, <1>2
     DEF Channel, Words, Handshake, Counts, Partners, Requested, Busy, Alive,
         Fused, Fetching

(* The calls write the mailbox and the request count of the shared words,  *)
(* the life of the Server and the stop flag of the worker.                 *)
LEMMA CallerMoves ==
  ASSUME TypeOK, Calls \/ CallerStep \/ FinishThrows
  PROVE  /\ dev' = dev /\ dir' = dir /\ heap' = heap /\ ram' = ram
         /\ server'.mapped = server.mapped
         /\ worker' = worker \/ worker' = [worker EXCEPT !.stop = TRUE]
         /\ \/ l1' = l1
            \/ l1' = [l1 EXCEPT !.mailbox = caller.slot]
            \/ l1' = [l1 EXCEPT !.request = caller.target]
         /\ (values' = values /\ free' = free) \/ Join
<1> USE DEF Others, TypeOK, ServerState
<1>1. CASE Calls \/ Enter \/ DrainTarget \/ Drained \/ DrainThrows \/ Lookup
  BY <1>1 DEF Calls, Begin, BeginClose, Enter, DrainTarget, Drained,
     DrainThrows,
              Unready, Lookup
<1>2. CASE ReadValue \/ WriteMailbox \/ PostRequest \/ Removed \/ RemoveThrows
  BY <1>2 DEF ReadValue, WriteMailbox, PostRequest, Removed, RemoveThrows
<1>3. CASE Answer \/ Signal \/ Finish \/ FinishThrows \/ StopWorker \/ Join
  BY <1>3 DEF Answer, Signal, Finish, FinishThrows, StopWorker, Join
<1> QED
  BY <1>1, <1>2, <1>3 DEF CallerStep

(* Host operations do not touch the words of the handshake.                *)
LEMMA HandshakeByCaller ==
  ASSUME TypeOK, Users, Channel, Words, Handshake,
         Calls \/ CallerStep \/ FinishThrows
  PROVE  Channel' /\ Words' /\ Handshake'
<1>1. dev' = dev /\ server'.mapped = server.mapped
  BY CallerMoves
<1>2. /\ worker'.step = worker.step /\ worker'.op = worker.op
      /\ worker'.slot = worker.slot /\ worker'.unit = worker.unit
      /\ worker'.seen = worker.seen /\ worker'.evicts = worker.evicts
      /\ worker'.commits = worker.commits
  BY CallerMoves DEF TypeOK, WorkerState
<1>3. /\ l1'.move = l1.move /\ l1'.processed = l1.processed
      /\ l1'.op = l1.op /\ l1'.slot = l1.slot
      /\ l1'.progress = l1.progress /\ l1'.ackUnit = l1.ackUnit
      /\ l1'.ack = l1.ack /\ l1'.commit = l1.commit
      /\ l1'.evicted = l1.evicted /\ l1'.pulled = l1.pulled
  BY CallerMoves DEF TypeOK, SharedWords
<1> QED
  BY <1>1, <1>2, <1>3
     DEF Channel, Words, Handshake, Counts, Partners, Requested, Busy, Alive,
         Fused, Fetching

(* Every step keeps the handshake.                                         *)
LEMMA HandshakeStep ==
  ASSUME TypeOK, Users, Mailbox, Channel, Words, Handshake, [Next]_vars
  PROVE  Channel' /\ Words' /\ Handshake'
<1>1. CASE UNCHANGED vars
  BY <1>1 DEF vars, Channel, Words, Handshake, Counts, Partners, Requested,
              Busy, Alive, Fused, Fetching
<1> QED
  BY <1>1, HandshakeByConstruction, HandshakeByWorker, HandshakeByDevice,
     HandshakeByRequests, HandshakeByCaller DEF Next, WorkerStep, DeviceStep

(* A request is posted after its mailbox is written, never before.         *)
LEMMA MailboxStep ==
  ASSUME TypeOK, CallSteps, Mailbox, [Next]_vars
  PROVE  Mailbox'
<1> USE DEF Mailbox
<1>1. CASE (Calls \/ CallerStep \/ FinishThrows) /\ ~WriteMailbox /\ ~PostRequest
  <2>1. dev' = dev /\ caller \in CallerState
    BY <1>1, CallerMoves DEF TypeOK
  <2>2. caller'.step # "request" /\ l1' = l1
    <3> USE DEF Calling, CallerTo, Others
    <3>1. ASSUME Throw
          PROVE  caller'.step # "request"
      BY <3>1, ThrowFields
    <3>2. ASSUME Return
          PROVE  caller'.step # "request"
      BY <3>2 DEF Return, Idle
    <3>3. ASSUME Calls \/ Enter \/ DrainTarget \/ Drained
          PROVE  caller'.step # "request"
      BY <2>1, <3>3
         DEF Calls, Begin, BeginClose, Idle, Enter, DrainTarget, Drained, CallerState
    <3>4. ASSUME Lookup \/ ReadValue \/ Removed \/ Signal \/ Finish \/ StopWorker
          PROVE  caller'.step # "request"
      BY <2>1, <3>4
         DEF Lookup, ReadValue, Removed, Signal, Finish, StopWorker, CallerState
    <3>5. ASSUME CallerTo("terminate")
          PROVE  caller'.step # "request"
      BY <2>1, <3>5 DEF CallerState
    <3>6. l1' = l1
      BY <1>1
         DEF Calls, Begin, BeginClose, CallerStep, Enter, DrainTarget, Drained,
             DrainThrows, Lookup, ReadValue, Removed, RemoveThrows, Answer,
             Signal, Finish, FinishThrows, StopWorker, Join
    <3>7. caller'.step # "request"
      BY <1>1, <3>1, <3>2, <3>3, <3>4, <3>5
         DEF CallerStep, DrainThrows, RemoveThrows, Answer, FinishThrows, Join
    <3> QED
      BY <3>6, <3>7
  <2> QED
    BY <2>1, <2>2
<1>6. CASE WriteMailbox
  <2>1. caller.slot \in Slots
    BY <1>6 DEF WriteMailbox, Calling, CallSteps, Diagnosing, TypeOK,
       CallerState
  <2> QED
    BY <1>6, <2>1 DEF WriteMailbox, TypeOK, SharedWords
<1>7. CASE PostRequest
  BY <1>7 DEF PostRequest, Calling, CallerTo, TypeOK, SharedWords, CallerState
<1>2. CASE WorkerStep \/ Raise
  <2>1. /\ dev' = dev /\ caller' = caller
        /\ l1'.request = l1.request /\ l1'.mailbox = l1.mailbox
    <3> USE DEF TypeOK, SharedWords
    <3>1. CASE Poll \/ Reserve \/ Acknowledge \/ Pushed \/ AbandonPush
      BY <3>1 DEF Poll, Reserve, Acknowledge, Pushed, AbandonPush
    <3>2. CASE Publish \/ Copy \/ Drop \/ Source \/ ResetProgress
      BY <3>2 DEF Publish, Copy, Drop, Source, ResetProgress
    <3>3. CASE Stage \/ PostCommit \/ Stream
      BY <3>3 DEF Stage, PostCommit, Stream
    <3>4. CASE Pulled \/ Finished \/ Stopped \/ Raise
      BY <3>4 DEF Pulled, Finished, Stopped, Raise
    <3> QED
      BY <1>2, <3>1, <3>2, <3>3, <3>4 DEF WorkerStep
  <2> QED
    BY <2>1
<1>3. CASE DeviceStep \/ Requests
  <2>1. caller' = caller
    BY <1>3, DeviceMoves
  <2>2. /\ l1'.request = l1.request /\ l1'.mailbox = l1.mailbox
        /\ dev'.request = dev.request \/ dev'.request = l1'.request
    <3> USE DEF TypeOK, SharedWords, DeviceState
    <3>1. CASE SkipStale \/ WriteThrough \/ ReadAck \/ Push
      BY <3>1 DEF SkipStale, WriteThrough, ReadAck, Push, Post
    <3>2. CASE Drain
      BY <3>2 DEF Drain
    <3>3. CASE ReadCommit \/ Pull
      BY <3>3 DEF ReadCommit, Pull
    <3>4. CASE ServeRemove
      <4>1. \/ /\ dev' = [dev EXCEPT !.request = l1.request]
               /\ l1' = [l1 EXCEPT !.done = Inc(l1.done)]
            \/ /\ dev' = [dev EXCEPT !.request = l1.request, !.step = "drain",
                                     !.op = "remove", !.slot = l1.mailbox]
               /\ l1' = [l1 EXCEPT !.move = Inc(l1.move), !.op = "remove",
                                   !.slot = l1.mailbox]
        BY <3>4 DEF ServeRemove, Post
      <4>2. dev'.request = l1.request
        <5> USE DEF DeviceState
        <5>1. CASE dev' = [dev EXCEPT !.request = l1.request]
          BY <5>1
        <5>2. CASE dev' = [dev EXCEPT !.request = l1.request, !.step = "drain",
                                      !.op = "remove", !.slot = l1.mailbox]
          BY <5>2
        <5> QED
          BY <4>1, <5>1, <5>2
      <4>3. l1'.request = l1.request /\ l1'.mailbox = l1.mailbox
        BY <4>1
      <4> QED
        BY <4>2, <4>3
    <3>5. CASE Terminated
      BY <3>5 DEF Terminated
    <3>6. CASE Requests
      BY <3>6 DEF Requests, IssuePut, Evict, FetchFromHost, Post
    <3> QED
      BY <1>3, <3>1, <3>2, <3>3, <3>4, <3>5, <3>6 DEF DeviceStep
  <2> QED
    BY <2>1, <2>2
<1>4. CASE Construction
  BY <1>4 DEF Construction, Construct, LaunchFails, LaunchOutcomeUnknown, Launch
<1>5. CASE UNCHANGED vars
  BY <1>5 DEF vars
<1> QED
  BY <1>1, <1>2, <1>3, <1>4, <1>5, <1>6, <1>7 DEF Next


----------------------------------------------------------------------------
(* The pool.                                                               *)

(* Only the entry that changes changes its extent.                         *)
LEMMA ExtentAfter ==
  ASSUME TypeOK, NEW s \in Slots, NEW x,
         values' = [values EXCEPT ![s] = x]
  PROVE  \A t \in Slots :
             Extent(t)' = IF t = s THEN IF x = None THEN {} ELSE {x.unit} \ {None}
                          ELSE Extent(t)
BY DEF Extent, TypeOK

(* Extents, the unit in flight and the free units are units.               *)
LEMMA ExtentUnits ==
  ASSUME TypeOK
  PROVE  /\ \A s \in Slots : Extent(s) \subseteq Units /\ None \notin Extent(s)
         /\ InFlight \subseteq Units /\ None \notin InFlight
         /\ free \subseteq Units /\ None \notin free
BY Constants DEF TypeOK, WorkerState, HostValue, Extent, InFlight

(* Dropping a value frees its extent and nothing else.                     *)
LEMMA DroppedIs ==
  ASSUME TypeOK, NEW s \in Slots
  PROVE  Dropped(s) = free \cup Extent(s)
BY DEF Dropped, Extent, TypeOK

(* The extents of the pool while no value and no reservation moves.        *)
LEMMA PoolStays ==
  ASSUME TypeOK, Pool,
         values' = values, free' = free, InFlight' = InFlight,
         server'.mapped = server.mapped, server'.memory = server.memory,
         ~worker'.failed => ~worker.failed,
         worker'.step \in {"ack", "push", "publish"} =>
             values[worker'.slot] = None,
         dev'.step = "ack" /\ l1'.ack # dev'.acks => Spare(l1'.ackUnit),
         dev'.step = "push" => Spare(dev'.unit)
  PROVE  Pool'
<1>1. \A s : Extent(s)' = Extent(s)
  BY DEF Extent
<1> QED
  BY <1>1 DEF Pool, Spare

(* Reserving drops the old value and takes one unit out of the free        *)
(* ones.                                                                   *)
LEMMA PoolByReserve ==
  ASSUME TypeOK, Users, Channel, Handshake, Pool, Reserve
  PROVE  Pool'
<1> DEFINE s == worker.slot
           pool == Dropped(s)
           unit == FirstFit(pool)
<1>1. /\ worker.step = "reserve"
      /\ values' = [values EXCEPT ![s] = None] /\ free' = pool \ {unit}
      /\ worker' = [worker EXCEPT !.step = "ack", !.unit = unit,
                                  !.evicts = Inc(worker.evicts)]
      /\ l1' = [l1 EXCEPT !.ackUnit = unit] /\ server' = server /\ dev' = dev
  BY DEF Reserve, Working
<1>2. s \in Slots /\ pool = free \cup Extent(s)
  <2>1. s \in Slots
    BY <1>1, BusyOn DEF Busy
  <2> QED
    BY <2>1, DroppedIs
<1>3. pool \subseteq Units
  BY <1>2, ExtentUnits
<1>4. /\ pool = {} => unit = None
      /\ pool # {} => unit \in pool
  BY <1>3, FirstFitIs
<1>5. /\ worker'.step = "ack" /\ worker'.unit = unit /\ worker'.slot = s
      /\ worker'.failed = worker.failed
  BY <1>1 DEF TypeOK, WorkerState
<1>6. InFlight = {} /\ InFlight' = {unit} \ {None}
  BY <1>1, <1>5 DEF InFlight
<1>7. \A t \in Slots : Extent(t)' = IF t = s THEN {} ELSE Extent(t)
  BY <1>1, <1>2, ExtentAfter
<1>8. dev.step = "ack" /\ l1'.ack = dev.acks
  BY <1>1 DEF Handshake, Partners, Counts, Alive, TypeOK, SharedWords
<1>9. values'[s] = None
  BY <1>1, <1>2 DEF TypeOK
<1> HIDE DEF s, pool, unit
<1>10. \A t \in Slots : t # s => Extent(t) \cap pool = {}
  BY <1>2 DEF Pool
<1>11. \A t \in Slots, w \in Slots : t # w => (Extent(t) \cap Extent(w) = {})'
  BY <1>2, <1>7 DEF Pool
<1>12. (free \cap InFlight = {})'
  BY <1>1, <1>6
<1>13. \A t \in Slots : (Extent(t) \cap (free \cup InFlight) = {})'
  BY <1>1, <1>4, <1>6, <1>7, <1>10
<1>14. ASSUME server.mapped, server.memory = "held", ~worker.failed,
              NEW u \in Units
       PROVE  u \in free' \cup InFlight' \/ ~Spare(u)'
  <2>1. u \in free \/ \E t \in Slots : u \in Extent(t)
    BY <1>6, <1>14 DEF Pool, Spare
  <2>2. CASE u \in pool
    BY <1>1, <1>6, <2>2, Constants
  <2>3. CASE u \notin pool
    BY <1>2, <1>7, <2>1, <2>3 DEF Spare
  <2> QED
    BY <2>2, <2>3
<1>15. ~server.mapped \/ server.memory = "none" =>
           free' = {} /\ \A t \in Slots : Extent(t)' = {}
  BY <1>1, <1>2, <1>7 DEF Pool
<1> QED
  BY <1>1, <1>5, <1>8, <1>9, <1>11, <1>12, <1>13, <1>14, <1>15 DEF Pool

(* A push abandoned for termination loses its unit only with the worker.   *)
LEMMA PoolByAbandon ==
  ASSUME TypeOK, Users, Handshake, Pool, AbandonPush
  PROVE  Pool'
<1>1. /\ worker.step = "push" /\ values' = values
      /\ free' = free \cup ({worker.unit} \ {None})
      /\ worker'.step = "exited" /\ worker'.failed = worker.failed
      /\ server' = server /\ dev' = dev /\ l1' = l1
  BY DEF AbandonPush, Working, TypeOK, WorkerState
<1>2. free' = free \cup InFlight /\ InFlight' = {}
  BY <1>1 DEF InFlight
<1>3. \A s : Extent(s)' = Extent(s)
  BY <1>1 DEF Extent
<1>4. server.mapped /\ server.memory = "held"
  BY <1>1, WorkersOfTheReady DEF Handshake, Requested, Users
<1> QED
  BY <1>1, <1>2, <1>3, <1>4 DEF Pool, Spare

(* Publishing, copying and dropping exchange a unit between its three      *)
(* places.                                                                 *)
LEMMA PoolByValue ==
  ASSUME TypeOK, Users, Channel, Handshake, Pool, Publish \/ Copy \/ Drop
  PROVE  Pool'
<1> DEFINE s == worker.slot
<1>1. s \in Slots /\ dev.step = "drain"
  <2>1. worker.step \in {"publish", "copy", "drop"}
    BY DEF Publish, Copy, Drop, Working
  <2> QED
    BY <2>1, BusyOn DEF Busy, Handshake, Partners
<1>2. /\ worker'.step = "finish" /\ worker'.failed = worker.failed
      /\ server' = server /\ dev' = dev /\ l1' = l1
  BY DEF Publish, Copy, Drop, WorkerTo, TypeOK, WorkerState
<1>3. InFlight' = {}
  BY <1>2 DEF InFlight
<1>4. CASE Publish
  <2> DEFINE x == [unit |-> worker.unit,
                   heap |-> IF worker.unit = None THEN ram[None] ELSE Whole(0)]
  <2>1. /\ worker.step = "publish" /\ free' = free
        /\ values' = [values EXCEPT ![s] = x]
    BY <1>4 DEF Publish, Working
  <2>2. x # None /\ x.unit = worker.unit
    <3>1. Whole(0) \in Bytes
      BY Constants, WholeType DEF Versions
    <3>2. x \in HostValue
      BY <3>1 DEF TypeOK, WorkerState, HostValue
    <3> QED
      BY <3>2, Constants
  <2> HIDE DEF x
  <2>3. InFlight = {x.unit} \ {None}
    BY <2>1, <2>2 DEF InFlight
  <2>4. \A t \in Slots : Extent(t)' = IF t = s THEN InFlight ELSE Extent(t)
    BY <1>1, <2>1, <2>2, <2>3, ExtentAfter
  <2> HIDE DEF s
  <2>5. server.mapped /\ server.memory = "held"
    BY <2>1, WorkersOfTheReady DEF Handshake, Requested, Users
  <2>6. \A t \in Slots, w \in Slots : t # w => (Extent(t) \cap Extent(w) = {})'
    BY <2>4 DEF Pool
  <2>7. (free \cap InFlight = {})' /\ \A t \in Slots :
            (Extent(t) \cap (free \cup InFlight) = {})'
    BY <1>3, <2>1, <2>4 DEF Pool
  <2>8. ASSUME ~worker.failed, NEW u \in Units
        PROVE  u \in free' \/ ~Spare(u)'
    <3>1. u \in free \/ u \in InFlight \/ \E t \in Slots : u \in Extent(t)
      BY <2>5, <2>8 DEF Pool, Spare
    <3>2. CASE u \in InFlight
      BY <1>1, <2>4, <3>2 DEF Spare
    <3>3. ASSUME NEW t \in Slots, u \in Extent(t)
          PROVE  ~Spare(u)'
      <4>1. Extent(t)' = Extent(t) \/ t = s
        BY <2>4
      <4>2. CASE Extent(t)' = Extent(t)
        BY <3>3, <4>2 DEF Spare
      <4>3. CASE t = s
        BY <2>1, <2>3, <2>5, <3>3, <4>3 DEF Extent, Pool, s
      <4> QED
        BY <4>1, <4>2, <4>3
    <3> QED
      BY <2>1, <3>1, <3>2, <3>3
  <2> QED
    BY <1>1, <1>2, <2>5, <2>6, <2>7, <2>8 DEF Pool
<1>5. CASE Copy
  <2> DEFINE x == [unit |-> None, heap |-> ReadUnits(Base(s))]
  <2>1. /\ worker.step = "copy" /\ free' = free
        /\ values' = [values EXCEPT ![s] = x]
    BY <1>5 DEF Copy, Working
  <2>2. ~server.mapped
    BY <2>1 DEF Handshake, Requested
  <2>3. x.unit = None
    OBVIOUS
  <2> HIDE DEF x
  <2>4. \A t \in Slots : Extent(t)' = IF t = s THEN {} ELSE Extent(t)
    BY <1>1, <2>1, <2>3, ExtentAfter
  <2> HIDE DEF s
  <2> QED
    BY <1>1, <1>2, <1>3, <2>1, <2>2, <2>4 DEF Pool, Spare
<1>6. CASE Drop
  <2>1. /\ worker.step = "drop" /\ free' = free \cup Extent(s)
        /\ values' = [values EXCEPT ![s] = None]
    BY <1>1, <1>6, DroppedIs DEF Drop, Working
  <2>2. \A t \in Slots : Extent(t)' = IF t = s THEN {} ELSE Extent(t)
    BY <1>1, <2>1, ExtentAfter
  <2>3. InFlight = {}
    BY <2>1 DEF InFlight
  <2> HIDE DEF s
  <2> QED
    BY <1>1, <1>2, <1>3, <2>1, <2>2, <2>3 DEF Pool, Spare
<1> QED
  BY <1>4, <1>5, <1>6


(* The other steps of the worker move no unit.                             *)
LEMMA PoolByWorker ==
  ASSUME TypeOK, Users, Channel, Handshake, Pool,
         \/ Poll \/ Acknowledge \/ Pushed \/ Source \/ ResetProgress \/ Stage
         \/ PostCommit \/ Stream \/ Pulled \/ Finished \/ Stopped
  PROVE  Pool'
<1>1. server' = server /\ dev' = dev /\ values' = values /\ free' = free
  BY DEF Poll, Acknowledge, Pushed, Source, ResetProgress, Stage,
         PostCommit, Stream, Pulled, Finished, Stopped
<1>2. worker'.failed = worker.failed
  BY DEF Poll, Acknowledge, Pushed, Source, ResetProgress, Stage,
         PostCommit, Stream, Pulled, Finished, Stopped, WorkerTo,
         TypeOK, WorkerState
<1>3. CASE Acknowledge \/ Pushed
  <2>1. /\ worker.step \in {"ack", "push"} /\ worker'.step \in {"push", "publish"}
        /\ worker'.unit = worker.unit /\ worker'.slot = worker.slot
    BY <1>3 DEF Acknowledge, Pushed, Working, WorkerTo, TypeOK, WorkerState
  <2>2. InFlight' = InFlight /\ values[worker.slot] = None
    BY <2>1 DEF InFlight, Pool
  <2>3. l1'.ackUnit = l1.ackUnit /\ (Acknowledge \/ l1'.ack = l1.ack)
    BY <1>3 DEF Acknowledge, Pushed, TypeOK, SharedWords
  <2>4. ASSUME dev.step = "ack"
        PROVE  Spare(l1.ackUnit)
    <3>1. l1.ackUnit = worker.unit
      BY <2>1, <2>4 DEF Handshake
    <3>2. \A s \in Slots : worker.unit \notin Extent(s)
      BY <2>1, ExtentUnits DEF Pool, InFlight
    <3> QED
      BY <3>1, <3>2 DEF Spare
  <2>5. dev.step = "push" => Spare(dev.unit)
    BY DEF Pool
  <2> QED
    BY <1>1, <1>2, <2>1, <2>2, <2>3, <2>4, <2>5, PoolStays
<1>4. CASE ~Acknowledge /\ ~Pushed
  <2>1. /\ worker.step \notin {"ack", "push", "publish"}
        /\ worker'.step \notin {"ack", "push", "publish"}
        /\ l1'.ack = l1.ack /\ l1'.ackUnit = l1.ackUnit
    <3> USE DEF Working, WorkerTo, TypeOK, WorkerState, SharedWords
    <3>1. CASE Poll \/ Source \/ ResetProgress \/ Stage
      BY <3>1 DEF Poll, Source, ResetProgress, Stage
    <3>2. CASE PostCommit
      BY <3>2 DEF PostCommit
    <3>3. CASE Stream \/ Pulled
      BY <3>3 DEF Stream, Pulled
    <3>4. CASE Finished
      BY <3>4 DEF Finished
    <3>5. CASE Stopped
      BY <3>5 DEF Stopped
    <3> QED
      BY <1>4, <3>1, <3>2, <3>3, <3>4, <3>5
  <2>2. InFlight' = InFlight
    BY <2>1 DEF InFlight
  <2> QED
    BY <1>1, <1>2, <2>1, <2>2, PoolStays DEF Pool
<1> QED
  BY <1>3, <1>4

(* A worker that raises moves no unit.                                     *)
LEMMA PoolByRaise ==
  ASSUME TypeOK, Pool, Raise
  PROVE  Pool'
<1>1. /\ server' = server /\ dev' = dev /\ values' = values /\ free' = free
      /\ l1' = l1 /\ worker'.step = "exited" /\ worker'.failed
  BY DEF Raise, TypeOK, WorkerState
<1>2. InFlight' = {}
  BY <1>1 DEF InFlight
<1>3. \A s : Extent(s)' = Extent(s)
  BY <1>1 DEF Extent
<1> QED
  BY <1>1, <1>2, <1>3 DEF Pool, Spare

(* The device moves no unit.                                               *)
LEMMA PoolByDevice ==
  ASSUME TypeOK, Channel, Words, Handshake, Pool, DeviceStep \/ Requests
  PROVE  Pool'
<1>1. /\ worker' = worker /\ values' = values /\ free' = free
      /\ server'.mapped = server.mapped /\ server'.memory = server.memory
  BY DeviceMoves DEF Terminated, TypeOK, ServerState
<1>2. InFlight' = InFlight
  BY <1>1 DEF InFlight
<1>3. CASE ReadAck
  <2>1. /\ l1' = l1 /\ dev.step = "ack" /\ l1.ack # dev.acks
        /\ dev' = [dev EXCEPT !.step = "push", !.acks = l1.ack,
                              !.unit = l1.ackUnit]
    BY <1>3 DEF ReadAck, Device
  <2>2. dev'.step = "push" /\ dev'.unit = l1.ackUnit
    BY <2>1 DEF TypeOK, DeviceState
  <2>3. Spare(l1.ackUnit)
    BY <2>1 DEF Pool
  <2>4. worker.step \in {"ack", "push", "publish"} => values[worker.slot] = None
    BY DEF Pool
  <2> QED
    BY <1>1, <1>2, <2>2, <2>3, <2>4, PoolStays
<1>4. CASE Terminated
  <2>1. dev' = dev /\ l1' = l1
    BY <1>4 DEF Terminated
  <2> QED
    BY <1>1, <1>2, <2>1, PoolStays DEF Pool
<1>5. CASE WriteThrough
  <2>2. l1'.ack = l1.ack /\ dev'.acks = dev.acks
    BY <1>5 DEF WriteThrough, Post, TypeOK, SharedWords, DeviceState
  <2>3. l1.ack = dev.acks
    BY <1>5 DEF WriteThrough, Device, Words
  <2>4. dev'.step # "push"
    BY <1>5 DEF WriteThrough, TypeOK, DeviceState
  <2> QED
    BY <1>1, <1>2, <2>2, <2>3, <2>4, PoolStays DEF Pool
<1>6. CASE dev'.step \notin {"ack", "push"}
  BY <1>1, <1>2, <1>6, PoolStays DEF Pool
<1>7. ~ReadAck /\ ~Terminated => dev'.step \notin {"ack", "push"} \/ WriteThrough
  <2> USE DEF Device, TypeOK, DeviceState
  <2>1. CASE SkipStale \/ Push \/ Drain \/ ReadCommit
    BY <2>1 DEF SkipStale, Push, Drain, ReadCommit
  <2>2. CASE Pull
    BY <2>2 DEF Pull
  <2>3. CASE ServeRemove
    BY <2>3 DEF ServeRemove
  <2>4. CASE Requests
    BY <2>4 DEF Requests, IssuePut, Evict, FetchFromHost
  <2> QED
    BY <2>1, <2>2, <2>3, <2>4 DEF DeviceStep
<1> QED
  BY <1>3, <1>4, <1>5, <1>6, <1>7

(* Only Join empties the pool, with the memory.                            *)
LEMMA PoolByCaller ==
  ASSUME TypeOK, Users, Handshake, Pool, Calls \/ CallerStep \/ FinishThrows
  PROVE  Pool'
<1>1. dev' = dev /\ server'.mapped = server.mapped
  BY CallerMoves
<1>2. /\ worker'.step = worker.step /\ worker'.unit = worker.unit
      /\ worker'.slot = worker.slot /\ worker'.failed = worker.failed
      /\ l1'.ack = l1.ack /\ l1'.ackUnit = l1.ackUnit
  BY CallerMoves DEF TypeOK, WorkerState, SharedWords
<1>3. InFlight' = InFlight
  BY <1>2 DEF InFlight
<1>4. CASE ~Join
  <2>1. values' = values /\ free' = free
    BY <1>4, CallerMoves
  <2>2. server'.memory = server.memory
    BY <1>4
       DEF Calls, Begin, BeginClose, CallerStep, Others, Enter, DrainTarget,
           Drained, DrainThrows, Unready, Lookup, ReadValue, WriteMailbox,
           PostRequest, Removed, RemoveThrows, Answer, Signal, Finish,
           FinishThrows, StopWorker, TypeOK, ServerState
  <2> QED
    BY <1>1, <1>2, <1>3, <2>1, <2>2, PoolStays DEF Pool
<1>5. CASE Join
  <2>1. worker.step = "exited" /\ worker' = worker /\ l1' = l1
        /\ caller.step = "join"
    BY <1>5 DEF Join, Calling
  <2>2. server.memory = "held"
    BY <2>1 DEF Users
  <2>3. server'.memory \in {"kept", "freed"}
    BY <1>5 DEF Join, TypeOK, ServerState
  <2>4. InFlight = {}
    BY <2>1 DEF InFlight
  <2>5. CASE values' = values /\ free' = free
    <3>1. \A s : Extent(s)' = Extent(s)
      BY <2>5 DEF Extent
    <3> QED
      BY <1>1, <1>2, <1>3, <2>1, <2>2, <2>3, <2>4, <2>5, <3>1 DEF Pool, Spare
  <2>6. CASE values' = [s \in Slots |-> None] /\ free' = {}
    <3>1. \A s \in Slots : Extent(s)' = {}
      BY <2>6 DEF Extent
    <3> QED
      BY <1>1, <1>2, <1>3, <2>1, <2>3, <2>4, <2>6, <3>1 DEF Pool, Spare
  <2> QED
    BY <1>5, <2>5, <2>6 DEF Join
<1> QED
  BY <1>4, <1>5

(* The pool starts with every unit free, when the arena is mapped.         *)
LEMMA PoolByConstruction ==
  ASSUME TypeOK, Users, Channel, Handshake, Pool, Construction
  PROVE  Pool'
<1>1. /\ l1' = l1 /\ dev' = dev /\ values' = values
      /\ server'.mapped = server.mapped
      /\ worker.step \in {"none", "gated"}
      /\ worker'.step \in {"gated", "poll", "exited"}
      /\ worker'.failed = worker.failed
  BY DEF Users, Construction, Construct, LaunchFails, LaunchOutcomeUnknown,
         Launch, TypeOK, WorkerState, ServerState
<1>2. dev.step = "loop" /\ InFlight = {} /\ InFlight' = {}
  BY <1>1 DEF Handshake, Partners, InFlight
<1>3. \A s : Extent(s)' = Extent(s)
  BY <1>1 DEF Extent
<1>4. CASE Construct
  <2>1. /\ server.memory = "none" /\ server'.memory = "held"
        /\ free' = IF server.mapped THEN Units ELSE {}
    BY <1>4 DEF Construct, Users, TypeOK, ServerState
  <2> QED
    BY <1>1, <1>2, <1>3, <2>1 DEF Pool, Spare
<1>5. CASE LaunchFails
  <2>1. server'.memory = "freed" /\ free' = {} /\ server.memory = "held"
    BY <1>5 DEF LaunchFails, Users, TypeOK, ServerState
  <2> QED
    BY <1>1, <1>2, <1>3, <2>1 DEF Pool, Spare
<1>6. CASE LaunchOutcomeUnknown \/ Launch
  <2>1. /\ server'.memory \in {"kept", server.memory} /\ free' = free
        /\ server.memory = "held"
    BY <1>6 DEF LaunchOutcomeUnknown, Launch, Users, TypeOK, ServerState
  <2> QED
    BY <1>1, <1>2, <1>3, <2>1 DEF Pool, Spare
<1> QED
  BY <1>4, <1>5, <1>6 DEF Construction

(* Every step keeps every unit in one place.                               *)
LEMMA PoolStep ==
  ASSUME TypeOK, Users, Channel, Words, Handshake, Pool, [Next]_vars
  PROVE  Pool'
<1>1. CASE UNCHANGED vars
  <2>1. \A s : Extent(s)' = Extent(s)
    BY <1>1 DEF Extent, vars
  <2> QED
    BY <1>1, <2>1 DEF Pool, Spare, InFlight, vars
<1> QED
  BY <1>1, PoolByReserve, PoolByAbandon, PoolByValue, PoolByWorker, PoolByRaise,
     PoolByDevice, PoolByCaller, PoolByConstruction DEF Next, WorkerStep


----------------------------------------------------------------------------
(* The tokens of the PUTs.                                                 *)

(* The numbers of the queue, as the steps below use them.                  *)
LEMMA QueueTypes ==
  ASSUME TypeOK
  PROVE  /\ dev.fifo \in Seq(Slots \X Versions) /\ Len(dev.fifo) \in Nat
         /\ dev.puts \in Nat /\ Backed0 \in Int
         /\ \A s \in Slots : dir[s] # None => dir[s] \in Entry /\ dir[s].ver \in Nat
         /\ \A s \in Slots : dir[s] # None =>
                dir[s] = [ver |-> dir[s].ver, at |-> dir[s].at]
<1>1. dev.fifo \in Seq(Slots \X Versions) /\ dev.puts \in Versions
  BY DEF TypeOK, DeviceState
<1>2. Len(dev.fifo) \in Nat /\ dev.puts \in Nat
  BY <1>1, Constants DEF Versions
<1>3. \A s \in Slots : dir[s] # None => dir[s] \in Entry
  BY DEF TypeOK
<1>4. \A e \in Entry : e.ver \in Nat /\ e = [ver |-> e.ver, at |-> e.at]
  BY Constants DEF Entry, Versions
<1> QED
  BY <1>1, <1>2, <1>3, <1>4 DEF Backed0

(* Steps that touch neither the directory nor the queue keep the tokens.   *)
LEMMA TokensStay ==
  ASSUME TypeOK, Tokens,
         dir' = dir, dev'.fifo = dev.fifo, dev'.puts = dev.puts,
         dev'.op = dev.op, dev'.slot = dev.slot, dev'.ver = dev.ver,
         dev'.step = "loop" <=> dev.step = "loop"
  PROVE  Tokens'
<1>1. Backed0' = Backed0
  BY DEF Backed0
<1> QED
  BY <1>1 DEF Tokens, Fetching

(* The head of the queue leaves it: it is backed from then on, or has been *)
(* overwritten or removed.                                                 *)
LEMMA QueueAfterTail ==
  ASSUME TypeOK, Tokens, dev.fifo # <<>>,
         dev'.fifo = Tail(dev.fifo), dev'.puts = dev.puts
  PROVE  /\ Backed0' = Backed0 + 1 /\ Head(dev.fifo)[2] = Backed0 + 1
         /\ Len(dev'.fifo) <= dev'.puts
         /\ \A i \in DOMAIN dev'.fifo : dev'.fifo[i][2] = Backed0' + i
         /\ \A s \in Slots :
                /\ dir[s] # None
                /\ dir[s].at = "Pending"
                /\ s # Head(dev.fifo)[1] \/ dir[s].ver # Head(dev.fifo)[2]
                => /\ dir[s].ver > Backed0'
                   /\ dev'.fifo[dir[s].ver - Backed0'][1] = s
<1> DEFINE q == dev.fifo
           n == Len(dev.fifo)
<1>1. /\ q \in Seq(Slots \X Versions) /\ n \in Nat /\ dev.puts \in Nat
      /\ Backed0 = dev.puts - n
  BY QueueTypes DEF Backed0
<1>2. /\ n >= 1 /\ Len(Tail(q)) = n - 1 /\ DOMAIN Tail(q) = 1..(n - 1)
      /\ \A i \in 1..(n - 1) : Tail(q)[i] = q[i + 1]
      /\ Head(q) = q[1] /\ DOMAIN q = 1..n
  BY <1>1
<1>3. n <= dev.puts /\ Backed0 \in Nat /\ \A i \in 1..n : q[i][2] = Backed0 + i
  <2>1. n <= dev.puts
    BY DEF Tokens
  <2>2. Backed0 \in Nat
    <3> HIDE DEF n
    <3> QED
      BY <1>1, <2>1
  <2>3. \A i \in 1..n : q[i][2] = Backed0 + i
    BY <1>2 DEF Tokens
  <2> QED
    BY <2>1, <2>2, <2>3
<1>4. Backed0' = Backed0 + 1
  BY <1>1, <1>2 DEF Backed0
<1>5. ASSUME NEW s \in Slots, dir[s] # None, dir[s].at = "Pending",
             s # Head(q)[1] \/ dir[s].ver # Head(q)[2]
      PROVE  dir[s].ver > Backed0' /\ Tail(q)[dir[s].ver - Backed0'][1] = s
  <2> DEFINE v == dir[s].ver
             i == v - Backed0'
  <2>1. /\ v \in Nat /\ v > Backed0 /\ v <= dev.puts
        /\ q[v - Backed0][1] = s
    BY <1>5, QueueTypes DEF Tokens
  <2> HIDE DEF v, q, n
  <2>2. v # Backed0 + 1
    <3>1. v = Backed0 + 1 => v - Backed0 = 1
      BY <1>3
    <3>2. q[1][2] = Backed0 + 1
      BY <1>2, <1>3
    <3> QED
      BY <1>2, <1>5, <2>1, <3>1, <3>2 DEF v, q
  <2>3. i \in 1..(n - 1) /\ i + 1 = v - Backed0 /\ v > Backed0'
    <3> DEFINE b == Backed0
               p == dev.puts
               c == Backed0'
    <3>1. /\ b \in Nat /\ p \in Nat /\ n \in Nat /\ v \in Nat
          /\ b = p - n /\ v > b /\ v <= p /\ v # b + 1 /\ c = b + 1
      BY <1>1, <1>3, <1>4, <2>1, <2>2
    <3> HIDE DEF b, p, c
    <3>2. v - c \in 1..(n - 1) /\ (v - c) + 1 = v - b /\ v > c
      BY <3>1
    <3> QED
      BY <3>2 DEF b, c
  <2> HIDE DEF i
  <2>4. Tail(q)[i] = q[i + 1]
    BY <1>2, <2>3
  <2> QED
    BY <2>1, <2>3, <2>4 DEF i, v, q
<1>6. \A i \in 1..(n - 1) : q[i + 1][2] = Backed0 + (i + 1)
  <2> HIDE DEF q, n
  <2>1. \A i \in 1..(n - 1) : i + 1 \in 1..n
    BY <1>1
  <2> QED
    BY <1>3, <2>1
<1>7. dev'.fifo = Tail(q)
  BY DEF q
<1> HIDE DEF q, n
<1>8. \A i \in DOMAIN dev'.fifo : dev'.fifo[i][2] = Backed0' + i
  <2>1. ASSUME NEW i \in 1..(n - 1)
        PROVE  Tail(q)[i][2] = Backed0' + i
    <3>1. Tail(q)[i] = q[i + 1] /\ q[i + 1][2] = Backed0 + (i + 1)
      BY <1>2, <1>6
    <3>2. Backed0 + (i + 1) = Backed0' + i
      BY <1>3, <1>4
    <3> QED
      BY <3>1, <3>2
  <2> QED
    BY <1>2, <1>7, <2>1
<1>9. Len(dev'.fifo) <= dev'.puts
  <2>1. n - 1 <= dev.puts
    BY <1>1, <1>3
  <2> QED
    BY <1>2, <1>7, <2>1
<1>10. Head(q)[2] = Backed0 + 1
  BY <1>2, <1>3
<1> QED
  BY <1>4, <1>5, <1>7, <1>8, <1>9, <1>10 DEF q

(* A stale token leaves the queue and no entry waits for it.               *)
LEMMA TokensBySkip ==
  ASSUME TypeOK, Tokens, SkipStale
  PROVE  Tokens'
<1>1. /\ dev.fifo # <<>> /\ dir' = dir /\ dev.step = "loop"
      /\ dev' = [dev EXCEPT !.fifo = Tail(dev.fifo)]
      /\ ~Current(Head(dev.fifo))
  BY DEF SkipStale, Device
<1>2. /\ dev'.fifo = Tail(dev.fifo) /\ dev'.puts = dev.puts
      /\ dev'.op = dev.op /\ dev'.step = dev.step
  BY <1>1 DEF TypeOK, DeviceState
<1>3. dev.op = "none"
  BY <1>1 DEF Tokens
<1>4. \A s \in Slots : dir[s] # None =>
          s # Head(dev.fifo)[1] \/ dir[s].ver # Head(dev.fifo)[2]
  BY <1>1 DEF Current
<1>5. \A s \in Slots : dir[s] # None => dir[s].ver \in Nat
  BY QueueTypes
<1>6. Backed0 \in Int /\ dev.puts \in Nat
  BY QueueTypes
<1>7. /\ Backed0' = Backed0 + 1 /\ Len(dev'.fifo) <= dev'.puts
      /\ \A i \in DOMAIN dev'.fifo : dev'.fifo[i][2] = Backed0' + i
      /\ \A s \in Slots : dir[s] # None /\ dir[s].at = "Pending" =>
             dir[s].ver > Backed0' /\ dev'.fifo[dir[s].ver - Backed0'][1] = s
  BY <1>1, <1>2, <1>4, QueueAfterTail
<1>8. \A s \in Slots : dir[s] # None =>
          /\ dir[s].ver \in 1..dev'.puts
          /\ dir[s].at # "Pending" => dir[s].ver <= Backed0'
  BY <1>2, <1>5, <1>6, <1>7 DEF Tokens
<1> QED
  BY <1>1, <1>2, <1>3, <1>7, <1>8 DEF Tokens, Fetching

(* A written or fetched entry is the one its request named.                *)
LEMMA TokensByDrain ==
  ASSUME TypeOK, Channel, Tokens, Drain
  PROVE  Tokens'
<1> DEFINE s == dev.slot
           moved == [dir EXCEPT ![s] = [dir[s] EXCEPT !.at = "Device"]]
           fifo == IF dev.op = "write" THEN Tail(dev.fifo) ELSE dev.fifo
<1>1. /\ dev.step = "drain"
      /\ dev' = [dev EXCEPT !.step = "loop", !.op = "none", !.slot = None,
                            !.ver = 0, !.unit = None, !.chunk = 0,
                            !.got = Whole(0), !.fifo = fifo]
      /\ dir' = IF dev.op \in {"write", "promote"} THEN moved ELSE dir
  BY DEF Drain, Device
<1> HIDE DEF fifo
<1>2. /\ dev'.step = "loop" /\ dev'.op = "none" /\ dev'.puts = dev.puts
      /\ dev'.fifo = fifo
  BY <1>1 DEF TypeOK, DeviceState
<1>3. s \in Slots
  BY <1>1 DEF Channel
<1>4. CASE dev.op \notin {"write", "promote"}
  <2>1. dir' = dir /\ dev'.fifo = dev.fifo /\ Backed0' = Backed0
    BY <1>1, <1>2, <1>4 DEF fifo, Backed0
  <2> QED
    BY <1>2, <2>1 DEF Tokens, Fetching
<1>5. dev.op \in {"write", "promote"} =>
          /\ dir[s] # None /\ dir[s] \in Entry
          /\ dir[s].ver = dev.ver
          /\ dir'[s] # None /\ dir'[s].ver = dev.ver /\ dir'[s].at = "Device"
          /\ \A t \in Slots : t # s => dir'[t] = dir[t]
  <2>1. ASSUME dev.op \in {"write", "promote"}
        PROVE  dir[s] = [ver |-> dev.ver, at |-> IF dev.op = "write" THEN "Pending"
                                                 ELSE "Host"]
    BY <2>1 DEF Tokens, Fetching
  <2>2. dev.ver \in Versions
    BY DEF TypeOK, DeviceState
  <2>3. \A v \in Versions, at \in Locations :
            [ver |-> v, at |-> at] \in Entry /\ [ver |-> v, at |-> at] # None
    BY Constants DEF Entry
  <2>4. [[ver |-> dev.ver, at |-> "Pending"] EXCEPT !.at = "Device"]
            = [ver |-> dev.ver, at |-> "Device"]
    OBVIOUS
  <2>5. [[ver |-> dev.ver, at |-> "Host"] EXCEPT !.at = "Device"]
            = [ver |-> dev.ver, at |-> "Device"]
    OBVIOUS
  <2>6. ASSUME dev.op \in {"write", "promote"}
        PROVE  moved[s] = [ver |-> dev.ver, at |-> "Device"]
    BY <1>3, <2>1, <2>4, <2>5, <2>6 DEF TypeOK
  <2>7. \A t \in Slots : t # s => moved[t] = dir[t]
    BY <1>3 DEF TypeOK
  <2>8. ASSUME dev.op \in {"write", "promote"}
        PROVE  dir[s] # None /\ dir[s] \in Entry /\ dir[s].ver = dev.ver
    <3>1. PICK at \in Locations : dir[s] = [ver |-> dev.ver, at |-> at]
      BY <2>1, <2>8 DEF Locations
    <3>2. [ver |-> dev.ver, at |-> at] \in Entry /\ [ver |-> dev.ver, at |-> at] # None
      BY <2>2, <2>3
    <3> QED
      BY <3>1, <3>2
  <2>9. ASSUME dev.op \in {"write", "promote"}
        PROVE  moved[s] # None /\ moved[s].ver = dev.ver /\ moved[s].at = "Device"
    <3>1. "Device" \in Locations
      BY DEF Locations
    <3>2. [ver |-> dev.ver, at |-> "Device"] # None
      BY <2>2, <2>3, <3>1
    <3>3. moved[s] = [ver |-> dev.ver, at |-> "Device"]
      BY <2>6, <2>9
    <3> HIDE DEF moved
    <3> QED
      BY <3>2, <3>3
  <2> HIDE DEF moved
  <2> QED
    BY <1>1, <2>7, <2>8, <2>9
<1>6. /\ dev.puts \in Nat /\ Backed0 \in Int
      /\ \A t \in Slots : dir[t] # None => dir[t].ver \in Nat
  BY QueueTypes
<1> HIDE DEF moved, s
<1>7. CASE dev.op = "promote"
  <2>1. dev'.fifo = dev.fifo /\ Backed0' = Backed0
    BY <1>2, <1>7 DEF fifo, Backed0
  <2>2. dir[s].at = "Host"
    BY <1>7 DEF Tokens, Fetching, s
  <2>3. \A t \in Slots : dir'[t] # None =>
            /\ dir'[t].ver \in 1..dev'.puts
            /\ dir'[t].at # "Pending" => dir'[t].ver <= Backed0'
            /\ dir'[t].at = "Pending" =>
                 dir'[t].ver > Backed0' /\ dev'.fifo[dir'[t].ver - Backed0'][1] = t
    <3>1. ASSUME NEW t \in Slots, dir[t] # None
          PROVE  /\ dir[t].ver \in 1..dev.puts
                 /\ dir[t].at # "Pending" => dir[t].ver <= Backed0
                 /\ dir[t].at = "Pending" =>
                      dir[t].ver > Backed0 /\ dev.fifo[dir[t].ver - Backed0][1] = t
      BY <3>1 DEF Tokens
    <3>2. dir'[s] # None /\ dir'[s].ver = dir[s].ver /\ dir'[s].at = "Device"
      BY <1>5, <1>7
    <3>3. dir[s].ver \in 1..dev.puts /\ dir[s].ver <= Backed0
      BY <1>3, <1>5, <1>7, <2>2, <3>1
    <3> QED
      BY <1>2, <1>5, <1>7, <2>1, <3>1, <3>2, <3>3
  <2> QED
    BY <1>2, <2>1, <2>3 DEF Tokens, Fetching
<1>8. CASE dev.op = "write"
  <2>1. dev.fifo # <<>> /\ Head(dev.fifo) = <<s, dev.ver>>
    BY <1>8 DEF Tokens, s
  <2>2. /\ Backed0' = Backed0 + 1 /\ dev.ver = Backed0 + 1
        /\ Len(dev'.fifo) <= dev'.puts
        /\ \A i \in DOMAIN dev'.fifo : dev'.fifo[i][2] = Backed0' + i
        /\ \A t \in Slots :
               dir[t] # None /\ dir[t].at = "Pending" /\ t # s =>
                   dir[t].ver > Backed0' /\ dev'.fifo[dir[t].ver - Backed0'][1] = t
    <3>1. dev'.fifo = Tail(dev.fifo)
      BY <1>2, <1>8 DEF fifo
    <3>2. Head(dev.fifo)[1] = s /\ Head(dev.fifo)[2] = dev.ver
      BY <2>1
    <3> QED
      BY <1>2, <2>1, <3>1, <3>2, QueueAfterTail
  <2>3. \A t \in Slots : dir'[t] # None =>
            /\ dir'[t].ver \in 1..dev'.puts
            /\ dir'[t].at # "Pending" => dir'[t].ver <= Backed0'
            /\ dir'[t].at = "Pending" =>
                 dir'[t].ver > Backed0' /\ dev'.fifo[dir'[t].ver - Backed0'][1] = t
    <3>1. ASSUME NEW t \in Slots, t # s, dir[t] # None
          PROVE  /\ dir[t].ver \in 1..dev.puts
                 /\ dir[t].at # "Pending" => dir[t].ver <= Backed0'
      BY <1>6, <2>2, <3>1 DEF Tokens
    <3>2. dev.ver \in 1..dev.puts /\ dev.ver <= Backed0'
      BY <1>3, <1>5, <1>6, <1>8, <2>2 DEF Tokens
    <3>3. \A t \in Slots : t # s => dir'[t] = dir[t]
      BY <1>5, <1>8
    <3>4. dir'[s].ver = dev.ver /\ dir'[s].at = "Device"
      BY <1>5, <1>8
    <3>5. ASSUME NEW t \in Slots, t # s, dir'[t] # None
          PROVE  /\ dir'[t].ver \in 1..dev'.puts
                 /\ dir'[t].at # "Pending" => dir'[t].ver <= Backed0'
                 /\ dir'[t].at = "Pending" =>
                      dir'[t].ver > Backed0' /\ dev'.fifo[dir'[t].ver - Backed0'][1] = t
      BY <1>2, <2>2, <3>1, <3>3, <3>5
    <3> QED
      BY <1>2, <3>2, <3>4, <3>5
  <2> QED
    BY <1>2, <2>2, <2>3 DEF Tokens, Fetching
<1> QED
  BY <1>4, <1>7, <1>8

(* A new PUT appends its own token.                                        *)
LEMMA TokensByPut ==
  ASSUME TypeOK, Tokens, NEW s \in Slots, IssuePut(s)
  PROVE  Tokens'
<1> DEFINE v == dev.puts + 1
           q == dev.fifo
           n == Len(dev.fifo)
<1>1. /\ dev.step = "loop"
      /\ dev' = [dev EXCEPT !.puts = v, !.fifo = Append(q, <<s, v>>)]
      /\ dir' = [dir EXCEPT ![s] = [ver |-> v, at |-> "Pending"]]
  BY DEF IssuePut, Device
<1>2. /\ dev'.puts = v /\ dev'.fifo = Append(q, <<s, v>>)
      /\ dev'.op = "none" /\ dev'.step = "loop"
  BY <1>1 DEF TypeOK, DeviceState, Tokens
<1>3. /\ q \in Seq(Slots \X Versions) /\ n \in Nat /\ dev.puts \in Nat
      /\ Backed0 = dev.puts - n
      /\ \A t \in Slots : dir[t] # None => dir[t].ver \in Nat
  BY QueueTypes DEF Backed0
<1>4. /\ Len(Append(q, <<s, v>>)) = n + 1
      /\ DOMAIN Append(q, <<s, v>>) = 1..(n + 1)
      /\ \A i \in 1..n : Append(q, <<s, v>>)[i] = q[i]
      /\ Append(q, <<s, v>>)[n + 1] = <<s, v>>
      /\ DOMAIN q = 1..n
  BY <1>3
<1>5. Backed0' = Backed0 /\ v = Backed0 + (n + 1)
  BY <1>2, <1>3, <1>4 DEF Backed0
<1>6. /\ dir'[s] = [ver |-> v, at |-> "Pending"]
      /\ \A t \in Slots : t # s => dir'[t] = dir[t]
  BY <1>1 DEF TypeOK
<1> HIDE DEF q
<1>7. \A i \in 1..(n + 1) : Append(q, <<s, v>>)[i][2] = Backed0 + i
  <2>1. \A i \in 1..n : q[i][2] = Backed0 + i
    BY <1>4 DEF Tokens, q
  <2> QED
    BY <1>3, <1>4, <1>5, <2>1
<1>8. n <= dev.puts
  BY DEF Tokens
<1>9. ASSUME NEW t \in Slots, dir'[t] # None
      PROVE  /\ dir'[t].ver \in 1..v
             /\ dir'[t].at # "Pending" => dir'[t].ver <= Backed0
             /\ dir'[t].at = "Pending" =>
                   /\ dir'[t].ver > Backed0
                   /\ Append(q, <<s, v>>)[dir'[t].ver - Backed0][1] = t
  <2>1. CASE t = s
    <3>1. v - Backed0 = n + 1 /\ v > Backed0 /\ v \in 1..v
      <4> HIDE DEF v, n
      <4>1. v \in Nat /\ v >= 1 /\ n \in Nat /\ Backed0 \in Int
        BY <1>3 DEF v, n
      <4> QED
        BY <1>5, <4>1
    <3> QED
      BY <1>4, <1>6, <2>1, <3>1
  <2>2. CASE t # s
    <3>1. /\ dir[t] # None /\ dir'[t] = dir[t] /\ dir[t].ver \in 1..dev.puts
      BY <1>6, <1>9, <2>2 DEF Tokens
    <3>2. CASE dir[t].at = "Pending"
      <4>1. dir[t].ver > Backed0 /\ q[dir[t].ver - Backed0][1] = t
        BY <3>1, <3>2 DEF Tokens, q
      <4>2. dir[t].ver - Backed0 \in 1..n
        BY <1>3, <3>1, <4>1
      <4> QED
        BY <1>3, <1>4, <3>1, <3>2, <4>1, <4>2
    <3>3. CASE dir[t].at # "Pending"
      BY <1>3, <3>1, <3>3 DEF Tokens
    <3> QED
      BY <3>2, <3>3
  <2> QED
    BY <2>1, <2>2
<1> HIDE DEF v, n
<1>10. /\ Len(dev'.fifo) <= dev'.puts
       /\ \A i \in DOMAIN dev'.fifo : dev'.fifo[i][2] = Backed0' + i
  BY <1>2, <1>3, <1>4, <1>5, <1>7, <1>8 DEF v
<1> QED
  BY <1>2, <1>5, <1>9, <1>10 DEF Tokens, Fetching


(* An eviction or a fetch starts on an entry that is not pending.          *)
LEMMA TokensByRequest ==
  ASSUME TypeOK, Channel, Tokens, NEW s \in Slots,
         \/ Evict(s) \/ FetchFromHost("serve", s) \/ FetchFromHost("promote", s)
  PROVE  Tokens'
<1>1. dev.step = "loop" /\ dev.op = "none"
  BY DEF Evict, FetchFromHost, Device, Tokens
<1>2. CASE Evict(s)
  <2>1. /\ dev' = dev /\ dir[s] # None /\ dir[s].at = "Device"
        /\ dir' = [dir EXCEPT ![s] = [dir[s] EXCEPT !.at = "Host"]]
    BY <1>2 DEF Evict
  <2>2. dir[s] \in Entry
    BY <2>1, QueueTypes
  <2>3. \A e \in Entry : LET h == [e EXCEPT !.at = "Host"]
                         IN  h \in Entry /\ h.ver = e.ver /\ h.at = "Host"
    BY DEF Entry, Locations
  <2>4. /\ dir'[s] # None /\ dir'[s].ver = dir[s].ver /\ dir'[s].at = "Host"
        /\ \A t \in Slots : t # s => dir'[t] = dir[t]
    BY <2>1, <2>2, <2>3, Constants DEF TypeOK
  <2>5. Backed0' = Backed0
    BY <2>1 DEF Backed0
  <2>6. ASSUME NEW t \in Slots, dir'[t] # None
        PROVE  /\ dir'[t].ver \in 1..dev.puts
               /\ dir'[t].at # "Pending" => dir'[t].ver <= Backed0
               /\ dir'[t].at = "Pending" =>
                    dir'[t].ver > Backed0 /\ dev.fifo[dir'[t].ver - Backed0][1] = t
    <3>1. CASE t = s
      BY <2>1, <2>4, <3>1 DEF Tokens
    <3>2. CASE t # s
      BY <2>4, <2>6, <3>2 DEF Tokens
    <3> QED
      BY <3>1, <3>2
  <2> QED
    BY <1>1, <2>1, <2>5, <2>6 DEF Tokens, Fetching
<1>3. ASSUME NEW op \in {"serve", "promote"}, FetchFromHost(op, s)
      PROVE  Tokens'
  <2>1. /\ dir[s] # None /\ dir[s].at = "Host" /\ dir' = dir
        /\ dev' = [dev EXCEPT !.step = "pull", !.op = op, !.slot = s,
                              !.ver = dir[s].ver, !.serves = dev.serves + 1]
    BY <1>3 DEF FetchFromHost
  <2>2. /\ dev'.step = "pull" /\ dev'.op = op /\ dev'.slot = s
        /\ dev'.ver = dir[s].ver /\ dev'.fifo = dev.fifo /\ dev'.puts = dev.puts
    BY <2>1 DEF TypeOK, DeviceState
  <2>3. dir[s] = [ver |-> dev'.ver, at |-> "Host"]
    BY <2>1, <2>2, QueueTypes
  <2>4. Backed0' = Backed0
    BY <2>2 DEF Backed0
  <2> QED
    BY <2>1, <2>2, <2>3, <2>4 DEF Tokens, Fetching
<1> QED
  BY <1>2, <1>3

(* Write-through starts on the head of the queue.                          *)
LEMMA TokensByWrite ==
  ASSUME TypeOK, Tokens, WriteThrough
  PROVE  Tokens'
<1> DEFINE h == Head(dev.fifo)
           t == h[1]
<1>1. /\ dir' = dir /\ dev.fifo # <<>> /\ dir[t] # None /\ dir[t].ver = h[2]
      /\ dev' = [dev EXCEPT !.step = IF server.mapped THEN "ack" ELSE "drain",
                            !.op = "write", !.slot = h[1], !.ver = h[2],
                            !.chunk = 0]
  BY DEF WriteThrough, Current
<1>2. /\ dev'.step # "loop" /\ dev'.op = "write" /\ dev'.slot = t
      /\ dev'.ver = h[2] /\ dev'.fifo = dev.fifo /\ dev'.puts = dev.puts
  BY <1>1 DEF TypeOK, DeviceState
<1>3. /\ h \in Slots \X Versions /\ h = dev.fifo[1] /\ 1 \in DOMAIN dev.fifo
      /\ Backed0 \in Int
  BY <1>1, QueueTypes
<1>4. h = <<h[1], h[2]>> /\ t \in Slots
  BY <1>3
<1>5. h[2] = Backed0 + 1
  BY <1>3 DEF Tokens
<1>6. dir[t].at = "Pending"
  <2>1. dir[t].at # "Pending" => dir[t].ver <= Backed0
    BY <1>1, <1>4 DEF Tokens
  <2> QED
    BY <1>1, <1>3, <1>5, <2>1
<1>7. dir[t] = [ver |-> h[2], at |-> "Pending"]
  BY <1>1, <1>4, <1>6, QueueTypes
<1>8. Backed0' = Backed0
  BY <1>2 DEF Backed0
<1> HIDE DEF h
<1> QED
  BY <1>1, <1>2, <1>4, <1>7, <1>8 DEF Tokens, Fetching, h

(* A removal ends the entry, and its token becomes stale.                  *)
LEMMA TokensByRemove ==
  ASSUME TypeOK, Mailbox, Tokens, ServeRemove
  PROVE  Tokens'
<1> DEFINE s == l1.mailbox
<1>1. dev.step = "loop" /\ dev.op = "none" /\ s \in Slots
  BY DEF ServeRemove, Device, Tokens, Mailbox
<1>2. CASE dir[s] = None
  <2>1. dir' = dir /\ dev' = [dev EXCEPT !.request = l1.request]
    BY <1>2 DEF ServeRemove
  <2>2. /\ dev'.fifo = dev.fifo /\ dev'.puts = dev.puts /\ dev'.op = dev.op
        /\ dev'.slot = dev.slot /\ dev'.ver = dev.ver /\ dev'.step = dev.step
    BY <2>1 DEF TypeOK, DeviceState
  <2> QED
    BY <2>1, <2>2, TokensStay
<1>3. CASE dir[s] # None
  <2>1. /\ dir' = [dir EXCEPT ![s] = None]
        /\ dev' = [dev EXCEPT !.request = l1.request, !.step = "drain",
                              !.op = "remove", !.slot = s]
    BY <1>3 DEF ServeRemove
  <2>2. /\ dev'.fifo = dev.fifo /\ dev'.puts = dev.puts /\ dev'.op = "remove"
        /\ dev'.slot = s /\ dev'.step = "drain"
    BY <2>1 DEF TypeOK, DeviceState
  <2>3. dir'[s] = None /\ \A t \in Slots : t # s => dir'[t] = dir[t]
    BY <1>1, <2>1 DEF TypeOK
  <2>4. Backed0' = Backed0
    BY <2>2 DEF Backed0
  <2> HIDE DEF s
  <2> QED
    BY <1>1, <2>2, <2>3, <2>4 DEF Tokens, Fetching
<1> QED
  BY <1>2, <1>3

(* Every step keeps the tokens.                                            *)
LEMMA TokensStep ==
  ASSUME TypeOK, Mailbox, Channel, Tokens, [Next]_vars
  PROVE  Tokens'
<1>1. CASE ReadAck \/ Push \/ ReadCommit \/ Pull
  <2>1. dir' = dir
    BY <1>1 DEF ReadAck, Push, ReadCommit, Pull
  <2>2. /\ dev'.fifo = dev.fifo /\ dev'.puts = dev.puts /\ dev'.op = dev.op
        /\ dev'.slot = dev.slot /\ dev'.ver = dev.ver
        /\ dev.step # "loop" /\ dev'.step # "loop"
    <3> USE DEF TypeOK, DeviceState, Device
    <3>1. CASE ReadAck \/ Push
      BY <3>1 DEF ReadAck, Push
    <3>2. CASE ReadCommit
      BY <3>2 DEF ReadCommit
    <3>3. CASE Pull
      BY <3>3 DEF Pull
    <3> QED
      BY <1>1, <3>1, <3>2, <3>3
  <2> QED
    BY <2>1, <2>2, TokensStay
<1>2. CASE dir' = dir /\ dev' = dev
  BY <1>2, TokensStay
<1>3. Terminated => dir' = dir /\ dev' = dev
  BY DEF Terminated
<1>4. Construction \/ UNCHANGED vars => dir' = dir /\ dev' = dev
  BY DEF Construction, Construct, LaunchFails, LaunchOutcomeUnknown, Launch,
     vars
<1>5. WorkerStep \/ Raise => dir' = dir /\ dev' = dev
  BY DEF WorkerStep, Poll, Reserve, Acknowledge, Pushed, AbandonPush, Publish,
         Copy, Drop, Source, ResetProgress, Stage, PostCommit, Stream, Pulled,
         Finished, Stopped, Raise
<1>6. Calls \/ CallerStep \/ FinishThrows => dir' = dir /\ dev' = dev
  BY CallerMoves
<1>7. DeviceStep => Tokens'
  BY <1>1, <1>2, <1>3, TokensBySkip, TokensByWrite, TokensByDrain,
     TokensByRemove DEF DeviceStep
<1>8. Requests => Tokens'
  BY TokensByPut, TokensByRequest DEF Requests
<1> QED
  BY <1>2, <1>4, <1>5, <1>6, <1>7, <1>8 DEF Next

----------------------------------------------------------------------------
(* The invariant.                                                          *)

(* The handle before construction satisfies the invariant.                 *)
LEMMA InitServer == Init => ServerInv
<1> SUFFICES ASSUME Init
             PROVE  ServerInv
  OBVIOUS
<1>1. TypeOK
  BY InitTypes
<1>2. Users
  BY DEF Init, Users, Idle
<1>3. CallSteps /\ Mailbox
  BY DEF Init, CallSteps, Mailbox, Idle, Diagnosing
<1>4. Channel /\ Words /\ Handshake
  BY DEF Init, Channel, Words, Handshake, Counts, Partners, Requested, Busy,
         Alive, Fetching
<1>5. Pool
  <2>1. \A s \in Slots : Extent(s) = {}
    BY DEF Init, Extent
  <2>2. InFlight = {} /\ free = {} /\ server.memory = "none"
    BY DEF Init, InFlight
  <2> QED
    BY <2>1, <2>2 DEF Init, Pool
<1>6. Tokens
  BY DEF Init, Tokens, Fetching
<1> QED
  BY <1>1, <1>2, <1>3, <1>4, <1>5, <1>6 DEF ServerInv

(* Every step keeps the invariant.                                         *)
LEMMA StepServer == ServerInv /\ [Next]_vars => ServerInv'
<1> SUFFICES ASSUME ServerInv, [Next]_vars
             PROVE  ServerInv'
  OBVIOUS
<1> USE DEF ServerInv
<1>1. TypeOK'
  BY TypesStep
<1>2. Users' /\ CallSteps' /\ Mailbox'
  BY <1>1, UsersStep, CallsStep, MailboxStep
<1>3. Channel' /\ Words' /\ Handshake'
  BY HandshakeStep
<1>4. Pool' /\ Tokens'
  BY PoolStep, TokensStep
<1> QED
  BY <1>1, <1>2, <1>3, <1>4

(* The invariant holds of the Server whatever its sizes and its traffic    *)
(* are.                                                                    *)
THEOREM ServerInvariant == Spec => []ServerInv
<1> QED
  BY InitServer, StepServer, PTL DEF Spec

(* The state is well typed in every execution.                             *)
THEOREM TypeCorrect == Spec => []TypeOK
<1>1. ServerInv => TypeOK
  BY DEF ServerInv
<1> QED
  BY <1>1, ServerInvariant, PTL

(* The Server's memory is freed only when neither the kernel nor the       *)
(* worker can touch it any more: prepare, close, the drain, quarantine     *)
(* and Join in any order.                                                  *)
THEOREM MemoryIsKept == Spec => []MemoryOutlivesUsers
<1>1. ServerInv => MemoryOutlivesUsers
  BY DEF ServerInv, Users, TypeOK, ServerState, MemoryOutlivesUsers
<1> QED
  BY <1>1, ServerInvariant, PTL

(* Every unit of the arena is free, under one value or in the worker's     *)
(* hands, and in one of these only.                                        *)
THEOREM PoolAccounting == Spec => []PoolAccounted
<1>1. ASSUME ServerInv
      PROVE  PoolAccounted
  <2> DEFINE Of(s) == IF values[s] = None THEN {} ELSE {values[s].unit} \ {None}
             Resident == UNION {Of(s) : s \in Slots}
  <2>1. TypeOK /\ Pool
    BY <1>1 DEF ServerInv
  <2>2. \A s : Of(s) = Extent(s)
    BY DEF Extent
  <2>3. Resident \subseteq Units /\ InFlight \subseteq Units /\ free \subseteq Units
    BY <2>1, <2>2, ExtentUnits
  <2>4. /\ free \cap (Resident \cup InFlight) = {}
        /\ InFlight \cap Resident = {}
    BY <2>1, <2>2 DEF Pool
  <2>5. ASSUME server.mapped /\ server.memory = "held" /\ ~worker.failed
        PROVE  free \cup Resident \cup InFlight = Units
    <3>1. ASSUME NEW u \in Units
          PROVE  u \in free \cup Resident \cup InFlight
      BY <2>1, <2>2, <2>5 DEF Pool, Spare
    <3> QED
      BY <2>3, <3>1
  <2>6. \A s, t \in Slots : s # t => Of(s) \cap Of(t) = {}
    BY <2>1, <2>2 DEF Pool
  <2> QED
    BY <2>4, <2>5, <2>6 DEF PoolAccounted, InFlight
<1> QED
  BY <1>1, ServerInvariant, PTL


----------------------------------------------------------------------------
(* The data at rest.                                                       *)

(* The slot the worker or the device moves is in this state.               *)
LEMMA MovedEntry ==
  ASSUME ServerInv
  PROVE  /\ dev.ver \in Versions
         /\ dev.op = "write" => /\ dir[dev.slot] # None
                                /\ dir[dev.slot].ver = dev.ver
                                /\ dir[dev.slot].at = "Pending"
         /\ Fetching => /\ dir[dev.slot] # None
                        /\ dir[dev.slot].ver = dev.ver
                        /\ dir[dev.slot].at = "Host"
         /\ dev.op = "remove" => dir[dev.slot] = None
         /\ dev.step # "loop" => dev.slot \in Slots
<1>1. TypeOK /\ Tokens /\ Channel
  BY DEF ServerInv
<1>2. dev.ver \in Versions
  BY <1>1 DEF TypeOK, DeviceState
<1>3. \A at \in Locations : [ver |-> dev.ver, at |-> at] # None
  <2>1. \A at \in Locations : [ver |-> dev.ver, at |-> at] \in Entry
    BY <1>2 DEF Entry
  <2> QED
    BY <2>1, Constants
<1>4. "Pending" \in Locations /\ "Host" \in Locations
  BY DEF Locations
<1>5. ASSUME dev.op = "write"
      PROVE  /\ dir[dev.slot] # None /\ dir[dev.slot].ver = dev.ver
             /\ dir[dev.slot].at = "Pending"
  <2>1. dir[dev.slot] = [ver |-> dev.ver, at |-> "Pending"]
    BY <1>1, <1>5 DEF Tokens
  <2>2. [ver |-> dev.ver, at |-> "Pending"] # None
    BY <1>3, <1>4
  <2> QED
    BY <2>1, <2>2
<1>6. ASSUME Fetching
      PROVE  /\ dir[dev.slot] # None /\ dir[dev.slot].ver = dev.ver
             /\ dir[dev.slot].at = "Host"
  <2>1. dir[dev.slot] = [ver |-> dev.ver, at |-> "Host"]
    BY <1>1, <1>6 DEF Tokens
  <2>2. [ver |-> dev.ver, at |-> "Host"] # None
    BY <1>3, <1>4
  <2> QED
    BY <2>1, <2>2
<1> QED
  BY <1>1, <1>2, <1>5, <1>6 DEF Tokens, Channel

(* A host copy nobody writes stays whole.                                  *)
LEMMA InHostStays ==
  ASSUME NEW s \in Slots, NEW v, InHost(s, v), values'[s] = values[s],
         \A u \in Extent(s) : ram'[u] = ram[u]
  PROVE  InHost(s, v)'
<1>1. values[s].unit # None => values[s].unit \in Extent(s)
  BY DEF Extent, InHost
<1> QED
  BY <1>1 DEF InHost, HostBytes

(* A device copy nobody writes stays whole.                                *)
LEMMA OnDeviceStays ==
  ASSUME NEW s \in Slots, NEW v, OnDevice(s, v),
         \A u \in UnitsOf(s) : heap'[u] = heap[u]
  PROVE  OnDevice(s, v)'
BY DEF OnDevice, UnitsOf, Base

(* Only the extents and the heap units of one slot change.                 *)
LEMMA SettledElsewhere ==
  ASSUME Settled, NEW s, NEW v,
         \A t \in Slots : t # s => dir'[t] = dir[t] /\ values'[t] = values[t],
         \A t \in Slots : t # s => \A u \in Extent(t) : ram'[u] = ram[u],
         \A t \in Slots : t # s => \A u \in UnitsOf(t) : heap'[u] = heap[u],
         s \in Slots /\ dir'[s] # None =>
             /\ dir'[s].ver = v
             /\ dir'[s].at # "Pending" => InHost(s, v)'
             /\ dir'[s].at # "Host" => OnDevice(s, v)'
  PROVE  Settled'
<1> DEFINE Sound(t) ==
             dir[t] # None =>
                 /\ dir[t].at # "Pending" => InHost(t, dir[t].ver)
                 /\ dir[t].at # "Host" => OnDevice(t, dir[t].ver)
<1>1. ASSUME NEW t \in Slots, t # s
      PROVE  Sound(t)'
  <2>1. PICK w : w = dir[t].ver
    OBVIOUS
  <2>2. dir'[t] = dir[t]
    BY <1>1
  <2>3. dir[t] # None /\ dir[t].at # "Pending" => InHost(t, w)'
    BY <1>1, <2>1, InHostStays DEF Settled
  <2>4. dir[t] # None /\ dir[t].at # "Host" => OnDevice(t, w)'
    BY <1>1, <2>1, OnDeviceStays DEF Settled
  <2> QED
    BY <2>1, <2>2, <2>3, <2>4
<1>2. s \in Slots => Sound(s)'
  OBVIOUS
<1> QED
  BY <1>1, <1>2 DEF Settled

(* Steps that touch no copy keep all of them.                              *)
LEMMA SettledStays ==
  ASSUME Settled, dir' = dir, values' = values, heap' = heap,
         \A t \in Slots : \A u \in Extent(t) : ram'[u] = ram[u]
  PROVE  Settled'
BY Constants, SettledElsewhere

(* The worker overwrites or drops only copies no entry rests on.           *)
LEMMA SettledByWorker ==
  ASSUME ServerInv, Settled, WorkerStep \/ Raise
  PROVE  Settled'
<1>0. TypeOK /\ Channel /\ Handshake
  BY DEF ServerInv
<1>1. dir' = dir
  BY DEF WorkerStep, Poll, Reserve, Acknowledge, Pushed, AbandonPush, Publish,
         Copy, Drop, Source, ResetProgress, Stage, PostCommit, Stream, Pulled,
         Finished, Stopped, Raise
<1>2. \A t \in Slots : None \notin Extent(t)
  BY <1>0, ExtentUnits
<1>3. CASE Reserve \/ Publish \/ Copy \/ Drop
  <2>1. /\ ram' = ram /\ heap' = heap
        /\ \E x : values' = [values EXCEPT ![worker.slot] = x]
    BY <1>3 DEF Reserve, Publish, Copy, Drop
  <2>2. worker.slot \in Slots /\ worker.slot = dev.slot
    BY <1>0, <1>3, BusyOn DEF Reserve, Publish, Copy, Drop, Working, Busy
  <2>3. dev.op = "write" \/ dev.op = "remove"
    BY <1>0, <1>3
       DEF Reserve, Publish, Copy, Drop, Working, Handshake, Requested
  <2>4. PICK s \in Slots : s = worker.slot
    BY <2>2
  <2>5. PICK v : v = dir[s].ver
    OBVIOUS
  <2>6. dir[s] # None => dir[s].at = "Pending" /\ OnDevice(s, v)
    BY <2>2, <2>3, <2>4, <2>5, MovedEntry DEF Settled
  <2>7. \A t \in Slots : t # s => values'[t] = values[t]
    BY <1>0, <2>1, <2>4 DEF TypeOK
  <2>8. dir[s] # None => OnDevice(s, v)'
    BY <2>1, <2>6, OnDeviceStays
  <2> QED
    BY <1>1, <2>1, <2>5, <2>6, <2>7, <2>8, SettledElsewhere
<1>4. CASE Stage
  <2>1. /\ worker.step = "stage" /\ values' = values
        /\ IF server.mapped
           THEN /\ ram' = ram \/ ram' = [ram EXCEPT ![None] = HostBytes(worker.slot)]
                /\ heap' = heap
           ELSE /\ heap' = WriteUnits(Base(worker.slot), HostBytes(worker.slot))
                /\ ram' = ram
    BY <1>4 DEF Stage, Working
  <2>2. CASE server.mapped
    <3>1. \A t \in Slots : \A u \in Extent(t) : ram'[u] = ram[u]
      BY <1>0, <1>2, <2>1, <2>2, ExtentUnits DEF TypeOK
    <3> QED
      BY <1>1, <2>1, <2>2, <3>1, SettledStays
  <2>3. CASE ~server.mapped
    <3>1. worker.slot \in Slots /\ worker.slot = dev.slot /\ Fetching
      BY <1>0, <2>1, BusyOn DEF Busy, Handshake, Requested
    <3>2. PICK s, v : s = worker.slot /\ v = dir[worker.slot].ver
      OBVIOUS
    <3>3. \A t \in Slots : t # s => \A u \in UnitsOf(t) : heap'[u] = heap[u]
      BY <2>1, <2>3, <3>1, <3>2, WriteIs, UnitsInHeap, UnitsApart
    <3>4. dir[s] # None /\ dir[s].at = "Host"
      BY <3>1, <3>2, MovedEntry
    <3>5. InHost(s, v)
      BY <3>1, <3>2, <3>4 DEF Settled
    <3>6. InHost(s, v)'
      BY <2>1, <2>3, <3>1, <3>2, <3>5, InHostStays
    <3> QED
      BY <1>1, <2>1, <2>3, <3>2, <3>3, <3>4, <3>6, SettledElsewhere
  <2> QED
    BY <2>2, <2>3
<1>5. CASE Stream
  <2>1. /\ values' = values /\ heap' = heap
        /\ ram' = ram \/ \E x : ram' = [ram EXCEPT ![None] = x]
    BY <1>5 DEF Stream
  <2>2. \A t \in Slots : \A u \in Extent(t) : ram'[u] = ram[u]
    BY <1>0, <1>2, <2>1, ExtentUnits DEF TypeOK
  <2> QED
    BY <1>1, <2>1, <2>2, SettledStays
<1>6. CASE ~Reserve /\ ~Publish /\ ~Copy /\ ~Drop /\ ~Stage /\ ~Stream
  <2>1. values' = values /\ heap' = heap /\ ram' = ram
    BY <1>6
       DEF WorkerStep, Poll, Acknowledge, Pushed, AbandonPush, Source,
           ResetProgress, PostCommit, Pulled, Finished, Stopped, Raise
  <2> QED
    BY <1>1, <2>1, SettledStays
<1> QED
  BY <1>3, <1>4, <1>5, <1>6

(* The device moves an entry only to a place that holds its bytes.         *)
LEMMA SettledByDevice ==
  ASSUME ServerInv, Got, Moving, Settled, DeviceStep
  PROVE  Settled'
<1>0. TypeOK /\ Channel /\ Mailbox /\ Pool /\ Tokens
  BY DEF ServerInv
<1>1. values' = values
  BY DeviceMoves
<1>2. CASE Push
  <2>1. /\ dev.step = "push" /\ heap' = heap /\ dir' = dir
        /\ \E x : ram' = [ram EXCEPT ![dev.unit] = x]
    BY <1>2 DEF Push, Device
  <2>2. \A t \in Slots : dev.unit \notin Extent(t)
    BY <1>0, <2>1 DEF Pool, Spare
  <2>3. \A t \in Slots : \A u \in Extent(t) : ram'[u] = ram[u]
    BY <1>0, <2>1, <2>2, ExtentUnits DEF TypeOK
  <2> QED
    BY <1>1, <2>1, <2>3, SettledStays
<1>3. CASE Drain
  <2> DEFINE bytes == dev.got
  <2>0. PICK s, v : s = dev.slot /\ v = dev.ver
    OBVIOUS
  <2>1. /\ dev.step = "drain" /\ l1.processed = l1.move /\ ram' = ram
        /\ dir' = IF dev.op \in {"write", "promote"}
                  THEN [dir EXCEPT ![s].at = "Device"] ELSE dir
        /\ heap' = IF dev.op # "promote" THEN heap
                   ELSE [u \in HeapUnits |->
                            IF u \in Base(s)..(Base(s) + Chunks - 1)
                            THEN bytes[u - Base(s) + 1] ELSE heap[u]]
    BY <1>3, <2>0 DEF Drain, Device, ChannelIdle
  <2>2. s \in Slots
    BY <2>0, <2>1, MovedEntry
  <2>3. CASE dev.op \notin {"write", "promote"}
    BY <1>1, <2>1, <2>3, SettledStays
  <2>4. CASE dev.op \in {"write", "promote"}
    <3>1. dir[s] # None /\ dir[s] \in Entry /\ dir[s].ver = v
      BY <1>0, <2>0, <2>2, <2>4, MovedEntry, QueueTypes DEF Fetching
    <3>2. /\ dir'[s].ver = v /\ dir'[s].at = "Device"
          /\ \A t \in Slots : t # s => dir'[t] = dir[t]
      <4>1. [dir[s] EXCEPT !.at = "Device"].ver = dir[s].ver
        BY <3>1 DEF Entry
      <4>2. [dir[s] EXCEPT !.at = "Device"].at = "Device"
        BY <3>1 DEF Entry
      <4>3. dir' = [dir EXCEPT ![s] = [dir[s] EXCEPT !.at = "Device"]]
        BY <2>1, <2>4
      <4> QED
        BY <1>0, <2>2, <3>1, <4>1, <4>2, <4>3 DEF TypeOK
    <3>3. InHost(s, v)
      BY <2>0, <2>1, <2>2, <2>4, <3>1, MovedEntry DEF Moving, Settled, Fetching
    <3>4. InHost(s, v)'
      BY <1>1, <2>1, <2>2, <3>3, InHostStays
    <3>5. CASE dev.op = "write"
      <4>1. heap' = heap /\ OnDevice(s, v)
        BY <2>0, <2>1, <2>2, <3>1, <3>5, MovedEntry DEF Settled
      <4>2. OnDevice(s, v)'
        BY <2>2, <4>1, OnDeviceStays
      <4> QED
        BY <1>1, <2>1, <3>2, <3>4, <4>1, <4>2, SettledElsewhere
    <3>6. CASE dev.op = "promote"
      <4>1. bytes = Whole(v)
        BY <2>0, <2>1, <3>6 DEF Got, Fetching
      <4>2. UnitsOf(s) = Base(s)..(Base(s) + Chunks - 1)
        BY <2>2, UnitsInHeap
      <4>3. \A u \in UnitsOf(s) : u - Base(s) + 1 \in 1..Chunks
        BY <2>2, <4>2, BaseIs, Constants
      <4>4. \A u \in UnitsOf(s) : bytes[u - Base(s) + 1] = v
        BY <4>1, <4>3 DEF Whole
      <4> HIDE DEF bytes
      <4>5. heap' = [u \in HeapUnits |-> IF u \in UnitsOf(s)
                                         THEN bytes[u - Base(s) + 1] ELSE heap[u]]
        BY <2>1, <3>6, <4>2
      <4>6. \A u \in UnitsOf(s) : heap'[u] = v
        BY <2>2, <4>4, <4>5, UnitsInHeap
      <4>7. OnDevice(s, v)'
        BY <4>6 DEF OnDevice, UnitsOf, Base
      <4>8. \A t \in Slots : t # s => \A u \in UnitsOf(t) : heap'[u] = heap[u]
        BY <2>2, <4>5, UnitsInHeap, UnitsApart
      <4> QED
        BY <1>1, <2>1, <3>2, <3>4, <4>7, <4>8, SettledElsewhere
    <3> QED
      BY <2>4, <3>5, <3>6
  <2> QED
    BY <2>3, <2>4
<1>4. CASE ServeRemove
  <2>1. ram' = ram /\ heap' = heap
    BY <1>4 DEF ServeRemove
  <2>2. dir' = dir \/ dir' = [dir EXCEPT ![l1.mailbox] = None]
    BY <1>4 DEF ServeRemove
  <2>3. CASE dir' = dir
    BY <1>1, <2>1, <2>3, SettledStays
  <2>4. CASE dir' = [dir EXCEPT ![l1.mailbox] = None]
    <3>1. /\ l1.mailbox \in Slots => dir'[l1.mailbox] = None
          /\ \A t \in Slots : t # l1.mailbox => dir'[t] = dir[t]
      BY <1>0, <2>4 DEF TypeOK
    <3> QED
      BY <1>1, <2>1, <3>1, SettledElsewhere
  <2> QED
    BY <2>2, <2>3, <2>4
<1>5. CASE ~Push /\ ~Drain /\ ~ServeRemove
  <2>1. ram' = ram /\ heap' = heap /\ dir' = dir
    BY <1>5
       DEF DeviceStep, SkipStale, WriteThrough, ReadAck, ReadCommit, Pull,
           Terminated
  <2> QED
    BY <1>1, <2>1, SettledStays
<1> QED
  BY <1>2, <1>3, <1>4, <1>5

(* A new PUT writes the units of its own slot; an eviction leaves a host   *)
(* copy.                                                                   *)
LEMMA SettledByRequests ==
  ASSUME ServerInv, Settled, Requests
  PROVE  Settled'
<1>0. TypeOK
  BY DEF ServerInv
<1>1. values' = values /\ ram' = ram
  BY DEF Requests, IssuePut, Evict, FetchFromHost
<1>2. ASSUME NEW s \in Slots, IssuePut(s)
      PROVE  Settled'
  <2>0. PICK v : v = dev.puts + 1
    OBVIOUS
  <2>1. /\ dir' = [dir EXCEPT ![s] = [ver |-> v, at |-> "Pending"]]
        /\ heap' = [u \in HeapUnits |->
                       IF u \in Base(s)..(Base(s) + Chunks - 1) THEN v ELSE heap[u]]
    BY <1>2, <2>0 DEF IssuePut
  <2>2. heap' = [u \in HeapUnits |-> IF u \in UnitsOf(s) THEN v ELSE heap[u]]
    BY <2>1, UnitsInHeap
  <2>3. /\ dir'[s].ver = v /\ dir'[s].at = "Pending"
        /\ \A t \in Slots : t # s => dir'[t] = dir[t]
    BY <1>0, <2>1 DEF TypeOK
  <2>4. \A u \in UnitsOf(s) : heap'[u] = v
    BY <2>2, UnitsInHeap
  <2>5. OnDevice(s, v)'
    BY <2>4 DEF OnDevice, UnitsOf, Base
  <2>6. \A t \in Slots : t # s => \A u \in UnitsOf(t) : heap'[u] = heap[u]
    BY <2>2, UnitsInHeap, UnitsApart
  <2> QED
    BY <1>1, <2>3, <2>5, <2>6, SettledElsewhere
<1>3. ASSUME NEW s \in Slots, Evict(s)
      PROVE  Settled'
  <2>1. /\ dir[s] # None /\ dir[s].at = "Device"
        /\ dir' = [dir EXCEPT ![s] = [dir[s] EXCEPT !.at = "Host"]]
        /\ heap' = [u \in HeapUnits |->
                       IF u \in Base(s)..(Base(s) + Chunks - 1) THEN 0 ELSE heap[u]]
    BY <1>3 DEF Evict
  <2>2. heap' = [u \in HeapUnits |-> IF u \in UnitsOf(s) THEN 0 ELSE heap[u]]
    BY <2>1, UnitsInHeap
  <2>3. dir[s] \in Entry
    BY <1>0, <2>1, QueueTypes
  <2>4. /\ dir'[s].ver = dir[s].ver /\ dir'[s].at = "Host"
        /\ \A t \in Slots : t # s => dir'[t] = dir[t]
    <3>1. /\ [dir[s] EXCEPT !.at = "Host"].ver = dir[s].ver
          /\ [dir[s] EXCEPT !.at = "Host"].at = "Host"
      BY <2>3 DEF Entry
    <3> QED
      BY <1>0, <2>1, <3>1 DEF TypeOK
  <2>5. PICK v : v = dir[s].ver
    OBVIOUS
  <2>7. InHost(s, v)'
    BY <1>1, <2>1, <2>5, InHostStays DEF Settled
  <2>6. \A t \in Slots : t # s => \A u \in UnitsOf(t) : heap'[u] = heap[u]
    BY <2>2, UnitsInHeap, UnitsApart
  <2> QED
    BY <1>1, <2>4, <2>5, <2>6, <2>7, SettledElsewhere
<1>4. ASSUME NEW s \in Slots, NEW op, FetchFromHost(op, s)
      PROVE  Settled'
  <2>1. dir' = dir /\ heap' = heap
    BY <1>4 DEF FetchFromHost
  <2> QED
    BY <1>1, <2>1, SettledStays
<1> QED
  BY <1>2, <1>3, <1>4 DEF Requests


----------------------------------------------------------------------------
(* The data in motion.                                                     *)

(* A value being fetched is whole in the host.                             *)
LEMMA FetchedIsHeld ==
  ASSUME ServerInv, Settled, Fetching
  PROVE  /\ InHost(dev.slot, dev.ver)
         /\ HostBytes(dev.slot) = Whole(dev.ver) /\ values[dev.slot] # None
<1>1. dev.slot \in Slots
  BY MovedEntry DEF ServerInv, Tokens, Fetching
<1> QED
  BY <1>1, MovedEntry DEF Settled, InHost

(* A commit and the bytes behind it stay as they are offered.              *)
LEMMA OfferedStays ==
  ASSUME Offered, dev' = dev, values' = values, ram' = ram, heap' = heap,
         server'.mapped = server.mapped, l1'.progress = l1.progress,
         l1'.commit = l1.commit, l1'.commitUnit = l1.commitUnit
  PROVE  Offered'
<1>1. ASSUME NEW u, Staged(u)
      PROVE  Staged(u)'
  <2>1. PICK s, v : s = dev.slot /\ v = dev.ver
    OBVIOUS
  <2>2. OnDevice(s, v) => OnDevice(s, v)'
    BY DEF OnDevice, UnitsOf, Base
  <2>3. CASE server.mapped
    <3>1. Extent(s)' = Extent(s)
      BY DEF Extent
    <3> QED
      BY <1>1, <2>1, <2>3, <3>1 DEF Staged
  <2>4. CASE ~server.mapped
    <3>1. OnDevice(s, v)'
      BY <1>1, <2>1, <2>2, <2>4 DEF Staged
    <3> QED
      BY <2>1, <2>4, <3>1 DEF Staged
  <2> QED
    BY <2>3, <2>4
<1> QED
  BY <1>1 DEF Offered

(* Steps of the worker that carry no bytes.                                *)
LEMMA MovingQuiet ==
  ASSUME ServerInv, Settled, Moving, Offered,
         \/ Poll \/ Acknowledge \/ Pushed \/ AbandonPush \/ Source \/ Pulled
         \/ Finished \/ Stopped \/ Raise
  PROVE  Moving' /\ Offered'
<1>0. TypeOK /\ Channel /\ Handshake
  BY DEF ServerInv
<1>1. dev' = dev /\ values' = values /\ ram' = ram /\ heap' = heap /\ server' = server
  BY DEF Poll, Acknowledge, Pushed, AbandonPush, Source, Pulled, Finished,
         Stopped, Raise
<1>2. /\ l1'.progress = l1.progress /\ l1'.commit = l1.commit
      /\ l1'.commitUnit = l1.commitUnit /\ l1'.move = l1.move
      /\ l1'.processed # l1.processed => Finished
  BY <1>0 DEF Poll, Acknowledge, Pushed, AbandonPush, Source, Pulled, Finished,
              Stopped, Raise, TypeOK, SharedWords
<1>3. Offered'
  BY <1>1, <1>2, OfferedStays
<1>4. \A s, v : InHost(s, v) => InHost(s, v)'
  BY <1>1 DEF InHost, HostBytes
<1>5. PICK s, v : s = dev.slot /\ v = dev.ver
  OBVIOUS
<1>6. CASE Source
  <2>1. /\ worker.step = "source" /\ l1' = l1
        /\ worker'.step \in {"reset", "stage"} /\ worker'.slot = worker.slot
        /\ worker'.unit = IF values[worker.slot] = None THEN None
                          ELSE values[worker.slot].unit
    BY <1>0, <1>6 DEF Source, Working, TypeOK, WorkerState
  <2>2. dev.op # "write"
    BY <1>0, <2>1 DEF Handshake, Requested, Fetching
  <2>3. values[worker.slot] # None
    BY <1>0, <2>1, FetchedIsHeld DEF Handshake, Requested, Busy
  <2>4. worker'.unit = values'[worker'.slot].unit
    BY <1>1, <2>1, <2>3
  <2> QED
    BY <1>1, <1>3, <2>1, <2>2, <2>4 DEF Moving
<1>7. CASE Pushed
  <2>1. /\ worker.step = "push" /\ worker'.step = "publish" /\ l1' = l1
        /\ worker'.unit = worker.unit
    BY <1>0, <1>7 DEF Pushed, Working, WorkerTo, TypeOK, WorkerState
  <2> QED
    BY <1>1, <1>3, <1>4, <1>5, <2>1 DEF Moving
<1>8. CASE Acknowledge
  <2>1. worker.step = "ack" /\ worker'.step = "push" /\ l1'.processed = l1.processed
    BY <1>0, <1>8
       DEF Acknowledge, Working, WorkerTo, TypeOK, WorkerState, SharedWords
  <2>2. dev.step = "ack"
    BY <1>0, <2>1 DEF Handshake, Partners
  <2> QED
    BY <1>1, <1>2, <1>3, <1>4, <1>5, <2>1, <2>2 DEF Moving
<1>9. CASE Pulled
  <2>1. worker.step = "pull" /\ worker'.step = "finish"
    BY <1>0, <1>9 DEF Pulled, Working, TypeOK, WorkerState
  <2>2. dev.op # "write"
    BY <1>0, <2>1 DEF Handshake, Requested, Fetching
  <2> QED
    BY <1>1, <1>3, <2>1, <2>2 DEF Moving
<1>10. CASE Finished
  <2>1. worker.step = "finish" /\ worker'.step = "poll"
    BY <1>0, <1>10 DEF Finished, Working, TypeOK, WorkerState
  <2> QED
    BY <1>1, <1>3, <1>4, <1>5, <2>1 DEF Moving
<1>11. CASE Poll
  <2>1. worker'.step \in {"reserve", "copy", "drop", "source"} /\ l1' = l1
    BY <1>0, <1>11 DEF Poll, TypeOK, WorkerState
  <2> QED
    BY <1>1, <1>3, <1>4, <1>5, <2>1 DEF Moving
<1>12. CASE AbandonPush \/ Stopped \/ Raise
  <2>1. worker'.step = "exited" /\ l1' = l1
    BY <1>0, <1>12 DEF AbandonPush, Stopped, Raise, TypeOK, WorkerState
  <2> QED
    BY <1>1, <1>3, <1>4, <1>5, <2>1 DEF Moving
<1> QED
  BY <1>6, <1>7, <1>8, <1>9, <1>10, <1>11, <1>12

(* Reservation, publication, copy and drop.                                *)
LEMMA MovingByValue ==
  ASSUME ServerInv, Settled, Moving, Offered,
         Reserve \/ Publish \/ Copy \/ Drop
  PROVE  Moving' /\ Offered'
<1>0. TypeOK /\ Channel /\ Handshake
  BY DEF ServerInv
<1>1. dev' = dev /\ ram' = ram /\ heap' = heap /\ server' = server
  BY DEF Reserve, Publish, Copy, Drop
<1>2. /\ worker.step \in {"reserve", "publish", "copy", "drop"}
      /\ worker.slot = dev.slot /\ worker.slot \in Slots
      /\ l1.move # l1.processed
  <2>1. worker.step \in {"reserve", "publish", "copy", "drop"}
    BY DEF Reserve, Publish, Copy, Drop, Working
  <2> QED
    BY <1>0, <2>1, BusyOn DEF Busy, Handshake
<1>3. /\ l1'.move = l1.move /\ l1'.processed = l1.processed
      /\ worker'.step = IF worker.step = "reserve" THEN "ack" ELSE "finish"
  BY <1>0 DEF Reserve, Publish, Copy, Drop, Working, WorkerTo, TypeOK,
              WorkerState, SharedWords
<1>4. dev.step \in {"ack", "drain"}
  BY <1>0, <1>2 DEF Handshake, Partners
<1>5. Offered'
  BY <1>1, <1>4 DEF Offered
<1>6. PICK s, v : s = dev.slot /\ v = dev.ver
  OBVIOUS
<1>7. CASE worker.step = "reserve"
  BY <1>1, <1>2, <1>3, <1>5, <1>7 DEF Moving
<1>8. CASE worker.step = "drop"
  <2>1. dev.op # "write"
    BY <1>0, <1>8 DEF Handshake, Requested
  <2> QED
    BY <1>1, <1>2, <1>3, <1>5, <1>8, <2>1 DEF Moving
<1>9. CASE worker.step \in {"publish", "copy"}
  <2>1. dev.op = "write" /\ dev.step = "drain"
    BY <1>0, <1>9 DEF Handshake, Requested, Partners
  <2>2. Whole(0) \in Bytes
    BY Constants, WholeType DEF Versions
  <2>3. CASE worker.step = "publish"
    <3> DEFINE x == [unit |-> worker.unit,
                     heap |-> IF worker.unit = None THEN ram[None] ELSE Whole(0)]
    <3>1. values' = [values EXCEPT ![worker.slot] = x]
      BY <2>3 DEF Reserve, Publish, Copy, Drop, Working
    <3>2. x \in HostValue
      BY <1>0, <2>2 DEF TypeOK, WorkerState, HostValue
    <3>3. ram[worker.unit] = Whole(v)
      BY <1>6, <2>1, <2>3 DEF Moving
    <3>4. (IF x.unit # None THEN ram[x.unit] ELSE x.heap) = Whole(v)
      BY <3>3
    <3> HIDE DEF x
    <3>5. values'[s] = x /\ x # None
      BY <1>0, <1>2, <1>6, <3>1, <3>2, Constants DEF TypeOK
    <3>6. InHost(s, v)'
      BY <1>1, <3>4, <3>5 DEF InHost, HostBytes, Whole
    <3> QED
      BY <1>1, <1>3, <1>5, <1>6, <2>3, <3>6 DEF Moving
  <2>4. CASE worker.step = "copy"
    <3> DEFINE x == [unit |-> None, heap |-> ReadUnits(Base(worker.slot))]
    <3>1. values' = [values EXCEPT ![worker.slot] = x]
      BY <2>4 DEF Reserve, Publish, Copy, Drop, Working
    <3>2. x \in HostValue
      BY <1>0, <1>2, ReadType DEF HostValue
    <3>3. ReadUnits(Base(s)) = Whole(v)
      <4>1. OnDevice(s, v)
        BY <1>2, <1>6, <2>1, MovedEntry DEF Settled
      <4>2. \A k \in 1..Chunks : heap[Base(s) + k - 1] = v
        BY <1>2, <1>6, <4>1, UnitsInHeap DEF OnDevice
      <4> QED
        BY <1>2, <1>6, <4>2, ReadIs DEF Whole
    <3>4. x.unit = None /\ x.heap = Whole(v)
      BY <1>2, <1>6, <3>3
    <3> HIDE DEF x
    <3>5. values'[s] = x /\ x # None
      BY <1>0, <1>2, <1>6, <3>1, <3>2, Constants DEF TypeOK
    <3>6. InHost(s, v)'
      BY <1>1, <3>4, <3>5 DEF InHost, HostBytes, Whole
    <3> QED
      BY <1>1, <1>3, <1>5, <1>6, <2>4, <3>6 DEF Moving
  <2> QED
    BY <1>9, <2>3, <2>4
<1> QED
  BY <1>2, <1>7, <1>8, <1>9


(* What makes a staged value, in either mode, after a step.                *)
LEMMA StagedMapped ==
  ASSUME NEW u, NEW s, NEW v, NEW n, server'.mapped,
         dev'.slot = s, dev'.ver = v,
         n = IF dev'.op = "serve" THEN l1'.progress ELSE Chunks,
         u # None => u \in Extent(s)',
         \A k \in 1..n : ram'[u][k] = v
  PROVE  Staged(u)'
BY DEF Staged

(* A value staged through the device heap stays staged there.              *)
LEMMA StagedUnmapped ==
  ASSUME NEW u, NEW s, NEW v, ~server'.mapped,
         dev'.slot = s, dev'.ver = v, OnDevice(s, v)'
  PROVE  Staged(u)'
BY DEF Staged

(* A fused serve starts from a progress of zero.                           *)
LEMMA MovingByReset ==
  ASSUME ServerInv, Moving, Offered, ResetProgress
  PROVE  Moving' /\ Offered'
<1>0. TypeOK /\ Handshake
  BY DEF ServerInv
<1>1. /\ dev' = dev /\ values' = values /\ ram' = ram /\ heap' = heap
      /\ server' = server /\ worker.step = "reset"
      /\ worker' = [worker EXCEPT !.step = "post"]
      /\ l1' = [l1 EXCEPT !.progress = 0]
  BY DEF ResetProgress, Working, WorkerTo
<1>2. /\ worker'.step = "post" /\ worker'.unit = worker.unit
      /\ worker'.slot = worker.slot /\ worker'.op = worker.op
      /\ l1'.commit = l1.commit
  BY <1>0, <1>1 DEF TypeOK, WorkerState, SharedWords
<1>3. /\ dev.step = "pull" /\ Fused /\ l1.commit = dev.commits /\ worker.op = dev.op
  BY <1>0, <1>1 DEF Handshake, Partners, Requested, Counts, Alive, Busy
<1>4. Fused' /\ dev.op # "write"
  BY <1>1, <1>2, <1>3 DEF Fused
<1>5. Offered'
  BY <1>1, <1>2, <1>3 DEF Offered
<1> QED
  BY <1>1, <1>2, <1>3, <1>4, <1>5 DEF Moving

(* Staging copies the whole value before the commit is posted.             *)
LEMMA MovingByStage ==
  ASSUME ServerInv, Settled, Moving, Offered, Stage
  PROVE  Moving' /\ Offered'
<1>0. TypeOK /\ Handshake
  BY DEF ServerInv
<1>1. /\ dev' = dev /\ values' = values /\ server' = server /\ l1' = l1
      /\ worker.step = "stage" /\ worker' = [worker EXCEPT !.step = "post"]
      /\ IF server.mapped
         THEN ram' = IF worker.unit # None THEN ram
                     ELSE [ram EXCEPT ![None] = HostBytes(worker.slot)]
         ELSE heap' = WriteUnits(Base(worker.slot), HostBytes(worker.slot))
  BY DEF Stage, Working, WorkerTo
<1>2. /\ worker'.step = "post" /\ worker'.unit = worker.unit
      /\ worker'.slot = worker.slot /\ worker'.op = worker.op
  BY <1>0, <1>1 DEF TypeOK, WorkerState
<1>3. /\ dev.step = "pull" /\ Fetching /\ ~Fused /\ l1.commit = dev.commits
      /\ worker.op = dev.op /\ worker.slot = dev.slot /\ worker.slot \in Slots
  <2>1. /\ dev.step = "pull" /\ Fetching /\ ~Fused /\ l1.commit = dev.commits
        /\ worker.op = dev.op /\ worker.slot = dev.slot
    BY <1>0, <1>1 DEF Handshake, Partners, Requested, Counts, Alive, Busy
  <2>2. dev.slot \in Slots
    BY <2>1, MovedEntry
  <2> QED
    BY <2>1, <2>2
<1>4. PICK s, v, u : s = dev.slot /\ v = dev.ver /\ u = worker.unit
  OBVIOUS
<1>5. /\ s \in Slots /\ values[s] # None /\ HostBytes(s) = Whole(v)
      /\ u = values[s].unit
  BY <1>1, <1>3, <1>4, FetchedIsHeld DEF Moving
<1>6. Staged(u)'
  <2>1. CASE server.mapped
    <3>1. dev.op # "serve"
      BY <1>3, <2>1 DEF Fused
    <3>2. u # None => u \in Extent(s)'
      BY <1>1, <1>5 DEF Extent
    <3>3. \A k \in 1..Chunks : ram'[u][k] = v
      <4>1. ram'[u] = Whole(v)
        BY <1>0, <1>1, <1>3, <1>4, <1>5, <2>1 DEF HostBytes, TypeOK
      <4> QED
        BY <4>1 DEF Whole
    <3> QED
      BY <1>1, <1>4, <2>1, <3>1, <3>2, <3>3, StagedMapped
  <2>2. CASE ~server.mapped
    <3>1. heap' = [x \in HeapUnits |-> IF x \in UnitsOf(s)
                       THEN Whole(v)[x - Base(s) + 1] ELSE heap[x]]
      BY <1>1, <1>3, <1>4, <1>5, <2>2, WriteIs
    <3>2. \A x \in UnitsOf(s) : x - Base(s) + 1 \in 1..Chunks
      BY <1>5, UnitsInHeap, BaseIs, Constants
    <3>3. \A x \in UnitsOf(s) : heap'[x] = v
      BY <1>5, <3>1, <3>2, UnitsInHeap DEF Whole
    <3>4. OnDevice(s, v)'
      BY <3>3 DEF OnDevice, UnitsOf, Base
    <3> QED
      BY <1>1, <1>4, <2>2, <3>4, StagedUnmapped
  <2> QED
    BY <2>1, <2>2
<1>7. Offered'
  BY <1>1, <1>3 DEF Offered
<1>8. dev.op # "write" /\ worker'.unit = u
  BY <1>2, <1>3, <1>4 DEF Fetching
<1>9. Staged(worker.unit)'
  BY <1>2, <1>4, <1>6 DEF Staged
<1> QED
  BY <1>1, <1>2, <1>3, <1>4, <1>5, <1>7, <1>8, <1>9 DEF Moving

(* A posted commit names a unit that is already staged.                    *)
LEMMA MovingByCommit ==
  ASSUME ServerInv, Settled, Moving, Offered, PostCommit
  PROVE  Moving' /\ Offered'
<1>0. TypeOK /\ Handshake
  BY DEF ServerInv
<1> DEFINE u == worker.unit
<1>1. /\ dev' = dev /\ values' = values /\ server' = server
      /\ heap' = heap /\ ram' = ram /\ worker.step = "post"
      /\ worker' = [worker EXCEPT !.step = IF Fused THEN "stream" ELSE "pull"]
      /\ l1' = [l1 EXCEPT !.commitUnit = worker.unit, !.commit = worker.commits]
  BY DEF PostCommit, Working, WorkerTo
<1>2. /\ worker'.step \in {"stream", "pull"} /\ worker'.unit = worker.unit
      /\ worker'.slot = worker.slot
      /\ l1'.commitUnit = worker.unit /\ l1'.progress = l1.progress
  BY <1>0, <1>1 DEF TypeOK, WorkerState, SharedWords
<1>3. /\ dev.step = "pull" /\ Fetching
      /\ worker.op = dev.op /\ worker.slot = dev.slot
      /\ Fused => l1.progress = 0
  BY <1>0, <1>1 DEF Handshake, Partners, Requested, Busy
<1>4. PICK s, v, n, w : /\ s = dev.slot /\ v = dev.ver /\ w = worker.unit
                        /\ n = IF dev.op = "serve" THEN l1.progress ELSE Chunks
  OBVIOUS
<1>5. values[s] # None /\ w = values[s].unit
  BY <1>1, <1>3, <1>4, FetchedIsHeld DEF Moving
<1>6. Staged(w)'
  <2>1. CASE ~Fused
    <3>1. Staged(w)
      BY <1>1, <1>4, <2>1 DEF Moving
    <3>2. CASE server.mapped
      <4>1. \A k \in 1..n : ram'[w][k] = v
        BY <1>1, <1>4, <3>1, <3>2 DEF Staged
      <4>2. w # None => w \in Extent(s)'
        BY <1>1, <1>4, <3>1, <3>2 DEF Staged, Extent
      <4> QED
        BY <1>1, <1>2, <1>4, <3>2, <4>1, <4>2, StagedMapped
    <3>3. CASE ~server.mapped
      <4>1. OnDevice(s, v)
        BY <1>4, <3>1, <3>3 DEF Staged
      <4>2. OnDevice(s, v)'
        BY <1>1, <4>1 DEF OnDevice, UnitsOf, Base
      <4> QED
        BY <1>1, <1>4, <3>3, <4>2, StagedUnmapped
    <3> QED
      BY <3>2, <3>3
  <2>2. CASE Fused
    <3>1. server.mapped /\ n = 0
      BY <1>3, <1>4, <2>2 DEF Fused
    <3>2. w # None => w \in Extent(s)'
      BY <1>1, <1>5 DEF Extent
    <3>3. \A k \in 1..n : ram'[w][k] = v
      BY <3>1
    <3> QED
      BY <1>1, <1>2, <1>4, <3>1, <3>2, <3>3, StagedMapped
  <2> QED
    BY <2>1, <2>2
<1>7. Staged(l1.commitUnit)'
  BY <1>2, <1>4, <1>6 DEF Staged
<1>8. Offered'
  BY <1>1, <1>3, <1>7 DEF Offered
<1>9. dev.op # "write"
  BY <1>3 DEF Fetching
<1> QED
  BY <1>1, <1>2, <1>3, <1>4, <1>5, <1>8, <1>9 DEF Moving

(* Each chunk is copied before the progress word counts it.                *)
LEMMA MovingByStream ==
  ASSUME ServerInv, Settled, Moving, Offered, Stream
  PROVE  Moving' /\ Offered'
<1>0. TypeOK /\ Channel /\ Handshake
  BY DEF ServerInv
<1> DEFINE last == l1.progress + StageBlock
           to == IF last < Chunks THEN last ELSE Chunks
<1>1. /\ dev' = dev /\ values' = values /\ server' = server /\ heap' = heap
      /\ worker.step = "stream"
      /\ worker.unit # None => /\ l1' = [l1 EXCEPT !.progress = Chunks]
                               /\ ram' = ram
      /\ worker.unit = None =>
             /\ l1' = [l1 EXCEPT !.progress = to]
             /\ ram' = [ram EXCEPT ![None] =
                          [k \in 1..Chunks |-> IF k \in (l1.progress + 1)..to
                                               THEN HostBytes(worker.slot)[k]
                                               ELSE ram[None][k]]]
      /\ worker' = worker \/ worker' = [worker EXCEPT !.step = "pull"]
  BY DEF Stream, Working, WorkerTo
<1>2. /\ worker'.step \in {"stream", "pull"} /\ worker'.unit = worker.unit
      /\ worker'.slot = worker.slot
      /\ l1'.commitUnit = l1.commitUnit /\ l1'.commit = l1.commit
      /\ l1'.progress = IF worker.unit # None THEN Chunks ELSE to
      /\ l1.progress \in 0..Chunks
  <2>1. l1.progress \in 0..Chunks
    BY <1>0 DEF TypeOK, SharedWords
  <2> HIDE DEF last, to
  <2> QED
    BY <1>0, <1>1, <2>1 DEF TypeOK, WorkerState, SharedWords
<1>3. /\ dev.step \in {"pull", "stream"} /\ Fused
      /\ worker.op = dev.op /\ worker.slot = dev.slot
      /\ dev.step = "pull" => l1.commit # dev.commits
  BY <1>0, <1>1 DEF Handshake, Partners, Requested, Busy
<1>4. PICK s, v, w, n, m : /\ s = dev.slot /\ v = dev.ver /\ w = worker.unit
                           /\ n = l1'.progress /\ m = l1.progress
  OBVIOUS
<1>5. /\ server.mapped /\ dev.op = "serve" /\ Fetching
  BY <1>3 DEF Fused, Fetching
<1>6. values[s] # None /\ w = values[s].unit /\ HostBytes(s) = Whole(v)
  BY <1>1, <1>3, <1>4, <1>5, FetchedIsHeld DEF Moving
<1>7. Staged(w)
  BY <1>1, <1>3, <1>4 DEF Moving, Offered
<1>8. \A k \in 1..m : ram[w][k] = v
  BY <1>4, <1>5, <1>7 DEF Staged
<1>9. \A k \in 1..n : ram'[w][k] = v
  <2>1. CASE w # None
    <3>1. ram'[w] = Whole(v) /\ n = Chunks
      BY <1>1, <1>2, <1>4, <1>6, <2>1 DEF HostBytes
    <3> QED
      BY <3>1 DEF Whole
  <2>2. CASE w = None
    <3>1. n = to /\ m \in Nat /\ n \in Nat /\ n <= Chunks
      BY <1>2, <1>4, <2>2, Constants
    <3> HIDE DEF to
    <3> DEFINE x == [k \in 1..Chunks |-> IF k \in (m + 1)..n THEN Whole(v)[k]
                                         ELSE ram[w][k]]
    <3>a. HostBytes(worker.slot) = Whole(v) /\ l1.progress = m /\ w = None
      BY <1>3, <1>4, <1>6, <2>2
    <3>b. x = [k \in 1..Chunks |-> IF k \in (l1.progress + 1)..to
                                   THEN HostBytes(worker.slot)[k]
                                   ELSE ram[None][k]]
      BY <3>1, <3>a
    <3>c. ram' = [ram EXCEPT ![None] = x]
      BY <1>1, <1>4, <3>a, <3>b
    <3> HIDE DEF x
    <3>d. ram'[w] = x
      BY <1>0, <3>a, <3>c DEF TypeOK
    <3>2. ram'[w] = [k \in 1..Chunks |-> IF k \in (m + 1)..n THEN Whole(v)[k]
                                         ELSE ram[w][k]]
      BY <3>d DEF x
    <3>3. ASSUME NEW k \in 1..n
          PROVE  ram'[w][k] = v
      <4>1. k \in 1..Chunks
        BY <3>1, Constants
      <4>2. CASE k \in (m + 1)..n
        BY <3>2, <4>1, <4>2 DEF Whole
      <4>3. CASE k \notin (m + 1)..n
        <5>1. k \in 1..m
          BY <3>1, <4>3
        <5> QED
          BY <1>8, <3>2, <4>1, <4>3, <5>1
      <4> QED
        BY <4>2, <4>3
    <3> QED
      BY <3>3
  <2> QED
    BY <2>1, <2>2
<1>10. w # None => w \in Extent(s)'
  BY <1>1, <1>6 DEF Extent
<1> HIDE DEF last, to
<1>11. Staged(w)'
  BY <1>1, <1>4, <1>5, <1>9, <1>10, StagedMapped
<1>12. Offered'
  <2>1. CASE dev.step = "pull"
    <3>1. l1.commitUnit = w
      BY <1>1, <1>4, <2>1 DEF Moving
    <3>2. Staged(l1.commitUnit)'
      BY <1>2, <1>11, <3>1 DEF Staged
    <3> QED
      BY <1>1, <2>1, <3>2 DEF Offered
  <2>2. CASE dev.step = "stream"
    <3>1. dev.unit = w
      BY <1>1, <1>4, <2>2 DEF Moving
    <3>2. Staged(dev.unit)'
      BY <1>1, <1>11, <3>1 DEF Staged
    <3> QED
      BY <1>1, <2>2, <3>2 DEF Offered
  <2> QED
    BY <1>3, <2>1, <2>2
<1>13. dev.op # "write"
  BY <1>5
<1> QED
  BY <1>1, <1>2, <1>3, <1>12, <1>13 DEF Moving


(* A request of the device starts with nothing of it moved.                *)
LEMMA TransfersFromLoop ==
  ASSUME ServerInv, dev.step = "loop", worker' = worker,
         l1'.commit = l1.commit, dev'.commits = dev.commits,
         dev'.step \in {"loop", "ack", "drain", "pull"},
         dev'.step = "drain" => dev'.op \in {"write", "remove"},
         dev'.op = "write" => l1'.move # l1'.processed
  PROVE  Got' /\ Moving' /\ Offered'
<1>0. Words /\ Handshake
  BY DEF ServerInv
<1>1. worker.step \notin {"push", "publish", "finish", "reset", "stage", "post",
                          "stream"}
  BY <1>0 DEF Handshake, Partners
<1>2. l1'.commit = dev'.commits
  BY <1>0 DEF Words
<1>3. Got'
  BY DEF Got, Fetching
<1>4. Moving'
  BY <1>1 DEF Moving
<1>5. Offered'
  BY <1>2 DEF Offered
<1> QED
  BY <1>3, <1>4, <1>5

(* A new request has moved nothing yet.                                    *)
LEMMA TransfersByRequests ==
  ASSUME ServerInv, Requests
  PROVE  Got' /\ Moving' /\ Offered'
<1>0. TypeOK /\ Tokens
  BY DEF ServerInv
<1>1. dev.step = "loop" /\ worker' = worker /\ dev.op = "none"
  BY <1>0 DEF Requests, IssuePut, Evict, FetchFromHost, Device, Tokens
<1>2. ASSUME NEW s \in Slots, IssuePut(s)
      PROVE  Got' /\ Moving' /\ Offered'
  <2>1. /\ dev'.step = dev.step /\ dev'.op = dev.op /\ dev'.commits = dev.commits
        /\ l1'.commit = l1.commit
    BY <1>0, <1>2 DEF IssuePut, TypeOK, DeviceState, SharedWords
  <2> QED
    BY <1>1, <2>1, TransfersFromLoop
<1>3. ASSUME NEW s \in Slots, Evict(s)
      PROVE  Got' /\ Moving' /\ Offered'
  <2>1. dev' = dev /\ l1' = l1
    BY <1>3 DEF Evict
  <2> QED
    BY <1>1, <2>1, TransfersFromLoop
<1>4. ASSUME NEW s \in Slots, NEW op \in {"serve", "promote"}, FetchFromHost(op, s)
      PROVE  Got' /\ Moving' /\ Offered'
  <2>1. /\ dev'.step = "pull" /\ dev'.op = op /\ dev'.commits = dev.commits
        /\ l1'.commit = l1.commit
    BY <1>0, <1>4 DEF FetchFromHost, Post, TypeOK, DeviceState, SharedWords
  <2> QED
    BY <1>1, <2>1, TransfersFromLoop
<1> QED
  BY <1>2, <1>3, <1>4 DEF Requests

(* Nor has a write-through or a removal that starts.                       *)
LEMMA TransfersByScheduling ==
  ASSUME ServerInv, SkipStale \/ WriteThrough \/ ServeRemove
  PROVE  Got' /\ Moving' /\ Offered'
<1>0. TypeOK /\ Tokens /\ Channel
  BY DEF ServerInv
<1>1. dev.step = "loop" /\ worker' = worker /\ dev.op = "none"
  BY <1>0 DEF SkipStale, WriteThrough, ServeRemove, Device, Tokens
<1>2. /\ dev'.step \in {"loop", "ack", "drain"} /\ dev'.commits = dev.commits
      /\ dev'.step = "drain" => dev'.op \in {"write", "remove"}
      /\ l1'.commit = l1.commit /\ l1'.processed = l1.processed
      /\ dev'.op = "write" => WriteThrough
  <2>1. CASE SkipStale
    BY <1>0, <1>1, <2>1 DEF SkipStale, TypeOK, DeviceState, SharedWords
  <2>2. CASE WriteThrough
    <3>1. /\ dev'.step = (IF server.mapped THEN "ack" ELSE "drain")
          /\ dev'.op = "write" /\ dev'.commits = dev.commits
      BY <1>0, <2>2 DEF WriteThrough, TypeOK, DeviceState
    <3>2. l1'.commit = l1.commit /\ l1'.processed = l1.processed
      BY <1>0, <2>2 DEF WriteThrough, Post, TypeOK, SharedWords
    <3> QED
      BY <2>2, <3>1, <3>2
  <2>3. CASE ServeRemove
    <3>1. /\ \/ dev'.step = dev.step /\ dev'.op = dev.op
             \/ dev'.step = "drain" /\ dev'.op = "remove"
          /\ dev'.commits = dev.commits
      BY <1>0, <2>3 DEF ServeRemove, TypeOK, DeviceState
    <3>2. l1'.commit = l1.commit /\ l1'.processed = l1.processed
      BY <1>0, <2>3 DEF ServeRemove, Post, TypeOK, SharedWords
    <3> QED
      BY <1>1, <3>1, <3>2
  <2> QED
    BY <2>1, <2>2, <2>3
<1>3. dev'.op = "write" => l1'.move # l1'.processed
  <2>1. CASE WriteThrough
    <3>1. l1.move \in Counter
      BY <1>0 DEF TypeOK, SharedWords
    <3>2. l1'.move = Inc(l1.move) /\ l1.processed = l1.move
      BY <1>0, <2>1 DEF WriteThrough, Post, ChannelIdle, TypeOK, SharedWords
    <3> QED
      BY <1>2, <3>1, <3>2, Increments
  <2> QED
    BY <1>2, <2>1
<1> QED
  BY <1>1, <1>2, <1>3, TransfersFromLoop

(* Steps that touch none of the words and none of the data.                *)
LEMMA TransfersStay ==
  ASSUME Got, Moving, Offered, dev' = dev, values' = values, ram' = ram,
         heap' = heap, server'.mapped = server.mapped,
         l1'.progress = l1.progress, l1'.commit = l1.commit,
         l1'.commitUnit = l1.commitUnit, l1'.move = l1.move,
         l1'.processed = l1.processed, worker'.step = worker.step,
         worker'.op = worker.op, worker'.slot = worker.slot,
         worker'.unit = worker.unit
  PROVE  Got' /\ Moving' /\ Offered'
<1>1. Offered'
  BY OfferedStays
<1>2. Got'
  BY DEF Got, Fetching
<1>3. \A s, v : InHost(s, v) => InHost(s, v)'
  BY DEF InHost, HostBytes
<1>4. PICK s, v, u : s = dev.slot /\ v = dev.ver /\ u = worker.unit
  OBVIOUS
<1>5. Staged(u) => Staged(u)'
  <2>1. OnDevice(s, v) => OnDevice(s, v)'
    BY DEF OnDevice, UnitsOf, Base
  <2>2. CASE server.mapped
    <3>1. Extent(s)' = Extent(s)
      BY DEF Extent
    <3> QED
      BY <1>4, <2>2, <3>1 DEF Staged
  <2>3. CASE ~server.mapped
    BY <1>4, <2>1, <2>3 DEF Staged
  <2> QED
    BY <2>2, <2>3
<1>6. Staged(worker.unit) => Staged(worker.unit)'
  BY <1>4, <1>5 DEF Staged
<1>7. Moving'
  BY <1>3, <1>4, <1>6 DEF Moving, Fused
<1> QED
  BY <1>1, <1>2, <1>7

(* The device pushes the bytes of the entry to the acknowledged unit.      *)
LEMMA TransfersByWrite ==
  ASSUME ServerInv, Settled, Moving, ReadAck \/ Push \/ Drain
  PROVE  Got' /\ Moving' /\ Offered'
<1>0. TypeOK /\ Channel /\ Handshake /\ Tokens
  BY DEF ServerInv
<1>1. CASE ReadAck
  <2>1. /\ dev.step = "ack" /\ dev'.step = "push" /\ dev'.op = dev.op
        /\ worker' = worker /\ l1' = l1
    BY <1>0, <1>1 DEF ReadAck, Device, TypeOK, DeviceState
  <2>2. worker.step \notin {"finish", "reset", "stage", "post", "stream"}
    BY <1>0, <2>1 DEF Handshake, Partners
  <2>3. l1.move # l1.processed
    BY <1>0, <2>1 DEF Channel
  <2> QED
    BY <2>1, <2>2, <2>3 DEF Got, Moving, Offered
<1>2. CASE Push
  <2>1. /\ dev.step = "push" /\ dev'.step = "drain" /\ dev'.op = dev.op
        /\ dev'.ver = dev.ver
        /\ worker' = worker /\ l1'.move = l1.move /\ l1'.processed = l1.processed
        /\ ram' = [ram EXCEPT ![dev.unit] =
                      [k \in 1..Chunks |-> heap[Base(dev.slot) + k - 1]]]
    BY <1>0, <1>2 DEF Push, Device, TypeOK, DeviceState, SharedWords
  <2>2. worker.step \notin {"publish", "finish", "reset", "stage", "post", "stream"}
    BY <1>0, <2>1 DEF Handshake, Partners
  <2>3. l1.move # l1.processed /\ dev.op = "write" /\ dev.slot \in Slots
    BY <1>0, <2>1 DEF Channel
  <2>4. OnDevice(dev.slot, dev.ver)
    BY <2>3, MovedEntry DEF Settled
  <2>5. worker.step = "push" => ram'[worker.unit] = Whole(dev.ver)
    <3>1. [k \in 1..Chunks |-> heap[Base(dev.slot) + k - 1]] = Whole(dev.ver)
      BY <2>3, <2>4, UnitsInHeap DEF OnDevice, Whole
    <3>2. worker.step = "push" => worker.unit = dev.unit
      BY <1>0, <2>1 DEF Handshake
    <3>3. worker.unit \in Units \cup {None}
      BY <1>0 DEF TypeOK, WorkerState
    <3> QED
      BY <1>0, <2>1, <3>1, <3>2, <3>3 DEF TypeOK
  <2> QED
    BY <2>1, <2>2, <2>3, <2>5 DEF Got, Moving, Offered, Fetching
<1>3. CASE Drain
  <2>1. /\ dev.step = "drain" /\ l1.processed = l1.move
        /\ dev'.step = "loop" /\ dev'.op = "none" /\ worker' = worker
    BY <1>0, <1>3 DEF Drain, Device, ChannelIdle, TypeOK, DeviceState
  <2>2. worker.step \notin {"push", "publish", "finish", "reset", "stage", "post",
                            "stream"}
    BY <1>0, <2>1 DEF Handshake, Busy
  <2> QED
    BY <2>1, <2>2 DEF Got, Moving, Offered
<1> QED
  BY <1>1, <1>2, <1>3

(* The device starts to pull from the committed unit.                      *)
LEMMA TransfersByCommit ==
  ASSUME ServerInv, Moving, Offered, ReadCommit
  PROVE  Got' /\ Moving' /\ Offered'
<1>0. TypeOK /\ Channel /\ Handshake
  BY DEF ServerInv
<1>1. /\ dev.step = "pull" /\ l1.commit # dev.commits
      /\ dev'.step = "stream" /\ dev'.chunk = 0 /\ dev'.unit = l1.commitUnit
      /\ dev'.op = dev.op /\ dev'.slot = dev.slot /\ dev'.ver = dev.ver
      /\ worker' = worker /\ values' = values /\ server' = server /\ l1' = l1
      /\ heap' = heap /\ ram' = ram
  BY <1>0 DEF ReadCommit, Device, TypeOK, DeviceState
<1>2. worker.step \in {"stream", "pull", "exited"}
  BY <1>0, <1>1 DEF Handshake, Counts, Alive
<1>3. dev.op # "write"
  BY <1>0, <1>1 DEF Channel, Fetching
<1>4. PICK s, v, n, u : /\ s = dev.slot /\ v = dev.ver /\ u = l1.commitUnit
                        /\ n = IF dev.op = "serve" THEN l1.progress ELSE Chunks
  OBVIOUS
<1>5. Staged(u)
  BY <1>1, <1>4 DEF Offered
<1>6. Staged(u)'
  <2>1. CASE server.mapped
    <3>1. \A k \in 1..n : ram'[u][k] = v
      BY <1>1, <1>4, <1>5, <2>1 DEF Staged
    <3>2. u # None => u \in Extent(s)'
      BY <1>1, <1>4, <1>5, <2>1 DEF Staged, Extent
    <3> QED
      BY <1>1, <1>4, <2>1, <3>1, <3>2, StagedMapped
  <2>2. CASE ~server.mapped
    <3>1. OnDevice(s, v)
      BY <1>4, <1>5, <2>2 DEF Staged
    <3>2. OnDevice(s, v)'
      BY <1>1, <3>1 DEF OnDevice, UnitsOf, Base
    <3> QED
      BY <1>1, <1>4, <2>2, <3>2, StagedUnmapped
  <2> QED
    BY <2>1, <2>2
<1>7. Offered'
  <2>1. Staged(dev.unit)'
    BY <1>1, <1>4, <1>6 DEF Staged
  <2> QED
    BY <1>1, <2>1 DEF Offered
<1>8. Got'
  BY <1>1 DEF Got
<1>9. Moving'
  BY <1>1, <1>2, <1>3 DEF Moving
<1> QED
  BY <1>7, <1>8, <1>9

(* The device takes a chunk only after the progress word covers it.        *)
LEMMA TransfersByPull ==
  ASSUME ServerInv, Got, Moving, Offered, Pull
  PROVE  Got' /\ Moving' /\ Offered'
<1>0. TypeOK /\ Channel /\ Handshake
  BY DEF ServerInv
<1>1. PICK s, v, n, u : /\ s = dev.slot /\ v = dev.ver /\ u = dev.unit
                        /\ n = Available
  OBVIOUS
<1> DEFINE bytes == [k \in 1..Chunks |->
                       IF k \notin (dev.chunk + 1)..n THEN dev.got[k]
                       ELSE IF server.mapped THEN ram[u][k]
                       ELSE heap[Base(s) + k - 1]]
<1>2. /\ dev.step = "stream" /\ dev.chunk < n
      /\ dev' = [dev EXCEPT !.chunk = n, !.got = bytes,
                            !.step = IF n = Chunks THEN "drain" ELSE "stream"]
      /\ l1'.progress = l1.progress /\ l1'.commit = l1.commit
      /\ l1'.move = l1.move /\ l1'.processed = l1.processed
      /\ worker' = worker /\ values' = values /\ server' = server
      /\ heap' = heap /\ ram' = ram
  BY <1>0, <1>1 DEF Pull, Device, TypeOK, SharedWords
<1>3. /\ n \in 0..Chunks /\ dev.chunk \in 0..Chunks
      /\ ~server.mapped => n = Chunks
      /\ server.mapped => n = IF dev.op = "serve" THEN l1.progress ELSE Chunks
  <2>1. l1.progress \in 0..Chunks /\ dev.chunk \in 0..Chunks
    BY <1>0 DEF TypeOK, SharedWords, DeviceState
  <2> QED
    BY <1>1, <2>1, Constants DEF Available
<1>4. \A k \in 1..n : bytes[k] = v
  <2>1. Staged(u) /\ \A k \in 1..dev.chunk : dev.got[k] = v
    BY <1>1, <1>2 DEF Offered, Got
  <2>2. server.mapped => \A k \in 1..n : ram[u][k] = v
    BY <1>1, <1>3, <2>1 DEF Staged
  <2>3. ~server.mapped => \A k \in 1..n : heap[Base(s) + k - 1] = v
    BY <1>1, <1>3, <2>1 DEF Staged, OnDevice, UnitsOf
  <2>4. ASSUME NEW k \in 1..n
        PROVE  bytes[k] = v
    <3>1. k \in 1..Chunks
      BY <1>3, Constants
    <3>2. CASE k \notin (dev.chunk + 1)..n
      <4>1. k \in 1..dev.chunk
        BY <1>3, <3>2
      <4> QED
        BY <2>1, <3>1, <3>2, <4>1
    <3>3. CASE k \in (dev.chunk + 1)..n
      BY <2>2, <2>3, <3>1, <3>3
    <3> QED
      BY <3>2, <3>3
  <2> QED
    BY <2>4
<1>5. n = Chunks => bytes = Whole(v)
  BY <1>4 DEF Whole
<1> HIDE DEF bytes
<1>6. /\ dev'.step = (IF n = Chunks THEN "drain" ELSE "stream")
      /\ dev'.chunk = n /\ dev'.got = bytes /\ dev'.op = dev.op
      /\ dev'.slot = dev.slot /\ dev'.ver = dev.ver /\ dev'.unit = dev.unit
  BY <1>0, <1>2 DEF TypeOK, DeviceState
<1>7. Got'
  BY <1>1, <1>4, <1>5, <1>6 DEF Got
<1>8. worker.step \in {"stream", "pull", "exited"} /\ dev.op # "write"
  BY <1>0, <1>2 DEF Handshake, Partners, Channel, Fetching, TypeOK, WorkerState
<1>9. Moving'
  BY <1>2, <1>6, <1>8 DEF Moving
<1>10. Staged(u)'
  <2>1. Staged(u)
    BY <1>1, <1>2 DEF Offered
  <2>2. CASE server.mapped
    <3>1. \A k \in 1..n : ram'[u][k] = v
      BY <1>1, <1>2, <1>3, <2>1, <2>2 DEF Staged
    <3>2. u # None => u \in Extent(s)'
      BY <1>1, <1>2, <2>1, <2>2 DEF Staged, Extent
    <3> QED
      BY <1>1, <1>2, <1>3, <1>6, <2>2, <3>1, <3>2, StagedMapped
  <2>3. CASE ~server.mapped
    <3>1. OnDevice(s, v)
      BY <1>1, <2>1, <2>3 DEF Staged
    <3>2. OnDevice(s, v)'
      BY <1>2, <3>1 DEF OnDevice, UnitsOf, Base
    <3> QED
      BY <1>1, <1>2, <1>6, <2>3, <3>2, StagedUnmapped
  <2> QED
    BY <2>2, <2>3
<1>11. Offered'
  <2>1. Staged(dev.unit)'
    BY <1>1, <1>6, <1>10 DEF Staged
  <2> QED
    BY <1>6, <2>1 DEF Offered
<1> QED
  BY <1>7, <1>9, <1>11


(* What is freed stays freed, and nothing uses it.                         *)
LEMMA FreedStays ==
  ASSUME ServerInv, [Next]_vars, server.memory = "freed"
  PROVE  server'.memory = "freed" /\ server.kernel # "running"
<1>0. TypeOK /\ Users
  BY DEF ServerInv
<1>1. server.life \in {"Closed", "Failed"}
  BY <1>0 DEF TypeOK, ServerState, Users
<1>2. /\ server.kernel # "running" /\ worker.step = "exited"
      /\ caller.step = "idle"
  BY <1>0, <1>1 DEF Users
<1>3. server' = server
  <2>1. ~Construction
    BY <1>1 DEF Construction, Construct, LaunchFails, LaunchOutcomeUnknown,
       Launch
  <2>2. ~DeviceStep /\ ~Requests
    BY <1>2, DeviceMoves
  <2>3. ~WorkerStep /\ ~Raise
    BY <1>0, <1>2, WorkerMoves
  <2>4. ~CallerStep /\ ~FinishThrows
    BY <1>2
       DEF CallerStep, FinishThrows, Enter, DrainTarget, Drained, DrainThrows,
           Lookup, ReadValue, WriteMailbox, PostRequest, Removed, RemoveThrows,
           Answer, Signal, Finish, StopWorker, Join, Calling
  <2>5. Calls => server' = server
    BY DEF Calls, Begin, BeginClose
  <2> QED
    BY <2>1, <2>2, <2>3, <2>4, <2>5 DEF Next, vars
<1> QED
  BY <1>2, <1>3

(* Construction moves no value.                                            *)
LEMMA TransfersByConstruction ==
  ASSUME ServerInv, Transfers, Construction
  PROVE  Transfers'
<1>0. TypeOK /\ Users /\ Handshake /\ Tokens
  BY DEF ServerInv
<1>1. /\ l1' = l1 /\ dev' = dev /\ dir' = dir /\ heap' = heap
      /\ values' = values /\ ram' = ram
      /\ server.life \in {"Unborn", "Constructing"}
      /\ worker'.step \in {"gated", "poll", "exited"}
  BY <1>0 DEF Construction, Construct, LaunchFails, LaunchOutcomeUnknown,
     Launch,
              TypeOK, WorkerState
<1>2. server.memory # "freed" /\ worker.step \in {"none", "gated"}
  BY <1>0, <1>1 DEF Users
<1>3. dev.step = "loop" /\ dev.op = "none"
  BY <1>0, <1>2 DEF Handshake, Partners, Tokens
<1>4. Settled'
  BY <1>1, <1>2, SettledStays DEF Transfers
<1>5. Got' /\ Moving' /\ Offered'
  BY <1>1, <1>3 DEF Got, Moving, Offered
<1> QED
  BY <1>4, <1>5 DEF Transfers

(* Host operations write no copy; Join ends the claims with the memory.    *)
LEMMA TransfersByCaller ==
  ASSUME ServerInv, Transfers, Calls \/ CallerStep \/ FinishThrows
  PROVE  Transfers'
<1>0. TypeOK
  BY DEF ServerInv
<1>1. /\ dev' = dev /\ dir' = dir /\ heap' = heap /\ ram' = ram
      /\ server'.mapped = server.mapped
  BY <1>0, CallerMoves
<1>2. /\ worker'.step = worker.step /\ worker'.op = worker.op
      /\ worker'.slot = worker.slot /\ worker'.unit = worker.unit
  BY <1>0, CallerMoves DEF TypeOK, WorkerState
<1>3. /\ l1'.progress = l1.progress /\ l1'.commit = l1.commit
      /\ l1'.commitUnit = l1.commitUnit /\ l1'.move = l1.move
      /\ l1'.processed = l1.processed
  BY <1>0, CallerMoves DEF TypeOK, SharedWords
<1>4. Got'
  BY <1>1 DEF Transfers, Got, Fetching
<1>5. server'.memory # "freed" => values' = values
  <2>1. CASE Join
    BY <1>0, <2>1 DEF Join, TypeOK, ServerState
  <2> QED
    BY <1>0, <2>1, CallerMoves
<1>6. server'.memory # "freed" => server.memory # "freed"
  BY FreedStays DEF Next
<1>7. ASSUME server'.memory # "freed"
      PROVE  Settled' /\ Moving' /\ Offered'
  <2>1. Settled /\ Moving /\ Offered /\ Got /\ values' = values
    BY <1>5, <1>6, <1>7 DEF Transfers
  <2>2. Settled'
    BY <1>1, <2>1, SettledStays
  <2> QED
    BY <1>1, <1>2, <1>3, <2>1, <2>2, TransfersStay
<1> QED
  BY <1>4, <1>7 DEF Transfers

(* Every step keeps the data at rest and in motion.                        *)
LEMMA TransfersStep ==
  ASSUME ServerInv, Transfers, [Next]_vars
  PROVE  Transfers'
<1>1. CASE UNCHANGED vars
  <2>1. /\ dev' = dev /\ dir' = dir /\ heap' = heap /\ ram' = ram
        /\ values' = values /\ server' = server /\ l1' = l1 /\ worker' = worker
    BY <1>1 DEF vars
  <2>2. Got'
    BY <2>1 DEF Transfers, Got, Fetching
  <2>3. server.memory # "freed" => Settled' /\ Moving' /\ Offered'
    BY <2>1, SettledStays, TransfersStay DEF Transfers
  <2> QED
    BY <2>1, <2>2, <2>3 DEF Transfers
<1>2. CASE WorkerStep \/ Raise
  <2>1. dev' = dev
    BY <1>2 DEF WorkerStep, Poll, Reserve, Acknowledge, Pushed, AbandonPush,
       Publish,
                Copy, Drop, Source, ResetProgress, Stage, PostCommit, Stream, Pulled,
                Finished, Stopped, Raise
  <2>2. server' = server
    BY <1>2, WorkerMoves DEF ServerInv
  <2>3. Got'
    BY <2>1 DEF Transfers, Got, Fetching
  <2>4. ASSUME Settled, Moving, Offered
        PROVE  Moving' /\ Offered'
    BY <1>2, <2>4, MovingQuiet, MovingByValue, MovingByReset, MovingByStage,
       MovingByCommit, MovingByStream DEF WorkerStep
  <2> QED
    BY <1>2, <2>2, <2>3, <2>4, SettledByWorker DEF Transfers
<1>3. CASE DeviceStep \/ Requests
  <2>1. Settled /\ Moving /\ Offered /\ Got
    BY <1>3, FreedStays, DeviceMoves DEF Transfers
  <2>2. Settled'
    BY <1>3, <2>1, SettledByDevice, SettledByRequests
  <2>3. Got' /\ Moving' /\ Offered'
    <3>1. CASE Terminated
      <4>1. /\ dev' = dev /\ values' = values /\ ram' = ram /\ heap' = heap
            /\ l1' = l1 /\ worker' = worker /\ server'.mapped = server.mapped
        BY <3>1 DEF Terminated, ServerInv, TypeOK, ServerState
      <4> QED
        BY <2>1, <4>1, TransfersStay
    <3> QED
      BY <1>3, <2>1, <3>1, TransfersByRequests, TransfersByScheduling,
         TransfersByWrite, TransfersByCommit, TransfersByPull DEF DeviceStep
  <2> QED
    BY <2>2, <2>3 DEF Transfers
<1> QED
  BY <1>1, <1>2, <1>3, TransfersByConstruction, TransfersByCaller DEF Next

(* Nothing is held before construction.                                    *)
LEMMA TransfersInit == Init => Transfers
<1> SUFFICES ASSUME Init
             PROVE  Transfers
  OBVIOUS
<1>1. /\ dev.step = "loop" /\ dev.op = "none" /\ worker.step = "none"
      /\ \A s \in Slots : dir[s] = None
  BY DEF Init
<1> QED
  BY <1>1 DEF Transfers, Got, Settled, Moving, Offered

(* What the directory calls durable is whole in the host, what it calls    *)
(* resident is whole in the heap, and what the device pulled for a GET or  *)
(* a promotion is the value of the PUT it asked for, whatever the worker   *)
(* and the device still owe each other.                                    *)
THEOREM TransfersAreWhole == Spec => []TransfersWhole
<1>1. Init => ServerInv /\ Transfers
  BY InitServer, TransfersInit
<1>2. (ServerInv /\ Transfers) /\ [Next]_vars => (ServerInv /\ Transfers)'
  BY StepServer, TransfersStep
<1>3. ServerInv /\ Transfers => TransfersWhole
  <2> SUFFICES ASSUME ServerInv, Transfers
               PROVE  TransfersWhole
    OBVIOUS
  <2>1. ASSUME server.memory = "held", NEW s \in Slots, dir[s] # None,
               dir[s].at # "Host"
        PROVE  ReadUnits(Base(s)) = Whole(dir[s].ver)
    <3>1. OnDevice(s, dir[s].ver)
      BY <2>1 DEF Transfers, Settled
    <3>2. \A k \in 1..Chunks : heap[Base(s) + k - 1] = dir[s].ver
      BY <3>1, UnitsInHeap DEF OnDevice
    <3> QED
      BY <3>2, ReadIs DEF Whole
  <2>2. ASSUME server.memory = "held", NEW s \in Slots, dir[s] # None,
               dir[s].at # "Pending"
        PROVE  values[s] # None /\ HostBytes(s) = Whole(dir[s].ver)
    BY <2>2 DEF Transfers, Settled, InHost
  <2>3. dev.step = "drain" /\ dev.op \in {"serve", "promote"}
            => dev.got = Whole(dev.ver)
    BY DEF Transfers, Got, Fetching
  <2> QED
    BY <2>1, <2>2, <2>3 DEF TransfersWhole
<1> QED
  BY <1>1, <1>2, <1>3, PTL DEF Spec


----------------------------------------------------------------------------
(* The PUT drain.                                                          *)

(* An increment of a word counts one more, modulo its width.               *)
LEMMA CountNext ==
  ASSUME NEW x \in Nat
  PROVE  Inc((InitialCounter + x) % Span) = (InitialCounter + (x + 1)) % Span
<1>1. Span \in Nat \ {0} /\ InitialCounter + x \in Nat
  BY Constants
<1>2. (InitialCounter + x) + 1 = InitialCounter + (x + 1)
  BY Constants
<1> QED
  BY <1>1, <1>2, ModInc DEF Inc

(* The half-range comparison is right while the counts are no further      *)
(* apart than half the range.                                              *)
LEMMA CoveredIs ==
  ASSUME NEW b \in Nat, NEW t \in Nat, t - b <= Span \div 2,
         l1.committed = (InitialCounter + b) % Span,
         caller.target = (InitialCounter + t) % Span, Covered
  PROVE  b >= t
<1> SUFFICES ASSUME b < t
             PROVE  FALSE
  OBVIOUS
<1> DEFINE e == t - b
           x == InitialCounter + b
           h == Span \div 2
           c == l1.committed
           w == caller.target
<1>1. Span \in Nat \ {0} /\ Span > 1 /\ InitialCounter \in Nat
  BY Constants
<1>2. h \in Nat /\ 2 * h <= Span
  BY <1>1, Halves
<1>3. e \in Nat /\ e > 0 /\ e <= h
  BY <1>2
<1>4. x \in Nat /\ InitialCounter + t = x + e
  BY <1>1
<1>5. Covered <=> c = w \/ LET d == (c + Span - w) % Span IN 0 < d /\ d < h
  BY DEF Covered, Ahead
<1>6. c = x % Span /\ w = (x + e) % Span
  BY <1>4
<1> HIDE DEF e, x, h, c, w
<1>7. e \in 0..Span /\ e < Span
  BY <1>1, <1>2, <1>3
<1>8. /\ c \in 0..(Span - 1)
      /\ w = IF c + e < Span THEN c + e ELSE (c + e) - Span
  BY <1>1, <1>4, <1>6, <1>7, ModAhead
<1>9. c # w
  BY <1>1, <1>3, <1>7, <1>8
<1>10. (c + Span - w) % Span = Span - e
  <2> DEFINE y == c + Span - w
  <2>1. y = IF c + e < Span THEN Span - e ELSE (2 * Span) - e
    BY <1>1, <1>3, <1>7, <1>8
  <2>2. y \in Nat /\ y < 2 * Span
    BY <1>1, <1>3, <1>7, <2>1
  <2> HIDE DEF y
  <2>3. y % Span = IF y < Span THEN y ELSE y - Span
    BY <1>1, <2>2, ModShort
  <2>4. y % Span = Span - e
    BY <1>1, <1>3, <1>7, <2>1, <2>2, <2>3
  <2> QED
    BY <2>4 DEF y
<1>11. ~(Span - e < h)
  BY <1>1, <1>2, <1>3
<1> QED
  BY <1>5, <1>9, <1>10, <1>11

(* The PUTs issued and backed move with their counts.                      *)
LEMMA PutsMove ==
  ASSUME ServerInv, DeviceStep \/ Requests
  PROVE  \/ /\ dev'.puts = dev.puts /\ Backed0' = Backed0
            /\ l1'.issued = l1.issued /\ l1'.committed = l1.committed
         \/ /\ dev'.puts = dev.puts + 1 /\ Backed0' = Backed0 /\ Quiet
            /\ l1'.issued = Inc(l1.issued) /\ l1'.committed = l1.committed
         \/ /\ dev'.puts = dev.puts /\ Backed0' = Backed0 + 1
            /\ l1'.issued = l1.issued /\ l1'.committed = Inc(l1.committed)
<1>0. TypeOK /\ Tokens
  BY DEF ServerInv
<1>1. ASSUME NEW s \in Slots, IssuePut(s)
      PROVE  /\ dev'.puts = dev.puts + 1 /\ Backed0' = Backed0 /\ Quiet
             /\ l1'.issued = Inc(l1.issued) /\ l1'.committed = l1.committed
  <2> DEFINE v == dev.puts + 1
  <2>1. dev' = [dev EXCEPT !.puts = v, !.fifo = Append(dev.fifo, <<s, v>>)]
    BY <1>1 DEF IssuePut
  <2>2. dev'.puts = v /\ dev'.fifo = Append(dev.fifo, <<s, v>>)
    BY <1>0, <2>1 DEF TypeOK, DeviceState
  <2>3. Len(dev'.fifo) = Len(dev.fifo) + 1
    BY <1>0, <2>2, QueueTypes
  <2>4. l1'.issued = Inc(l1.issued) /\ l1'.committed = l1.committed /\ Quiet
    BY <1>0, <1>1 DEF IssuePut, TypeOK, SharedWords
  <2> QED
    BY <1>0, <2>2, <2>3, <2>4, QueueTypes DEF Backed0
<1>2. CASE SkipStale
  <2>1. /\ dev' = [dev EXCEPT !.fifo = Tail(dev.fifo)] /\ dev.fifo # <<>>
        /\ l1' = [l1 EXCEPT !.committed = Inc(l1.committed)]
    BY <1>2 DEF SkipStale
  <2>2. dev'.fifo = Tail(dev.fifo) /\ dev'.puts = dev.puts
    BY <1>0, <2>1 DEF TypeOK, DeviceState
  <2>3. l1'.issued = l1.issued /\ l1'.committed = Inc(l1.committed)
    BY <1>0, <2>1 DEF TypeOK, SharedWords
  <2> QED
    BY <1>0, <2>1, <2>2, <2>3, QueueAfterTail
<1>3. CASE Drain
  <2> DEFINE fifo == IF dev.op = "write" THEN Tail(dev.fifo) ELSE dev.fifo
  <2>1. dev' = [dev EXCEPT !.step = "loop", !.op = "none", !.slot = None,
                          !.ver = 0, !.unit = None, !.chunk = 0, !.got = Whole(0),
                          !.fifo = fifo]
    BY <1>3 DEF Drain
  <2>2. dev'.fifo = fifo /\ dev'.puts = dev.puts
    <3> HIDE DEF fifo
    <3> QED
      BY <1>0, <2>1 DEF TypeOK, DeviceState
  <2>3. CASE dev.op = "write"
    <3>1. dev.fifo # <<>>
      BY <1>0, <2>3 DEF Tokens
    <3>2. l1' = [l1 EXCEPT !.committed = Inc(l1.committed)]
      BY <1>3, <2>3 DEF Drain
    <3>3. l1'.issued = l1.issued /\ l1'.committed = Inc(l1.committed)
      BY <1>0, <3>2 DEF TypeOK, SharedWords
    <3> QED
      BY <1>0, <2>2, <2>3, <3>1, <3>3, QueueAfterTail
  <2>4. CASE dev.op # "write"
    <3>1. l1' = l1 \/ l1' = [l1 EXCEPT !.done = Inc(l1.done)]
      BY <1>3, <2>4 DEF Drain
    <3>2. l1'.issued = l1.issued /\ l1'.committed = l1.committed
      BY <1>0, <3>1 DEF TypeOK, SharedWords
    <3> QED
      BY <2>2, <2>4, <3>2 DEF Backed0
  <2> QED
    BY <2>3, <2>4
<1>4. ASSUME \/ WriteThrough \/ ReadAck \/ Push \/ ReadCommit \/ Pull \/ ServeRemove
             \/ Terminated
             \/ \E s \in Slots : Evict(s) \/ \E op \in {"serve", "promote"} :
                                                 FetchFromHost(op, s)
      PROVE  /\ dev'.puts = dev.puts /\ Backed0' = Backed0
             /\ l1'.issued = l1.issued /\ l1'.committed = l1.committed
  <2>1. dev'.puts = dev.puts /\ dev'.fifo = dev.fifo
    <3> USE DEF TypeOK, DeviceState
    <3>1. CASE WriteThrough
      BY <1>0, <3>1 DEF WriteThrough
    <3>2. CASE ReadAck \/ Push \/ ReadCommit
      BY <1>0, <3>2 DEF ReadAck, Push, ReadCommit
    <3>3. CASE Pull
      <4>1. \E c, g, t : dev' = [dev EXCEPT !.chunk = c, !.got = g, !.step = t]
        BY <3>3 DEF Pull
      <4> QED
        BY <1>0, <4>1
    <3>4. CASE ServeRemove
      BY <1>0, <3>4 DEF ServeRemove
    <3>5. CASE Terminated
      BY <3>5 DEF Terminated
    <3>6. ASSUME NEW s \in Slots, Evict(s)
          PROVE  dev'.puts = dev.puts /\ dev'.fifo = dev.fifo
      BY <3>6 DEF Evict
    <3>7. ASSUME NEW s \in Slots, NEW op \in {"serve", "promote"}, FetchFromHost(op, s)
          PROVE  dev'.puts = dev.puts /\ dev'.fifo = dev.fifo
      BY <1>0, <3>7 DEF FetchFromHost
    <3> QED
      BY <1>4, <3>1, <3>2, <3>3, <3>4, <3>5, <3>6, <3>7
  <2>2. l1'.issued = l1.issued /\ l1'.committed = l1.committed
    <3> USE DEF TypeOK, SharedWords
    <3>1. CASE WriteThrough \/ ReadAck \/ Push \/ ReadCommit
      BY <1>0, <3>1 DEF WriteThrough, Post, ReadAck, Push, ReadCommit
    <3>2. CASE Pull \/ ServeRemove \/ Terminated
      BY <1>0, <3>2 DEF Pull, ServeRemove, Post, Terminated
    <3>3. ASSUME NEW s \in Slots, Evict(s)
          PROVE  l1'.issued = l1.issued /\ l1'.committed = l1.committed
      BY <3>3 DEF Evict
    <3>4. ASSUME NEW s \in Slots, NEW op \in {"serve", "promote"}, FetchFromHost(op, s)
          PROVE  l1'.issued = l1.issued /\ l1'.committed = l1.committed
      BY <1>0, <3>4 DEF FetchFromHost, Post
    <3> QED
      BY <1>4, <3>1, <3>2, <3>3, <3>4
  <2> QED
    BY <2>1, <2>2 DEF Backed0
<1> QED
  BY <1>1, <1>2, <1>3, <1>4 DEF DeviceStep, Requests

(* A worker that failed stays failed, and only it says so.                 *)
LEMMA WorkerSteps ==
  ASSUME TypeOK, WorkerStep \/ Raise
  PROVE  /\ dev' = dev /\ dir' = dir /\ caller' = caller /\ server' = server
         /\ worker.failed => worker'.failed
         /\ l1'.issued = l1.issued /\ l1'.committed = l1.committed
         /\ l1'.request = l1.request /\ l1'.mailbox = l1.mailbox
         /\ l1'.done = l1.done
<1> USE DEF TypeOK, SharedWords, WorkerState, WorkerTo
<1>1. CASE Poll \/ Reserve \/ Acknowledge \/ Pushed \/ AbandonPush
  BY <1>1 DEF Poll, Reserve, Acknowledge, Pushed, AbandonPush
<1>2. CASE Publish \/ Copy \/ Drop \/ Source \/ ResetProgress
  BY <1>2 DEF Publish, Copy, Drop, Source, ResetProgress
<1>3. CASE Stage \/ PostCommit \/ Stream
  BY <1>3 DEF Stage, PostCommit, Stream
<1>4. CASE Pulled \/ Finished \/ Stopped \/ Raise
  BY <1>4 DEF Pulled, Finished, Stopped, Raise
<1> QED
  BY <1>1, <1>2, <1>3, <1>4 DEF WorkerStep

(* The numbers of PUTs as numbers.                                         *)
LEMMA PutNumbers ==
  ASSUME ServerInv
  PROVE  /\ dev.puts \in Nat /\ Backed0 \in Nat /\ Backed0 <= dev.puts
         /\ Len(dev.fifo) \in Nat /\ dev.puts - Backed0 = Len(dev.fifo)
         /\ caller.drained \in Nat
<1>1. TypeOK /\ Tokens
  BY DEF ServerInv
<1>2. dev.puts \in Nat /\ Len(dev.fifo) \in Nat /\ Len(dev.fifo) <= dev.puts
  BY <1>1, QueueTypes DEF Tokens
<1>3. caller.drained \in Nat
  BY <1>1, Constants DEF TypeOK, CallerState, Versions
<1> QED
  BY <1>2, <1>3 DEF Backed0

(* The signed comparison of the two words means what it says.              *)
LEMMA DrainedIs ==
  ASSUME ServerInv, DrainInv, FifoIsShort, caller.step = "wait", Covered
  PROVE  Backed0 >= caller.drained
<1>1. /\ dev.puts \in Nat /\ Backed0 \in Nat /\ Len(dev.fifo) \in Nat
      /\ dev.puts - Backed0 = Len(dev.fifo) /\ caller.drained \in Nat
  BY PutNumbers
<1>2. Span \div 2 \in Nat
  BY Halves, Constants
<1>3. caller.drained - Backed0 <= Span \div 2
  BY <1>1, <1>2 DEF DrainInv, FifoIsShort
<1>4. /\ l1.committed = (InitialCounter + Backed0) % Span
      /\ caller.target = (InitialCounter + caller.drained) % Span
  BY DEF DrainInv, PutCounts
<1> QED
  BY <1>1, <1>3, <1>4, CoveredIs

(* An operation leaves the drain when its target is committed, or by       *)
(* throwing.                                                               *)
LEMMA DrainByCaller ==
  ASSUME ServerInv, DrainInv, FifoIsShort, Calls \/ CallerStep \/ FinishThrows
  PROVE  DrainInv'
<1>0. TypeOK /\ CallSteps /\ caller \in CallerState /\ server \in ServerState
  BY DEF ServerInv, TypeOK
<1>1. dev' = dev /\ Backed0' = Backed0
  BY <1>0, CallerMoves DEF Backed0
<1>2. l1'.issued = l1.issued /\ l1'.committed = l1.committed
  BY <1>0, CallerMoves DEF TypeOK, SharedWords
<1>3. worker'.failed = worker.failed
  BY <1>0, CallerMoves DEF TypeOK, WorkerState
<1>4. /\ dev.puts \in Nat /\ Backed0 \in Nat /\ caller.drained \in Nat
      /\ caller.drained <= dev.puts
  BY PutNumbers DEF DrainInv
<1>5. PutCounts'
  BY <1>1, <1>2 DEF DrainInv, PutCounts
<1> USE DEF Calling, CallerTo, Others
<1>6. CASE caller'.drained = 0 /\ caller'.step # "wait"
           /\ (caller'.step = "drain" => caller'.op # "close")
  BY <1>1, <1>4, <1>5, <1>6 DEF DrainInv, PastDrain
<1>7. ASSUME Throw, server'.life = server.life \/ server'.life = "Ready",
             PastDrain \/ server'.life = "Ready"
      PROVE  DrainInv'
  <2>1. CASE caller'.step = "idle" /\ caller'.drained = 0
    BY <1>6, <2>1
  <2>2. CASE caller'.step \in {"enter", "stop"} /\ caller'.drained = caller.drained
    BY <1>1, <1>3, <1>4, <1>5, <1>7, <2>2 DEF DrainInv, PastDrain
  <2> QED
    BY <1>0, <1>7, <2>1, <2>2, ThrowFields
<1>8. CASE Return
  BY <1>6, <1>8 DEF Return, Idle
<1>9. ASSUME worker.failed, caller'.step = "terminate",
             caller'.drained = caller.drained
      PROVE  DrainInv'
  BY <1>1, <1>3, <1>4, <1>5, <1>9 DEF DrainInv
<1>10. CASE Calls
  <2>1. /\ caller'.drained = 0 /\ caller'.step # "wait"
        /\ caller'.step = "drain" => caller'.op # "close"
    BY <1>10 DEF Calls, Begin, BeginClose, Idle
  <2> QED
    BY <1>6, <2>1
<1>11. CASE Enter
  <2>1. /\ caller.step = "enter" /\ server'.life = "Closing"
        /\ caller'.drained = caller.drained
        /\ IF server.life = "Ready" /\ ~worker.failed THEN caller'.step = "drain"
           ELSE caller'.step = "terminate"
    BY <1>0, <1>11 DEF Enter, CallerState, ServerState
  <2> QED
    BY <1>1, <1>3, <1>4, <1>5, <2>1 DEF DrainInv, PastDrain
<1>12. CASE DrainTarget
  <2>1. /\ caller.step = "drain" /\ server' = server
        /\ caller'.drained = dev.puts /\ caller'.target = l1.issued
        /\ caller'.step = "wait" /\ caller'.op = caller.op
    BY <1>0, <1>12 DEF DrainTarget, CallerState
  <2> QED
    BY <1>1, <1>4, <1>5, <2>1 DEF DrainInv, PastDrain, PutCounts
<1>13. CASE Drained
  <2>1. /\ caller.step = "wait" /\ Covered /\ caller'.drained = caller.drained
        /\ caller'.step \in {"lookup", "mailbox", "answer", "terminate"}
    BY <1>0, <1>13 DEF Drained, CallerState
  <2>2. Backed0 >= caller.drained
    BY <2>1, DrainedIs
  <2> QED
    BY <1>1, <1>4, <1>5, <2>1, <2>2 DEF DrainInv
<1>14. CASE DrainThrows
  <2>1. CASE caller.op = "close" /\ worker.failed
    BY <1>0, <1>9, <1>14, <2>1 DEF DrainThrows, CallerState
  <2>2. CASE caller.op = "close" /\ ~worker.failed
    <3>1. Throw /\ server'.life = "Ready"
      BY <1>0, <1>14, <2>2 DEF DrainThrows, Unready, ServerState
    <3> QED
      BY <1>7, <3>1
  <2>3. CASE caller.op # "close"
    <3>1. Throw
      BY <1>14, <2>3 DEF DrainThrows
    <3>2. caller'.step = "idle" /\ caller'.drained = 0
      BY <1>0, <2>3, <3>1, ThrowFields
    <3> QED
      BY <1>6, <3>2
  <2> QED
    BY <2>1, <2>2, <2>3
<1>15. CASE Lookup \/ ReadValue \/ WriteMailbox \/ PostRequest \/ Removed
  <2>1. /\ caller.step \in {"lookup", "read", "mailbox", "request", "reply"}
        /\ caller'.step \in {"read", "request", "reply", "answer"}
        /\ caller'.drained = caller.drained
    BY <1>0, <1>15
       DEF Lookup, ReadValue, WriteMailbox, PostRequest, Removed, CallerState
  <2> QED
    BY <1>1, <1>3, <1>4, <1>5, <2>1 DEF DrainInv, PastDrain
<1>16. CASE RemoveThrows
  <2>1. Throw /\ server' = server /\ PastDrain
    BY <1>16 DEF RemoveThrows, PastDrain
  <2> QED
    BY <1>7, <2>1
<1>17. CASE Signal \/ Finish \/ StopWorker
  <2>1. /\ caller.step \in {"terminate", "finish", "stop"}
        /\ caller'.step \in {"finish", "stop", "join"}
        /\ caller'.drained = caller.drained
        /\ caller'.step = "finish" => caller.step = "terminate"
    BY <1>0, <1>17 DEF Signal, Finish, StopWorker, CallerState
  <2> QED
    BY <1>1, <1>3, <1>4, <1>5, <2>1 DEF DrainInv, PastDrain
<1>18. CASE FinishThrows
  <2>1. Throw /\ server'.life = server.life /\ PastDrain
    BY <1>0, <1>18 DEF FinishThrows, PastDrain, ServerState
  <2> QED
    BY <1>7, <2>1
<1> QED
  BY <1>8, <1>10, <1>11, <1>12, <1>13, <1>14, <1>15, <1>16, <1>17, <1>18
     DEF CallerStep, Answer, Join

(* Every step keeps the drain.                                             *)
LEMMA DrainStep ==
  ASSUME ServerInv, DrainInv, FifoIsShort, [Next]_vars
  PROVE  DrainInv'
<1>0. TypeOK /\ Users
  BY DEF ServerInv
<1>1. CASE UNCHANGED vars
  BY <1>1 DEF vars, DrainInv, PutCounts, PastDrain, Backed0
<1>2. CASE WorkerStep \/ Raise
  <2>1. /\ dev' = dev /\ caller' = caller /\ server' = server
        /\ l1'.issued = l1.issued /\ l1'.committed = l1.committed
        /\ worker.failed => worker'.failed
    BY <1>0, <1>2, WorkerSteps
  <2> QED
    BY <2>1 DEF DrainInv, PutCounts, PastDrain, Backed0
<1>3. CASE Construction
  <2>1. /\ dev' = dev /\ caller' = caller /\ l1' = l1
        /\ server.life \in {"Unborn", "Constructing"}
    BY <1>3 DEF Construction, Construct, LaunchFails, LaunchOutcomeUnknown,
       Launch
  <2>2. caller.step = "idle"
    BY <1>0, <2>1 DEF Users
  <2> QED
    BY <2>1, <2>2 DEF DrainInv, PutCounts, PastDrain, Backed0
<1>4. CASE DeviceStep \/ Requests
  <2>1. /\ worker' = worker /\ caller' = caller /\ server'.life = server.life
    BY <1>0, <1>4, DeviceMoves DEF Terminated, TypeOK, ServerState
  <2>2. /\ dev.puts \in Nat /\ Backed0 \in Nat /\ caller.drained \in Nat
    BY PutNumbers
  <2>3. PutCounts
    BY DEF DrainInv
  <2>4. /\ Inc((InitialCounter + dev.puts) % Span) = (InitialCounter + (dev.puts + 1)) % Span
        /\ Inc((InitialCounter + Backed0) % Span) = (InitialCounter + (Backed0 + 1)) % Span
    BY <2>2, CountNext
  <2>5. PutCounts' /\ dev'.puts \in Nat /\ dev'.puts >= dev.puts /\ Backed0' \in Nat
        /\ Backed0' >= Backed0
    BY <1>4, <2>2, <2>3, <2>4, PutsMove DEF PutCounts
  <2> QED
    BY <2>1, <2>2, <2>5 DEF DrainInv, PastDrain
<1> QED
  BY <1>1, <1>2, <1>3, <1>4, DrainByCaller DEF Next

(* Before construction no PUT was issued.                                  *)
LEMMA DrainInit == Init => DrainInv
<1> SUFFICES ASSUME Init
             PROVE  DrainInv
  OBVIOUS
<1>1. /\ dev.puts = 0 /\ dev.fifo = <<>> /\ caller.step = "idle"
      /\ caller.drained = 0
      /\ l1.issued = InitialCounter /\ l1.committed = InitialCounter
  BY DEF Init, Idle
<1>2. Backed0 = 0
  <2>1. Len(<<>>) = 0
    OBVIOUS
  <2>2. Len(dev.fifo) = Len(<<>>)
    BY <1>1, Zenon
  <2>3. \A p, n : p = 0 /\ n = 0 => p - n = 0
    OBVIOUS
  <2>4. dev.puts = 0 /\ Len(dev.fifo) = 0
    BY <1>1, <2>1, <2>2, Zenon
  <2> QED
    BY <2>3, <2>4, Zenon DEF Backed0
<1>3. InitialCounter % Span = InitialCounter /\ InitialCounter + 0 = InitialCounter
  <2>1. Span \in Nat \ {0} /\ InitialCounter \in Nat /\ InitialCounter < Span
    BY Constants
  <2> QED
    BY <2>1, ModShort
<1> QED
  BY <1>1, <1>2, <1>3 DEF DrainInv, PutCounts, PastDrain

(* An operation that went past its drain left no PUT of before it without  *)
(* its backing, although the counters it compares wrap, as long as the     *)
(* pending-write FIFO is no longer than half their range.                  *)
THEOREM DrainCovers == Spec /\ []FifoIsShort => []DrainCoversIssuedPuts
<1>1. Init => ServerInv /\ DrainInv
  BY InitServer, DrainInit
<1>2. (ServerInv /\ DrainInv) /\ FifoIsShort /\ [Next]_vars => (ServerInv /\ DrainInv)'
  BY StepServer, DrainStep
<1>3. ServerInv /\ DrainInv => DrainCoversIssuedPuts
  <2> SUFFICES ASSUME ServerInv, DrainInv, ~worker.failed,
                      caller.step \in {"lookup", "read", "mailbox", "request",
                                       "reply", "answer", "terminate"},
                      NEW i \in 1..Len(dev.fifo)
               PROVE  dev.fifo[i][2] > caller.drained
    BY DEF DrainCoversIssuedPuts
  <2>1. Backed0 \in Nat /\ caller.drained \in Nat /\ Backed0 >= caller.drained
    BY PutNumbers DEF DrainInv, PastDrain
  <2>2. dev.fifo[i][2] = Backed0 + i
    <3>1. i \in DOMAIN dev.fifo
      BY QueueTypes DEF ServerInv
    <3> QED
      BY <3>1 DEF ServerInv, Tokens
  <2> QED
    BY <2>1, <2>2
<1> QED
  BY <1>1, <1>2, <1>3, PTL DEF Spec


----------------------------------------------------------------------------
(* The host operations.                                                    *)

(* The modelled traffic pauses exactly while a diagnostic runs.            *)
LEMMA DiagnosisIsLoud ==
  ASSUME TypeOK
  PROVE  Diagnosing <=> ~Quiet
BY DEF TypeOK, CallerState, Diagnosing, Quiet

(* With the pending-write FIFO empty no write-through is under way, and    *)
(* every entry has its backing.                                            *)
LEMMA NothingPending ==
  ASSUME ServerInv, dev.fifo = <<>>
  PROVE  /\ dev.op # "write"
         /\ \A s \in Slots : dir[s] # None => dir[s].at \in {"Device", "Host"}
         /\ \A s \in Slots : dir[s] # None => dir[s].ver # 0
         /\ Settled => \A s \in Slots : dir[s] # None => InHost(s, dir[s].ver)
<1>0. TypeOK /\ Tokens
  BY DEF ServerInv
<1>1. dev.op # "write"
  BY <1>0 DEF Tokens
<1>2. Backed0 = dev.puts
  <2>1. Len(<<>>) = 0
    OBVIOUS
  <2>2. Len(dev.fifo) = 0
    BY <2>1, Zenon
  <2> QED
    BY <2>2, PutNumbers
<1>3. ASSUME NEW s \in Slots, dir[s] # None
      PROVE  /\ dir[s].at \in {"Device", "Host"} /\ dir[s].ver # 0
             /\ Settled => InHost(s, dir[s].ver)
  <2>1. /\ dir[s].ver \in 1..dev.puts
        /\ dir[s].at = "Pending" => dir[s].ver > Backed0
    BY <1>0, <1>3 DEF Tokens
  <2>2. dir[s].at \in Locations
    BY <1>0, <1>3 DEF TypeOK, Entry
  <2>3. dir[s].at # "Pending" /\ dir[s].ver # 0
    BY <1>2, <2>1, PutNumbers
  <2> QED
    BY <1>3, <2>2, <2>3 DEF Locations, Settled
<1> QED
  BY <1>1, <1>3

(* While a diagnostic runs the directory only removes entries or says that *)
(* one is on the device.                                                   *)
LEMMA DirMoves ==
  ASSUME ServerInv, ~Quiet, WorkerStep \/ Raise \/ DeviceStep \/ Requests,
         NEW s \in Slots
  PROVE  \/ dir'[s] = dir[s]
         \/ dir'[s] = None
         \/ /\ dir[s] # None /\ dir[s].at # "Device"
            /\ dir'[s].ver = dir[s].ver /\ dir'[s].at = "Device"
<1>0. TypeOK
  BY DEF ServerInv
<1>1. CASE Drain /\ dev.op \in {"write", "promote"}
  <2>1. /\ dev.step = "drain"
        /\ dir' = [dir EXCEPT ![dev.slot] = [dir[dev.slot] EXCEPT !.at = "Device"]]
    BY <1>1 DEF Drain, Device
  <2>2. CASE s = dev.slot
    <3>1. dir[s] # None /\ dir[s] \in Entry /\ dir[s].at # "Device"
      BY <1>0, <1>1, <2>2, MovedEntry, QueueTypes DEF Fetching
    <3>2. /\ [dir[s] EXCEPT !.at = "Device"].ver = dir[s].ver
          /\ [dir[s] EXCEPT !.at = "Device"].at = "Device"
      BY <3>1 DEF Entry
    <3> QED
      BY <1>0, <2>1, <2>2, <3>1, <3>2 DEF TypeOK
  <2>3. CASE s # dev.slot
    BY <1>0, <2>1, <2>3 DEF TypeOK
  <2> QED
    BY <2>2, <2>3
<1>2. CASE Drain /\ dev.op \notin {"write", "promote"}
  BY <1>2 DEF Drain
<1>3. CASE ServeRemove
  <2>1. dir' = dir \/ dir' = [dir EXCEPT ![l1.mailbox] = None]
    BY <1>3 DEF ServeRemove
  <2> QED
    BY <1>0, <2>1 DEF TypeOK
<1>4. CASE WorkerStep \/ Raise
  BY <1>0, <1>4, WorkerSteps
<1>5. CASE \/ SkipStale \/ WriteThrough \/ ReadAck \/ Push \/ ReadCommit \/ Pull
           \/ Terminated
  BY <1>5 DEF SkipStale, WriteThrough, ReadAck, Push, ReadCommit, Pull,
     Terminated
<1>6. CASE Requests
  BY <1>6 DEF Requests, IssuePut, Evict, FetchFromHost
<1> QED
  BY <1>1, <1>2, <1>3, <1>4, <1>5, <1>6 DEF DeviceStep

(* Nothing writes the heap units of a value that is not being fetched.     *)
LEMMA HeapMoves ==
  ASSUME ServerInv, ~Quiet, WorkerStep \/ Raise \/ DeviceStep \/ Requests,
         NEW s \in Slots, dir[s] = None \/ dir[s].at = "Device"
  PROVE  \A u \in UnitsOf(s) : heap'[u] = heap[u]
<1>0. TypeOK /\ Channel /\ Handshake
  BY DEF ServerInv
<1>1. Fetching => s # dev.slot
  BY MovedEntry
<1>2. CASE Drain
  <2>1. /\ dev.step = "drain"
        /\ heap' = IF dev.op # "promote" THEN heap
                   ELSE [u \in HeapUnits |->
                            IF u \in Base(dev.slot)..(Base(dev.slot) + Chunks - 1)
                            THEN dev.got[u - Base(dev.slot) + 1] ELSE heap[u]]
    BY <1>2 DEF Drain, Device
  <2>2. dev.slot \in Slots
    BY <2>1, MovedEntry
  <2>3. CASE dev.op = "promote"
    <3>1. s # dev.slot
      BY <1>1, <2>3 DEF Fetching
    <3>2. PICK d \in Slots : d = dev.slot
      BY <2>2
    <3>3. UnitsOf(d) = Base(d)..(Base(d) + Chunks - 1) /\ UnitsOf(s) \subseteq HeapUnits
      BY UnitsInHeap
    <3>4. UnitsOf(s) \cap UnitsOf(d) = {}
      BY <3>1, <3>2, UnitsApart
    <3>5. heap' = [u \in HeapUnits |-> IF u \in UnitsOf(d)
                       THEN dev.got[u - Base(d) + 1] ELSE heap[u]]
      BY <2>1, <2>3, <3>2, <3>3
    <3> QED
      BY <3>3, <3>4, <3>5
  <2> QED
    BY <2>1, <2>3
<1>3. CASE Stage
  <2>1. /\ worker.step = "stage"
        /\ heap' = heap \/ heap' = WriteUnits(Base(worker.slot), HostBytes(worker.slot))
    BY <1>3 DEF Stage, Working
  <2>2. worker.slot \in Slots /\ worker.slot = dev.slot /\ Fetching
    BY <1>0, <2>1, BusyOn DEF Busy, Handshake, Requested
  <2> QED
    BY <1>1, <2>1, <2>2, WriteIs, UnitsInHeap, UnitsApart
<1>4. CASE (WorkerStep \/ Raise) /\ ~Stage
  BY <1>4 DEF WorkerStep, Poll, Reserve, Acknowledge, Pushed, AbandonPush,
     Publish,
              Copy, Drop, Source, ResetProgress, PostCommit, Stream, Pulled,
              Finished, Stopped, Raise
<1>5. CASE DeviceStep /\ ~Drain
  BY <1>5 DEF DeviceStep, SkipStale, WriteThrough, ReadAck, Push, ReadCommit,
     Pull,
              ServeRemove, Terminated
<1>6. CASE Requests
  BY <1>6 DEF Requests, IssuePut, Evict, FetchFromHost
<1> QED
  BY <1>2, <1>3, <1>4, <1>5, <1>6

(* Nor the host value, but to drop it.                                     *)
LEMMA ValueMoves ==
  ASSUME ServerInv, dev.op # "write", WorkerStep \/ Raise \/ DeviceStep \/ Requests,
         NEW s \in Slots
  PROVE  \/ values'[s] = None
         \/ values'[s] = values[s] /\ \A u \in Extent(s) : ram'[u] = ram[u]
<1>0. TypeOK /\ Channel /\ Handshake
  BY DEF ServerInv
<1>1. None \notin Extent(s)
  BY <1>0, ExtentUnits
<1>2. CASE Reserve \/ Publish \/ Copy \/ Push
  <2>1. \/ worker.step \in {"reserve", "publish", "copy"}
        \/ dev.step = "push"
    BY <1>2 DEF Reserve, Publish, Copy, Push, Working, Device
  <2>2. dev.op = "write"
    BY <1>0, <2>1 DEF Handshake, Requested, Channel
  <2> QED
    BY <2>2
<1>3. CASE Drop
  BY <1>0, <1>3 DEF Drop, TypeOK
<1>4. CASE Stage \/ Stream
  <2>1. /\ values' = values
        /\ ram' = ram \/ \E x : ram' = [ram EXCEPT ![None] = x]
    BY <1>4 DEF Stage, Stream
  <2>2. \A u \in Extent(s) : ram'[u] = ram[u]
    BY <1>0, <1>1, <2>1, ExtentUnits DEF TypeOK
  <2> QED
    BY <2>1, <2>2
<1>5. CASE \/ Poll \/ Acknowledge \/ Pushed \/ AbandonPush \/ Source \/ ResetProgress
           \/ PostCommit \/ Pulled \/ Finished \/ Stopped \/ Raise
  BY <1>5 DEF Poll, Acknowledge, Pushed, AbandonPush, Source, ResetProgress,
              PostCommit, Pulled, Finished, Stopped, Raise
<1>6. CASE (DeviceStep \/ Requests) /\ ~Push
  <2>1. values' = values
    BY <1>6, DeviceMoves
  <2>2. ram' = ram
    BY <1>6 DEF DeviceStep, SkipStale, WriteThrough, ReadAck, Drain, ReadCommit,
                Pull, ServeRemove, Terminated, Requests, IssuePut, Evict, FetchFromHost
  <2> QED
    BY <2>1, <2>2
<1> QED
  BY <1>2, <1>3, <1>4, <1>5, <1>6 DEF WorkerStep

(* A drained queue stays empty while no PUT is issued.                     *)
LEMMA QueueStaysEmpty ==
  ASSUME ServerInv, ServerInv', ~Quiet, WorkerStep \/ Raise \/ DeviceStep \/ Requests
  PROVE  /\ dev'.puts = dev.puts
         /\ dev.fifo = <<>> => dev'.fifo = <<>>
<1>1. CASE WorkerStep \/ Raise
  BY <1>1, WorkerSteps DEF ServerInv
<1>2. CASE DeviceStep \/ Requests
  <2>1. dev'.puts = dev.puts /\ Backed0' \in {Backed0, Backed0 + 1}
    BY <1>2, PutsMove
  <2>3. dev'.fifo \in Seq(Slots \X Versions)
    BY DEF ServerInv, TypeOK, DeviceState
  <2>2. /\ dev.puts - Backed0 = Len(dev.fifo)
        /\ Backed0' = dev'.puts - Len(dev'.fifo) /\ Len(dev'.fifo) \in Nat
        /\ Len(dev.fifo) \in Nat /\ dev.puts \in Nat /\ Backed0 \in Nat
    <3>1. Len(dev'.fifo) \in Nat
      BY <2>3
    <3>2. Backed0' = dev'.puts - Len(dev'.fifo)
      BY DEF Backed0
    <3> QED
      BY <3>1, <3>2, PutNumbers
  <2>4. Len(dev.fifo) = 0 => Len(dev'.fifo) = 0
    BY <2>1, <2>2
  <2>5. \A q \in Seq(Slots \X Versions) : Len(q) = 0 => q = <<>>
    OBVIOUS
  <2>6. dev.fifo = <<>> => Len(dev.fifo) = 0
    <3>1. Len(<<>>) = 0
      OBVIOUS
    <3> QED
      BY <3>1, Zenon
  <2> QED
    BY <2>1, <2>3, <2>4, <2>5, <2>6
<1> QED
  BY <1>1, <1>2


(* The device answers the requests of remove, and nothing else does.       *)
LEMMA RequestsMove ==
  ASSUME ServerInv, DeviceStep \/ Requests
  PROVE  /\ l1'.request = l1.request /\ l1'.mailbox = l1.mailbox
         /\ \/ /\ dev'.request = dev.request /\ l1'.done = l1.done
               /\ dev'.op = "remove" => dev.op = "remove"
            \/ /\ Drain /\ dev.op = "remove"
               /\ dev'.request = dev.request /\ l1'.done = Inc(l1.done)
               /\ dev'.op = "none"
            \/ /\ ServeRemove /\ dev.op = "none" /\ l1.request # dev.request
               /\ l1.mailbox \in Slots /\ dir'[l1.mailbox] = None
               /\ dev'.request = l1.request
               /\ \/ l1'.done = Inc(l1.done) /\ dev'.op = "none"
                  \/ l1'.done = l1.done /\ dev'.op = "remove"
<1>0. TypeOK /\ Tokens /\ Mailbox
  BY DEF ServerInv
<1> USE DEF TypeOK, SharedWords, DeviceState
<1>1. CASE SkipStale \/ ReadAck \/ Push
  BY <1>0, <1>1 DEF SkipStale, ReadAck, Push
<1>2. CASE WriteThrough
  <2>1. l1'.request = l1.request /\ l1'.mailbox = l1.mailbox /\ l1'.done = l1.done
    BY <1>0, <1>2 DEF WriteThrough, Post
  <2>2. dev'.request = dev.request /\ dev'.op = "write"
    BY <1>0, <1>2 DEF WriteThrough
  <2> QED
    BY <2>1, <2>2
<1>3. CASE Drain
  <2>1. \E fifo : dev' = [dev EXCEPT !.step = "loop", !.op = "none", !.slot = None,
                          !.ver = 0, !.unit = None, !.chunk = 0, !.got = Whole(0),
                          !.fifo = fifo]
    BY <1>3 DEF Drain
  <2>2. dev'.request = dev.request /\ dev'.op = "none"
    BY <1>0, <2>1
  <2>3. l1' = CASE dev.op = "write" -> [l1 EXCEPT !.committed = Inc(l1.committed)]
                [] dev.op = "remove" -> [l1 EXCEPT !.done = Inc(l1.done)]
                [] OTHER -> l1
    BY <1>3 DEF Drain
  <2>4. l1'.request = l1.request /\ l1'.mailbox = l1.mailbox
    BY <1>0, <2>3
  <2>5. l1'.done = IF dev.op = "remove" THEN Inc(l1.done) ELSE l1.done
    BY <1>0, <2>3
  <2> QED
    BY <1>3, <2>2, <2>4, <2>5
<1>4. CASE ReadCommit
  BY <1>0, <1>4 DEF ReadCommit
<1>5. CASE Pull
  <2>1. \E c, g, t : dev' = [dev EXCEPT !.chunk = c, !.got = g, !.step = t]
    BY <1>5 DEF Pull
  <2>2. l1' = l1 \/ l1' = [l1 EXCEPT !.pulled = Inc(l1.pulled)]
    BY <1>5 DEF Pull
  <2>3. dev'.request = dev.request /\ dev'.op = dev.op
    BY <1>0, <2>1
  <2>4. l1'.request = l1.request /\ l1'.mailbox = l1.mailbox /\ l1'.done = l1.done
    BY <1>0, <2>2
  <2> QED
    BY <2>3, <2>4
<1>6. CASE ServeRemove
  <2>1. dev.op = "none" /\ l1.request # dev.request /\ l1.mailbox \in Slots
    BY <1>0, <1>6 DEF ServeRemove, Device, Tokens, Mailbox
  <2>2. CASE dir[l1.mailbox] = None
    <3>1. /\ dev' = [dev EXCEPT !.request = l1.request]
          /\ l1' = [l1 EXCEPT !.done = Inc(l1.done)] /\ dir' = dir
      BY <1>6, <2>2 DEF ServeRemove
    <3> QED
      BY <1>0, <1>6, <2>1, <2>2, <3>1
  <2>3. CASE dir[l1.mailbox] # None
    <3>1. /\ dev' = [dev EXCEPT !.request = l1.request, !.step = "drain",
                                !.op = "remove", !.slot = l1.mailbox]
          /\ l1' = [l1 EXCEPT !.move = Inc(l1.move), !.op = "remove",
                              !.slot = l1.mailbox]
          /\ dir' = [dir EXCEPT ![l1.mailbox] = None]
      BY <1>6, <2>3 DEF ServeRemove, Post
    <3>2. dev'.request = l1.request /\ dev'.op = "remove"
      BY <1>0, <3>1
    <3>3. l1'.request = l1.request /\ l1'.mailbox = l1.mailbox /\ l1'.done = l1.done
      BY <1>0, <3>1
    <3>4. dir'[l1.mailbox] = None
      BY <1>0, <2>1, <3>1
    <3> QED
      BY <1>6, <2>1, <3>2, <3>3, <3>4
  <2> QED
    BY <2>2, <2>3
<1>7. CASE Terminated
  BY <1>7 DEF Terminated
<1>8. ASSUME NEW s \in Slots, IssuePut(s)
      PROVE  /\ l1'.request = l1.request /\ l1'.mailbox = l1.mailbox
             /\ l1'.done = l1.done
             /\ dev'.request = dev.request /\ dev'.op = dev.op
  BY <1>0, <1>8 DEF IssuePut
<1>9. ASSUME NEW s \in Slots, Evict(s)
      PROVE  l1' = l1 /\ dev' = dev
  BY <1>9 DEF Evict
<1>10. ASSUME NEW s \in Slots, NEW op \in {"serve", "promote"}, FetchFromHost(op, s)
       PROVE  /\ l1'.request = l1.request /\ l1'.mailbox = l1.mailbox
              /\ l1'.done = l1.done
              /\ dev'.request = dev.request /\ dev'.op # "remove"
  <2>1. l1'.request = l1.request /\ l1'.mailbox = l1.mailbox /\ l1'.done = l1.done
    BY <1>0, <1>10 DEF FetchFromHost, Post
  <2>2. dev'.request = dev.request /\ dev'.op = op
    BY <1>0, <1>10 DEF FetchFromHost
  <2> QED
    BY <2>1, <2>2
<1>11. CASE Requests
  BY <1>8, <1>9, <1>10, <1>11 DEF Requests
<1> QED
  BY <1>1, <1>2, <1>3, <1>4, <1>5, <1>6, <1>7, <1>11 DEF DeviceStep


(* What an operation has read stays what it will answer.                   *)
LEMMA ReadingStays ==
  ASSUME ServerInv, dev.fifo = <<>>, Diagnosing, Reading, caller' = caller,
         WorkerStep \/ Raise \/ DeviceStep \/ Requests
  PROVE  Reading'
<1>0. TypeOK /\ CallSteps
  BY DEF ServerInv
<1>1. ~Quiet /\ dev.op # "write" /\ caller.slot \in Slots
  BY <1>0, DiagnosisIsLoud, NothingPending DEF CallSteps
<1>2. PICK s, v : s = caller.slot /\ v = caller.ver
  OBVIOUS
<1>3. s \in Slots
  BY <1>1, <1>2
<1>4. \/ dir'[s] = dir[s]
      \/ dir'[s] = None
      \/ /\ dir[s] # None /\ dir[s].at # "Device"
         /\ dir'[s].ver = dir[s].ver /\ dir'[s].at = "Device"
  BY <1>1, <1>3, DirMoves
<1>5. dir'[s] # None => dir'[s].ver = v
  BY <1>2, <1>4 DEF Reading
<1>6. ASSUME caller.at = "Device"
      PROVE  (dir'[s] # None => dir'[s].at = "Device") /\ OnDevice(s, v)'
  <2>1. (dir[s] # None => dir[s].at = "Device") /\ OnDevice(s, v)
    BY <1>2, <1>6 DEF Reading
  <2>2. \A u \in UnitsOf(s) : heap'[u] = heap[u]
    BY <1>1, <1>3, <2>1, HeapMoves
  <2>3. OnDevice(s, v)'
    BY <1>3, <2>1, <2>2, OnDeviceStays
  <2> QED
    BY <1>4, <2>1, <2>3
<1>7. ASSUME caller.at = "Host", values'[s] # None
      PROVE  HostBytes(s)' = Whole(v)
  <2>1. values'[s] = values[s] /\ \A u \in Extent(s) : ram'[u] = ram[u]
    BY <1>1, <1>3, <1>7, ValueMoves
  <2>2. InHost(s, v)
    BY <1>2, <1>7, <2>1 DEF Reading, InHost
  <2>3. InHost(s, v)'
    BY <1>3, <2>1, <2>2, InHostStays
  <2> QED
    BY <2>3 DEF InHost, Whole
<1> QED
  BY <1>2, <1>5, <1>6, <1>7 DEF Reading

(* The worker and the device do not spoil a diagnostic in progress.        *)
LEMMA AnswersByOthers ==
  ASSUME ServerInv, ServerInv', Answers,
         WorkerStep \/ Raise \/ DeviceStep \/ Requests
  PROVE  Answers'
<1>0. TypeOK /\ CallSteps
  BY DEF ServerInv
<1>1. caller' = caller
  BY <1>0, WorkerSteps, DeviceMoves
<1>2. l1'.mailbox = l1.mailbox
  <2>1. CASE WorkerStep \/ Raise
    BY <1>0, <2>1, WorkerSteps
  <2>2. CASE DeviceStep \/ Requests
    BY <1>0, <2>2, RequestsMove
  <2> QED
    BY <2>1, <2>2
<1>3. CASE ~Diagnosing
  <2>1. caller.step \notin {"request", "reply", "read"}
    BY <1>0, <1>3 DEF CallSteps, Diagnosing, TypeOK, CallerState
  <2> QED
    BY <1>1, <1>3, <2>1 DEF Answers, Diagnosing, HostOperationsAnswer
<1>4. CASE Diagnosing
  <2>1. ~Quiet /\ caller.slot \in Slots
    BY <1>0, <1>4, DiagnosisIsLoud DEF CallSteps
  <2>2. dev'.puts = dev.puts /\ (dev.fifo = <<>> => dev'.fifo = <<>>)
    BY <2>1, QueueStaysEmpty
  <2>3. caller.step = "read" => Reading'
    BY <1>1, <1>4, ReadingStays DEF Answers
  <2>4. dir[caller.slot] = None => dir'[caller.slot] = None
    BY <2>1, DirMoves
  <2>5. HostOperationsAnswer'
    BY <1>1, <2>4 DEF Answers, HostOperationsAnswer
  <2> QED
    BY <1>1, <1>2, <1>4, <2>2, <2>3, <2>5 DEF Answers, Diagnosing
<1> QED
  BY <1>3, <1>4


(* The device answers requests in order and each once.                     *)
LEMMA RemovingByOthers ==
  ASSUME ServerInv, Removing, Answers,
         WorkerStep \/ Raise \/ DeviceStep \/ Requests
  PROVE  Removing'
<1>0. TypeOK /\ CallSteps
  BY DEF ServerInv
<1>1. caller' = caller
  BY <1>0, WorkerSteps, DeviceMoves
<1>2. PICK r \in Nat, q \in Nat, n \in Nat : Counted(r, q, n)
  BY DEF Removing
<1>3. ASSUME caller.step = "reply", dir[caller.slot] = None
      PROVE  dir'[caller.slot] = None
  <2>1. ~Quiet /\ caller.slot \in Slots
    BY <1>0, <1>3 DEF CallSteps, Diagnosing, Quiet, TypeOK, CallerState
  <2> QED
    BY <1>3, <2>1, DirMoves
<1>4. ASSUME l1'.request = l1.request, dev'.request = dev.request,
             l1'.done = l1.done, dev'.op = "remove" => dev.op = "remove"
      PROVE  Removing'
  <2>1. Counted(r, q, n)'
    BY <1>1, <1>2, <1>3, <1>4 DEF Counted
  <2> QED
    BY <2>1 DEF Removing
<1>5. CASE WorkerStep \/ Raise
  BY <1>0, <1>4, <1>5, WorkerSteps
<1>6. ASSUME l1'.request = l1.request, dev.op = "remove",
             dev'.request = dev.request, l1'.done = Inc(l1.done),
             dev'.op = "none"
      PROVE  Removing'
  <2>1. n + 1 <= q /\ n + 1 \in Nat
    BY <1>2, <1>6 DEF Counted
  <2>2. l1'.done = (InitialCounter + (n + 1)) % Span
    BY <1>2, <1>6, CountNext DEF Counted
  <2>3. Counted(r, q, n + 1)'
    BY <1>1, <1>2, <1>3, <1>6, <2>1, <2>2 DEF Counted
  <2> QED
    BY <2>1, <2>3 DEF Removing
<1>7. ASSUME l1'.request = l1.request, dev.op = "none", l1.request # dev.request,
             dir'[l1.mailbox] = None, dev'.request = l1.request,
             \/ l1'.done = Inc(l1.done) /\ dev'.op = "none"
             \/ l1'.done = l1.done /\ dev'.op = "remove"
      PROVE  Removing'
  <2>1. q # r
    BY <1>2, <1>7 DEF Counted
  <2>2. n <= q /\ q < r
    BY <1>2, <2>1 DEF Counted
  <2>3. caller.step = "reply" => dir'[caller.slot] = None
    BY <1>7 DEF Answers
  <2>4. CASE l1'.done = Inc(l1.done) /\ dev'.op = "none"
    <3>1. n + 1 <= r /\ n + 1 \in Nat
      BY <2>2
    <3>2. l1'.done = (InitialCounter + (n + 1)) % Span
      BY <1>2, <2>4, CountNext DEF Counted
    <3>3. Counted(r, r, n + 1)'
      BY <1>1, <1>2, <1>7, <2>3, <2>4, <3>1, <3>2 DEF Counted
    <3> QED
      BY <3>1, <3>3 DEF Removing
  <2>5. CASE l1'.done = l1.done /\ dev'.op = "remove"
    <3>1. n < r
      BY <2>2
    <3>2. Counted(r, r, n)'
      BY <1>1, <1>2, <1>7, <2>2, <2>3, <2>5, <3>1 DEF Counted
    <3> QED
      BY <3>2 DEF Removing
  <2> QED
    BY <1>7, <2>4, <2>5
<1>8. CASE DeviceStep \/ Requests
  BY <1>4, <1>6, <1>7, <1>8, RequestsMove
<1> QED
  BY <1>5, <1>8


(* The counts of the removals while a call posts none.                     *)
LEMMA RemovingStays ==
  ASSUME ServerInv, Removing, dev' = dev, dir' = dir,
         l1'.request = l1.request, l1'.done = l1.done,
         caller'.ops \in {caller.ops, caller.ops + 1},
         caller'.step \notin {"request", "reply"},
         \/ caller'.ops = caller.ops + 1
         \/ ~(caller'.op = "remove" /\ caller'.step \in {"drain", "wait", "mailbox"})
         \/ caller.op = "remove" /\ caller.step \in {"drain", "wait"}
  PROVE  Removing'
<1>1. PICK r \in Nat, q \in Nat, n \in Nat : Counted(r, q, n)
  BY DEF Removing
<1>2. caller.ops \in Nat
  BY Constants DEF ServerInv, TypeOK, CallerState
<1>3. Counted(r, q, n)'
  BY <1>1, <1>2 DEF Counted
<1> QED
  BY <1>3 DEF Removing

(* The host posts one request at a time and waits for its own number.      *)
LEMMA RemovingByCaller ==
  ASSUME ServerInv, Removing, Calls \/ CallerStep \/ FinishThrows
  PROVE  Removing'
<1>0. TypeOK /\ CallSteps /\ caller \in CallerState
  BY DEF ServerInv, TypeOK
<1>1. dev' = dev /\ dir' = dir
  BY <1>0, CallerMoves
<1>2. l1'.done = l1.done
  BY <1>0, CallerMoves DEF TypeOK, SharedWords
<1>3. ~PostRequest => l1'.request = l1.request
  BY <1>0
     DEF Calls, Begin, BeginClose, CallerStep, Enter, DrainTarget, Drained,
         DrainThrows, Lookup, ReadValue, WriteMailbox, Removed, RemoveThrows,
         Answer, Signal, Finish, FinishThrows, StopWorker, Join, Others, TypeOK,
         SharedWords
<1>4. caller.ops \in Nat
  BY <1>0, Constants DEF CallerState
<1> USE DEF Calling, CallerTo
<1>5. ASSUME Throw, ~PostRequest
      PROVE  Removing'
  <2>1. caller'.step \in {"idle", "enter", "stop"}
    BY <1>0, <1>5, ThrowFields
  <2>2. caller'.ops = caller.ops
    <3>1. CASE caller' = Idle(caller.ops, caller.closes)
      BY <3>1 DEF Idle
    <3>2. CASE caller' = [caller EXCEPT !.step = "enter", !.attempt = 2]
      BY <1>0, <3>2 DEF CallerState
    <3>3. CASE caller' = [caller EXCEPT !.step = "stop", !.attempt = 3]
      BY <1>0, <3>3 DEF CallerState
    <3> QED
      BY <1>0, <1>5, <3>1, <3>2, <3>3, ThrowMoves
  <2> QED
    BY <1>1, <1>2, <1>3, <1>5, <2>1, <2>2, RemovingStays
<1>6. ASSUME Return, ~PostRequest
      PROVE  Removing'
  <2>1. caller'.step = "idle" /\ caller'.ops = caller.ops
    BY <1>6 DEF Return, Idle
  <2> QED
    BY <1>1, <1>2, <1>3, <1>6, <2>1, RemovingStays
<1>7. ASSUME caller.op = "close", CallerTo("terminate"), ~PostRequest
      PROVE  Removing'
  <2>1. caller'.step = "terminate" /\ caller'.ops = caller.ops
    BY <1>0, <1>7 DEF CallerState
  <2> QED
    BY <1>1, <1>2, <1>3, <1>7, <2>1, RemovingStays
<1>8. CASE Calls
  <2>1. /\ caller'.step \in {"drain", "enter"} /\ ~PostRequest
        /\ \/ caller'.ops = caller.ops + 1
           \/ caller'.ops = caller.ops /\ caller'.op = "close"
    BY <1>8 DEF Calls, Begin, BeginClose, Idle, PostRequest
  <2> QED
    BY <1>1, <1>2, <1>3, <2>1, RemovingStays
<1>9. CASE Enter \/ DrainTarget \/ Lookup \/ ReadValue \/ Removed
  <2>1. /\ caller'.step \in {"drain", "terminate", "wait", "read", "answer"}
        /\ caller'.op = caller.op /\ caller'.ops = caller.ops
        /\ caller'.step = "drain" => caller.step = "enter"
        /\ caller'.step = "wait" => caller.step = "drain"
    BY <1>0, <1>9 DEF Enter, DrainTarget, Lookup, ReadValue, Removed,
       CallerState
  <2>2. caller'.op = "remove" /\ caller'.step \in {"drain", "wait", "mailbox"}
            => caller.step = "drain"
    BY <1>0, <2>1 DEF CallSteps
  <2>3. ~PostRequest
    BY <1>9 DEF Enter, DrainTarget, Lookup, ReadValue, Removed, PostRequest
  <2> QED
    BY <1>1, <1>2, <1>3, <2>1, <2>2, <2>3, RemovingStays
<1>10. CASE Drained
  <2>1. /\ caller.step = "wait" /\ caller'.op = caller.op /\ caller'.ops = caller.ops
        /\ caller'.step \in {"lookup", "mailbox", "answer", "terminate"}
    BY <1>0, <1>10 DEF Drained, CallerState
  <2>2. ~PostRequest
    BY <2>1 DEF PostRequest
  <2> QED
    BY <1>1, <1>2, <1>3, <2>1, <2>2, RemovingStays
<1>11. CASE Signal \/ Finish \/ StopWorker
  <2>1. /\ caller'.ops = caller.ops /\ caller'.step \in {"finish", "stop", "join"}
        /\ ~PostRequest
    BY <1>0, <1>11 DEF Signal, Finish, StopWorker, CallerState, PostRequest
  <2> QED
    BY <1>1, <1>2, <1>3, <2>1, RemovingStays
<1>12. CASE WriteMailbox
  <2>1. /\ caller.step = "mailbox" /\ caller'.step = "request"
        /\ caller'.op = caller.op /\ caller'.ops = caller.ops
        /\ caller'.target = Inc(l1.request)
    BY <1>0, <1>12 DEF WriteMailbox, CallerState
  <2>2. caller.op = "remove"
    BY <1>0, <2>1 DEF CallSteps, CallerState
  <2>3. PICK r \in Nat, q \in Nat, n \in Nat : Counted(r, q, n)
    BY DEF Removing
  <2>4. Inc((InitialCounter + r) % Span) = (InitialCounter + (r + 1)) % Span
    BY CountNext
  <2>5. l1'.request = l1.request
    BY <1>3, <2>1 DEF PostRequest
  <2>6. Counted(r, q, n)'
    BY <1>1, <1>2, <2>1, <2>2, <2>3, <2>4, <2>5 DEF Counted
  <2> QED
    BY <2>6 DEF Removing
<1>13. CASE PostRequest
  <2>1. /\ caller.step = "request" /\ caller'.step = "reply"
        /\ caller'.op = caller.op /\ caller'.ops = caller.ops
        /\ caller'.target = caller.target /\ l1'.request = caller.target
    BY <1>0, <1>13 DEF PostRequest, CallerState, TypeOK, SharedWords
  <2>2. caller.op = "remove"
    BY <1>0, <2>1 DEF CallSteps, CallerState
  <2>3. PICK r \in Nat, q \in Nat, n \in Nat : Counted(r, q, n)
    BY DEF Removing
  <2>4. r + 1 \in Nat /\ q # r + 1 /\ q <= r + 1 /\ r + 1 <= caller.ops
    BY <1>4, <2>1, <2>2, <2>3 DEF Counted
  <2>5. Counted(r + 1, q, n)'
    BY <1>1, <1>2, <2>1, <2>2, <2>3, <2>4 DEF Counted
  <2> QED
    BY <2>4, <2>5 DEF Removing
<1>14. (DrainThrows \/ RemoveThrows \/ FinishThrows \/ Answer \/ Join) => ~PostRequest
  BY DEF DrainThrows, RemoveThrows, FinishThrows, Answer, Join, PostRequest
<1> QED
  BY <1>5, <1>6, <1>7, <1>8, <1>9, <1>10, <1>11, <1>12, <1>13, <1>14
     DEF CallerStep, DrainThrows, RemoveThrows, FinishThrows, Answer, Join

(* The device counts one removal at a time: an answer that has caught up   *)
(* with the requests has answered this one.                                *)
LEMMA RemovedIs ==
  ASSUME MaxOps < Span, ServerInv, Removing, caller.step = "reply",
         l1.done = caller.target
  PROVE  dir[caller.slot] = None
<1>1. PICK r \in Nat, q \in Nat, n \in Nat : Counted(r, q, n)
  BY DEF Removing
<1> DEFINE x == InitialCounter + n
           e == r - n
<1>2. /\ caller.ops \in 0..MaxOps /\ MaxOps \in Nat /\ Span \in Nat \ {0}
      /\ InitialCounter \in Nat
  BY Constants DEF ServerInv, TypeOK, CallerState
<1>3. e \in 0..Span /\ e < Span /\ x \in Nat /\ InitialCounter + r = x + e
  BY <1>1, <1>2 DEF Counted
<1>4. x % Span = (x + e) % Span
  <2>1. (InitialCounter + n) % Span = (InitialCounter + r) % Span
    BY <1>1 DEF Counted
  <2> QED
    BY <1>3, <2>1
<1>5. e = 0 => n = r
  BY <1>1
<1> HIDE DEF x, e
<1>6. e = 0
  <2> DEFINE a == x % Span
             b == (x + e) % Span
  <2>1. a \in 0..(Span - 1) /\ b = IF a + e < Span THEN a + e ELSE (a + e) - Span
    BY <1>2, <1>3, ModAhead
  <2>2. a = b
    BY <1>4
  <2> HIDE DEF a, b
  <2> QED
    BY <1>2, <1>3, <2>1, <2>2
<1> QED
  BY <1>1, <1>5, <1>6 DEF Counted

(* A diagnostic answers what the drained directory said of its key.        *)
LEMMA AnswersByCaller ==
  ASSUME MaxOps < Span, ServerInv, Transfers, DrainInv, FifoIsShort,
         Removing, Answers, Calls \/ CallerStep \/ FinishThrows
  PROVE  Answers'
<1>0. TypeOK /\ CallSteps /\ Users /\ caller \in CallerState
  BY DEF ServerInv, TypeOK
<1>1. dev' = dev /\ dir' = dir /\ heap' = heap /\ ram' = ram
  BY <1>0, CallerMoves
<1> USE DEF Calling, CallerTo, Others
<1>2. CASE /\ ~Diagnosing'
           /\ caller'.step \notin {"request", "reply", "read"}
  BY <1>2 DEF Answers, HostOperationsAnswer, Diagnosing
<1>3. CASE Throw
  <2>1. ~Diagnosing' /\ caller'.step \in {"idle", "enter", "stop"}
    BY <1>0, <1>3, ThrowFields DEF Diagnosing
  <2> QED
    BY <1>2, <2>1
<1>4. CASE Return
  <2>1. ~Diagnosing' /\ caller'.step = "idle"
    BY <1>4 DEF Return, Idle, Diagnosing
  <2> QED
    BY <1>2, <2>1
<1>5. CASE caller.op = "close" /\ CallerTo("terminate")
  <2>1. ~Diagnosing' /\ caller'.step = "terminate"
    BY <1>0, <1>5 DEF CallerState, Diagnosing
  <2> QED
    BY <1>2, <2>1
<1>6. CASE Enter \/ Signal \/ Finish \/ StopWorker
  <2>1. /\ caller.step \in {"enter", "terminate", "finish", "stop"}
        /\ caller'.op = caller.op
        /\ caller'.step \in {"drain", "terminate", "finish", "stop", "join"}
    BY <1>0, <1>6 DEF Enter, Signal, Finish, StopWorker, CallerState
  <2>2. ~Diagnosing
    BY <1>0, <2>1 DEF CallSteps, Diagnosing
  <2> QED
    BY <1>2, <2>1, <2>2 DEF Diagnosing
<1>7. CASE Calls
  <2>1. /\ caller'.step \in {"drain", "enter"}
        /\ caller'.ver = 0 /\ caller'.got = None
        /\ caller'.op \in {"get", "remove"} => caller'.step = "drain"
    BY <1>7 DEF Calls, Begin, BeginClose, Idle
  <2> QED
    BY <2>1 DEF Answers, HostOperationsAnswer, Diagnosing
<1>8. CASE DrainTarget
  <2>1. /\ caller.step = "drain" /\ caller'.step = "wait"
        /\ caller'.drained = dev.puts /\ caller'.op = caller.op
        /\ caller'.ver = caller.ver /\ caller'.got = caller.got
    BY <1>0, <1>8 DEF DrainTarget, CallerState
  <2> QED
    BY <1>1, <2>1 DEF Answers, HostOperationsAnswer, Diagnosing
<1>9. CASE Drained
  <2>1. /\ caller.step = "wait" /\ Covered /\ caller'.op = caller.op
        /\ caller'.step = CASE caller.op = "get" -> "lookup"
                            [] caller.op = "remove" -> "mailbox"
                            [] caller.op = "flush" -> "answer"
                            [] OTHER -> "terminate"
        /\ caller'.ver = caller.ver /\ caller'.got = caller.got
    BY <1>0, <1>9 DEF Drained, CallerState
  <2>2. ASSUME Diagnosing
        PROVE  dev.fifo = <<>>
    <3>1. Backed0 >= caller.drained /\ caller.drained = dev.puts
      BY <2>1, <2>2, DrainedIs DEF Answers
    <3>2. Len(dev.fifo) = 0
      BY <3>1, PutNumbers
    <3>3. dev.fifo \in Seq(Slots \X Versions)
      BY <1>0, QueueTypes
    <3>4. \A q \in Seq(Slots \X Versions) : Len(q) = 0 => q = <<>>
      OBVIOUS
    <3> QED
      BY <3>2, <3>3, <3>4
  <2>3. /\ Diagnosing => caller'.step \in {"lookup", "mailbox"}
        /\ ~Diagnosing => caller'.step \in {"answer", "terminate"}
    BY <2>1 DEF Diagnosing
  <2> QED
    BY <1>1, <2>1, <2>2, <2>3 DEF Answers, HostOperationsAnswer, Diagnosing
<1>10. CASE Lookup
  <2>1. /\ caller.step = "lookup" /\ caller.op = "get"
        /\ caller.slot \in Slots /\ dev.fifo = <<>>
        /\ caller.ver = 0 /\ caller.got = None
    <3>1. caller.step = "lookup"
      BY <1>10 DEF Lookup
    <3>2. caller.op = "get"
      BY <1>0, <3>1 DEF CallSteps, CallerState
    <3> QED
      BY <1>0, <3>1, <3>2 DEF Answers, CallSteps, Diagnosing
  <2>2. PICK s \in Slots : s = caller.slot
    BY <2>1
  <2>3. values' = values
    BY <1>10 DEF Lookup
  <2>4. CASE dir[s] = None
    <3>1. /\ caller'.step = "answer" /\ caller'.op = "get" /\ caller'.slot = s
          /\ caller'.ver = 0 /\ caller'.got = None
      BY <1>0, <1>10, <2>1, <2>2, <2>4 DEF Lookup, Found, CallerState
    <3> QED
      BY <1>1, <2>1, <2>4, <3>1 DEF Answers, HostOperationsAnswer, Diagnosing
  <2>5. CASE dir[s] # None
    <3>1. /\ caller'.step = "read" /\ caller'.op = "get" /\ caller'.slot = s
          /\ caller'.ver = dir[s].ver /\ caller'.at = dir[s].at
      BY <1>0, <1>10, <2>1, <2>2, <2>5 DEF Lookup, Found, CallerState
    <3>2. Settled
      BY <1>0, <2>1 DEF Transfers, Users
    <3>3. /\ dir[s].at \in {"Device", "Host"} /\ dir[s].ver # 0
          /\ InHost(s, dir[s].ver)
      BY <2>1, <2>5, <3>2, NothingPending
    <3>4. PICK v : v = dir[s].ver
      OBVIOUS
    <3>5. dir[s].at = "Device" => OnDevice(s, v)'
      <4>1. dir[s].at = "Device" => OnDevice(s, v)
        BY <2>5, <3>2, <3>4 DEF Settled
      <4> QED
        BY <1>1, <4>1 DEF OnDevice, UnitsOf, Base
    <3>6. HostBytes(s)' = Whole(v)
      BY <1>1, <2>3, <3>3, <3>4 DEF InHost, HostBytes
    <3>7. Reading'
      BY <1>1, <3>1, <3>3, <3>4, <3>5, <3>6 DEF Reading
    <3> QED
      BY <1>1, <2>1, <3>1, <3>7 DEF Answers, HostOperationsAnswer, Diagnosing
  <2> QED
    BY <2>4, <2>5
<1>11. CASE ReadValue
  <2>1. /\ caller.step = "read" /\ caller.op = "get"
        /\ caller.slot \in Slots /\ dev.fifo = <<>> /\ Reading
    <3>1. caller.step = "read"
      BY <1>11 DEF ReadValue
    <3>2. caller.op = "get"
      BY <1>0, <3>1 DEF CallSteps, CallerState
    <3> QED
      BY <1>0, <3>1, <3>2 DEF Answers, CallSteps, Diagnosing
  <2>2. PICK s \in Slots, v \in Versions : s = caller.slot /\ v = caller.ver
    BY <1>0, <2>1 DEF CallerState
  <2>3. /\ caller'.step = "answer" /\ caller'.op = "get" /\ caller'.slot = s
        /\ caller'.ver = v /\ caller'.backed = (values[s] # None)
        /\ caller'.got = IF caller.at # "Host" THEN ReadUnits(Base(s))
                         ELSE IF values[s] = None THEN None ELSE HostBytes(s)
    BY <1>0, <1>11, <2>1, <2>2 DEF ReadValue, Backed, CallerState
  <2>4. Settled
    BY <1>0, <2>1 DEF Transfers, Users
  <2>5. dir[s] # None => values[s] # None
    BY <2>1, <2>4, NothingPending DEF InHost
  <2>6. CASE caller.at = "Device"
    <3>1. OnDevice(s, v)
      BY <2>1, <2>2, <2>6 DEF Reading
    <3>2. \A k \in 1..Chunks : heap[Base(s) + k - 1] = v
      BY <3>1, UnitsInHeap DEF OnDevice
    <3>3. caller'.got = Whole(v)
      BY <2>3, <2>6, <3>2, ReadIs DEF Whole
    <3> QED
      BY <1>1, <2>1, <2>2, <2>3, <2>5, <3>3
         DEF Answers, HostOperationsAnswer, Diagnosing, Reading, Whole
  <2>7. CASE caller.at = "Host"
    <3>1. caller'.got = IF values[s] = None THEN None ELSE Whole(v)
      BY <2>1, <2>2, <2>3, <2>7 DEF Reading
    <3> QED
      BY <1>1, <2>1, <2>2, <2>3, <2>5, <3>1
         DEF Answers, HostOperationsAnswer, Diagnosing, Reading, Whole
  <2> QED
    BY <2>1, <2>6, <2>7 DEF Reading
<1>12. CASE WriteMailbox \/ PostRequest
  <2>1. /\ caller.step \in {"mailbox", "request"}
        /\ caller'.step \in {"request", "reply"} /\ caller'.op = caller.op
        /\ caller'.slot = caller.slot /\ l1'.mailbox = caller.slot
    BY <1>0, <1>12
       DEF WriteMailbox, PostRequest, CallerState, TypeOK, SharedWords, Answers
  <2> QED
    BY <1>1, <2>1 DEF Answers, HostOperationsAnswer, Diagnosing
<1>13. CASE Removed
  <2>1. /\ caller.step = "reply" /\ caller'.step = "answer"
        /\ caller'.op = caller.op /\ caller'.slot = caller.slot
        /\ l1.done = caller.target
    BY <1>0, <1>13 DEF Removed, CallerState
  <2>2. caller.op = "remove"
    BY <1>0, <2>1 DEF CallSteps, CallerState
  <2>3. dir[caller.slot] = None
    BY <2>1, RemovedIs
  <2> QED
    BY <1>1, <2>1, <2>2, <2>3 DEF Answers, HostOperationsAnswer, Diagnosing
<1>14. CASE DrainThrows
  BY <1>3, <1>5, <1>14 DEF DrainThrows
<1> QED
  BY <1>3, <1>4, <1>6, <1>7, <1>8, <1>9, <1>10, <1>11, <1>12, <1>13, <1>14
     DEF CallerStep, RemoveThrows, FinishThrows, Answer, Join


(* No diagnostic runs before construction.                                 *)
LEMMA DiagnosisInit == Init => Removing /\ Answers
<1> SUFFICES ASSUME Init
             PROVE  Removing /\ Answers
  OBVIOUS
<1>1. /\ caller.step = "idle" /\ caller.op = "none" /\ caller.ops = 0
      /\ dev.op = "none" /\ dev.request = InitialCounter
      /\ l1.request = InitialCounter /\ l1.done = InitialCounter
  BY DEF Init, Idle
<1>2. (InitialCounter + 0) % Span = InitialCounter
  <2>1. /\ Span \in Nat \ {0} /\ InitialCounter \in Nat /\ InitialCounter < Span
        /\ InitialCounter + 0 = InitialCounter
    BY Constants
  <2> QED
    BY <2>1, ModShort
<1>3. Counted(0, 0, 0)
  BY <1>1, <1>2 DEF Counted
<1>4. Removing
  BY <1>3 DEF Removing
<1>5. Answers
  BY <1>1 DEF Answers, Diagnosing, HostOperationsAnswer
<1> QED
  BY <1>4, <1>5

(* Every step keeps both.                                                  *)
LEMMA DiagnosisStep ==
  ASSUME MaxOps < Span, ServerInv, ServerInv', Transfers, DrainInv, FifoIsShort,
         Removing, Answers, [Next]_vars
  PROVE  Removing' /\ Answers'
<1>1. CASE UNCHANGED vars
  BY <1>1
     DEF vars, Removing, Counted, Answers, Diagnosing, Reading, OnDevice, UnitsOf,
         Base, HostBytes, HostOperationsAnswer
<1>2. CASE Construction
  <2>1. /\ dev' = dev /\ dir' = dir /\ l1' = l1 /\ caller' = caller
        /\ server.life \in {"Unborn", "Constructing"}
    BY <1>2 DEF Construction, Construct, LaunchFails, LaunchOutcomeUnknown,
       Launch
  <2>2. caller.step = "idle" /\ caller.op = "none"
    BY <2>1 DEF ServerInv, Users, CallSteps
  <2>3. Removing'
    BY <2>1 DEF Removing, Counted
  <2>4. Answers'
    BY <2>1, <2>2 DEF Answers, Diagnosing, HostOperationsAnswer
  <2> QED
    BY <2>3, <2>4
<1>3. CASE Calls \/ CallerStep \/ FinishThrows
  BY <1>3, RemovingByCaller, AnswersByCaller
<1>4. CASE WorkerStep \/ Raise \/ DeviceStep \/ Requests
  BY <1>4, RemovingByOthers, AnswersByOthers
<1> QED
  BY <1>1, <1>2, <1>3, <1>4 DEF Next

(* get, exists, cache_state and remove answer from what they read one      *)
(* after the other while the device goes on: get returns the whole value   *)
(* of the entry it found or the key is gone, an entry has its host backing *)
(* and a removed key is gone, over counters that wrap, for fewer           *)
(* operations than a round of them.                                        *)
THEOREM OperationsAnswer ==
  ASSUME MaxOps < Span
  PROVE  Spec /\ []FifoIsShort => []HostOperationsAnswer
<1> DEFINE Inv == /\ ServerInv /\ Transfers /\ DrainInv /\ Removing /\ Answers
<1>1. Init => Inv
  BY InitServer, TransfersInit, DrainInit, DiagnosisInit
<1>2. Inv /\ FifoIsShort /\ [Next]_vars => Inv'
  BY StepServer, TransfersStep, DrainStep, DiagnosisStep
<1>3. Inv => HostOperationsAnswer
  BY DEF Answers
<1> QED
  BY <1>1, <1>2, <1>3, PTL DEF Spec

============================================================================
