------------------------------ MODULE HostPool ------------------------------
(***************************************************************************)
(* The NoC-mapped host-value pool of one Server and everything that owns a *)
(* piece of it: ServerRuntimeCore's extent allocator and per-slot mapped   *)
(* metadata (server_storage.cpp), the receive half of a write-through      *)
(* (server_device_runtime_io.cpp), ServerHostLease, and the map            *)
(* Server::Impl::host_values_ that keeps the leases (server_tiering.cpp).  *)
(*                                                                         *)
(* The pool is an array of PoolUnits fixed-size units.  A value occupies   *)
(* one contiguous extent or, when no extent fits, an unmapped heap copy.   *)
(* One tiering worker moves values in and out; the thread that closes the  *)
(* Server cancels and joins it, drops every remaining backing, and then    *)
(* releases the pool.                                                      *)
(*                                                                         *)
(* Every pool operation runs under ServerRuntimeCore::host_values_mutex_,  *)
(* so each is one step.                                                    *)
(***************************************************************************)
EXTENDS Integers, FiniteSets

CONSTANTS
    PoolUnits,       \* pool_units_total_
    MaxValueUnits,   \* the largest value, in units
    Slots,           \* directory slots
    NoSlot,          \* "no write-through in progress"
    GenerationSpan   \* generations are uint32_t: 2^32 in the code

ASSUME PoolUnitsAssumption == PoolUnits \in Nat \ {0}
ASSUME MaxValueUnitsAssumption == MaxValueUnits \in Nat \ {0}
ASSUME NoSlotAssumption == NoSlot \notin Slots
ASSUME GenerationSpanAssumption == GenerationSpan \in Nat /\ GenerationSpan > 1

VARIABLES
    pool_free,              \* pool_free[u] = length of the free extent that begins at u, 0 if none
    pool_meta_generations,  \* the last generation published for each slot
    pool_meta,              \* the mapped metadata the device reads, per slot
    units_in_use,           \* external_pool_units_in_use_
    host_values,            \* Server::Impl::host_values_
    receive,                \* the write-through being received: slot and reserved extent
    worker                  \* where the tiering worker is

poolVars == <<pool_free, pool_meta_generations, pool_meta, units_in_use>>
vars == <<poolVars, host_values, receive, worker>>

UnitIndex == 0 .. (PoolUnits - 1)
Generations == 0 .. (GenerationSpan - 1)

\* An extent and the generation it was published under; units = 0: no extent.
Extent == [unit : UnitIndex, units : 0 .. PoolUnits, generation : Generations]
NoExtent == [unit |-> 0, units |-> 0, generation |-> 0]

\* host_values_[slot]: absent, a heap vector, or a mapped lease.
Backing == [kind : {"none", "heap", "mapped"}, extent : Extent]
NoBacking == [kind |-> "none", extent |-> NoExtent]
HeapBacking == [kind |-> "heap", extent |-> NoExtent]
MappedBacking(e) == [kind |-> "mapped", extent |-> e]

NoReceive == [slot |-> NoSlot, extent |-> NoExtent]

WorkerStates == {"idle", "retired", "reserved", "received", "joined", "closed"}

TypeOK ==
    /\ pool_free \in [UnitIndex -> 0 .. PoolUnits]
    /\ pool_meta_generations \in [Slots -> Generations]
    /\ pool_meta \in [Slots -> Extent]
    /\ units_in_use \in Nat
    /\ host_values \in [Slots -> Backing]
    /\ receive \in [slot : Slots \cup {NoSlot}, extent : Extent]
    /\ worker \in WorkerStates

-----------------------------------------------------------------------------
(* The extent allocator.                                                   *)

Within(x, u, n) == u <= x /\ x < u + n

\* Unit x is in one of the free extents of f.
FreeAt(f, x) == \E u \in UnitIndex : Within(x, u, f[u])

\* Mutant: the fit test is off by one.
FirstFitOffByOne(u, n) ==
    /\ pool_free[u] >= n - 1 /\ pool_free[u] > 0
    /\ \A v \in UnitIndex : pool_free[v] >= n - 1 /\ pool_free[v] > 0 => u <= v

\* u is the first free extent with room for n units: the one pool_alloc takes.
FirstFit(u, n) ==
    /\ pool_free[u] >= n
    /\ \A v \in UnitIndex : pool_free[v] >= n => u <= v

\* Mutant: the leftover begins one unit early.
PoolAllocLeftoverTooLong(u, n) ==
    [x \in UnitIndex |->
        IF x = u /\ n > 1 THEN 0
        ELSE IF x = u + n - 1 /\ pool_free[u] > n THEN pool_free[u] - n + 1
        ELSE IF x = u THEN 0
        ELSE pool_free[x]]

\* pool_alloc: the front of the extent at u goes, its leftover stays free.
PoolAlloc(u, n) ==
    [x \in UnitIndex |->
        IF x = u THEN 0
        ELSE IF x = u + n /\ pool_free[u] > n THEN pool_free[u] - n
        ELSE pool_free[x]]

\* std::prev(pool_free_.lower_bound(unit)): the nearest free extent before u.
Previous(p, u) ==
    /\ p < u /\ pool_free[p] > 0
    /\ \A v \in UnitIndex : p < v /\ v < u => pool_free[v] = 0

\* The three TT_FATAL checks of pool_release.
ReleaseIsLegal(u, n) ==
    /\ u + n <= PoolUnits
    /\ \A v \in UnitIndex : u <= v /\ v < u + n => pool_free[v] = 0
    /\ \A p \in UnitIndex : Previous(p, u) => p + pool_free[p] <= u

\* Mutant: the following extent is erased without adding its length.
MergedNextForgotten(u, n) == n

\* The length [u, u + n) has once the free extent after it is merged in.
MergedNext(u, n) ==
    IF u + n \in UnitIndex THEN n + pool_free[u + n] ELSE n

\* Mutant: the extent before the released one is not merged.
PoolReleaseForwardOnly(u, n) ==
    [x \in UnitIndex |->
        IF x = u THEN MergedNext(u, n) ELSE IF x = u + n THEN 0 ELSE pool_free[x]]

\* pool_release: [u, u + n) becomes free, merged with its free neighbours.
PoolRelease(u, n) ==
    [x \in UnitIndex |->
        IF Previous(x, u) /\ x + pool_free[x] = u
            THEN pool_free[x] + MergedNext(u, n)
        ELSE IF x = u /\ ~ \E p \in UnitIndex : Previous(p, u) /\ p + pool_free[p] = u
            THEN MergedNext(u, n)
        ELSE IF x = u + n THEN 0
        ELSE pool_free[x]]

\* Mutant: the wrap back to 1 is missing.
NextGenerationUnwrapped(s) == pool_meta_generations[s] + 1

\* ++generation, stepping over 0, which means "not mapped".
NextGeneration(s) ==
    IF pool_meta_generations[s] + 1 = GenerationSpan
        THEN 1 ELSE pool_meta_generations[s] + 1

-----------------------------------------------------------------------------
Init ==
    /\ pool_free = [u \in UnitIndex |-> IF u = 0 THEN PoolUnits ELSE 0]
    /\ pool_meta_generations = [s \in Slots |-> 0]
    /\ pool_meta = [s \in Slots |-> NoExtent]
    /\ units_in_use = 0
    /\ host_values = [s \in Slots |-> NoBacking]
    /\ receive = NoReceive
    /\ worker = "idle"

\* Mutant: the lease frees its extent and leaves the metadata valid.
ReleaseLeaseKeepingMetadata(s, e) ==
    /\ units_in_use' = IF units_in_use >= e.units THEN units_in_use - e.units ELSE 0
    /\ pool_free' =
         IF ReleaseIsLegal(e.unit, e.units) THEN PoolRelease(e.unit, e.units) ELSE pool_free
    /\ UNCHANGED <<pool_meta, pool_meta_generations>>

\* ~ServerHostLease -> release_external_host_lease: untrack, invalidate the
\* slot's metadata if it still carries this lease's generation, and free the
\* extent.  A failed pool_release is swallowed: the extent leaks.
ReleaseLease(s, e) ==
    /\ units_in_use' = IF units_in_use >= e.units THEN units_in_use - e.units ELSE 0
    /\ pool_meta' =
         IF e.generation # 0 /\ pool_meta[s].generation = e.generation
         THEN [pool_meta EXCEPT ![s] = NoExtent]
         ELSE pool_meta
    /\ pool_free' =
         IF ReleaseIsLegal(e.unit, e.units) THEN PoolRelease(e.unit, e.units) ELSE pool_free
    /\ UNCHANGED pool_meta_generations

\* host_values_.erase(slot): the value's lease, if it has one, is destroyed.
EraseHostValue(s) ==
    /\ host_values' = [host_values EXCEPT ![s] = NoBacking]
    /\ IF host_values[s].kind = "mapped"
       THEN ReleaseLease(s, host_values[s].extent)
       ELSE UNCHANGED poolVars

\* WRITE_THROUGH, first step: retire the slot's previous generation.
Retire(s) ==
    /\ worker = "idle"
    /\ EraseHostValue(s)
    /\ receive' = [slot |-> s, extent |-> NoExtent]
    /\ worker' = "retired"

\* receive_external_value: reserve an extent and publish it for the device.
ReserveMapped(n) ==
    /\ worker = "retired"
    /\ \E u \in UnitIndex :
        LET s == receive.slot
            e == [unit |-> u, units |-> n, generation |-> NextGeneration(s)]
        IN /\ FirstFit(u, n)
           /\ pool_free' = PoolAlloc(u, n)
           /\ pool_meta_generations' =
                [pool_meta_generations EXCEPT ![s] = NextGeneration(s)]
           /\ pool_meta' = [pool_meta EXCEPT ![s] = e]
           /\ receive' = [receive EXCEPT !.extent = e]
    /\ worker' = "reserved"
    /\ UNCHANGED <<units_in_use, host_values>>

\* receive_external_value when no extent fits: the staging window is used.
ReserveHeap(n) ==
    /\ worker = "retired"
    /\ \A u \in UnitIndex : pool_free[u] < n
    /\ worker' = "reserved"
    /\ UNCHANGED <<poolVars, host_values, receive>>

\* Mutant: publish_lease does not count the units it leases.
FinishReceiveUncounted ==
    /\ worker = "reserved"
    /\ worker' = "received"
    /\ UNCHANGED <<poolVars, host_values, receive>>

\* The device push completed: publish_lease (or the copy out of the window).
FinishReceive ==
    /\ worker = "reserved"
    /\ units_in_use' = units_in_use + receive.extent.units
    /\ worker' = "received"
    /\ UNCHANGED <<pool_free, pool_meta_generations, pool_meta, host_values, receive>>

\* host_values_.insert_or_assign: the slot was retired, so nothing is replaced.
Store ==
    /\ worker = "received"
    /\ host_values' =
         [host_values EXCEPT ![receive.slot] =
            IF receive.extent.units = 0 THEN HeapBacking ELSE MappedBacking(receive.extent)]
    /\ receive' = NoReceive
    /\ worker' = "idle"
    /\ UNCHANGED poolVars

\* REMOVE_BACKING.
RemoveBacking(s) ==
    /\ worker = "idle"
    /\ EraseHostValue(s)
    /\ UNCHANGED <<receive, worker>>

\* cancel_host_io during the wait for the push: release_reserved_pool, and the
\* exception ends the worker.
CancelReceive ==
    /\ worker = "reserved"
    /\ IF receive.extent.units = 0
       THEN UNCHANGED <<pool_free, pool_meta>>
       ELSE /\ pool_meta' = [pool_meta EXCEPT ![receive.slot] = NoExtent]
            /\ ReleaseIsLegal(receive.extent.unit, receive.extent.units)
            /\ pool_free' = PoolRelease(receive.extent.unit, receive.extent.units)
    /\ receive' = NoReceive
    /\ worker' = "joined"
    /\ UNCHANGED <<pool_meta_generations, units_in_use, host_values>>

\* The worker leaves between requests, or a terminated runtime refuses its receive.
StopWorker ==
    /\ worker \in {"idle", "retired"}
    /\ receive' = NoReceive
    /\ worker' = "joined"
    /\ UNCHANGED <<poolVars, host_values>>

\* clear_host_values after the join destroys the backings one by one.
ClearHostValue(s) ==
    /\ worker = "joined"
    /\ host_values[s].kind # "none"
    /\ EraseHostValue(s)
    /\ UNCHANGED <<receive, worker>>

\* release_external_runtime_resources: refused while units are leased.
ReleaseResources ==
    /\ worker = "joined"
    /\ \A s \in Slots : host_values[s].kind = "none"
    /\ units_in_use = 0
    /\ pool_free' = [u \in UnitIndex |-> 0]
    /\ pool_meta' = [s \in Slots |-> NoExtent]
    /\ worker' = "closed"
    /\ UNCHANGED <<pool_meta_generations, units_in_use, host_values, receive>>

Next ==
    \/ \E s \in Slots : Retire(s) \/ RemoveBacking(s) \/ ClearHostValue(s)
    \/ \E n \in 1 .. MaxValueUnits : ReserveMapped(n) \/ ReserveHeap(n)
    \/ FinishReceive \/ Store \/ CancelReceive \/ StopWorker
    \/ ReleaseResources

Spec == Init /\ [][Next]_vars

-----------------------------------------------------------------------------
(* What the pool promises.                                                 *)

\* The extents that are owned: by a stored value or by the receive in progress.
Held(s) ==
    IF receive.slot = s THEN receive.extent ELSE host_values[s].extent

\* "extents are disjoint and never adjacent" (server_runtime_core.hpp).
FreeExtentsNeverTouch ==
    \A u, v \in UnitIndex :
        pool_free[u] > 0 /\ pool_free[v] > 0 /\ u < v => u + pool_free[u] < v

FreeExtentsInPool ==
    \A u \in UnitIndex : u + pool_free[u] <= PoolUnits

HeldExtentsInPool ==
    \A s \in Slots : Held(s).unit + Held(s).units <= PoolUnits

\* A unit a value lives in is in no free extent: it cannot be handed out again.
HeldUnitsNotFree ==
    \A s \in Slots : \A x \in UnitIndex :
        Within(x, Held(s).unit, Held(s).units) => ~ FreeAt(pool_free, x)

\* No unit belongs to two values.
HeldExtentsDisjoint ==
    \A s, t \in Slots : \A x \in UnitIndex :
        s # t /\ Within(x, Held(s).unit, Held(s).units)
            => ~ Within(x, Held(t).unit, Held(t).units)

\* pool_alloc and pool_release never hand one unit to two owners, whatever the
\* order in which values are replaced, removed, cancelled and cleared.
NoUnitHasTwoOwners == HeldUnitsNotFree /\ HeldExtentsDisjoint

\* No unit is lost before the pool itself is released: each one is free or held,
\* so a cancelled receive and a cleared value both give back what they took.
NoUnitIsLost ==
    worker # "closed" =>
        \A x \in UnitIndex :
            \/ FreeAt(pool_free, x)
            \/ \E s \in Slots : Within(x, Held(s).unit, Held(s).units)

\* Valid mapped metadata always describes the extent that is now held for its
\* slot, under its generation: the device never streams a GET out of a freed or
\* re-used extent, and every mapped value stays readable in place.
MetadataNamesHeldExtent ==
    \A s \in Slots :
        /\ pool_meta[s].generation # 0 => pool_meta[s] = Held(s)
        /\ Held(s).units > 0 => pool_meta[s] = Held(s) /\ Held(s).generation # 0

\* The TT_FATALs of pool_release cannot fire for an extent that is held, so no
\* lease destructor ever swallows one and no extent leaks.
ReleaseNeverRefused ==
    \A s \in Slots :
        Held(s).units > 0 => ReleaseIsLegal(Held(s).unit, Held(s).units)

\* The units of published leases: those of stored values, and of the receive
\* whose lease was published but not stored yet.
LeasedUnits ==
    { x \in UnitIndex :
        \/ \E s \in Slots :
             Within(x, host_values[s].extent.unit, host_values[s].extent.units)
        \/ /\ worker = "received"
           /\ Within(x, receive.extent.unit, receive.extent.units) }

\* external_pool_units_in_use_ counts exactly the units of published leases: it
\* is what release_external_runtime_resources trusts before it frees the pool.
UnitsInUseAreLeased == units_in_use = Cardinality(LeasedUnits)

\* Who owns each unit.  A unit that is neither free nor held would be mapped to
\* a value that is no owner; once the pool is released no unit has an owner.
Lost == <<NoSlot>>

OwnerOf ==
    [x \in UnitIndex |->
        IF worker = "closed" \/ FreeAt(pool_free, x) THEN NoSlot
        ELSE IF \E s \in Slots : Within(x, Held(s).unit, Held(s).units)
             THEN CHOOSE s \in Slots : Within(x, Held(s).unit, Held(s).units)
             ELSE Lost]

Ownership == INSTANCE UnitOwnership WITH
    Units <- PoolUnits, Owners <- Slots, Nobody <- NoSlot, owner <- OwnerOf

\* First-fit allocation, coalescing release, cancellation and teardown implement
\* unit ownership: no step moves a unit from one slot to another, splits a value
\* or gives back less than was taken.
ImplementsOwnership == Ownership!Spec
=============================================================================
