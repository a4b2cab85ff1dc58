--------------------------- MODULE HostPoolProofs ---------------------------
(***************************************************************************)
(* The host-value pool is safe for every pool size, every set of slots and *)
(* every generation width: no unit has two owners, no unit is lost, and    *)
(* valid mapped metadata always describes the extent its slot holds.       *)
(*                                                                         *)
(* The argument has two layers.  FreeAfterAlloc and FreeAfterRelease say   *)
(* what pool_alloc and pool_release do to the free list, unit by unit.     *)
(* TakeStep, GiveBackStep and KeepStep then say what taking, returning and *)
(* keeping an extent do to the invariant; every action is one of them.     *)
(***************************************************************************)
EXTENDS HostPool, FiniteSetTheorems, TLAPS

FreeListOK ==
    /\ pool_free \in [UnitIndex -> 0 .. PoolUnits]
    /\ FreeExtentsInPool
    /\ FreeExtentsNeverTouch

\* How worker, receive and host_values fit together.
ReceiveShape ==
    /\ worker \in {"idle", "joined", "closed"} => receive = NoReceive
    /\ worker \in {"retired", "reserved", "received"} =>
         receive.slot \in Slots /\ host_values[receive.slot] = NoBacking
    /\ worker = "retired" => receive.extent = NoExtent
    /\ worker = "closed" => \A s \in Slots : host_values[s] = NoBacking

BackingShape ==
    \A s \in Slots :
        /\ host_values[s].kind = "mapped" <=> host_values[s].extent.units > 0
        /\ host_values[s].kind = "none" <=> host_values[s] = NoBacking
        /\ host_values[s].kind # "mapped" => host_values[s].extent = NoExtent

ExtentShape ==
    receive.extent.units = 0 => receive.extent = NoExtent

PoolOK ==
    /\ FreeListOK
    /\ HeldExtentsInPool
    /\ HeldUnitsNotFree
    /\ HeldExtentsDisjoint
    /\ NoUnitIsLost
    /\ MetadataNamesHeldExtent

IInv == TypeOK /\ ReceiveShape /\ BackingShape /\ ExtentShape /\ PoolOK

-----------------------------------------------------------------------------
(* The allocator, unit by unit.                                            *)

\* pool_alloc at an extent with room for n units keeps the free list well formed
\* and makes exactly those n units not free.
LEMMA FreeAfterAlloc ==
    ASSUME FreeListOK,
           NEW u \in UnitIndex, NEW n \in Nat \ {0}, pool_free[u] >= n,
           NEW f, f = PoolAlloc(u, n)
    PROVE  /\ f \in [UnitIndex -> 0 .. PoolUnits]
           /\ \A v \in UnitIndex : v + f[v] <= PoolUnits
           /\ \A v, w \in UnitIndex : f[v] > 0 /\ f[w] > 0 /\ v < w => v + f[v] < w
           /\ \A x \in UnitIndex : FreeAt(f, x) <=> FreeAt(pool_free, x) /\ ~ Within(x, u, n)
           /\ \A x \in UnitIndex : Within(x, u, n) => FreeAt(pool_free, x)
           /\ u + n <= PoolUnits
<1> USE PoolUnitsAssumption DEF UnitIndex, FreeListOK
<1>1. f \in [UnitIndex -> 0 .. PoolUnits]
  BY DEF PoolAlloc
<1>2. u + n <= PoolUnits
  BY DEF FreeExtentsInPool
<1>3. \A v \in UnitIndex : v + f[v] <= PoolUnits
  BY DEF PoolAlloc, FreeExtentsInPool
<1>4. ASSUME NEW v \in UnitIndex, NEW w \in UnitIndex, f[v] > 0, f[w] > 0, v < w
      PROVE  v + f[v] < w
  <2>1. CASE v = u + n /\ pool_free[u] > n
    <3>1. f[v] = pool_free[u] - n /\ w # u /\ f[w] = pool_free[w]
      BY <1>4, <2>1 DEF PoolAlloc
    <3>2. u + pool_free[u] < w
      BY <1>4, <2>1, <3>1 DEF FreeExtentsNeverTouch
    <3>3. pool_free[u] \in Nat
      OBVIOUS
    <3> QED BY <2>1, <3>1, <3>2, <3>3
  <2>2. CASE ~ (v = u + n /\ pool_free[u] > n)
    <3>1. v # u /\ f[v] = pool_free[v]
      BY <1>4, <2>2 DEF PoolAlloc
    <3>2. CASE w = u + n /\ pool_free[u] > n
      <4>1. v < u
        <5> SUFFICES ASSUME u < v PROVE FALSE
          BY <3>1
        <5>1. u + pool_free[u] < v /\ pool_free[u] > n
          BY <1>4, <3>1, <3>2 DEF FreeExtentsNeverTouch
        <5>2. pool_free[u] \in Nat
          OBVIOUS
        <5> QED BY <1>4, <3>2, <5>1, <5>2
      <4>2. v + pool_free[v] < u
        BY <1>4, <3>1, <4>1 DEF FreeExtentsNeverTouch
      <4>3. pool_free[v] \in Nat /\ v \in Int /\ u \in Int /\ w \in Int
        OBVIOUS
      <4>4. u < w
        BY <3>2
      <4> HIDE DEF FreeListOK, UnitIndex
      <4> QED BY <3>1, <4>2, <4>3, <4>4
    <3>3. CASE ~ (w = u + n /\ pool_free[u] > n)
      <4>1. f[w] = pool_free[w]
        BY <1>4, <3>3 DEF PoolAlloc
      <4> QED BY <1>4, <3>1, <4>1 DEF FreeExtentsNeverTouch
    <3> QED BY <3>2, <3>3
  <2> QED BY <2>1, <2>2
<1>5. \A x \in UnitIndex : Within(x, u, n) => FreeAt(pool_free, x)
  BY DEF FreeAt, Within
<1>6. ASSUME NEW x \in UnitIndex, FreeAt(f, x)
      PROVE  FreeAt(pool_free, x) /\ ~ Within(x, u, n)
  <2>1. PICK v \in UnitIndex : Within(x, v, f[v])
    BY <1>6 DEF FreeAt
  <2>2. CASE v = u + n /\ pool_free[u] > n
    <3>1. f[v] = pool_free[u] - n
      BY <2>2 DEF PoolAlloc
    <3>2. Within(x, u, pool_free[u]) /\ ~ Within(x, u, n)
      BY <2>1, <2>2, <3>1 DEF Within
    <3> QED BY <3>2 DEF FreeAt
  <2>3. CASE ~ (v = u + n /\ pool_free[u] > n)
    <3>1. v # u /\ f[v] = pool_free[v] /\ pool_free[v] > 0
      BY <2>1, <2>3, <1>1 DEF PoolAlloc, Within
    <3>2. ~ Within(x, u, n)
      BY <2>1, <3>1 DEF Within, FreeExtentsNeverTouch
    <3> QED BY <2>1, <3>1, <3>2 DEF FreeAt
  <2> QED BY <2>2, <2>3
<1>7. ASSUME NEW x \in UnitIndex, FreeAt(pool_free, x), ~ Within(x, u, n)
      PROVE  FreeAt(f, x)
  <2>1. PICK v \in UnitIndex : Within(x, v, pool_free[v])
    BY <1>7 DEF FreeAt
  <2>2. CASE v = u
    <3>1. u + n <= x /\ x < u + pool_free[u] /\ pool_free[u] > n
      BY <2>1, <2>2, <1>7 DEF Within
    <3>2. u + n \in UnitIndex /\ f[u + n] = pool_free[u] - n
      BY <3>1 DEF PoolAlloc
    <3>3. Within(x, u + n, f[u + n])
      BY <3>1, <3>2 DEF Within
    <3> QED BY <3>2, <3>3 DEF FreeAt
  <2>3. CASE v # u
    <3>1. ~ (v = u + n /\ pool_free[u] > n)
      BY SMTT(30), <2>1, <2>3 DEF Within, FreeExtentsNeverTouch
    <3>2. f[v] = pool_free[v]
      BY <2>3, <3>1 DEF PoolAlloc
    <3> QED BY <2>1, <3>2 DEF FreeAt
  <2> QED BY <2>2, <2>3
<1> QED BY <1>1, <1>2, <1>3, <1>4, <1>5, <1>6, <1>7

\* An extent none of whose units is free may be released: no TT_FATAL fires.
LEMMA HeldExtentReleasable ==
    ASSUME FreeListOK,
           NEW u \in UnitIndex, NEW n \in Nat \ {0}, u + n <= PoolUnits,
           \A x \in UnitIndex : Within(x, u, n) => ~ FreeAt(pool_free, x)
    PROVE  ReleaseIsLegal(u, n)
<1> USE PoolUnitsAssumption DEF UnitIndex, FreeListOK
<1>1. ASSUME NEW v \in UnitIndex, u <= v, v < u + n
      PROVE  pool_free[v] = 0
  BY <1>1 DEF Within, FreeAt
<1>2. ASSUME NEW p \in UnitIndex, Previous(p, u)
      PROVE  p + pool_free[p] <= u
  <2> SUFFICES ASSUME p + pool_free[p] > u PROVE FALSE
    OBVIOUS
  <2>1. Within(u, p, pool_free[p]) /\ Within(u, u, n)
    BY <1>2 DEF Previous, Within
  <2> QED BY <2>1 DEF FreeAt
<1> QED BY <1>1, <1>2 DEF ReleaseIsLegal

\* pool_release of an extent none of whose units is free keeps the free list well
\* formed and makes exactly those n units free.
LEMMA FreeAfterRelease ==
    ASSUME FreeListOK,
           NEW u \in UnitIndex, NEW n \in Nat \ {0}, u + n <= PoolUnits,
           \A x \in UnitIndex : Within(x, u, n) => ~ FreeAt(pool_free, x),
           NEW f, f = PoolRelease(u, n)
    PROVE  /\ f \in [UnitIndex -> 0 .. PoolUnits]
           /\ \A v \in UnitIndex : v + f[v] <= PoolUnits
           /\ \A v, w \in UnitIndex : f[v] > 0 /\ f[w] > 0 /\ v < w => v + f[v] < w
           /\ \A x \in UnitIndex : FreeAt(f, x) <=> FreeAt(pool_free, x) \/ Within(x, u, n)
<1> USE PoolUnitsAssumption DEF UnitIndex, FreeListOK
<1> DEFINE m == MergedNext(u, n)
           Joins(p) == Previous(p, u) /\ p + pool_free[p] = u
<1>1. ReleaseIsLegal(u, n)
  BY HeldExtentReleasable
<1>2. m \in Nat /\ m >= n /\ u + m <= PoolUnits
  BY DEF MergedNext, FreeExtentsInPool
<1>3. \A v \in UnitIndex : pool_free[v] > 0 /\ v < u => v + pool_free[v] <= u
  <2> SUFFICES ASSUME NEW v \in UnitIndex, pool_free[v] > 0, v < u, v + pool_free[v] > u
               PROVE  FALSE
    OBVIOUS
  <2>1. Within(u, v, pool_free[v]) /\ Within(u, u, n)
    BY DEF Within
  <2> QED BY <2>1 DEF FreeAt
<1>4. \A v \in UnitIndex : pool_free[v] > 0 /\ v < u /\ v + pool_free[v] = u => Joins(v)
  <2> SUFFICES ASSUME NEW v \in UnitIndex, pool_free[v] > 0, v < u, v + pool_free[v] = u,
                      NEW w \in UnitIndex, v < w, w < u
               PROVE  pool_free[w] = 0
    BY DEF Previous
  <2> QED BY SMTT(30) DEF FreeExtentsNeverTouch
<1>5. \A v \in UnitIndex : pool_free[v] > 0 /\ v > u => v >= u + n
  BY <1>1 DEF ReleaseIsLegal
<1>6. \A v \in UnitIndex : pool_free[v] > 0 /\ v > u + n => v > u + m
  <2> SUFFICES ASSUME NEW v \in UnitIndex, pool_free[v] > 0, v > u + n
               PROVE  v > u + m
    OBVIOUS
  <2>1. u + n \in UnitIndex /\ m = n + pool_free[u + n]
    BY DEF MergedNext
  <2>2. CASE pool_free[u + n] > 0
    BY <2>1, <2>2 DEF FreeExtentsNeverTouch
  <2>3. CASE pool_free[u + n] = 0
    BY <2>1, <2>3
  <2> QED BY <2>1, <2>2, <2>3
<1>7. pool_free[u] = 0
  BY <1>1 DEF ReleaseIsLegal
<1>8. CASE \E p \in UnitIndex : Joins(p)
  <2>1. PICK p \in UnitIndex : Joins(p)
    BY <1>8
  <2>2. p < u /\ pool_free[p] > 0 /\ p + pool_free[p] = u
    BY <2>1 DEF Previous
  <2>3. \A q \in UnitIndex : Joins(q) => q = p
    BY <2>1 DEF Previous
  <2>4. f = [x \in UnitIndex |-> IF x = p THEN pool_free[p] + m
                                 ELSE IF x = u + n THEN 0 ELSE pool_free[x]]
    BY <2>1, <2>3 DEF PoolRelease
  <2> HIDE DEF m, Joins
  <2>5. p + f[p] = u + m
    <3>1. f[p] = pool_free[p] + m
      BY <2>4
    <3>2. pool_free[p] \in Nat /\ p \in Int /\ u \in Int
      OBVIOUS
    <3> HIDE DEF FreeListOK, UnitIndex
    <3> QED BY <3>1, <3>2, <2>2, <1>2
  <2>6. f \in [UnitIndex -> 0 .. PoolUnits]
    <3>1. pool_free[p] + m \in 0 .. PoolUnits
      BY <2>2, <1>2
    <3>2. ASSUME NEW x \in UnitIndex
          PROVE  (IF x = p THEN pool_free[p] + m ELSE IF x = u + n THEN 0 ELSE pool_free[x])
                   \in 0 .. PoolUnits
      BY <3>1
    <3> QED BY <2>4, <3>2
  <2>7. \A v \in UnitIndex : v + f[v] <= PoolUnits
    BY <2>4, <2>5, <1>2 DEF FreeExtentsInPool
  <2>8. ASSUME NEW v \in UnitIndex, NEW w \in UnitIndex, f[v] > 0, f[w] > 0, v < w
        PROVE  v + f[v] < w
    <3>1. CASE v = p
      <4>1. f[w] = pool_free[w] /\ w # u + n
        BY <2>8, <2>4, <3>1
      <4>2. w > u
        BY <4>1, <2>8, <3>1, <2>2, <1>7 DEF FreeExtentsNeverTouch
      <4>3. w > u + m
        BY <4>1, <4>2, <2>8, <1>5, <1>6
      <4> QED BY <4>3, <3>1, <2>5
    <3>2. CASE v # p /\ w = p
      BY <3>2, <2>2, <2>4, <2>8 DEF FreeExtentsNeverTouch
    <3>3. CASE v # p /\ w # p
      BY <3>3, <2>4, <2>8 DEF FreeExtentsNeverTouch
    <3> QED BY <3>1, <3>2, <3>3
  <2>9. ASSUME NEW x \in UnitIndex, FreeAt(f, x)
        PROVE  FreeAt(pool_free, x) \/ Within(x, u, n)
    <3>1. PICK v \in UnitIndex : Within(x, v, f[v])
      BY <2>9 DEF FreeAt
    <3>2. CASE v = p
      <4>1. p <= x /\ x < u + m
        BY <3>1, <3>2, <2>5 DEF Within
      <4>2. CASE x < u
        BY <4>1, <4>2, <2>2 DEF FreeAt, Within
      <4>3. CASE u <= x /\ x < u + n
        BY <4>3 DEF Within
      <4>4. CASE u + n <= x
        <5>1. u + n \in UnitIndex /\ m = n + pool_free[u + n]
          BY <4>1, <4>4 DEF m, MergedNext
        <5>2. Within(x, u + n, pool_free[u + n])
          BY <4>1, <4>4, <5>1 DEF Within
        <5> QED BY <5>1, <5>2 DEF FreeAt
      <4> QED BY <4>2, <4>3, <4>4
    <3>3. CASE v # p
      <4>1. f[v] = pool_free[v]
        BY <3>1, <3>3, <2>4 DEF Within
      <4> QED BY <3>1, <4>1 DEF FreeAt
    <3> QED BY <3>2, <3>3
  <2>10. ASSUME NEW x \in UnitIndex, FreeAt(pool_free, x) \/ Within(x, u, n)
         PROVE  FreeAt(f, x)
    <3>1. CASE Within(x, u, n)
      BY <3>1, <2>2, <2>5, <1>2 DEF Within, FreeAt
    <3>2. CASE FreeAt(pool_free, x)
      <4>1. PICK v \in UnitIndex : Within(x, v, pool_free[v])
        BY <3>2 DEF FreeAt
      <4>2. CASE v = p
        BY <4>1, <4>2, <2>2, <2>5, <1>2 DEF Within, FreeAt
      <4>3. CASE v = u + n
        <5>1. m = n + pool_free[u + n]
          BY <4>3 DEF m, MergedNext
        <5>2. Within(x, p, f[p])
          BY SMTT(30), <4>1, <4>3, <5>1, <2>2, <2>5 DEF Within
        <5> QED BY <5>2 DEF FreeAt
      <4>4. CASE v # p /\ v # u + n
        BY <4>1, <4>4, <2>4 DEF FreeAt
      <4> QED BY <4>2, <4>3, <4>4
    <3> QED BY <2>10, <3>1, <3>2
  <2> QED BY <2>6, <2>7, <2>8, <2>9, <2>10
<1>9. CASE ~ \E p \in UnitIndex : Joins(p)
  <2>1. f = [x \in UnitIndex |-> IF x = u THEN m
                                 ELSE IF x = u + n THEN 0 ELSE pool_free[x]]
    BY <1>9 DEF PoolRelease
  <2>2. \A v \in UnitIndex : pool_free[v] > 0 /\ v < u => v + pool_free[v] < u
    <3> SUFFICES ASSUME NEW v \in UnitIndex, pool_free[v] > 0, v < u
                 PROVE  v + pool_free[v] < u
      OBVIOUS
    <3>1. v + pool_free[v] # u
      BY <1>9, <1>4
    <3>2. v + pool_free[v] <= u
      BY <1>3
    <3>3. pool_free[v] \in Nat /\ v \in Int /\ u \in Int
      OBVIOUS
    <3> HIDE DEF FreeListOK, UnitIndex
    <3> QED BY <3>1, <3>2, <3>3
  <2> HIDE DEF m, Joins
  <2>3. f[u] = m
    BY <2>1
  <2>4. f \in [UnitIndex -> 0 .. PoolUnits]
    BY <2>1, <1>2
  <2>5. \A v \in UnitIndex : v + f[v] <= PoolUnits
    BY <2>1, <1>2 DEF FreeExtentsInPool
  <2>6. ASSUME NEW v \in UnitIndex, NEW w \in UnitIndex, f[v] > 0, f[w] > 0, v < w
        PROVE  v + f[v] < w
    <3>1. CASE v = u
      <4>1. f[w] = pool_free[w] /\ w # u + n
        BY <2>6, <2>1, <3>1
      <4>2. w > u + m
        BY <4>1, <2>6, <3>1, <1>5, <1>6
      <4> QED BY <4>2, <3>1, <2>3
    <3>2. CASE v # u /\ w = u
      BY <3>2, <2>1, <2>2, <2>6
    <3>3. CASE v # u /\ w # u
      BY <3>3, <2>1, <2>6 DEF FreeExtentsNeverTouch
    <3> QED BY <3>1, <3>2, <3>3
  <2>7. ASSUME NEW x \in UnitIndex, FreeAt(f, x)
        PROVE  FreeAt(pool_free, x) \/ Within(x, u, n)
    <3>1. PICK v \in UnitIndex : Within(x, v, f[v])
      BY <2>7 DEF FreeAt
    <3>2. CASE v = u
      <4>1. u <= x /\ x < u + m
        BY <3>1, <3>2, <2>3 DEF Within
      <4>2. CASE x < u + n
        BY <4>1, <4>2 DEF Within
      <4>3. CASE u + n <= x
        <5>1. u + n \in UnitIndex /\ m = n + pool_free[u + n]
          BY <4>1, <4>3 DEF m, MergedNext
        <5>2. Within(x, u + n, pool_free[u + n])
          BY <4>1, <4>3, <5>1 DEF Within
        <5> QED BY <5>1, <5>2 DEF FreeAt
      <4> QED BY <4>2, <4>3
    <3>3. CASE v # u
      <4>1. f[v] = pool_free[v]
        BY <3>1, <3>3, <2>1 DEF Within
      <4> QED BY <3>1, <4>1 DEF FreeAt
    <3> QED BY <3>2, <3>3
  <2>8. ASSUME NEW x \in UnitIndex, FreeAt(pool_free, x) \/ Within(x, u, n)
        PROVE  FreeAt(f, x)
    <3>1. CASE Within(x, u, n)
      BY <3>1, <2>3, <1>2 DEF Within, FreeAt
    <3>2. CASE FreeAt(pool_free, x)
      <4>1. PICK v \in UnitIndex : Within(x, v, pool_free[v])
        BY <3>2 DEF FreeAt
      <4>2. v # u
        BY <4>1, <1>7 DEF Within
      <4>3. CASE v = u + n
        <5>1. m = n + pool_free[u + n]
          BY <4>3 DEF m, MergedNext
        <5> QED BY <4>1, <4>3, <5>1, <2>3 DEF Within, FreeAt
      <4>4. CASE v # u + n
        BY <4>1, <4>2, <4>4, <2>1 DEF FreeAt
      <4> QED BY <4>3, <4>4
    <3> QED BY <2>8, <3>1, <3>2
  <2> QED BY <2>4, <2>5, <2>6, <2>7, <2>8
<1> QED BY <1>8, <1>9
-----------------------------------------------------------------------------
(* Keeping, giving back and taking an extent.                              *)

\* The extent a slot holds can be released.
LEMMA HeldReleasable ==
    ASSUME TypeOK, PoolOK, NEW s \in Slots, Held(s).units > 0
    PROVE  /\ Held(s).unit \in UnitIndex
           /\ Held(s).units \in Nat \ {0}
           /\ Held(s).unit + Held(s).units <= PoolUnits
           /\ \A x \in UnitIndex :
                Within(x, Held(s).unit, Held(s).units) => ~ FreeAt(pool_free, x)
           /\ ReleaseIsLegal(Held(s).unit, Held(s).units)
<1>1. Held(s) \in Extent
  BY DEF TypeOK, Held, Backing
<1>2. Held(s).unit \in UnitIndex /\ Held(s).units \in Nat \ {0}
  BY <1>1, PoolUnitsAssumption DEF Extent
<1>3. Held(s).unit + Held(s).units <= PoolUnits
  BY DEF PoolOK, HeldExtentsInPool
<1>4. \A x \in UnitIndex :
        Within(x, Held(s).unit, Held(s).units) => ~ FreeAt(pool_free, x)
  BY DEF PoolOK, HeldUnitsNotFree
<1>5. FreeListOK
  BY DEF PoolOK
<1>6. ReleaseIsLegal(Held(s).unit, Held(s).units)
  BY <1>2, <1>3, <1>4, <1>5, HeldExtentReleasable
<1> QED BY <1>2, <1>3, <1>4, <1>6

\* A step that leaves the pool alone and moves no extent between slots.
LEMMA KeepStep ==
    ASSUME PoolOK,
           UNCHANGED <<pool_free, pool_meta>>,
           \A t \in Slots : Held(t)' = Held(t),
           worker # "closed"
    PROVE  PoolOK'
<1>1. FreeListOK'
  BY DEF PoolOK, FreeListOK, FreeExtentsInPool, FreeExtentsNeverTouch
<1>2. HeldExtentsInPool' /\ HeldExtentsDisjoint'
  BY DEF PoolOK, HeldExtentsInPool, HeldExtentsDisjoint
<1>3. HeldUnitsNotFree'
  BY DEF PoolOK, HeldUnitsNotFree
<1>4. NoUnitIsLost'
  BY DEF PoolOK, NoUnitIsLost
<1>5. MetadataNamesHeldExtent'
  BY DEF PoolOK, MetadataNamesHeldExtent
<1> QED BY <1>1, <1>2, <1>3, <1>4, <1>5 DEF PoolOK

\* A step in which slot s gives its whole extent back.
LEMMA GiveBackStep ==
    ASSUME TypeOK, PoolOK, NEW s \in Slots, Held(s).units > 0,
           pool_free' = PoolRelease(Held(s).unit, Held(s).units),
           pool_meta' = [pool_meta EXCEPT ![s] = NoExtent],
           Held(s)' = NoExtent,
           \A t \in Slots : t # s => Held(t)' = Held(t),
           worker # "closed"
    PROVE  PoolOK'
<1> DEFINE u == Held(s).unit
           n == Held(s).units
<1>1. /\ u \in UnitIndex /\ n \in Nat \ {0} /\ u + n <= PoolUnits
      /\ \A x \in UnitIndex : Within(x, u, n) => ~ FreeAt(pool_free, x)
  BY HeldReleasable
<1>2. FreeListOK
  BY DEF PoolOK
<1>3. /\ pool_free' \in [UnitIndex -> 0 .. PoolUnits]
      /\ \A v \in UnitIndex : v + pool_free'[v] <= PoolUnits
      /\ \A v, w \in UnitIndex :
            pool_free'[v] > 0 /\ pool_free'[w] > 0 /\ v < w => v + pool_free'[v] < w
      /\ \A x \in UnitIndex :
            FreeAt(pool_free', x) <=> FreeAt(pool_free, x) \/ Within(x, u, n)
  BY <1>1, <1>2, FreeAfterRelease
<1>4. FreeListOK'
  BY <1>3 DEF FreeListOK, FreeExtentsInPool, FreeExtentsNeverTouch
<1>5. HeldExtentsInPool'
  BY PoolUnitsAssumption DEF PoolOK, HeldExtentsInPool, NoExtent
<1>6. \A x \in UnitIndex : ~ Within(x, NoExtent.unit, NoExtent.units)
  BY DEF NoExtent, Within, UnitIndex
<1>7. HeldUnitsNotFree'
  <2> SUFFICES ASSUME NEW t \in Slots, NEW x \in UnitIndex,
                      Within(x, Held(t)'.unit, Held(t)'.units)
               PROVE  ~ FreeAt(pool_free', x)
    BY DEF HeldUnitsNotFree, Within
  <2>1. t # s
    BY <1>6
  <2>2. Within(x, Held(t).unit, Held(t).units)
    BY <2>1
  <2>3. ~ FreeAt(pool_free, x)
    BY <2>2 DEF PoolOK, HeldUnitsNotFree
  <2>4. ~ Within(x, u, n)
    BY <2>1, <2>2 DEF PoolOK, HeldExtentsDisjoint
  <2> QED BY <1>3, <2>3, <2>4
<1>8. HeldExtentsDisjoint'
  <2> SUFFICES ASSUME NEW t1 \in Slots, NEW t2 \in Slots, NEW x \in UnitIndex, t1 # t2,
                      Within(x, Held(t1)'.unit, Held(t1)'.units),
                      Within(x, Held(t2)'.unit, Held(t2)'.units)
               PROVE  FALSE
    BY DEF HeldExtentsDisjoint, Within
  <2>1. t1 # s /\ t2 # s
    BY <1>6
  <2> QED BY <2>1 DEF PoolOK, HeldExtentsDisjoint
<1>9. NoUnitIsLost'
  <2> SUFFICES ASSUME NEW x \in UnitIndex
               PROVE  \/ FreeAt(pool_free', x)
                      \/ \E t \in Slots : Within(x, Held(t)'.unit, Held(t)'.units)
    BY DEF NoUnitIsLost, Within
  <2>1. CASE FreeAt(pool_free, x) \/ Within(x, u, n)
    BY <1>3, <2>1
  <2>2. CASE \E t \in Slots : t # s /\ Within(x, Held(t).unit, Held(t).units)
    BY <2>2
  <2> QED BY <2>1, <2>2 DEF PoolOK, NoUnitIsLost
<1>10. MetadataNamesHeldExtent'
  <2> SUFFICES ASSUME NEW t \in Slots
               PROVE  /\ pool_meta'[t].generation # 0 => pool_meta'[t] = Held(t)'
                      /\ Held(t)'.units > 0 =>
                           pool_meta'[t] = Held(t)' /\ Held(t)'.generation # 0
    BY DEF MetadataNamesHeldExtent
  <2>1. CASE t = s
    BY <2>1 DEF NoExtent, TypeOK
  <2>2. CASE t # s
    BY <2>2 DEF TypeOK, PoolOK, MetadataNamesHeldExtent
  <2> QED BY <2>1, <2>2
<1> QED BY <1>4, <1>5, <1>7, <1>8, <1>9, <1>10 DEF PoolOK

\* A step in which slot s, holding nothing, takes an extent and publishes it.
LEMMA TakeStep ==
    ASSUME TypeOK, PoolOK, NEW s \in Slots, Held(s) = NoExtent,
           NEW u \in UnitIndex, NEW n \in Nat \ {0}, pool_free[u] >= n,
           NEW g \in Generations, g # 0,
           pool_free' = PoolAlloc(u, n),
           pool_meta' = [pool_meta EXCEPT ![s] = [unit |-> u, units |-> n, generation |-> g]],
           Held(s)' = [unit |-> u, units |-> n, generation |-> g],
           \A t \in Slots : t # s => Held(t)' = Held(t),
           worker # "closed"
    PROVE  PoolOK' /\ u + n <= PoolUnits
<1>1. FreeListOK
  BY DEF PoolOK
<1>2. /\ pool_free' \in [UnitIndex -> 0 .. PoolUnits]
      /\ \A v \in UnitIndex : v + pool_free'[v] <= PoolUnits
      /\ \A v, w \in UnitIndex :
            pool_free'[v] > 0 /\ pool_free'[w] > 0 /\ v < w => v + pool_free'[v] < w
      /\ \A x \in UnitIndex :
            FreeAt(pool_free', x) <=> FreeAt(pool_free, x) /\ ~ Within(x, u, n)
      /\ \A x \in UnitIndex : Within(x, u, n) => FreeAt(pool_free, x)
      /\ u + n <= PoolUnits
  BY <1>1, FreeAfterAlloc
<1>3. FreeListOK'
  BY <1>2 DEF FreeListOK, FreeExtentsInPool, FreeExtentsNeverTouch
<1>4. HeldExtentsInPool'
  BY <1>2 DEF PoolOK, HeldExtentsInPool
<1>5. HeldUnitsNotFree'
  <2> SUFFICES ASSUME NEW t \in Slots, NEW x \in UnitIndex,
                      Within(x, Held(t)'.unit, Held(t)'.units)
               PROVE  ~ FreeAt(pool_free', x)
    BY DEF HeldUnitsNotFree, Within
  <2>1. CASE t = s
    BY <1>2, <2>1
  <2>2. CASE t # s
    BY <1>2, <2>2 DEF PoolOK, HeldUnitsNotFree
  <2> QED BY <2>1, <2>2
<1>6. HeldExtentsDisjoint'
  <2>1. ASSUME NEW t \in Slots, NEW x \in UnitIndex, t # s, Within(x, u, n)
        PROVE  ~ Within(x, Held(t).unit, Held(t).units)
    BY <1>2, <2>1 DEF PoolOK, HeldUnitsNotFree
  <2> SUFFICES ASSUME NEW t1 \in Slots, NEW t2 \in Slots, NEW x \in UnitIndex, t1 # t2,
                      Within(x, Held(t1)'.unit, Held(t1)'.units),
                      Within(x, Held(t2)'.unit, Held(t2)'.units)
               PROVE  FALSE
    BY DEF HeldExtentsDisjoint, Within
  <2>2. CASE t1 = s
    BY <2>1, <2>2
  <2>3. CASE t2 = s
    BY <2>1, <2>3
  <2>4. CASE t1 # s /\ t2 # s
    BY <2>4 DEF PoolOK, HeldExtentsDisjoint
  <2> QED BY <2>2, <2>3, <2>4
<1>7. NoUnitIsLost'
  <2> SUFFICES ASSUME NEW x \in UnitIndex
               PROVE  \/ FreeAt(pool_free', x)
                      \/ \E t \in Slots : Within(x, Held(t)'.unit, Held(t)'.units)
    BY DEF NoUnitIsLost, Within
  <2>1. CASE FreeAt(pool_free, x)
    BY <1>2, <2>1
  <2>2. CASE \E t \in Slots : Within(x, Held(t).unit, Held(t).units)
    <3>1. PICK t \in Slots : Within(x, Held(t).unit, Held(t).units)
      BY <2>2
    <3>2. t # s
      BY <3>1 DEF NoExtent, Within, UnitIndex
    <3> QED BY <3>1, <3>2
  <2> QED BY <2>1, <2>2 DEF PoolOK, NoUnitIsLost
<1>8. MetadataNamesHeldExtent'
  <2> SUFFICES ASSUME NEW t \in Slots
               PROVE  /\ pool_meta'[t].generation # 0 => pool_meta'[t] = Held(t)'
                      /\ Held(t)'.units > 0 =>
                           pool_meta'[t] = Held(t)' /\ Held(t)'.generation # 0
    BY DEF MetadataNamesHeldExtent
  <2>1. CASE t = s
    BY <2>1 DEF TypeOK
  <2>2. CASE t # s
    BY <2>2 DEF TypeOK, PoolOK, MetadataNamesHeldExtent
  <2> QED BY <2>1, <2>2
<1> QED BY <1>2, <1>3, <1>4, <1>5, <1>6, <1>7, <1>8 DEF PoolOK
-----------------------------------------------------------------------------
(* The actions.                                                            *)

PoolTypeOK ==
    /\ pool_free \in [UnitIndex -> 0 .. PoolUnits]
    /\ pool_meta_generations \in [Slots -> Generations]
    /\ pool_meta \in [Slots -> Extent]
    /\ units_in_use \in Nat

(* The empty extent is an extent.                                          *)
LEMMA NoExtentTyped == NoExtent \in Extent
  BY PoolUnitsAssumption, GenerationSpanAssumption DEF NoExtent, Extent,
     UnitIndex, Generations

\* Erasing a slot's backing releases its extent, if it has one.
LEMMA EraseStep ==
    ASSUME IInv, NEW s \in Slots, EraseHostValue(s),
           receive.slot # s,
           Held(s)' = NoExtent,
           \A t \in Slots : t # s => Held(t)' = Held(t),
           worker # "closed"
    PROVE  PoolOK' /\ PoolTypeOK' /\ BackingShape' /\ host_values' \in [Slots -> Backing]
<1> USE DEF IInv
<1>1. Held(s) = host_values[s].extent
  BY DEF Held
<1>2. host_values' = [host_values EXCEPT ![s] = NoBacking]
  BY DEF EraseHostValue
<1>3. host_values' \in [Slots -> Backing]
  BY <1>2, NoExtentTyped DEF TypeOK, Backing, NoBacking
<1>4. BackingShape'
  BY <1>2 DEF TypeOK, BackingShape, NoBacking, NoExtent
<1>5. CASE host_values[s].kind = "mapped"
  <2>1. ReleaseLease(s, Held(s))
    BY <1>1, <1>5 DEF EraseHostValue
  <2>2. Held(s).units > 0
    BY <1>1, <1>5 DEF BackingShape
  <2>3. pool_free' = PoolRelease(Held(s).unit, Held(s).units)
    BY <2>1, <2>2, HeldReleasable DEF ReleaseLease
  <2>4. pool_meta' = [pool_meta EXCEPT ![s] = NoExtent]
    BY <2>1, <2>2 DEF ReleaseLease, PoolOK, MetadataNamesHeldExtent
  <2>5. PoolOK'
    BY <2>2, <2>3, <2>4, GiveBackStep
  <2>6. Held(s).units \in Nat
    BY <2>2, HeldReleasable
  <2>7. units_in_use' \in Nat
    BY <2>1, <2>6 DEF ReleaseLease, TypeOK
  <2>8. PoolTypeOK'
    BY <2>1, <2>4, <2>5, <2>7, NoExtentTyped
    DEF ReleaseLease, TypeOK, PoolTypeOK, PoolOK, FreeListOK
  <2> QED BY <2>5, <2>8, <1>3, <1>4
<1>6. CASE host_values[s].kind # "mapped"
  <2>1. UNCHANGED poolVars
    BY <1>6 DEF EraseHostValue
  <2>2. Held(s) = NoExtent
    BY <1>1, <1>6 DEF BackingShape
  <2>3. PoolOK'
    BY <2>1, <2>2, KeepStep DEF poolVars
  <2> QED BY <2>1, <2>3, <1>3, <1>4 DEF PoolTypeOK, TypeOK, poolVars
<1> QED BY <1>5, <1>6

\* A pool with nothing stored in it satisfies the invariant.
LEMMA InitInvariant == Init => IInv
<1> SUFFICES ASSUME Init PROVE IInv
  OBVIOUS
<1> USE PoolUnitsAssumption, GenerationSpanAssumption, NoSlotAssumption DEF Init, UnitIndex
<1>1. TypeOK
  BY NoExtentTyped DEF TypeOK, Generations, Backing, NoBacking, NoReceive,
     WorkerStates
<1>2. ReceiveShape /\ BackingShape /\ ExtentShape
  BY DEF ReceiveShape, BackingShape, ExtentShape, NoBacking, NoReceive, NoExtent
<1>3. \A s \in Slots : Held(s) = NoExtent
  BY DEF Held, NoBacking, NoReceive
<1>4. FreeListOK
  BY DEF FreeListOK, FreeExtentsInPool, FreeExtentsNeverTouch
<1>5. HeldExtentsInPool
  BY <1>3 DEF HeldExtentsInPool, NoExtent
<1>6. HeldUnitsNotFree /\ HeldExtentsDisjoint
  <2>1. \A s \in Slots : \A x \in UnitIndex : ~ Within(x, Held(s).unit, Held(s).units)
    BY <1>3 DEF Within, NoExtent
  <2> QED BY <2>1 DEF HeldUnitsNotFree, HeldExtentsDisjoint
<1>7. NoUnitIsLost
  <2>1. 0 \in UnitIndex /\ pool_free[0] = PoolUnits
    OBVIOUS
  <2>2. \A x \in UnitIndex : Within(x, 0, pool_free[0])
    BY <2>1 DEF Within
  <2>3. \A x \in UnitIndex : FreeAt(pool_free, x)
    BY <2>1, <2>2 DEF FreeAt
  <2> QED BY <2>3 DEF NoUnitIsLost
<1>8. MetadataNamesHeldExtent
  BY <1>3 DEF MetadataNamesHeldExtent, NoExtent
<1> QED BY <1>1, <1>2, <1>4, <1>5, <1>6, <1>7, <1>8 DEF IInv, PoolOK

\* Every step of the Server preserves the invariant.
LEMMA NextInvariant == IInv /\ [Next]_vars => IInv'
<1> SUFFICES ASSUME IInv, [Next]_vars PROVE IInv'
  OBVIOUS
<1> USE NoSlotAssumption DEF IInv
<1>1. ASSUME NEW s \in Slots, Retire(s) PROVE IInv'
  <2>1. receive = NoReceive /\ receive' = [slot |-> s, extent |-> NoExtent]
    BY <1>1 DEF Retire, ReceiveShape
  <2>2. EraseHostValue(s) /\ host_values' = [host_values EXCEPT ![s] = NoBacking]
    BY <1>1 DEF Retire, EraseHostValue
  <2>3. Held(s)' = NoExtent
    BY <2>1 DEF Held
  <2>4. \A t \in Slots : t # s => Held(t)' = Held(t)
    BY <2>1, <2>2 DEF Held, NoReceive, TypeOK
  <2>5. PoolOK' /\ PoolTypeOK' /\ BackingShape' /\ host_values' \in [Slots -> Backing]
    BY <1>1, <2>1, <2>2, <2>3, <2>4, EraseStep DEF Retire, NoReceive
  <2>6. ReceiveShape' /\ ExtentShape'
    BY <1>1, <2>1, <2>2 DEF Retire, ReceiveShape, ExtentShape, TypeOK
  <2>7. TypeOK'
    BY <1>1, <2>1, <2>5, NoExtentTyped DEF TypeOK, PoolTypeOK, Retire,
       WorkerStates
  <2> QED BY <2>5, <2>6, <2>7
<1>2. ASSUME NEW s \in Slots, RemoveBacking(s) \/ ClearHostValue(s) PROVE IInv'
  <2>1. receive = NoReceive /\ receive' = NoReceive /\ worker' = worker
        /\ worker \in {"idle", "joined"}
    BY <1>2 DEF RemoveBacking, ClearHostValue, ReceiveShape
  <2>2. EraseHostValue(s) /\ host_values' = [host_values EXCEPT ![s] = NoBacking]
    BY <1>2 DEF RemoveBacking, ClearHostValue, EraseHostValue
  <2>3. Held(s)' = NoExtent
    BY <2>1, <2>2 DEF Held, NoReceive, TypeOK, NoBacking
  <2>4. \A t \in Slots : t # s => Held(t)' = Held(t)
    BY <2>1, <2>2 DEF Held, NoReceive, TypeOK
  <2>5. PoolOK' /\ PoolTypeOK' /\ BackingShape' /\ host_values' \in [Slots -> Backing]
    BY <2>1, <2>2, <2>3, <2>4, EraseStep DEF NoReceive
  <2>6. ReceiveShape' /\ ExtentShape'
    BY <2>1 DEF ReceiveShape, ExtentShape, NoReceive
  <2>7. TypeOK'
    BY <2>1, <2>5 DEF TypeOK, PoolTypeOK
  <2> QED BY <2>5, <2>6, <2>7
<1>3. ASSUME NEW n \in 1 .. MaxValueUnits, ReserveMapped(n) PROVE IInv'
  <2>1. PICK s \in Slots : s = receive.slot /\ Held(s) = NoExtent /\ host_values[s] = NoBacking
    BY <1>3 DEF ReserveMapped, ReceiveShape, Held
  <2>3. PICK g \in Generations : g = NextGeneration(s) /\ g # 0
    BY <2>1, GenerationSpanAssumption DEF NextGeneration, TypeOK, Generations
  <2>2. PICK u \in UnitIndex :
          /\ pool_free[u] >= n
          /\ pool_free' = PoolAlloc(u, n)
          /\ pool_meta_generations' = [pool_meta_generations EXCEPT ![s] = g]
          /\ pool_meta' = [pool_meta EXCEPT ![s] = [unit |-> u, units |-> n, generation |-> g]]
          /\ receive' = [receive EXCEPT !.extent = [unit |-> u, units |-> n, generation |-> g]]
    BY <1>3, <2>1, <2>3 DEF ReserveMapped, FirstFit
  <2>4. receive'.slot = s /\ receive'.extent = [unit |-> u, units |-> n, generation |-> g]
    BY <2>1, <2>2 DEF TypeOK
  <2>5. Held(s)' = [unit |-> u, units |-> n, generation |-> g]
    BY <2>4 DEF Held
  <2>6. \A t \in Slots : t # s => Held(t)' = Held(t)
    BY <1>3, <2>1, <2>4 DEF Held, ReserveMapped
  <2>7. n \in Nat \ {0} /\ worker # "closed"
    BY <1>3, MaxValueUnitsAssumption DEF ReserveMapped
  <2>8. PoolOK' /\ u + n <= PoolUnits
    BY <2>1, <2>2, <2>3, <2>5, <2>6, <2>7, TakeStep
  <2>9. [unit |-> u, units |-> n, generation |-> g] \in Extent
    BY <2>3, <2>7, <2>8, PoolUnitsAssumption DEF Extent, UnitIndex
  <2>10. TypeOK'
    <3>1. receive' \in [slot : Slots \cup {NoSlot}, extent : Extent]
      BY <2>1, <2>2, <2>9 DEF TypeOK
    <3>2. pool_free' \in [UnitIndex -> 0 .. PoolUnits]
      BY <2>8 DEF PoolOK, FreeListOK
    <3>3. pool_meta' \in [Slots -> Extent]
          /\ pool_meta_generations' \in [Slots -> Generations]
      BY <2>2, <2>3, <2>9 DEF TypeOK
    <3> QED BY <1>3, <3>1, <3>2, <3>3 DEF TypeOK, ReserveMapped, WorkerStates
  <2>11. ReceiveShape' /\ BackingShape' /\ ExtentShape'
    BY <1>3, <2>1, <2>4, <2>7
    DEF ReserveMapped, ReceiveShape, BackingShape, ExtentShape
  <2> QED BY <2>8, <2>10, <2>11
<1>4. ASSUME NEW n \in 1 .. MaxValueUnits, ReserveHeap(n) PROVE IInv'
  <2>1. \A t \in Slots : Held(t)' = Held(t)
    BY <1>4 DEF ReserveHeap, Held
  <2>2. PoolOK'
    BY <1>4, <2>1, KeepStep DEF ReserveHeap, poolVars
  <2> QED BY <1>4, <2>2
      DEF ReserveHeap, poolVars, TypeOK, WorkerStates, ReceiveShape, BackingShape, ExtentShape
<1>5. CASE FinishReceive
  <2>1. \A t \in Slots : Held(t)' = Held(t)
    BY <1>5 DEF FinishReceive, Held
  <2>2. PoolOK'
    BY <1>5, <2>1, KeepStep DEF FinishReceive
  <2>3. receive.extent.units \in Nat
    BY PoolUnitsAssumption DEF TypeOK, Extent
  <2>4. TypeOK'
    BY <1>5, <2>3 DEF FinishReceive, TypeOK, WorkerStates
  <2> QED BY <1>5, <2>2, <2>4
      DEF FinishReceive, ReceiveShape, BackingShape, ExtentShape
<1>6. CASE Store
  <2> DEFINE b == IF receive.extent.units = 0
                  THEN HeapBacking ELSE MappedBacking(receive.extent)
  <2>1. PICK s \in Slots : s = receive.slot /\ receive.extent \in Extent
    BY <1>6 DEF Store, ReceiveShape, TypeOK
  <2>2. host_values' = [host_values EXCEPT ![s] = b] /\ receive' = NoReceive /\ worker' = "idle"
    BY <1>6, <2>1 DEF Store
  <2>3. b \in Backing /\ b.extent = receive.extent
    BY <2>1, NoExtentTyped DEF HeapBacking, MappedBacking, Backing, ExtentShape
  <2>4. /\ b.kind # "none" /\ b # NoBacking
        /\ b.kind = "mapped" <=> b.extent.units > 0
        /\ b.kind # "mapped" => b.extent = NoExtent
    BY <2>1, PoolUnitsAssumption
    DEF HeapBacking, MappedBacking, NoBacking, Extent, NoExtent
  <2> HIDE DEF b
  <2>5. \A t \in Slots : Held(t)' = Held(t)
    BY <2>1, <2>2, <2>3 DEF Held, NoReceive, TypeOK
  <2>6. PoolOK'
    BY <1>6, <2>5, KeepStep DEF Store, poolVars
  <2>7. TypeOK'
    <3>1. host_values' \in [Slots -> Backing]
      BY <2>1, <2>2, <2>3 DEF TypeOK
    <3> QED BY <1>6, <2>2, <3>1, NoExtentTyped
        DEF Store, poolVars, TypeOK, WorkerStates, NoReceive
  <2>8. ReceiveShape' /\ ExtentShape'
    BY <2>2 DEF ReceiveShape, ExtentShape, NoReceive
  <2>9. BackingShape'
    <3> SUFFICES ASSUME NEW t \in Slots
                 PROVE  /\ host_values'[t].kind = "mapped" <=> host_values'[t].extent.units > 0
                        /\ host_values'[t].kind = "none" <=> host_values'[t] = NoBacking
                        /\ host_values'[t].kind # "mapped" => host_values'[t].extent = NoExtent
      BY DEF BackingShape
    <3>1. CASE t = s
      BY <2>1, <2>2, <2>4, <3>1 DEF TypeOK
    <3>2. CASE t # s
      BY <2>1, <2>2, <3>2 DEF TypeOK, BackingShape
    <3> QED BY <3>1, <3>2
  <2> QED BY <2>6, <2>7, <2>8, <2>9
<1>7. CASE CancelReceive
  <2>1. PICK s \in Slots :
          s = receive.slot /\ host_values[s] = NoBacking /\ Held(s) = receive.extent
    BY <1>7 DEF CancelReceive, ReceiveShape, Held
  <2>2. receive' = NoReceive /\ worker' = "joined" /\ host_values' = host_values
    BY <1>7 DEF CancelReceive
  <2>3. Held(s)' = NoExtent
    BY <2>1, <2>2 DEF Held, NoReceive, NoBacking
  <2>4. \A t \in Slots : t # s => Held(t)' = Held(t)
    BY <2>1, <2>2 DEF Held, NoReceive
  <2>5. PoolOK' /\ pool_meta' \in [Slots -> Extent]
    <3>1. CASE receive.extent.units = 0
      <4>1. Held(s) = NoExtent /\ UNCHANGED <<pool_free, pool_meta>>
        BY <1>7, <2>1, <3>1 DEF CancelReceive, ExtentShape
      <4>2. \A t \in Slots : Held(t)' = Held(t)
        BY <2>3, <2>4, <4>1
      <4> QED BY <1>7, <4>1, <4>2, KeepStep DEF CancelReceive, TypeOK
    <3>2. CASE receive.extent.units # 0
      <4>1. Held(s).units > 0
        BY <2>1, <3>2 DEF TypeOK, Extent
      <4>2. /\ pool_free' = PoolRelease(Held(s).unit, Held(s).units)
            /\ pool_meta' = [pool_meta EXCEPT ![s] = NoExtent]
        BY <1>7, <2>1, <3>2 DEF CancelReceive
      <4>3. worker # "closed"
        BY <1>7 DEF CancelReceive
      <4>4. PoolOK'
        BY <2>1, <2>3, <2>4, <4>1, <4>2, <4>3, GiveBackStep
      <4> QED BY <4>2, <4>4, NoExtentTyped DEF TypeOK
    <3> QED BY <3>1, <3>2
  <2>6. TypeOK'
    BY <1>7, <2>2, <2>5, NoExtentTyped
    DEF CancelReceive, TypeOK, PoolOK, FreeListOK, WorkerStates, NoReceive
  <2>7. ReceiveShape' /\ BackingShape' /\ ExtentShape'
    BY <2>2 DEF ReceiveShape, BackingShape, ExtentShape, NoReceive
  <2> QED BY <2>5, <2>6, <2>7
<1>8. CASE StopWorker
  <2>1. worker # "closed" /\ UNCHANGED <<poolVars, host_values>>
        /\ receive' = NoReceive /\ worker' = "joined"
    BY <1>8 DEF StopWorker
  <2>2. receive = NoReceive \/ (receive.extent = NoExtent /\ receive.slot \in Slots
                                /\ host_values[receive.slot] = NoBacking)
    BY <1>8 DEF StopWorker, ReceiveShape
  <2>3. \A t \in Slots : Held(t)' = Held(t)
    BY <2>1, <2>2 DEF Held, NoReceive, NoBacking
  <2>4. PoolOK'
    BY <2>1, <2>3, KeepStep DEF poolVars
  <2> QED BY <2>1, <2>4, NoExtentTyped
      DEF poolVars, TypeOK, WorkerStates, NoReceive, ReceiveShape, BackingShape, ExtentShape
<1>9. CASE ReleaseResources
  <2>1. /\ receive = NoReceive /\ receive' = NoReceive
        /\ host_values' = host_values /\ worker' = "closed"
        /\ \A s \in Slots : host_values[s] = NoBacking
        /\ pool_free' = [u \in UnitIndex |-> 0]
        /\ pool_meta' = [s \in Slots |-> NoExtent]
    BY <1>9 DEF ReleaseResources, ReceiveShape, BackingShape
  <2>2. \A t \in Slots : Held(t)' = NoExtent
    BY <2>1 DEF Held, NoReceive, NoBacking
  <2>3. FreeListOK'
    BY <2>1, PoolUnitsAssumption
    DEF FreeListOK, FreeExtentsInPool, FreeExtentsNeverTouch, UnitIndex
  <2>4. HeldExtentsInPool'
    BY <2>2, PoolUnitsAssumption DEF HeldExtentsInPool, NoExtent
  <2>5. HeldUnitsNotFree' /\ HeldExtentsDisjoint'
    BY <2>2 DEF HeldUnitsNotFree, HeldExtentsDisjoint, Within, NoExtent,
       UnitIndex
  <2>6. NoUnitIsLost' /\ MetadataNamesHeldExtent'
    BY <2>1, <2>2 DEF NoUnitIsLost, MetadataNamesHeldExtent, NoExtent
  <2>7. TypeOK'
    BY <1>9, <2>1, <2>3, NoExtentTyped
    DEF ReleaseResources, TypeOK, FreeListOK, WorkerStates
  <2>8. ReceiveShape' /\ BackingShape' /\ ExtentShape'
    BY <2>1 DEF ReceiveShape, BackingShape, ExtentShape, NoReceive
  <2> QED BY <2>3, <2>4, <2>5, <2>6, <2>7, <2>8 DEF PoolOK
<1>10. CASE UNCHANGED vars
  <2>1. UNCHANGED <<pool_free, pool_meta_generations, pool_meta, units_in_use,
                    host_values, receive, worker>>
    BY <1>10 DEF vars, poolVars
  <2>2. TypeOK' /\ ReceiveShape' /\ BackingShape' /\ ExtentShape'
    BY <2>1 DEF TypeOK, ReceiveShape, BackingShape, ExtentShape
  <2>3. \A t \in Slots : Held(t)' = Held(t)
    BY <2>1 DEF Held
  <2>4. FreeListOK' /\ HeldExtentsInPool' /\ HeldExtentsDisjoint' /\ HeldUnitsNotFree'
    BY <2>1, <2>3
    DEF PoolOK, FreeListOK, FreeExtentsInPool, FreeExtentsNeverTouch,
        HeldExtentsInPool, HeldExtentsDisjoint, HeldUnitsNotFree
  <2>5. NoUnitIsLost' /\ MetadataNamesHeldExtent'
    BY <2>1, <2>3 DEF PoolOK, NoUnitIsLost, MetadataNamesHeldExtent
  <2> QED BY <2>2, <2>4, <2>5 DEF PoolOK
<1> QED BY <1>1, <1>2, <1>3, <1>4, <1>5, <1>6, <1>7, <1>8, <1>9, <1>10 DEF Next

\* IInv is an invariant of the pool.
THEOREM PoolInvariant == Spec => []IInv
<1> QED BY InitInvariant, NextInvariant, PTL DEF Spec

\* Type correctness; in particular a generation never leaves its uint32_t range
\* and never becomes 0 by wrapping (publish_pool_meta).
THEOREM TypeCorrect == Spec => []TypeOK
<1>1. IInv => TypeOK
  BY DEF IInv
<1> QED BY <1>1, PoolInvariant, PTL

\* pool_free_ holds disjoint, never adjacent extents, as its declaration says.
THEOREM FreeListWellFormed == Spec => []FreeExtentsNeverTouch
<1>1. IInv => FreeExtentsNeverTouch
  BY DEF IInv, PoolOK, FreeListOK
<1> QED BY <1>1, PoolInvariant, PTL

\* pool_alloc never hands out a unit that a stored or incoming value owns.
THEOREM SingleOwner == Spec => []NoUnitHasTwoOwners
<1>1. IInv => NoUnitHasTwoOwners
  BY DEF IInv, PoolOK, NoUnitHasTwoOwners
<1> QED BY <1>1, PoolInvariant, PTL

\* Replacing, removing, cancelling and clearing values never leaks a unit.
THEOREM NoLeak == Spec => []NoUnitIsLost
<1>1. IInv => NoUnitIsLost
  BY DEF IInv, PoolOK
<1> QED BY <1>1, PoolInvariant, PTL

\* Metadata the device accepts names the extent that its slot holds now.
THEOREM MetadataCurrent == Spec => []MetadataNamesHeldExtent
<1>1. IInv => MetadataNamesHeldExtent
  BY DEF IInv, PoolOK
<1> QED BY <1>1, PoolInvariant, PTL

\* No TT_FATAL of pool_release can fire for an extent that is held.
THEOREM ReleaseAccepted == Spec => []ReleaseNeverRefused
<1>1. IInv => ReleaseNeverRefused
  BY HeldReleasable DEF IInv, ReleaseNeverRefused
<1> QED BY <1>1, PoolInvariant, PTL

-----------------------------------------------------------------------------
(* The count of leased units.  Extents that are held are disjoint, so one  *)
(* lease fewer is exactly its own units fewer: a counted set of units, and *)
(* no sum over the slots, is what makes the steps compose.                 *)

\* The units an extent spans.
Span(e) == { x \in UnitIndex : Within(x, e.unit, e.units) }

\* An extent inside the pool spans as many units as it is long.
LEMMA SpanSize ==
    ASSUME NEW e \in Extent, e.unit + e.units <= PoolUnits
    PROVE  IsFiniteSet(Span(e)) /\ Cardinality(Span(e)) = e.units
<1>1. e.unit \in Int /\ e.units \in Nat /\ e.unit >= 0
  BY PoolUnitsAssumption DEF Extent, UnitIndex
<1>2. Span(e) = e.unit .. (e.unit + e.units - 1)
  BY <1>1, PoolUnitsAssumption DEF Span, Within, UnitIndex
<1>3. e.unit + e.units - 1 \in Int
  BY <1>1
<1>4. /\ IsFiniteSet(e.unit .. (e.unit + e.units - 1))
      /\ Cardinality(e.unit .. (e.unit + e.units - 1)) =
            IF e.unit > e.unit + e.units - 1 THEN 0
            ELSE (e.unit + e.units - 1) - e.unit + 1
  BY <1>1, <1>3, FS_Interval
<1> QED BY <1>1, <1>2, <1>4

(* The leased units can be counted.                                        *)
LEMMA LeasedFinite == IsFiniteSet(LeasedUnits) /\ Cardinality(LeasedUnits) \in Nat
<1>1. IsFiniteSet(UnitIndex)
  BY PoolUnitsAssumption, FS_Interval DEF UnitIndex
<1>2. LeasedUnits \subseteq UnitIndex
  BY DEF LeasedUnits
<1> QED BY <1>1, <1>2, FS_Subset, FS_CardinalityType

\* The units leased are those of the slots whose extent is published.
LEMMA LeasedAreHeld ==
    ASSUME IInv
    PROVE  LeasedUnits =
             { x \in UnitIndex : \E s \in Slots :
                 /\ receive.slot = s => worker = "received"
                 /\ Within(x, Held(s).unit, Held(s).units) }
<1> USE NoSlotAssumption DEF IInv
<1>1. ASSUME NEW s \in Slots, NEW x \in UnitIndex,
             Within(x, host_values[s].extent.unit, host_values[s].extent.units)
      PROVE  receive.slot # s
  <2>1. CASE worker \in {"idle", "joined", "closed"}
    BY <2>1 DEF ReceiveShape, NoReceive
  <2>2. CASE worker \in {"retired", "reserved", "received"} /\ receive.slot = s
    <3>1. host_values[s].extent.unit = 0 /\ host_values[s].extent.units = 0
      BY <2>2 DEF ReceiveShape, NoBacking, NoExtent
    <3> QED BY <1>1, <3>1 DEF Within, UnitIndex
  <2> QED BY <2>1, <2>2 DEF TypeOK, WorkerStates
<1>2. ASSUME NEW x \in UnitIndex, x \in LeasedUnits
      PROVE  \E s \in Slots : /\ receive.slot = s => worker = "received"
                              /\ Within(x, Held(s).unit, Held(s).units)
  <2>1. CASE \E s \in Slots :
          Within(x, host_values[s].extent.unit, host_values[s].extent.units)
    BY <1>1, <2>1 DEF Held
  <2>2. CASE worker = "received" /\ Within(x, receive.extent.unit, receive.extent.units)
    BY <2>2 DEF Held, ReceiveShape
  <2> QED BY <1>2, <2>1, <2>2 DEF LeasedUnits
<1>3. ASSUME NEW x \in UnitIndex, NEW s \in Slots,
             receive.slot = s => worker = "received",
             Within(x, Held(s).unit, Held(s).units)
      PROVE  x \in LeasedUnits
  BY <1>3 DEF Held, LeasedUnits
<1> QED BY <1>2, <1>3 DEF LeasedUnits

\* Destroying a lease takes its units, all of them counted, off the count.
LEMMA UncountStep ==
    ASSUME IInv, UnitsInUseAreLeased, NEW s \in Slots, EraseHostValue(s),
           worker # "received", worker' # "received", receive.slot # s
    PROVE  UnitsInUseAreLeased'
<1> DEFINE e == host_values[s].extent
<1> USE DEF IInv
<1>1. e \in Extent /\ e = Held(s) /\ e.unit + e.units <= PoolUnits
  BY DEF TypeOK, Backing, Held, PoolOK, HeldExtentsInPool
<1>2. host_values' = [host_values EXCEPT ![s] = NoBacking]
  BY DEF EraseHostValue
<1>3. LeasedUnits' = LeasedUnits \ Span(e)
  <2>1. ASSUME NEW x \in UnitIndex
        PROVE  x \in LeasedUnits' <=>
                 \E t \in Slots : t # s /\ Within(x, host_values[t].extent.unit,
                                                  host_values[t].extent.units)
    <3>1. host_values'[s].extent.unit = 0 /\ host_values'[s].extent.units = 0
      BY <1>2 DEF TypeOK, NoBacking, NoExtent
    <3>2. ~ Within(x, host_values'[s].extent.unit, host_values'[s].extent.units)
      BY <3>1 DEF Within, UnitIndex
    <3>3. \A t \in Slots : t # s => host_values'[t] = host_values[t]
      BY <1>2 DEF TypeOK
    <3> QED BY <3>2, <3>3 DEF LeasedUnits
  <2>2. ASSUME NEW x \in UnitIndex, NEW t \in Slots, t # s,
               Within(x, host_values[t].extent.unit, host_values[t].extent.units)
        PROVE  x \notin Span(e)
    <3>1. receive.slot # t
      <4>1. CASE worker \in {"idle", "joined", "closed"}
        BY <4>1, NoSlotAssumption DEF ReceiveShape, NoReceive
      <4>2. CASE worker \in {"retired", "reserved"} /\ receive.slot = t
        <5>1. host_values[t].extent.unit = 0 /\ host_values[t].extent.units = 0
          BY <4>2 DEF ReceiveShape, NoBacking, NoExtent
        <5> QED BY <2>2, <5>1 DEF Within, UnitIndex
      <4> QED BY <4>1, <4>2 DEF TypeOK, WorkerStates
    <3>2. Held(t) = host_values[t].extent
      BY <3>1 DEF Held
    <3> QED BY <1>1, <2>2, <3>2 DEF PoolOK, HeldExtentsDisjoint, Span
  <2>3. \A x \in UnitIndex : x \in LeasedUnits =>
          x \in Span(e) \/ \E t \in Slots : t # s /\
            Within(x, host_values[t].extent.unit, host_values[t].extent.units)
    BY DEF LeasedUnits, Span
  <2>4. \A x \in UnitIndex : (\E t \in Slots :
            Within(x, host_values[t].extent.unit, host_values[t].extent.units))
              => x \in LeasedUnits
    BY DEF LeasedUnits
  <2>5. LeasedUnits \subseteq UnitIndex /\ LeasedUnits' \subseteq UnitIndex
    BY DEF LeasedUnits
  <2> QED BY <2>1, <2>2, <2>3, <2>4, <2>5
<1>4. Span(e) \subseteq LeasedUnits
  BY DEF Span, LeasedUnits
<1>5. /\ Cardinality(Span(e)) = e.units /\ e.units \in Nat
      /\ Cardinality(LeasedUnits) \in Nat
      /\ Cardinality(LeasedUnits') = Cardinality(LeasedUnits) - e.units
      /\ e.units <= Cardinality(LeasedUnits)
  <2>1. IsFiniteSet(Span(e)) /\ Cardinality(Span(e)) = e.units /\ e.units \in Nat
    BY <1>1, SpanSize, PoolUnitsAssumption DEF Extent
  <2>2. /\ IsFiniteSet(LeasedUnits \ Span(e))
        /\ Cardinality(LeasedUnits \ Span(e)) =
             Cardinality(LeasedUnits) - Cardinality(LeasedUnits \cap Span(e))
    BY LeasedFinite, FS_Difference
  <2>3. LeasedUnits \cap Span(e) = Span(e)
    BY <1>4
  <2>4. e.units <= Cardinality(LeasedUnits)
    BY <1>4, <2>1, LeasedFinite, FS_Subset
  <2> QED BY <1>3, <2>1, <2>2, <2>3, <2>4, LeasedFinite
<1>6. CASE host_values[s].kind = "mapped"
  <2>1. units_in_use' = units_in_use - e.units
    BY <1>5, <1>6 DEF EraseHostValue, ReleaseLease, UnitsInUseAreLeased
  <2> QED BY <1>5, <2>1 DEF UnitsInUseAreLeased
<1>7. CASE host_values[s].kind # "mapped"
  <2>1. units_in_use' = units_in_use /\ e.units = 0
    BY <1>7 DEF EraseHostValue, poolVars, BackingShape, NoExtent
  <2> QED BY <1>5, <2>1 DEF UnitsInUseAreLeased
<1> QED BY <1>6, <1>7

\* publish_lease counts the units of an extent nobody else was leased.
LEMMA CountStep ==
    ASSUME IInv, UnitsInUseAreLeased, FinishReceive
    PROVE  UnitsInUseAreLeased'
<1> DEFINE e == receive.extent
<1> USE DEF IInv
<1>1. PICK s \in Slots : s = receive.slot /\ e = Held(s) /\ e \in Extent
                         /\ e.unit + e.units <= PoolUnits
  BY DEF FinishReceive, ReceiveShape, TypeOK, Held, PoolOK, HeldExtentsInPool
<1>2. LeasedUnits' = LeasedUnits \union Span(e)
  BY DEF FinishReceive, LeasedUnits, Span
<1>3. LeasedUnits \cap Span(e) = {}
  <2>1. worker = "reserved"
    BY DEF FinishReceive
  <2>2. ASSUME NEW x \in LeasedUnits PROVE x \notin Span(e)
    <3>1. PICK t \in Slots : t # s /\ Within(x, Held(t).unit, Held(t).units)
                             /\ x \in UnitIndex
      BY <1>1, <2>1, <2>2, LeasedAreHeld
    <3> QED BY <1>1, <3>1 DEF PoolOK, HeldExtentsDisjoint, Span
  <2> QED BY <2>2
<1>4. IsFiniteSet(Span(e)) /\ Cardinality(Span(e)) = e.units /\ e.units \in Nat
  BY <1>1, SpanSize, PoolUnitsAssumption DEF Extent
<1>5. Cardinality(LeasedUnits \union Span(e)) =
        Cardinality(LeasedUnits) + Cardinality(Span(e))
          - Cardinality(LeasedUnits \cap Span(e))
  BY <1>4, LeasedFinite, FS_Union
<1>6. Cardinality(LeasedUnits') = Cardinality(LeasedUnits) + e.units
  <2>1. Cardinality({}) = 0
    BY FS_EmptySet
  <2>2. Cardinality(LeasedUnits \cap Span(e)) = 0
    BY <1>3, <2>1
  <2>3. Cardinality(LeasedUnits') = Cardinality(LeasedUnits \union Span(e))
    BY <1>2
  <2> HIDE DEF e
  <2> QED BY <1>4, <1>5, <2>2, <2>3, LeasedFinite
<1>7. units_in_use' = units_in_use + e.units
  BY DEF FinishReceive
<1> QED BY <1>6, <1>7 DEF UnitsInUseAreLeased

\* Every step keeps the count exact.
LEMMA NextCounts ==
    ASSUME IInv, UnitsInUseAreLeased, [Next]_vars
    PROVE  UnitsInUseAreLeased'
<1> USE DEF IInv
<1>1. ASSUME NEW s \in Slots, Retire(s) \/ RemoveBacking(s) \/ ClearHostValue(s)
      PROVE  UnitsInUseAreLeased'
  <2>1. /\ EraseHostValue(s) /\ worker # "received" /\ worker' # "received"
        /\ receive.slot # s
    BY <1>1, NoSlotAssumption
       DEF Retire, RemoveBacking, ClearHostValue, ReceiveShape, NoReceive
  <2> QED BY <2>1, UncountStep
<1>2. ASSUME UNCHANGED <<units_in_use, host_values>>,
             worker # "received", worker' # "received"
      PROVE  UnitsInUseAreLeased'
  BY <1>2 DEF UnitsInUseAreLeased, LeasedUnits
<1>3. CASE FinishReceive
  BY <1>3, CountStep
<1>4. CASE Store
  <2>1. PICK s \in Slots : s = receive.slot /\ host_values[s] = NoBacking
                           /\ receive.extent \in Extent
    BY <1>4 DEF Store, ReceiveShape, TypeOK
  <2>2. host_values'[s].extent = receive.extent
    BY <1>4, <2>1 DEF Store, TypeOK, HeapBacking, MappedBacking, ExtentShape
  <2>3. \A t \in Slots : t # s => host_values'[t] = host_values[t]
    BY <1>4, <2>1 DEF Store, TypeOK
  <2>4. \A x \in UnitIndex :
          ~ Within(x, host_values[s].extent.unit, host_values[s].extent.units)
    BY <2>1 DEF NoBacking, NoExtent, Within, UnitIndex
  <2>5. LeasedUnits' = LeasedUnits
    <3>1. worker = "received" /\ worker' # "received"
      BY <1>4 DEF Store
    <3> QED BY <2>1, <2>2, <2>3, <2>4, <3>1 DEF LeasedUnits
  <2> QED BY <1>4, <2>5 DEF Store, poolVars, UnitsInUseAreLeased
<1>5. CASE UNCHANGED vars
  BY <1>5 DEF vars, poolVars, UnitsInUseAreLeased, LeasedUnits
<1>6. ASSUME NEW n \in 1 .. MaxValueUnits, ReserveMapped(n) \/ ReserveHeap(n)
      PROVE  UnitsInUseAreLeased'
  BY <1>2, <1>6 DEF ReserveMapped, ReserveHeap, poolVars
<1>7. CASE CancelReceive \/ StopWorker \/ ReleaseResources
  BY <1>2, <1>7 DEF CancelReceive, StopWorker, ReleaseResources, poolVars
<1> QED BY <1>1, <1>3, <1>4, <1>5, <1>6, <1>7 DEF Next

\* external_pool_units_in_use_ is exact whatever the order of write-throughs,
\* removals and cancellations: the check that frees the pool can trust it.
THEOREM LeaseCountExact == Spec => []UnitsInUseAreLeased
<1>1. Init => UnitsInUseAreLeased
  <2> SUFFICES ASSUME Init PROVE UnitsInUseAreLeased
    OBVIOUS
  <2>1. LeasedUnits = {}
    BY DEF Init, LeasedUnits, NoBacking, NoExtent, Within, UnitIndex
  <2> QED BY <2>1, FS_EmptySet DEF Init, UnitsInUseAreLeased
<1> QED BY <1>1, PoolInvariant, NextCounts, PTL DEF Spec

-----------------------------------------------------------------------------
(* The pool implements unit ownership.                                     *)

HoldersOwn ==
    /\ \A s \in Slots : \A x \in UnitIndex :
         Within(x, Held(s).unit, Held(s).units) <=> OwnerOf[x] = s
    /\ \A x \in UnitIndex : OwnerOf[x] \in Slots \union {NoSlot}

\* Under the invariant a unit belongs to the slot whose extent spans it.
LEMMA OwnerIsHolder == IInv => HoldersOwn
<1> SUFFICES ASSUME IInv PROVE HoldersOwn
  OBVIOUS
<1> USE DEF IInv
<1>1. ASSUME NEW s \in Slots, NEW x \in UnitIndex,
             Within(x, Held(s).unit, Held(s).units)
      PROVE  OwnerOf[x] = s
  <2>1. ~ FreeAt(pool_free, x)
    BY <1>1 DEF PoolOK, HeldUnitsNotFree
  <2>2. worker # "closed"
    <3> SUFFICES ASSUME worker = "closed" PROVE FALSE
      OBVIOUS
    <3>1. Held(s) = NoExtent
      BY DEF ReceiveShape, NoReceive, NoBacking, Held
    <3> QED BY <1>1, <3>1 DEF NoExtent, Within, UnitIndex
  <2>3. \A t \in Slots : Within(x, Held(t).unit, Held(t).units) => t = s
    BY <1>1 DEF PoolOK, HeldExtentsDisjoint
  <2>4. (CHOOSE t \in Slots : Within(x, Held(t).unit, Held(t).units)) = s
    BY <1>1, <2>3
  <2> QED BY <1>1, <2>1, <2>2, <2>4 DEF OwnerOf
<1>2. ASSUME NEW x \in UnitIndex,
             \A s \in Slots : ~ Within(x, Held(s).unit, Held(s).units)
      PROVE  OwnerOf[x] = NoSlot
  BY <1>2 DEF OwnerOf, PoolOK, NoUnitIsLost
<1> QED BY <1>1, <1>2, NoSlotAssumption DEF HoldersOwn

\* The same after a step.
LEMMA OwnerIsHolderNext == IInv' => HoldersOwn'
  BY OwnerIsHolder, PTL

\* Keeping every extent keeps every owner.
LEMMA KeepsOwners ==
    ASSUME IInv, IInv', \A t \in Slots : Held(t)' = Held(t)
    PROVE  OwnerOf' = OwnerOf
<1>1. \A x \in UnitIndex : OwnerOf'[x] = OwnerOf[x]
  <2> SUFFICES ASSUME NEW x \in UnitIndex PROVE OwnerOf'[x] = OwnerOf[x]
    OBVIOUS
  <2>1. \A s \in Slots : (OwnerOf'[x] = s) <=> (OwnerOf[x] = s)
    BY OwnerIsHolder, OwnerIsHolderNext DEF HoldersOwn
  <2>2. OwnerOf[x] \in Slots \union {NoSlot} /\ OwnerOf'[x] \in Slots \union {NoSlot}
    BY OwnerIsHolder, OwnerIsHolderNext DEF HoldersOwn
  <2> QED BY <2>1, <2>2, NoSlotAssumption
<1> QED BY <1>1 DEF OwnerOf

\* Giving one extent back is the owner's GiveBack.
LEMMA GivesBack ==
    ASSUME IInv, IInv', NEW s \in Slots, Held(s)' = NoExtent,
           \A t \in Slots : t # s => Held(t)' = Held(t)
    PROVE  Ownership!GiveBack(s)
<1>1. ASSUME NEW x \in UnitIndex
      PROVE  OwnerOf'[x] = IF OwnerOf[x] = s THEN NoSlot ELSE OwnerOf[x]
  <2>1. OwnerOf'[x] # s
    <3>1. ~ Within(x, Held(s)'.unit, Held(s)'.units)
      BY DEF NoExtent, Within, UnitIndex
    <3> QED BY <3>1, OwnerIsHolderNext DEF HoldersOwn
  <2>2. \A t \in Slots : t # s => ((OwnerOf'[x] = t) <=> (OwnerOf[x] = t))
    BY OwnerIsHolder, OwnerIsHolderNext DEF HoldersOwn
  <2>3. OwnerOf[x] \in Slots \union {NoSlot} /\ OwnerOf'[x] \in Slots \union {NoSlot}
    BY OwnerIsHolder, OwnerIsHolderNext DEF HoldersOwn
  <2> QED BY <2>1, <2>2, <2>3, NoSlotAssumption
<1> QED BY <1>1 DEF OwnerOf, Ownership!GiveBack

\* Taking an extent is a Take of one run of units nobody owned.
LEMMA Takes ==
    ASSUME IInv, IInv', NEW s \in Slots, Held(s) = NoExtent,
           NEW u \in UnitIndex, NEW n \in Nat \ {0}, NEW g,
           Held(s)' = [unit |-> u, units |-> n, generation |-> g],
           \A t \in Slots : t # s => Held(t)' = Held(t)
    PROVE  Ownership!Take(s)
<1>1. u + n <= PoolUnits /\ n \in 1 .. PoolUnits
  <2>1. Held(s)'.unit + Held(s)'.units <= PoolUnits
    BY DEF IInv, PoolOK, HeldExtentsInPool
  <2> QED BY <2>1, PoolUnitsAssumption DEF UnitIndex
<1>2. DOMAIN OwnerOf = UnitIndex /\ DOMAIN OwnerOf' = UnitIndex
  BY DEF OwnerOf
<1>3. \A x \in UnitIndex : OwnerOf[x] # s
  <2>1. \A x \in UnitIndex : ~ Within(x, Held(s).unit, Held(s).units)
    BY DEF NoExtent, Within, UnitIndex
  <2> QED BY <2>1, OwnerIsHolder DEF HoldersOwn
<1>4. Ownership!Owns(s) = {}
  BY <1>2, <1>3 DEF Ownership!Owns
<1>5. \A x \in UnitIndex : x \in Ownership!Run(u, n) <=> OwnerOf'[x] = s
  <2>1. \A x \in UnitIndex : x \in Ownership!Run(u, n) <=> Within(x, u, n)
    BY PoolUnitsAssumption DEF Ownership!Run, Within, UnitIndex
  <2>2. \A x \in UnitIndex : Within(x, Held(s)'.unit, Held(s)'.units)
                               <=> OwnerOf'[x] = s
    BY OwnerIsHolder, OwnerIsHolderNext DEF HoldersOwn
  <2> QED BY <2>1, <2>2
<1>6. ASSUME NEW x \in UnitIndex
      PROVE  /\ x \in Ownership!Run(u, n) => OwnerOf[x] = NoSlot
             /\ x \notin Ownership!Run(u, n) => OwnerOf'[x] = OwnerOf[x]
  <2>1. \A t \in Slots : t # s => ((OwnerOf'[x] = t) <=> (OwnerOf[x] = t))
    BY OwnerIsHolder, OwnerIsHolderNext DEF HoldersOwn
  <2>2. OwnerOf[x] \in Slots \union {NoSlot} /\ OwnerOf'[x] \in Slots \union {NoSlot}
    BY OwnerIsHolder, OwnerIsHolderNext DEF HoldersOwn
  <2> QED BY <1>3, <1>5, <2>1, <2>2, NoSlotAssumption
<1>7. Ownership!Run(u, n) \subseteq Ownership!Owns(NoSlot)
  <2>1. Ownership!Run(u, n) \subseteq UnitIndex
    BY <1>1, PoolUnitsAssumption DEF Ownership!Run, UnitIndex
  <2> QED BY <1>2, <1>6, <2>1 DEF Ownership!Owns
<1>8. OwnerOf' = [x \in DOMAIN OwnerOf |->
                    IF x \in Ownership!Run(u, n) THEN s ELSE OwnerOf[x]]
  <2>1. \A x \in UnitIndex :
          OwnerOf'[x] = IF x \in Ownership!Run(u, n) THEN s ELSE OwnerOf[x]
    BY <1>5, <1>6
  <2> QED BY <1>2, <2>1 DEF OwnerOf
<1> QED BY <1>1, <1>2, <1>4, <1>7, <1>8 DEF Ownership!Take

\* Every step of the Server is a step of the owners, or changes no owner.
LEMMA StepRefines ==
    ASSUME IInv, IInv', [Next]_vars
    PROVE  [Ownership!Next]_OwnerOf
<1> USE DEF IInv
<1>1. ASSUME NEW s \in Slots, EraseHostValue(s),
             receive.slot # s, receive'.slot \in {receive.slot, s},
             receive'.slot = s => receive'.extent = NoExtent,
             receive'.slot # s => receive' = receive,
             receive.slot \in Slots => FALSE
      PROVE  Ownership!Next
  <2>1. host_values' = [host_values EXCEPT ![s] = NoBacking]
    BY <1>1 DEF EraseHostValue
  <2>2. Held(s)' = NoExtent
    BY <1>1, <2>1 DEF Held, TypeOK, NoBacking
  <2>3. \A t \in Slots : t # s => Held(t)' = Held(t)
    BY <1>1, <2>1 DEF Held, TypeOK
  <2> QED BY <2>2, <2>3, GivesBack DEF Ownership!Next
<1>2. ASSUME NEW s \in Slots, Retire(s) \/ RemoveBacking(s) \/ ClearHostValue(s)
      PROVE  Ownership!Next
  BY <1>1, <1>2, NoSlotAssumption
     DEF Retire, RemoveBacking, ClearHostValue, ReceiveShape, NoReceive
<1>3. ASSUME NEW n \in 1 .. MaxValueUnits, ReserveMapped(n)
      PROVE  Ownership!Next
  <2>1. PICK s \in Slots : s = receive.slot /\ Held(s) = NoExtent
    BY <1>3 DEF ReserveMapped, ReceiveShape, Held
  <2>2. PICK u \in UnitIndex : receive' =
          [receive EXCEPT !.extent =
             [unit |-> u, units |-> n, generation |-> NextGeneration(s)]]
    BY <1>3, <2>1 DEF ReserveMapped
  <2>3. host_values' = host_values
    BY <1>3 DEF ReserveMapped
  <2>4. Held(s)' = [unit |-> u, units |-> n, generation |-> NextGeneration(s)]
    BY <2>1, <2>2 DEF Held, TypeOK
  <2>5. \A t \in Slots : t # s => Held(t)' = Held(t)
    BY <2>1, <2>2, <2>3 DEF Held, TypeOK
  <2>6. n \in Nat \ {0}
    BY <1>3, MaxValueUnitsAssumption
  <2> QED BY <2>1, <2>4, <2>5, <2>6, Takes DEF Ownership!Next
<1>4. CASE CancelReceive
  <2>1. PICK s \in Slots : s = receive.slot /\ host_values[s] = NoBacking
    BY <1>4 DEF CancelReceive, ReceiveShape
  <2>2. receive' = NoReceive /\ host_values' = host_values
    BY <1>4 DEF CancelReceive
  <2>3. Held(s)' = NoExtent /\ \A t \in Slots : t # s => Held(t)' = Held(t)
    BY <2>1, <2>2, NoSlotAssumption DEF Held, NoReceive, NoBacking
  <2> QED BY <2>3, GivesBack DEF Ownership!Next
<1>5. ASSUME \A t \in Slots : Held(t)' = Held(t) PROVE OwnerOf' = OwnerOf
  BY <1>5, KeepsOwners
<1>6. ASSUME NEW n \in 1 .. MaxValueUnits, ReserveHeap(n) PROVE OwnerOf' = OwnerOf
  BY <1>5, <1>6 DEF ReserveHeap, Held
<1>7. CASE FinishReceive
  BY <1>5, <1>7 DEF FinishReceive, Held
<1>8. CASE Store
  <2>1. PICK s \in Slots : s = receive.slot
    BY <1>8 DEF Store, ReceiveShape
  <2>2. host_values'[s].extent = receive.extent
    BY <1>8, <2>1 DEF Store, TypeOK, HeapBacking, MappedBacking, ExtentShape
  <2>3. \A t \in Slots : t # s => host_values'[t] = host_values[t]
    BY <1>8, <2>1 DEF Store, TypeOK
  <2>4. receive' = NoReceive
    BY <1>8 DEF Store
  <2>5. \A t \in Slots : Held(t)' = Held(t)
    BY <2>1, <2>2, <2>3, <2>4, NoSlotAssumption DEF Held, NoReceive
  <2> QED BY <1>5, <2>5
<1>9. CASE StopWorker
  <2>1. receive = NoReceive \/ (receive.extent = NoExtent /\ receive.slot \in Slots
                                /\ host_values[receive.slot] = NoBacking)
    BY <1>9 DEF StopWorker, ReceiveShape
  <2>2. receive' = NoReceive /\ host_values' = host_values
    BY <1>9 DEF StopWorker
  <2>3. \A t \in Slots : Held(t)' = Held(t)
    BY <2>1, <2>2, NoSlotAssumption DEF Held, NoReceive, NoBacking
  <2> QED BY <1>5, <2>3
<1>10. CASE ReleaseResources \/ UNCHANGED vars
  BY <1>5, <1>10 DEF ReleaseResources, vars, Held
<1> QED BY <1>2, <1>3, <1>4, <1>6, <1>7, <1>8, <1>9, <1>10 DEF Next

\* The allocator with its free list, metadata, cancellation and teardown
\* implements unit ownership: a slot takes one run of units nobody owns and
\* gives back exactly what it took.
THEOREM PoolImplementsOwnership == Spec => ImplementsOwnership
<1>1. Init => Ownership!Init
  <2> SUFFICES ASSUME Init PROVE Ownership!Init
    OBVIOUS
  <2>1. IInv
    BY InitInvariant
  <2>2. \A s \in Slots : \A x \in UnitIndex : ~ Within(x, Held(s).unit, Held(s).units)
    BY NoSlotAssumption
       DEF Init, Held, NoBacking, NoReceive, NoExtent, Within, UnitIndex
  <2>3. \A x \in UnitIndex : OwnerOf[x] = NoSlot
    BY <2>1, <2>2, OwnerIsHolder DEF HoldersOwn
  <2> QED BY <2>3 DEF OwnerOf, Ownership!Init, UnitIndex
<1> QED BY <1>1, PoolInvariant, StepRefines, PTL
        DEF Spec, ImplementsOwnership, Ownership!Spec
=============================================================================
