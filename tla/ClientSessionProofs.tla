------------------------ MODULE ClientSessionProofs ------------------------
(***************************************************************************)
(* The theorems about ClientSession, for any number of Clients, chips,     *)
(* threads and ring slots.                                                 *)
(*                                                                         *)
(* The invariant has two layers.  CallInv is about the calls: which locks  *)
(* a thread holds and on which Clients it has a transaction open.  Sessions*)
(* is about each Client and its chip: what a Client that was never         *)
(* answered, is in its handshake, is established or was closed may find in *)
(* the registry entry, the mailbox, the ring and among the messages under  *)
(* way.  Each action disturbs one Client of a chip; of the others of the   *)
(* chip it is enough to know that none of them lives.                      *)
(***************************************************************************)
EXTENDS ClientSession, Numbers, FiniteSetTheorems, FunctionTheorems,
        SequenceTheorems, TLAPS

(* The locks: a call holds some of its Clients, in increasing order and    *)
(* none of them twice; once it has them all it works on them.              *)
CallShape(t) ==
    LET k == call[t] IN
    /\ k.op = "none" => k.held = {}
    /\ k.held \subseteq On(t)
    /\ k.op # "none" =>
           /\ k.on # <<>> /\ k.count > 0
           /\ \A i, j \in DOMAIN k.on : i # j => k.on[i] # k.on[j]
           /\ IF k.step = "lock"
              THEN /\ k.held # On(t) /\ k.packet # "detach"
                   /\ \A c \in k.held, d \in On(t) \ k.held : c < d
              ELSE k.held = On(t)
           /\ k.op = "request" <=> k.packet = "request"
           /\ k.op \in {"close", "destroy"} => k.count = 1 /\ Len(k.on) = 1

LocksExclude ==
    \A t, u \in Threads : t # u => call[t].held \cap call[u].held = {}

Working(t) == call[t].op # "none" /\ call[t].step \in {"begun", "sent"}

(* A transaction is open only on Clients that are established.             *)
WorkIsEstablished ==
    \A t \in Threads : Working(t) =>
        \A c \in On(t) : cl[c].life = "Established"

Registered ==
    \A p \in Chips : reg[p].state = "Established" => reg[p].nonce # None

Tokened == \A c \in Clients : cl[c].life = "Established" => cl[c].token # 0

(* What the calls do, whatever the two sides of a session say.             *)
CallInv ==
    /\ TypeOK
    /\ \A t \in Threads : CallShape(t)
    /\ LocksExclude
    /\ WorkIsEstablished
    /\ Registered
    /\ Tokened

(* Clients are numbered: their addresses order the locks of                *)
(* get_parallel.                                                           *)
LEMMA ClientsAreNumbers ==
  Clients \in SUBSET Nat /\ \E b \in Nat : Clients = 1..b
BY ConstantsAssumption, FS_CardinalityType

----------------------------------------------------------------------------
(* Locks.                                                                  *)

(* The Clients of a call are the entries of its list.                      *)
LEMMA OnClients ==
  ASSUME TypeOK, NEW t \in Threads
  PROVE  /\ On(t) \subseteq Clients
         /\ \A c \in On(t) : \E i \in 1..Len(call[t].on) : call[t].on[i] = c
         /\ \A i \in 1..Len(call[t].on) : call[t].on[i] \in On(t)
<1>1. call[t].on \in Seq(Clients)
  BY DEF TypeOK, CallState
<1> QED
  BY <1>1 DEF On, Range

(* std::lock in pointer order: the next mutex is the first one not held.   *)
LEMMA NextIsFirst ==
  ASSUME TypeOK, NEW t \in Threads, CallShape(t), At(t, "lock")
  PROVE  /\ NextLock(t) \in On(t) \ call[t].held
         /\ NextLock(t) \in Clients
         /\ \A d \in On(t) \ call[t].held : NextLock(t) <= d
         /\ \A d \in call[t].held : d < NextLock(t)
<1> DEFINE S == On(t) \ call[t].held
<1>1. /\ call[t].held \subseteq On(t) /\ call[t].held # On(t)
      /\ \A c \in call[t].held, d \in On(t) \ call[t].held : c < d
  BY DEF CallShape, At
<1>2. S \in SUBSET Clients /\ S # {} /\ \A c \in call[t].held, d \in S : c < d
  BY <1>1, OnClients
<1>3. S \in SUBSET Nat
  BY <1>2, ClientsAreNumbers
<1>4. \E m \in S : \A n \in S : m <= n
  BY <1>2, <1>3, First
<1> HIDE DEF S
<1>5. NextLock(t) = CHOOSE c \in S : \A d \in S : c <= d
  BY DEF NextLock, S
<1>6. NextLock(t) \in S /\ \A d \in S : NextLock(t) <= d
  BY <1>4, <1>5
<1> QED
  BY <1>2, <1>6 DEF S

(* No circle of threads: the one that waits for the last Client would have *)
(* to wait for a thread that holds a later one.                            *)
LEMMA LocksHaveOrder == CallInv => NoWaitCycle
<1> SUFFICES ASSUME CallInv, NEW S \in (SUBSET Threads) \ {{}},
                    \A t \in S : At(t, "lock")
                                 /\ \E u \in S : NextLock(t) \in call[u].held
             PROVE  FALSE
  BY DEF NoWaitCycle
<1> DEFINE W == {NextLock(t) : t \in S}
<1>1. \A t \in S : /\ NextLock(t) \in Clients
                   /\ \A d \in call[t].held : d < NextLock(t)
  BY NextIsFirst DEF CallInv
<1>2. PICK b \in Nat : Clients = 1..b
  BY ClientsAreNumbers
<1>3. W \in SUBSET (1..b) /\ W # {}
  BY <1>1, <1>2
<1>4. PICK m \in W : \A n \in W : n <= m
  BY <1>3, Last
<1>5. PICK t \in S : m = NextLock(t)
  OBVIOUS
<1>6. PICK u \in S : m \in call[u].held
  BY <1>5
<1>7. m < NextLock(u) /\ NextLock(u) \in W
  BY <1>1, <1>6
<1>8. m \in 1..b /\ NextLock(u) \in 1..b
  BY <1>3, <1>7
<1> QED
  BY <1>4, <1>7, <1>8

(* Two calls that have all their locks have no Client in common.           *)
LEMMA WorkIsApart ==
  ASSUME TypeOK, LocksExclude, NEW t \in Threads, NEW u \in Threads, t # u,
         CallShape(t), CallShape(u),
         call[t].op # "none", call[t].step # "lock",
         call[u].op # "none", call[u].step # "lock"
  PROVE  On(t) \cap On(u) = {}
BY DEF CallShape, LocksExclude

----------------------------------------------------------------------------
(* Types, and what a step leaves of the calls.                             *)

(* The sizes are positive and None names nothing.                          *)
LEMMA ConstantTypes ==
  /\ RingSlots \in Nat /\ RingSlots > 1 /\ CursorModulus \in Nat \ {0}
  /\ Generations \in Nat \ {0} /\ InitialGeneration \in 0..Generations
  /\ Chip \in [Clients -> Chips]
  /\ None \notin Clients /\ None \notin Chips /\ None \notin Packets
BY ConstantsAssumption

(* A Client nobody constructed is a Client record.                         *)
LEMMA UnbornType == Unborn \in ClientState
BY ConstantTypes DEF Unborn, ClientState

(* What is left of a Client: its object and the number of its calls.       *)
LEMMA EndedClient ==
  ASSUME NEW r \in ClientState, NEW clean \in BOOLEAN
  PROVE  /\ Quarantined(r) \in ClientState
         /\ Released(r, clean) \in ClientState
         /\ Undone(r) \in ClientState
         /\ Quarantined(r).life = "Quarantined"
         /\ Quarantined(r).memory = "kept" /\ ~Quarantined(r).clean
         /\ Released(r, clean).life = "Closed"
         /\ Released(r, clean).memory = "freed"
         /\ Released(r, clean).clean = clean
         /\ Undone(r).life = "Failed"
         /\ Undone(r).memory = "freed" /\ ~Undone(r).clean
<1>1. r.object \in BOOLEAN /\ r.calls \in Nat
  BY DEF ClientState
<1>2. Unborn \in ClientState /\ ~Unborn.clean
  BY UnbornType DEF Unborn
<1>3. \A l \in {"Quarantined", "Closed", "Failed"}, m \in {"kept", "freed"} :
          /\ Ended(r, l, m) \in ClientState
          /\ Ended(r, l, m).life = l /\ Ended(r, l, m).memory = m
          /\ ~Ended(r, l, m).clean
  BY <1>1, <1>2 DEF Ended, ClientState
<1>4. /\ Released(r, clean) \in ClientState
      /\ Released(r, clean).life = "Closed"
      /\ Released(r, clean).memory = "freed"
      /\ Released(r, clean).clean = clean
  <2> DEFINE e == Ended(r, "Closed", "freed")
  <2>1. e \in ClientState /\ e.life = "Closed" /\ e.memory = "freed"
    BY <1>3
  <2>2. Released(r, clean) = [e EXCEPT !.clean = clean]
    BY DEF Released
  <2> HIDE DEF e
  <2> QED
    BY <2>1, <2>2 DEF ClientState
<1> QED
  BY <1>3, <1>4 DEF Quarantined, Undone

(* The ring slot after an advance or a restore is a ring slot.             *)
LEMMA SlotTypes ==
  ASSUME NEW r \in ClientState, NEW n \in 0..RingSlots
  PROVE  /\ Advanced(r, n) \in ClientState
         /\ Restored(r, n) \in ClientState
         /\ Advanced(r, n) = [r EXCEPT !.slot = Advanced(r, n).slot]
         /\ Restored(r, n) = [r EXCEPT !.slot = Restored(r, n).slot]
<1>1. r.slot \in 0..(RingSlots - 1)
  BY DEF ClientState
<1>2. /\ (r.slot + n) % RingSlots \in 0..(RingSlots - 1)
      /\ (r.slot + RingSlots - n) % RingSlots \in 0..(RingSlots - 1)
  <2>1. r.slot + n \in Nat /\ r.slot + RingSlots - n \in Nat
        /\ RingSlots \in Nat \ {0}
    BY <1>1, ConstantTypes
  <2> QED
    BY <2>1, ModRange
<1> DEFINE a == (r.slot + n) % RingSlots
           b == (r.slot + RingSlots - n) % RingSlots
<1>3. a \in 0..(RingSlots - 1) /\ b \in 0..(RingSlots - 1)
  BY <1>2
<1>4. Advanced(r, n) = [r EXCEPT !.slot = a]
      /\ Restored(r, n) = [r EXCEPT !.slot = b]
  BY DEF Advanced, Restored
<1> HIDE DEF a, b
<1> QED
  BY <1>3, <1>4 DEF ClientState

(* A thread between two calls holds nothing.                               *)
LEMMA IdleType ==
  /\ Idle \in CallState
  /\ Idle.op = "none" /\ Idle.held = {} /\ Idle.step = "lock"
BY ConstantTypes, EmptySeq DEF Idle, CallState

(* A step that changes no call and ends no session.                        *)
LEMMA CallsStay ==
  ASSUME CallInv, TypeOK', call' = call, Registered', Tokened',
         \A c \in Clients :
             cl[c].life = "Established" => cl'[c].life = "Established"
  PROVE  CallInv'
<1>1. \A t \in Threads : CallShape(t)'
  BY DEF CallInv, CallShape, On
<1>2. LocksExclude'
  BY DEF CallInv, LocksExclude
<1>3. WorkIsEstablished'
  BY OnClients DEF CallInv, WorkIsEstablished, Working, On
<1> QED
  BY <1>1, <1>2, <1>3 DEF CallInv

(* A step of one thread, on Clients whose locks it has.                    *)
LEMMA ThreadStep ==
  ASSUME CallInv, TypeOK', Registered', Tokened',
         NEW t \in Threads, NEW k,
         call' = [call EXCEPT ![t] = k],
         CallShape(t)',
         \A u \in Threads : u # t => k.held \cap call[u].held = {},
         \A c \in Clients : cl[c].life = "Established" =>
             cl'[c].life = "Established" \/ c \in call[t].held,
         Working(t)' => \A c \in On(t)' : cl'[c].life = "Established"
  PROVE  CallInv'
<1>0. DOMAIN call = Threads
  BY DEF CallInv, TypeOK
<1>1. call'[t] = k /\ \A u \in Threads : u # t => call'[u] = call[u]
  BY <1>0
<1>2. \A u \in Threads : CallShape(u)'
  BY <1>1 DEF CallInv, CallShape, On
<1>3. LocksExclude'
  BY <1>1 DEF CallInv, LocksExclude
<1>4. WorkIsEstablished'
  <2> SUFFICES ASSUME NEW u \in Threads, u # t, Working(u)', NEW c \in On(u)'
               PROVE  cl'[c].life = "Established"
    BY DEF WorkIsEstablished
  <2>1. Working(u) /\ c \in On(u) /\ c \in Clients
    BY <1>1, OnClients DEF Working, On, CallInv
  <2>2. cl[c].life = "Established" /\ c \in call[u].held
    BY <2>1 DEF CallInv, WorkIsEstablished, CallShape, Working
  <2>3. c \notin call[t].held
    BY <2>2 DEF CallInv, LocksExclude
  <2> QED
    BY <2>1, <2>2, <2>3
<1> QED
  BY <1>2, <1>3, <1>4 DEF CallInv

(* A step on one Client; the calls look on.                                *)
LEMMA OneClient ==
  ASSUME TypeOK, NEW c \in Clients, NEW r \in ClientState,
         cl' = [cl EXCEPT ![c] = r]
  PROVE  /\ cl' \in [Clients -> ClientState] /\ cl'[c] = r
         /\ \A d \in Clients : d # c => cl'[d] = cl[d]
BY DEF TypeOK

(* No call is under way before the first.                                  *)
LEMMA InitCalls == Init => CallInv
<1> SUFFICES ASSUME Init PROVE CallInv
  OBVIOUS
<1> DEFINE ring == [s \in 0..(RingSlots - 1) |-> None]
           g == [state |-> "Empty", nonce |-> None, gen |-> InitialGeneration,
                 boot |-> None, cursor |-> 0, ring |-> ring]
<1>1. ring \in [0..(RingSlots - 1) -> Packets \cup {None}]
  OBVIOUS
<1>2. g \in Registry
  <2> HIDE DEF ring
  <2> QED
    BY <1>1, ConstantTypes DEF Registry
<1>3. <<>> \in Seq(Message)
  BY EmptySeq
<1>4. /\ cl = [c \in Clients |-> Unborn] /\ keys = {}
      /\ call = [t \in Threads |-> Idle] /\ reg = [p \in Chips |-> g]
      /\ busy = None /\ down = [p \in Chips |-> <<>>]
      /\ fits \in [Clients -> BOOLEAN]
  BY DEF Init
<1> HIDE DEF g
<1>5. TypeOK
  BY <1>2, <1>3, <1>4, UnbornType, IdleType DEF TypeOK
<1>6. \A t \in Threads : CallShape(t)
  BY <1>4, IdleType, EmptySeq DEF CallShape
<1>7. LocksExclude /\ WorkIsEstablished
  BY <1>4, IdleType DEF LocksExclude, WorkIsEstablished, Working
<1>8. \A p \in Chips : reg[p].state = "Empty"
  BY <1>4 DEF g
<1>9. \A c \in Clients : cl[c].life = "Unborn"
  BY <1>4 DEF Unborn
<1> QED
  BY <1>5, <1>6, <1>7, <1>8, <1>9 DEF CallInv, Registered, Tokened

(* Construction.                                                           *)
LEMMA RefusedCalls ==
  ASSUME CallInv, NEW c \in Clients, Refused(c)
  PROVE  CallInv'
<1> DEFINE r == [cl[c] EXCEPT !.life = "Failed"]
<1>1. cl[c] \in ClientState /\ cl[c].life = "Unborn"
  BY DEF CallInv, TypeOK, Refused
<1>2. r \in ClientState /\ r.life = "Failed"
  BY <1>1 DEF ClientState
<1>3. /\ cl' = [cl EXCEPT ![c] = r]
      /\ UNCHANGED <<keys, call, reg, busy, down, fits>>
  BY DEF Refused
<1> HIDE DEF r
<1>4. cl' \in [Clients -> ClientState] /\ cl'[c].life = "Failed"
      /\ \A d \in Clients : d # c => cl'[d] = cl[d]
  BY <1>2, <1>3, OneClient DEF CallInv
<1>5. TypeOK' /\ Registered' /\ Tokened'
  BY <1>3, <1>4 DEF CallInv, TypeOK, Registered, Tokened
<1> QED
  BY <1>1, <1>3, <1>4, <1>5, CallsStay

(* The constructor registers its Client and disturbs no call.              *)
LEMMA ConstructCalls ==
  ASSUME CallInv, NEW c \in Clients, Construct(c)
  PROVE  CallInv'
<1> DEFINE r == IF Chip[c] \in keys
                THEN [cl[c] EXCEPT !.life = "Failed"]
                ELSE [cl[c] EXCEPT !.life = "Constructing", !.memory = "held"]
<1>1. cl[c] \in ClientState /\ cl[c].life = "Unborn"
  BY DEF CallInv, TypeOK, Construct
<1>2. r \in ClientState /\ r.life # "Established"
  BY <1>1 DEF ClientState
<1>3. /\ cl' = [cl EXCEPT ![c] = r]
      /\ UNCHANGED <<call, reg, busy, down, fits>>
      /\ keys' \subseteq keys \cup {Chip[c]}
  BY DEF Construct
<1> HIDE DEF r
<1>4. cl' \in [Clients -> ClientState] /\ cl'[c].life # "Established"
      /\ \A d \in Clients : d # c => cl'[d] = cl[d]
  BY <1>2, <1>3, OneClient DEF CallInv
<1>5. TypeOK' /\ Registered' /\ Tokened'
  BY <1>3, <1>4, ConstantTypes DEF CallInv, TypeOK, Registered, Tokened
<1> QED
  BY <1>1, <1>3, <1>4, <1>5, CallsStay

(* The steps of a Client under construction: what they have in common.     *)
LEMMA ConstructionCalls ==
  ASSUME CallInv, NEW c \in Clients, NEW r \in ClientState,
         cl[c].life = "Constructing",
         r.life = "Established" => r.token # 0,
         cl' = [cl EXCEPT ![c] = r],
         keys' \subseteq keys,
         reg' \in [Chips -> Registry], Registered',
         UNCHANGED <<call, busy, down, fits>>
  PROVE  CallInv'
<1>1. cl' \in [Clients -> ClientState] /\ cl'[c] = r
      /\ \A d \in Clients : d # c => cl'[d] = cl[d]
  BY OneClient DEF CallInv
<1>2. TypeOK' /\ Tokened'
  BY <1>1 DEF CallInv, TypeOK, Tokened
<1> QED
  BY <1>1, <1>2, CallsStay

(* So do its preparation and its retries.                                  *)
LEMMA AttemptCalls ==
  ASSUME CallInv, NEW c \in Clients, Attempt(c)
  PROVE  CallInv'
<1> DEFINE b == Started(cl[c])
           r == [b EXCEPT !.may = TRUE, !.attempts = cl[c].attempts + 1,
                          !.running = TRUE]
           g == [reg[Chip[c]] EXCEPT !.boot = c]
<1>1. /\ cl[c] \in ClientState /\ Chip[c] \in Chips
      /\ reg[Chip[c]] \in Registry
  BY ConstantTypes DEF CallInv, TypeOK
<1>2. b \in ClientState /\ b.life = cl[c].life
  BY <1>1 DEF Started, ClientState
<1>3. r \in ClientState /\ r.life = cl[c].life
  <2> HIDE DEF b
  <2>1. cl[c].attempts + 1 \in Nat
    BY <1>1 DEF ClientState
  <2> QED
    BY <1>2, <2>1 DEF ClientState
<1>4. g \in Registry /\ g.state = reg[Chip[c]].state
      /\ g.nonce = reg[Chip[c]].nonce
  BY <1>1 DEF Registry
<1>5. /\ cl[c].life = "Constructing"
      /\ reg' = [reg EXCEPT ![Chip[c]] = g]
      /\ UNCHANGED <<keys, call, busy, down, fits>>
  BY DEF Attempt
<1>6. cl' = [cl EXCEPT ![c] = r]
  BY DEF Attempt
<1> HIDE DEF r, g
<1>7. reg' \in [Chips -> Registry] /\ Registered'
  BY <1>1, <1>4, <1>5 DEF CallInv, TypeOK, Registered
<1> QED
  BY <1>3, <1>5, <1>6, <1>7, ConstructionCalls

(* The answers of the handshake disturb no call.                           *)
LEMMA HandshakeCalls ==
  ASSUME CallInv, NEW c \in Clients,
         PrepareFails(c) \/ TimedOut(c) \/ Accept(c) \/ Reject(c)
             \/ OutcomeUnknown(c)
  PROVE  CallInv'
<1>1. /\ cl[c] \in ClientState /\ cl[c].life = "Constructing"
      /\ UNCHANGED <<call, reg, busy, down, fits>>
      /\ keys' \subseteq keys
  BY DEF CallInv, TypeOK, PrepareFails, TimedOut, Accept, Reject,
         OutcomeUnknown, Responded
<1>2. reg' \in [Chips -> Registry] /\ Registered'
  BY <1>1 DEF CallInv, TypeOK, Registered
<1>3. \E r \in ClientState : /\ cl' = [cl EXCEPT ![c] = r]
                             /\ r.life = "Established" => r.token # 0
  <2>1. CASE PrepareFails(c)
    BY <2>1, <1>1, EndedClient DEF PrepareFails
  <2>2. CASE TimedOut(c)
    <3> DEFINE r == [cl[c] EXCEPT !.running = FALSE]
    <3>1. r \in ClientState /\ r.life = cl[c].life
      BY <1>1 DEF ClientState
    <3>2. cl' = [cl EXCEPT ![c] = r]
      BY <2>2 DEF TimedOut
    <3> HIDE DEF r
    <3> QED
      BY <1>1, <3>1, <3>2
  <2>3. CASE Accept(c)
    <3> DEFINE r == [cl[c] EXCEPT
                 !.life = "Established", !.object = TRUE, !.may = FALSE,
                 !.running = FALSE, !.sem = 0, !.token = cl[c].answer,
                 !.slot = 0]
    <3>1. cl[c].answer # 0 /\ cl' = [cl EXCEPT ![c] = r]
      BY <2>3 DEF Accept
    <3>2. cl[c].answer \in 0..Generations /\ 0 \in 0..(RingSlots - 1)
      BY <1>1, ConstantTypes DEF ClientState
    <3>3. r \in ClientState /\ r.token # 0
      BY <1>1, <3>1, <3>2 DEF ClientState
    <3> HIDE DEF r
    <3> QED
      BY <3>1, <3>3
  <2>4. CASE Reject(c)
    BY <2>4, <1>1, EndedClient DEF Reject
  <2>5. CASE OutcomeUnknown(c)
    BY <2>5, <1>1, EndedClient DEF OutcomeUnknown
  <2> QED
    BY <2>1, <2>2, <2>3, <2>4, <2>5
<1> QED
  BY <1>1, <1>2, <1>3, ConstructionCalls

(* Calls.                                                                  *)
LEMMA EnterCalls ==
  ASSUME CallInv, NEW t \in Threads, NEW on \in Seq(Clients),
         NEW op \in {"request", "close", "destroy"},
         NEW count \in 1..RingSlots, on # <<>>,
         \A i, j \in DOMAIN on : i # j => on[i] # on[j],
         op # "request" => count = 1 /\ Len(on) = 1,
         Enter(t, op, on, count)
  PROVE  CallInv'
<1> DEFINE packet == IF op = "request" THEN "request" ELSE "barrier"
           k == [Idle EXCEPT !.op = op, !.on = on, !.count = count,
                             !.packet = packet]
           next(c) == [cl[c] EXCEPT !.calls = cl[c].calls + 1,
                                    !.object = op # "destroy"]
<1>1. packet \in {"request", "barrier"} /\ (packet = "request" <=> op = "request")
  OBVIOUS
<1>2. k \in CallState /\ k.op = op /\ k.on = on /\ k.count = count
      /\ k.held = {} /\ k.step = "lock" /\ k.packet = packet
  <2> HIDE DEF packet
  <2>1. count \in 0..RingSlots
    BY ConstantTypes
  <2>2. k \in CallState
    BY <1>1, <2>1, IdleType DEF CallState
  <2>3. /\ k.op = op /\ k.on = on /\ k.count = count
        /\ k.held = {} /\ k.step = "lock" /\ k.packet = packet
    BY IdleType DEF CallState
  <2> QED
    BY <2>2, <2>3
<1>3. \A c \in Clients : /\ cl[c] \in ClientState
                         /\ next(c) \in ClientState
                         /\ next(c).life = cl[c].life
                         /\ next(c).token = cl[c].token
  <2> SUFFICES ASSUME NEW c \in Clients
               PROVE  /\ cl[c] \in ClientState
                      /\ next(c) \in ClientState
                      /\ next(c).life = cl[c].life
                      /\ next(c).token = cl[c].token
    OBVIOUS
  <2>1. cl[c] \in ClientState
    BY DEF CallInv, TypeOK
  <2>2. cl[c].calls + 1 \in Nat
    BY <2>1 DEF ClientState
  <2> QED
    BY <2>1, <2>2 DEF ClientState
<1>4. /\ call[t].op = "none" /\ call' = [call EXCEPT ![t] = k]
      /\ cl' = [c \in Clients |->
                   IF c \in Range(on) THEN next(c) ELSE cl[c]]
      /\ UNCHANGED <<keys, reg, busy, down, fits>>
  BY DEF Enter
<1> HIDE DEF k, next, packet
<1>5. /\ cl' \in [Clients -> ClientState]
      /\ \A c \in Clients : cl'[c].life = cl[c].life /\ cl'[c].token = cl[c].token
  BY <1>3, <1>4
<1>6. call \in [Threads -> CallState] /\ call' \in [Threads -> CallState]
      /\ call'[t] = k
  BY <1>2, <1>4 DEF CallInv, TypeOK
<1>7. TypeOK'
  BY <1>4, <1>5, <1>6 DEF CallInv, TypeOK
<1>8. Registered' /\ Tokened'
  BY <1>4, <1>5 DEF CallInv, Registered, Tokened
<1>9. CallShape(t)'
  <2>1. On(t)' = Range(on) /\ Range(on) # {}
    BY <1>2, <1>6, EmptySeq DEF On, Range
  <2>2. count > 0
    BY ConstantTypes
  <2> QED
    BY <1>1, <1>2, <1>6, <2>1, <2>2 DEF CallShape
<1>10. ~Working(t)'
  BY <1>2, <1>6 DEF Working
<1> QED
  BY <1>2, <1>4, <1>5, <1>7, <1>8, <1>9, <1>10, ThreadStep

(* A call begins with no lock and with Clients that differ.                *)
LEMMA BeginsCalls ==
  ASSUME CallInv, NEW t \in Threads,
         \/ \E c \in Clients : Request(t, c) \/ Close(t, c) \/ Destroy(t, c)
         \/ GetParallel(t)
  PROVE  CallInv'
<1>1. 1 \in 1..RingSlots
  BY ConstantTypes
<1>2. ASSUME NEW c \in Clients
      PROVE  /\ <<c>> \in Seq(Clients) /\ <<c>> # <<>> /\ Len(<<c>>) = 1
             /\ \A i, j \in DOMAIN <<c>> : i # j => <<c>>[i] # <<c>>[j]
  OBVIOUS
<1>3. ASSUME NEW c \in Clients, Request(t, c)
      PROVE  CallInv'
  <2>1. PICK n \in 1..MaxBatch[c] : Enter(t, "request", <<c>>, n)
    BY <1>3 DEF Request
  <2>2. MaxBatch[c] \in 1..RingSlots
    BY ConstantsAssumption
  <2>3. n \in 1..RingSlots
    BY <2>2, ConstantTypes
  <2> QED
    BY <1>2, <2>1, <2>3, EnterCalls
<1>4. ASSUME NEW c \in Clients, Close(t, c)
      PROVE  CallInv'
  BY <1>1, <1>2, <1>4, EnterCalls DEF Close
<1>5. ASSUME NEW c \in Clients, Destroy(t, c)
      PROVE  CallInv'
  BY <1>1, <1>2, <1>5, EnterCalls DEF Destroy
<1>6. ASSUME GetParallel(t)
      PROVE  CallInv'
  <2>1. PICK on \in Parallel : Enter(t, "request", on, 1)
    BY <1>6 DEF GetParallel
  <2>2. /\ on \in Seq(Clients) /\ on # <<>>
        /\ \A i, j \in DOMAIN on : i # j => on[i] # on[j]
    BY ConstantsAssumption
  <2> QED
    BY <1>1, <2>1, <2>2, EnterCalls
<1> QED
  BY <1>3, <1>4, <1>5, <1>6

(* A call takes the first mutex it does not hold, in pointer order.        *)
LEMMA LockCalls ==
  ASSUME CallInv, NEW t \in Threads, Lock(t)
  PROVE  CallInv'
<1> DEFINE held == call[t].held \cup {NextLock(t)}
           step == IF held = On(t) THEN "begin" ELSE "lock"
           k == [call[t] EXCEPT !.held = held, !.step = step]
<1>1. /\ call[t].op # "none" /\ call[t].step = "lock"
      /\ \A u \in Threads : NextLock(t) \notin call[u].held
      /\ UNCHANGED <<cl, keys, reg, busy, down, fits>>
  BY DEF Lock
<1>2. call' = [call EXCEPT ![t] = k]
  BY DEF Lock
<1>3. call[t] \in CallState /\ CallShape(t)
  BY DEF CallInv, TypeOK
<1>4. /\ NextLock(t) \in On(t) \ call[t].held /\ NextLock(t) \in Clients
      /\ \A d \in On(t) \ call[t].held : NextLock(t) <= d
      /\ \A d \in call[t].held : d < NextLock(t)
      /\ On(t) \subseteq Clients
  BY <1>1, <1>3, NextIsFirst, OnClients DEF CallInv, At
<1>5. held \in SUBSET Clients /\ step \in {"lock", "begin"}
      /\ (step = "begin" <=> held = On(t))
  BY <1>3, <1>4 DEF CallState
<1>6. k \in CallState /\ k.held = held /\ k.step = step
      /\ k.op = call[t].op /\ k.on = call[t].on /\ k.count = call[t].count
      /\ k.packet = call[t].packet
  <2> HIDE DEF held, step
  <2> QED
    BY <1>3, <1>5 DEF CallState
<1>7. \A u \in Threads : u # t => held \cap call[u].held = {}
  BY <1>1 DEF CallInv, LocksExclude
<1>8. \A c \in held, d \in On(t) \ held : c < d
  <2>1. ASSUME NEW c \in held, NEW d \in On(t) \ held
        PROVE  c < d
    <3>1. d \in On(t) \ call[t].held /\ d # NextLock(t) /\ d \in Nat
          /\ NextLock(t) \in Nat
      BY <1>4, <2>1, ClientsAreNumbers
    <3>2. CASE c = NextLock(t)
      BY <3>1, <3>2, <1>4
    <3>3. CASE c \in call[t].held
      BY <3>1, <3>3, <1>3, <1>1 DEF CallShape
    <3> QED
      BY <2>1, <3>2, <3>3
  <2> QED
    BY <2>1
<1>9. call' \in [Threads -> CallState] /\ call'[t] = k
  <2> HIDE DEF k
  <2> QED
    BY <1>2, <1>6 DEF CallInv, TypeOK
<1>10. TypeOK' /\ Registered' /\ Tokened'
  BY <1>1, <1>9 DEF CallInv, TypeOK, Registered, Tokened
<1>11. CallShape(t)'
  <2>1. On(t)' = On(t)
    BY <1>6, <1>9 DEF On
  <2>2. call'[t].held \subseteq On(t)
    BY <1>3, <1>4, <1>6, <1>9 DEF CallShape
  <2> HIDE DEF held, step, k
  <2> QED
    BY <1>1, <1>3, <1>5, <1>6, <1>8, <1>9, <2>1, <2>2 DEF CallShape
<1>12. ~Working(t)'
  BY <1>5, <1>6, <1>9 DEF Working
<1> HIDE DEF k
<1> QED
  BY <1>1, <1>2, <1>6, <1>7, <1>10, <1>11, <1>12, ThreadStep

(* A thread at work holds the locks of all its Clients.                    *)
LEMMA HoldsAll ==
  ASSUME CallInv, NEW t \in Threads, call[t].op # "none",
         call[t].step # "lock"
  PROVE  /\ call[t].held = On(t) /\ On(t) \subseteq Clients
         /\ call[t] \in CallState /\ call[t].count \in 1..RingSlots
         /\ \A c \in On(t) : Working(t) => cl[c].life = "Established"
         /\ \A c \in Clients : cl[c] \in ClientState
<1>1. call[t] \in CallState /\ CallShape(t)
  BY DEF CallInv, TypeOK
<1>2. call[t].count \in 1..RingSlots
  BY <1>1, ConstantTypes DEF CallState, CallShape
<1>3. call[t].held = On(t) /\ On(t) \subseteq Clients
  BY <1>1, OnClients DEF CallShape, CallInv
<1> QED
  BY <1>1, <1>2, <1>3 DEF CallInv, TypeOK, WorkIsEstablished

(* A call that returns gives back the locks it holds.                      *)
LEMMA ReturnCalls ==
  ASSUME CallInv, NEW t \in Threads, Return(t),
         call[t].op # "none", call[t].step # "lock",
         cl' \in [Clients -> ClientState], keys' \subseteq keys,
         UNCHANGED <<reg, busy, down, fits>>,
         \A c \in Clients : cl'[c].life = "Established" => cl'[c].token # 0,
         \A c \in Clients : c \notin On(t) => cl'[c].life = cl[c].life
  PROVE  CallInv'
<1>1. call' = [call EXCEPT ![t] = Idle]
  BY DEF Return
<1>2. call' \in [Threads -> CallState] /\ call'[t] = Idle
  BY <1>1, IdleType DEF CallInv, TypeOK
<1>3. TypeOK' /\ Registered' /\ Tokened'
  BY <1>2 DEF CallInv, TypeOK, Registered, Tokened
<1>4. CallShape(t)' /\ ~Working(t)'
  BY <1>2, IdleType DEF CallShape, Working
<1>5. call[t].held = On(t)
  BY HoldsAll
<1> QED
  BY <1>1, <1>3, <1>4, <1>5, IdleType, ThreadStep

(* A call that finds a Client not established gives them back too.         *)
LEMMA TurnedAwayCalls ==
  ASSUME CallInv, NEW t \in Threads, TurnedAway(t)
  PROVE  CallInv'
<1>1. call[t].op # "none" /\ call[t].step # "lock" /\ Return(t)
      /\ UNCHANGED <<cl, keys, reg, busy, down, fits>>
  BY DEF TurnedAway, At
<1> QED
  BY <1>1, ReturnCalls DEF CallInv, TypeOK, Tokened

(* The step of a transaction that leaves its thread at work or in a close. *)
LEMMA ProgressCalls ==
  ASSUME CallInv, NEW t \in Threads,
         call[t].op # "none", call[t].step # "lock",
         NEW step \in {"begin", "begun", "sent"},
         NEW packet \in {"request", "barrier", "detach"},
         packet = "request" <=> call[t].packet = "request",
         call' = [call EXCEPT ![t] = [call[t] EXCEPT !.step = step,
                                                     !.packet = packet]],
         cl' \in [Clients -> ClientState],
         reg' \in [Chips -> Registry], Registered',
         UNCHANGED <<keys, busy, down, fits>>,
         \A c \in Clients : /\ cl'[c].life = cl[c].life
                            /\ cl'[c].token = cl[c].token,
         \A c \in On(t) : cl[c].life = "Established"
  PROVE  CallInv'
<1> DEFINE k == [call[t] EXCEPT !.step = step, !.packet = packet]
<1>1. /\ call[t].held = On(t) /\ On(t) \subseteq Clients
      /\ call[t] \in CallState /\ CallShape(t)
  BY HoldsAll DEF CallInv
<1>2. k \in CallState /\ k.held = call[t].held /\ k.step = step
      /\ k.op = call[t].op /\ k.on = call[t].on /\ k.count = call[t].count
      /\ k.packet = packet
  BY <1>1 DEF CallState
<1>3. call' = [call EXCEPT ![t] = k]
  OBVIOUS
<1> HIDE DEF k
<1>4. call' \in [Threads -> CallState] /\ call'[t] = k
  BY <1>2, <1>3 DEF CallInv, TypeOK
<1>5. TypeOK' /\ Tokened'
  BY <1>4 DEF CallInv, TypeOK, Tokened
<1>6. On(t)' = On(t)
  BY <1>2, <1>4 DEF On
<1>7. CallShape(t)'
  BY <1>1, <1>2, <1>4, <1>6 DEF CallShape
<1>8. \A u \in Threads : u # t => k.held \cap call[u].held = {}
  BY <1>2 DEF CallInv, LocksExclude
<1>9. /\ \A c \in On(t)' : cl'[c].life = "Established"
      /\ \A c \in Clients : cl[c].life = "Established" =>
             cl'[c].life = "Established" \/ c \in call[t].held
  BY <1>1, <1>6
<1> QED
  BY <1>3, <1>5, <1>7, <1>8, <1>9, ThreadStep

(* A call with all its locks opens a transaction on each of its Clients.   *)
LEMMA BeginCalls ==
  ASSUME CallInv, NEW t \in Threads, Begin(t)
  PROVE  CallInv'
<1>1. /\ call[t].op # "none" /\ call[t].step # "lock"
      /\ \A c \in On(t) : cl[c].life = "Established"
      /\ cl' = [c \in Clients |->
            IF c \in On(t) THEN Advanced(cl[c], call[t].count) ELSE cl[c]]
      /\ call' = [call EXCEPT ![t].step = "begun"]
      /\ UNCHANGED <<keys, reg, busy, down, fits>>
  BY DEF Begin, At
<1>2. /\ call[t] \in CallState /\ call[t].count \in 0..RingSlots
      /\ \A c \in Clients : cl[c] \in ClientState
  BY <1>1, HoldsAll DEF CallState
<1>3. ASSUME NEW c \in Clients
      PROVE  LET r == Advanced(cl[c], call[t].count) IN
             /\ r \in ClientState /\ r.life = cl[c].life
             /\ r.token = cl[c].token
  <2> DEFINE r == Advanced(cl[c], call[t].count)
  <2>1. r \in ClientState /\ r = [cl[c] EXCEPT !.slot = r.slot]
    BY <1>2, SlotTypes
  <2>2. cl[c] \in ClientState
    BY <1>2
  <2> HIDE DEF r
  <2>3. r.life = cl[c].life /\ r.token = cl[c].token
    BY <2>1, <2>2 DEF ClientState
  <2> QED
    BY <2>1, <2>3 DEF r
<1>4. /\ cl' \in [Clients -> ClientState]
      /\ \A c \in Clients : /\ cl'[c].life = cl[c].life
                            /\ cl'[c].token = cl[c].token
  BY <1>1, <1>2, <1>3
<1>5. call' = [call EXCEPT ![t] = [call[t] EXCEPT !.step = "begun",
                                          !.packet = call[t].packet]]
  BY <1>1, <1>2 DEF CallState
<1>6. reg' \in [Chips -> Registry] /\ Registered'
  BY <1>1 DEF CallInv, TypeOK, Registered
<1>7. call[t].packet \in {"request", "barrier", "detach"}
  BY <1>2 DEF CallState
<1> QED
  BY <1>1, <1>4, <1>5, <1>6, <1>7, ProgressCalls

(* Rolling back, or failing to enqueue or after it.                        *)
LEMMA RollBackCalls ==
  ASSUME CallInv, NEW t \in Threads, RollBack(t)
  PROVE  CallInv'
<1> DEFINE back(c) == Restored(cl[c], call[t].count)
           after(c) ==
               IF call[t].packet = "detach" THEN Quarantined(back(c))
               ELSE IF call[t].op = "destroy" THEN Released(back(c), FALSE)
               ELSE back(c)
<1>1. /\ call[t].op # "none" /\ call[t].step # "lock" /\ Return(t)
      /\ keys' \subseteq keys
      /\ cl' = [c \in Clients |-> IF c \in On(t) THEN after(c) ELSE cl[c]]
      /\ UNCHANGED <<reg, busy, down, fits>>
  BY DEF RollBack, At
<1>2. /\ call[t] \in CallState /\ call[t].count \in 0..RingSlots
      /\ \A c \in Clients : cl[c] \in ClientState
      /\ On(t) \subseteq Clients
  BY <1>1, HoldsAll DEF CallState
<1>3. ASSUME NEW c \in Clients
      PROVE  /\ back(c) \in ClientState
             /\ back(c).life = cl[c].life /\ back(c).token = cl[c].token
  <2> DEFINE r == back(c)
  <2>1. r \in ClientState /\ r = [cl[c] EXCEPT !.slot = r.slot]
    BY <1>2, SlotTypes
  <2>2. cl[c] \in ClientState
    BY <1>2
  <2> HIDE DEF r
  <2>3. r.life = cl[c].life /\ r.token = cl[c].token
    BY <2>1, <2>2 DEF ClientState
  <2> QED
    BY <2>1, <2>3 DEF r
<1> HIDE DEF back
<1>4. ASSUME NEW c \in Clients
      PROVE  /\ after(c) \in ClientState
             /\ after(c).life = "Established" =>
                    after(c).life = cl[c].life /\ after(c).token = cl[c].token
  <2>1. CASE call[t].packet = "detach"
    BY <2>1, <1>3, EndedClient
  <2>2. CASE call[t].packet # "detach" /\ call[t].op = "destroy"
    BY <2>2, <1>3, EndedClient
  <2>3. CASE call[t].packet # "detach" /\ call[t].op # "destroy"
    BY <2>3, <1>3
  <2> QED
    BY <2>1, <2>2, <2>3
<1> HIDE DEF after
<1>5. /\ cl' \in [Clients -> ClientState]
      /\ \A c \in Clients :
            cl'[c].life = "Established" => cl'[c].token # 0
      /\ \A c \in Clients : c \notin On(t) => cl'[c].life = cl[c].life
  BY <1>1, <1>2, <1>4 DEF CallInv, Tokened
<1> QED
  BY <1>1, <1>5, ReturnCalls

(* A call that fails may quarantine any of its Clients before it           *)
(* returns.                                                                *)
LEMMA SomeQuarantinedCalls ==
  ASSUME CallInv, NEW t \in Threads, NEW Q \in SUBSET On(t),
         call[t].op # "none", call[t].step # "lock", Return(t),
         cl' = [c \in Clients |-> IF c \in Q THEN Quarantined(cl[c]) ELSE cl[c]],
         UNCHANGED <<keys, reg, busy, down, fits>>
  PROVE  CallInv'
<1>1. \A c \in Clients : cl[c] \in ClientState
  BY HoldsAll
<1>2. /\ cl' \in [Clients -> ClientState]
      /\ \A c \in Clients :
            cl'[c].life = "Established" => cl'[c].token # 0
      /\ \A c \in Clients : c \notin On(t) => cl'[c].life = cl[c].life
  BY <1>1, EndedClient DEF CallInv, Tokened
<1> QED
  BY <1>2, ReturnCalls

(* Every way an operation fails keeps the calls in order.                  *)
LEMMA FailingCalls ==
  ASSUME CallInv, NEW t \in Threads, EnqueueFails(t) \/ FailAfterEnqueue(t)
  PROVE  CallInv'
<1>1. call[t].op # "none" /\ call[t].step # "lock" /\ Return(t)
      /\ UNCHANGED <<keys, reg, busy, down, fits>>
  BY DEF EnqueueFails, FailAfterEnqueue, At
<1>2. \E Q \in SUBSET On(t) :
        cl' = [c \in Clients |->
                  IF c \in Q THEN Quarantined(cl[c]) ELSE cl[c]]
  <2>1. CASE EnqueueFails(t)
    BY <2>1 DEF EnqueueFails
  <2>2. CASE FailAfterEnqueue(t)
    <3>1. PICK k \in 0..(Len(call[t].on) - 1) :
            cl' = [c \in Clients |->
                IF c \in {call[t].on[i] : i \in (k + 1)..Len(call[t].on)}
                THEN Quarantined(cl[c]) ELSE cl[c]]
      BY <2>2 DEF FailAfterEnqueue
    <3>2. call[t].on \in Seq(Clients)
      BY DEF CallInv, TypeOK, CallState
    <3> DEFINE Q == {call[t].on[i] : i \in (k + 1)..Len(call[t].on)}
    <3>3. Q \subseteq On(t)
      BY <3>2, OnClients DEF CallInv
    <3> QED
      BY <3>1, <3>3
  <2> QED
    BY <1>1, <2>1, <2>2
<1> QED
  BY <1>1, <1>2, SomeQuarantinedCalls

(* The ring of the chip after the kernels of a call have sent its packets. *)
LEMMA SubmitCalls ==
  ASSUME CallInv, NEW t \in Threads, Submit(t)
  PROVE  CallInv'
<1> DEFINE here(p) == {c \in On(t) : Chip[c] = p}
           d(p) == CHOOSE c \in here(p) : TRUE
           ring(p) == [s \in 0..(RingSlots - 1) |->
                         IF s \in Taken(d(p), call[t].count)
                         THEN [token |-> cl[d(p)].token, op |-> call[t].packet]
                         ELSE reg[p].ring[s]]
           g(p) == IF here(p) = {} THEN reg[p]
                   ELSE [reg[p] EXCEPT !.ring = ring(p)]
           r(c) == IF c \in On(t) THEN [cl[c] EXCEPT !.recv = 0] ELSE cl[c]
<1>1. /\ call[t].op # "none" /\ call[t].step = "begun"
      /\ reg' = [p \in Chips |-> g(p)]
      /\ cl' = [c \in Clients |-> r(c)]
      /\ call' = [call EXCEPT ![t].step = "sent"]
      /\ UNCHANGED <<keys, busy, down, fits>>
  BY DEF Submit, At
<1>2. /\ call[t] \in CallState /\ On(t) \subseteq Clients
      /\ \A c \in Clients : cl[c] \in ClientState
      /\ \A c \in On(t) : cl[c].life = "Established"
  BY <1>1, HoldsAll DEF Working
<1>3. \A c \in On(t) : cl[c].token \in 1..Generations
  BY <1>2 DEF CallInv, Tokened, ClientState
<1>4. ASSUME NEW p \in Chips
      PROVE  /\ g(p) \in Registry
             /\ g(p).state = reg[p].state /\ g(p).nonce = reg[p].nonce
  <2>1. reg[p] \in Registry
    BY DEF CallInv, TypeOK
  <2>2. CASE here(p) = {}
    BY <2>1, <2>2
  <2>3. CASE here(p) # {}
    <3>1. d(p) \in On(t)
      BY <2>3
    <3>2. [token |-> cl[d(p)].token, op |-> call[t].packet] \in Packets
      BY <3>1, <1>2, <1>3 DEF Packets, CallState
    <3>3. ring(p) \in [0..(RingSlots - 1) -> Packets \cup {None}]
      BY <2>1, <3>2 DEF Registry
    <3>4. g(p) = [reg[p] EXCEPT !.ring = ring(p)]
      BY <2>3
    <3> HIDE DEF ring, g
    <3> QED
      BY <2>1, <3>3, <3>4 DEF Registry
  <2> QED
    BY <2>2, <2>3
<1>5. ASSUME NEW c \in Clients
      PROVE  r(c) \in ClientState /\ r(c).life = cl[c].life
             /\ r(c).token = cl[c].token
  <2>1. cl[c] \in ClientState
    BY <1>2
  <2> QED
    BY <2>1 DEF ClientState
<1> HIDE DEF g, r
<1>6. /\ cl' \in [Clients -> ClientState]
      /\ \A c \in Clients : /\ cl'[c].life = cl[c].life
                            /\ cl'[c].token = cl[c].token
  BY <1>1, <1>5
<1>7. reg' \in [Chips -> Registry] /\ Registered'
  BY <1>1, <1>4 DEF CallInv, Registered
<1>8. call' = [call EXCEPT ![t] = [call[t] EXCEPT !.step = "sent",
                                          !.packet = call[t].packet]]
  BY <1>1, <1>2 DEF CallState
<1>9. call[t].packet \in {"request", "barrier", "detach"}
  BY <1>2 DEF CallState
<1> QED
  BY <1>1, <1>2, <1>6, <1>7, <1>8, <1>9, ProgressCalls

(* So does every way it completes.                                         *)
LEMMA CompleteCalls ==
  ASSUME CallInv, NEW t \in Threads, Complete(t)
  PROVE  CallInv'
<1>1. /\ call[t].op # "none" /\ call[t].step = "sent"
      /\ UNCHANGED <<reg, busy, down, fits>>
  BY DEF Complete, At
<1>2. /\ call[t] \in CallState /\ On(t) \subseteq Clients
      /\ \A c \in Clients : cl[c] \in ClientState
      /\ \A c \in On(t) : cl[c].life = "Established"
  BY <1>1, HoldsAll DEF Working
<1>3. CASE call[t].packet = "request"
  <2>1. Return(t) /\ UNCHANGED <<cl, keys>>
    BY <1>3 DEF Complete
  <2> QED
    BY <2>1, <1>1, ReturnCalls DEF CallInv, TypeOK, Tokened
<1>4. CASE call[t].packet = "barrier"
  <2>1. /\ call' = [call EXCEPT ![t].packet = "detach", ![t].step = "begin"]
        /\ UNCHANGED <<cl, keys>>
    BY <1>4 DEF Complete
  <2>2. call' = [call EXCEPT ![t] = [call[t] EXCEPT !.step = "begin",
                                          !.packet = "detach"]]
    BY <2>1, <1>2 DEF CallState
  <2>3. /\ reg' \in [Chips -> Registry] /\ Registered'
        /\ cl' \in [Clients -> ClientState]
    BY <2>1, <1>1 DEF CallInv, TypeOK, Registered
  <2> QED
    BY <2>1, <2>2, <2>3, <1>1, <1>2, <1>4, ProgressCalls
<1>5. CASE call[t].packet \notin {"request", "barrier"}
  <2>1. /\ cl' = [c \in Clients |->
              IF c \in On(t) THEN Released(cl[c], TRUE) ELSE cl[c]]
        /\ keys' \subseteq keys /\ Return(t)
    BY <1>5 DEF Complete
  <2>2. /\ cl' \in [Clients -> ClientState]
        /\ \A c \in Clients :
              cl'[c].life = "Established" => cl'[c].token # 0
        /\ \A c \in Clients : c \notin On(t) => cl'[c].life = cl[c].life
    BY <2>1, <1>2, EndedClient DEF CallInv, Tokened
  <2> QED
    BY <2>1, <2>2, <1>1, ReturnCalls
<1> QED
  BY <1>3, <1>4, <1>5

(* The Server and the Fabric.                                              *)
LEMMA ServerCalls ==
  ASSUME CallInv, UNCHANGED <<cl, keys, call, fits>>,
         reg' \in [Chips -> Registry], Registered',
         busy' \in Chips \cup {None},
         down' \in [Chips -> Seq(Message)]
  PROVE  CallInv'
<1>1. TypeOK' /\ Tokened'
  BY DEF CallInv, TypeOK, Tokened
<1> QED
  BY <1>1, CallsStay

(* What the chip answers a Client is a message.                            *)
LEMMA ResponseType ==
  ASSUME NEW c \in Clients, NEW gen \in 0..Generations,
         NEW kind \in {"config", "response", "reply"}
  PROVE  [to |-> c, kind |-> kind, answer |-> gen] \in Message
BY DEF Message

(* A generation is a number of the mask again, and never 0.                *)
LEMMA GenerationType ==
  ASSUME NEW g \in 0..Generations
  PROVE  NextGeneration(g) \in 1..Generations
         /\ NextGeneration(g) \in 0..Generations
BY ConstantTypes DEF NextGeneration

(* A message sent goes to the end of its own chip's channel.               *)
LEMMA SentType ==
  ASSUME TypeOK, NEW p \in Chips, NEW m \in Message,
         down' = [down EXCEPT ![p] = Append(down[p], m)]
  PROVE  down' \in [Chips -> Seq(Message)]
         /\ down'[p] = Append(down[p], m)
         /\ \A q \in Chips : q # p => down'[q] = down[q]
<1>1. down \in [Chips -> Seq(Message)] /\ down[p] \in Seq(Message)
  BY DEF TypeOK
<1>2. Append(down[p], m) \in Seq(Message)
  BY <1>1, AppendProperties
<1> QED
  BY <1>1, <1>2

(* handle_establish_request drops the request, answers it, or opens a      *)
(* session of the next generation.                                         *)
Answers(p, a) ==
    /\ down' = [down EXCEPT ![p] = Append(down[p], Response(reg[p].boot, a))]
    /\ reg' = reg

Opened(p) ==
    [reg[p] EXCEPT !.state = "Established", !.nonce = reg[p].boot,
                   !.gen = NextGeneration(reg[p].gen), !.cursor = 0,
                   !.ring = [s \in 0..(RingSlots - 1) |-> None]]

Configuration(p) == [to |-> reg[p].boot, kind |-> "config", answer |-> 0]

Opens(p) ==
    /\ reg' = [reg EXCEPT ![p] = Opened(p)]
    /\ down' = [down EXCEPT ![p] =
           down[p] \o << Configuration(p),
                         Response(reg[p].boot, NextGeneration(reg[p].gen)) >>]

(* handle_establish answers a refusal, or the session it keeps.            *)
LEMMA EstablishCases ==
  ASSUME NEW p \in Chips, HandleEstablish(p)
  PROVE  /\ busy = None /\ reg[p].boot # None /\ busy' = p
         /\ UNCHANGED <<cl, keys, call, fits>>
         /\ \/ reg' = reg /\ down' = down
            \/ /\ ~fits[reg[p].boot] /\ Answers(p, 0)
               /\ reg[p].nonce = reg[p].boot =>
                     reg[p].state \in {"Empty", "Established"}
            \/ /\ fits[reg[p].boot] /\ reg[p].state = "Established"
               /\ reg[p].nonce = reg[p].boot /\ Answers(p, reg[p].gen)
            \/ /\ fits[reg[p].boot]
               /\ \/ reg[p].state = "Empty"
                  \/ reg[p].state \notin {"Empty", "Established"}
                     /\ reg[p].nonce # reg[p].boot
               /\ Opens(p)
<1>1. /\ busy = None /\ reg[p].boot # None /\ busy' = p
      /\ UNCHANGED <<cl, keys, call, fits>>
  BY DEF HandleEstablish
<1> DEFINE c == reg[p].boot
           action == RegistryAction(reg[p].state, reg[p].nonce = c)
<1>2. /\ action = "Drop" \/ action = "Replay" \/ action = "Create"
      /\ action = "Replay" => reg[p].state = "Established" /\ reg[p].nonce = c
      /\ action = "Create" =>
            \/ reg[p].state = "Empty"
            \/ reg[p].state \notin {"Empty", "Established"} /\ reg[p].nonce # c
  BY DEF RegistryAction
<1>3. CASE action = "Drop"
  BY <1>1, <1>3 DEF HandleEstablish
<1>4. CASE action # "Drop" /\ ~fits[c]
  <2>1. reg[p].nonce = c => reg[p].state \in {"Empty", "Established"}
    BY <1>4 DEF RegistryAction
  <2> QED
    BY <1>1, <1>4, <2>1 DEF HandleEstablish, Answers
<1>5. CASE action = "Replay" /\ fits[c]
  BY <1>1, <1>2, <1>5 DEF HandleEstablish, Answers
<1>6. CASE action = "Create" /\ fits[c]
  <2>1. Opens(p)
    BY <1>6 DEF HandleEstablish, Opens, Opened, Configuration
  <2> QED
    BY <1>1, <1>2, <1>6, <2>1
<1> QED
  BY <1>2, <1>3, <1>4, <1>5, <1>6

(* The ring and the registry entry of a session that is opened.            *)
LEMMA OpenedType ==
  ASSUME TypeOK, NEW p \in Chips, reg[p].boot # None
  PROVE  /\ Opened(p) \in Registry
         /\ Opened(p).state = "Established" /\ Opened(p).nonce = reg[p].boot
         /\ Opened(p).gen = NextGeneration(reg[p].gen)
         /\ Opened(p).boot = reg[p].boot /\ Opened(p).cursor = 0
         /\ Opened(p).ring = [s \in 0..(RingSlots - 1) |-> None]
<1> DEFINE ring == [s \in 0..(RingSlots - 1) |-> None]
           gen == NextGeneration(reg[p].gen)
           c == reg[p].boot
           g == [reg[p] EXCEPT !.state = "Established", !.nonce = c,
                               !.gen = gen, !.cursor = 0, !.ring = ring]
<1>1. reg[p] \in Registry
  BY DEF TypeOK
<1>2. ring \in [0..(RingSlots - 1) -> Packets \cup {None}]
  OBVIOUS
<1>3. gen \in 0..Generations
  <2>1. reg[p].gen \in 0..Generations
    BY <1>1 DEF Registry
  <2> QED
    BY <2>1, GenerationType
<1>4. 0 \in 0..(CursorModulus - 1) /\ c \in Clients \cup {None}
  BY <1>1, ConstantTypes DEF Registry
<1>5. Opened(p) = g
  BY DEF Opened
<1> HIDE DEF ring, gen, c
<1>6. g \in Registry
  BY <1>1, <1>2, <1>3, <1>4 DEF Registry
<1>7. /\ g.state = "Established" /\ g.nonce = c /\ g.gen = gen
      /\ g.boot = reg[p].boot /\ g.cursor = 0 /\ g.ring = ring
  BY <1>1 DEF Registry
<1> QED
  BY <1>5, <1>6, <1>7 DEF c, gen, ring

(* The directory kernel's handshake disturbs no call.                      *)
LEMMA HandleEstablishCalls ==
  ASSUME CallInv, NEW p \in Chips, HandleEstablish(p)
  PROVE  CallInv'
<1> DEFINE c == reg[p].boot
<1>1. /\ busy' = p /\ UNCHANGED <<cl, keys, call, fits>>
      /\ c # None
  BY EstablishCases
<1>2. /\ reg[p] \in Registry /\ c \in Clients
      /\ reg[p].gen \in 0..Generations
  BY <1>1 DEF CallInv, TypeOK, Registry
<1>3. /\ reg' \in [Chips -> Registry] /\ Registered'
      /\ down' \in [Chips -> Seq(Message)]
  <2>1. CASE reg' = reg /\ down' = down
    BY <2>1 DEF CallInv, TypeOK, Registered
  <2>2. ASSUME NEW a \in 0..Generations, Answers(p, a)
        PROVE  /\ reg' \in [Chips -> Registry] /\ Registered'
               /\ down' \in [Chips -> Seq(Message)]
    <3>1. Response(c, a) \in Message
      BY <1>2, ResponseType DEF Response
    <3>2. reg' = reg
          /\ down' = [down EXCEPT ![p] = Append(down[p], Response(c, a))]
      BY <2>2 DEF Answers
    <3> QED
      BY <3>1, <3>2, SentType DEF CallInv, TypeOK, Registered
  <2>3. CASE Opens(p)
    <3>1. reg' = [reg EXCEPT ![p] = Opened(p)]
      BY <2>3 DEF Opens
    <3>2. reg' \in [Chips -> Registry] /\ reg'[p] = Opened(p)
          /\ \A q \in Chips : q # p => reg'[q] = reg[q]
      BY <1>1, <3>1, OpenedType DEF CallInv, TypeOK
    <3>3. Registered'
      BY <1>1, <3>2, OpenedType DEF CallInv, Registered
    <3> DEFINE m == Configuration(p)
               n == Response(c, NextGeneration(reg[p].gen))
    <3>4. 0 \in 0..Generations /\ NextGeneration(reg[p].gen) \in 0..Generations
      BY <1>2, ConstantTypes, GenerationType
    <3>5. m \in Message /\ n \in Message
      BY <1>2, <3>4, ResponseType DEF Configuration, Response
    <3>6. down' = [down EXCEPT ![p] = down[p] \o <<m, n>>]
      BY <2>3 DEF Opens
    <3> HIDE DEF m, n
    <3>7. down[p] \in Seq(Message) /\ <<m, n>> \in Seq(Message)
      BY <3>5 DEF CallInv, TypeOK
    <3>8. down[p] \o <<m, n>> \in Seq(Message)
      BY <3>7, ConcatProperties
    <3>9. down' \in [Chips -> Seq(Message)]
      BY <3>6, <3>8 DEF CallInv, TypeOK
    <3> QED
      BY <3>2, <3>3, <3>9
  <2>4. 0 \in 0..Generations
    BY ConstantTypes
  <2> QED
    BY <1>2, <2>1, <2>2, <2>3, <2>4, EstablishCases
<1> QED
  BY <1>1, <1>3, ServerCalls

(* Nor does the end of it.                                                 *)
LEMMA ClearBootstrapCalls ==
  ASSUME CallInv, ClearBootstrap
  PROVE  CallInv'
<1> DEFINE g == [reg[busy] EXCEPT !.boot = None]
<1>1. /\ busy \in Chips /\ reg[busy] \in Registry
      /\ busy' = None
      /\ UNCHANGED <<cl, keys, call, down, fits>>
  BY DEF CallInv, TypeOK, ClearBootstrap
<1>2. g \in Registry /\ g.state = reg[busy].state
      /\ g.nonce = reg[busy].nonce
  BY <1>1 DEF Registry
<1>3. reg' = [reg EXCEPT ![busy] = g]
  BY DEF ClearBootstrap
<1> HIDE DEF g
<1>4. reg' \in [Chips -> Registry] /\ Registered'
  BY <1>1, <1>2, <1>3 DEF CallInv, TypeOK, Registered
<1> QED
  BY <1>1, <1>4, ServerCalls DEF CallInv, TypeOK

(* What serving the packet under the cursor makes of the registry entry.   *)
Under(p) == reg[p].cursor % RingSlots
Packet(p) == reg[p].ring[Under(p)]
Serves(p) == reg[p].state = "Established" /\ Packet(p).token = reg[p].gen
Detaches(p) == Serves(p) /\ Packet(p).op = "detach"
Served(p) ==
    [reg[p] EXCEPT
       !.ring = [reg[p].ring EXCEPT ![Under(p)] = None],
       !.state = IF Detaches(p) THEN "Retired" ELSE reg[p].state,
       !.cursor = IF Detaches(p) THEN 0 ELSE Following(reg[p].cursor)]
Reply(p) == [to |-> reg[p].nonce, kind |-> "reply", answer |-> 0]

(* Serving a packet changes one chip's registry and may append a reply.    *)
LEMMA ServeIs ==
  ASSUME TypeOK, NEW p \in Chips, ServePacket(p)
  PROVE  /\ busy = None /\ Packet(p) # None
         /\ reg' = [reg EXCEPT ![p] = Served(p)]
         /\ down' = IF Serves(p)
                    THEN [down EXCEPT ![p] = Append(down[p], Reply(p))]
                    ELSE down
         /\ UNCHANGED <<cl, keys, call, busy, fits>>
<1>1. reg[p] \in Registry
  BY DEF TypeOK
<1>2. reg' = [reg EXCEPT ![p] = Served(p)]
  BY <1>1 DEF ServePacket, Under, Packet, Serves, Detaches, Served, Registry
<1>3. /\ busy = None /\ Packet(p) # None
      /\ down' = IF Serves(p)
                 THEN [down EXCEPT ![p] = Append(down[p], Reply(p))]
                 ELSE down
      /\ UNCHANGED <<cl, keys, call, busy, fits>>
  BY DEF ServePacket, Under, Packet, Serves, Reply
<1> QED
  BY <1>2, <1>3

(* The registry after a packet: the cursor moves, the slot is empty.       *)
LEMMA ServedType ==
  ASSUME TypeOK, NEW p \in Chips
  PROVE  /\ Served(p) \in Registry /\ Under(p) \in 0..(RingSlots - 1)
         /\ Served(p).state = IF Detaches(p) THEN "Retired" ELSE reg[p].state
         /\ Served(p).nonce = reg[p].nonce /\ Served(p).gen = reg[p].gen
         /\ Served(p).boot = reg[p].boot
         /\ Served(p).cursor =
                IF Detaches(p) THEN 0 ELSE Following(reg[p].cursor)
         /\ Served(p).ring = [reg[p].ring EXCEPT ![Under(p)] = None]
<1> DEFINE ring == [reg[p].ring EXCEPT ![Under(p)] = None]
           state == IF Detaches(p) THEN "Retired" ELSE reg[p].state
           cursor == IF Detaches(p) THEN 0 ELSE Following(reg[p].cursor)
<1>1. reg[p] \in Registry /\ reg[p].cursor \in 0..(CursorModulus - 1)
      /\ reg[p].ring \in [0..(RingSlots - 1) -> Packets \cup {None}]
  BY DEF TypeOK, Registry
<1>2. Under(p) \in 0..(RingSlots - 1)
  <2>1. reg[p].cursor \in Nat /\ RingSlots \in Nat \ {0}
    BY <1>1, ConstantTypes
  <2> QED
    BY <2>1, ModRange DEF Under
<1>3. ring \in [0..(RingSlots - 1) -> Packets \cup {None}]
  BY <1>1
<1>4. state \in {"Empty", "Established", "Retired"}
  BY <1>1 DEF Registry
<1>5. Following(reg[p].cursor) \in 0..(CursorModulus - 1)
  <2>1. reg[p].cursor + 1 \in Nat /\ CursorModulus \in Nat \ {0}
    BY <1>1, ConstantTypes
  <2> QED
    BY <2>1, ModRange DEF Following
<1>6. cursor \in 0..(CursorModulus - 1)
  BY <1>5, ConstantTypes
<1>7. Served(p) = [reg[p] EXCEPT !.ring = ring, !.state = state,
                                 !.cursor = cursor]
  BY DEF Served
<1> HIDE DEF ring, state, cursor
<1>8. Served(p) \in Registry
  BY <1>1, <1>3, <1>4, <1>6, <1>7 DEF Registry
<1>9. /\ Served(p).state = state /\ Served(p).nonce = reg[p].nonce
      /\ Served(p).gen = reg[p].gen /\ Served(p).boot = reg[p].boot
      /\ Served(p).cursor = cursor /\ Served(p).ring = ring
  BY <1>1, <1>7 DEF Registry
<1> QED
  BY <1>2, <1>8, <1>9 DEF ring, state, cursor

(* Serving disturbs no call.                                               *)
LEMMA ServePacketCalls ==
  ASSUME CallInv, NEW p \in Chips, ServePacket(p)
  PROVE  CallInv'
<1>1. /\ reg' = [reg EXCEPT ![p] = Served(p)]
      /\ down' = IF Serves(p)
                 THEN [down EXCEPT ![p] = Append(down[p], Reply(p))]
                 ELSE down
      /\ UNCHANGED <<cl, keys, call, busy, fits>>
  BY ServeIs DEF CallInv
<1>2. reg' \in [Chips -> Registry] /\ reg'[p] = Served(p)
      /\ \A q \in Chips : q # p => reg'[q] = reg[q]
  BY <1>1, ServedType DEF CallInv, TypeOK
<1>3. Registered'
  <2>1. /\ Served(p).nonce = reg[p].nonce
        /\ Served(p).state = "Established" => reg[p].state = "Established"
    BY ServedType DEF CallInv
  <2> QED
    BY <1>2, <2>1 DEF CallInv, Registered
<1>4. down' \in [Chips -> Seq(Message)]
  <2>1. CASE Serves(p)
    <3>1. reg[p].nonce \in Clients
      BY <2>1 DEF Serves, CallInv, TypeOK, Registered, Registry
    <3>2. 0 \in 0..Generations
      BY ConstantTypes
    <3>3. Reply(p) \in Message
      BY <3>1, <3>2, ResponseType DEF Reply
    <3> QED
      BY <1>1, <2>1, <3>3, SentType DEF CallInv
  <2>2. CASE ~Serves(p)
    BY <1>1, <2>2 DEF CallInv, TypeOK
  <2> QED
    BY <2>1, <2>2
<1> QED
  BY <1>1, <1>2, <1>3, <1>4, ServerCalls DEF CallInv, TypeOK

(* What the oldest message to a chip writes in the memory of a Client.     *)
Written(m, r) ==
    IF r.memory # "held" THEN r
    ELSE CASE m.kind = "config" -> [r EXCEPT !.config = TRUE]
           [] m.kind = "response" ->
                [r EXCEPT !.sem = r.sem + 1, !.answer = m.answer]
           [] OTHER -> [r EXCEPT !.recv = r.recv + 1]

(* A message writes the words of a Client whose memory is held.            *)
LEMMA WrittenIs ==
  ASSUME NEW r \in ClientState, NEW m \in Message
  PROVE  LET w == Written(m, r) IN
         /\ w \in ClientState
         /\ w.life = r.life /\ w.memory = r.memory /\ w.clean = r.clean
         /\ w.attempts = r.attempts /\ w.may = r.may /\ w.running = r.running
         /\ w.token = r.token /\ w.slot = r.slot
         /\ r.memory # "held" => w = r
         /\ r.memory = "held" /\ m.kind = "config" =>
                /\ w.config /\ w.sem = r.sem /\ w.answer = r.answer
                /\ w.recv = r.recv
         /\ r.memory = "held" /\ m.kind = "response" =>
                /\ w.config = r.config /\ w.sem = r.sem + 1
                /\ w.answer = m.answer /\ w.recv = r.recv
         /\ r.memory = "held" /\ m.kind = "reply" =>
                /\ w.config = r.config /\ w.sem = r.sem
                /\ w.answer = r.answer /\ w.recv = r.recv + 1
<1>1. r.sem + 1 \in Nat /\ r.recv + 1 \in Nat /\ m.answer \in 0..Generations
      /\ m.kind \in {"config", "response", "reply"}
  BY DEF ClientState, Message
<1>2. CASE r.memory # "held"
  BY <1>2 DEF Written
<1>3. CASE r.memory = "held" /\ m.kind = "config"
  <2>1. Written(m, r) = [r EXCEPT !.config = TRUE]
    BY <1>3 DEF Written
  <2> QED
    BY <1>3, <2>1 DEF ClientState
<1>4. CASE r.memory = "held" /\ m.kind = "response"
  <2>1. Written(m, r) = [r EXCEPT !.sem = r.sem + 1, !.answer = m.answer]
    BY <1>4 DEF Written
  <2> QED
    BY <1>1, <1>4, <2>1 DEF ClientState
<1>5. CASE r.memory = "held" /\ m.kind = "reply"
  <2>1. Written(m, r) = [r EXCEPT !.recv = r.recv + 1]
    BY <1>5 DEF Written
  <2> QED
    BY <1>1, <1>5, <2>1 DEF ClientState
<1> QED
  BY <1>1, <1>2, <1>3, <1>4, <1>5

(* A delivery takes the head of one channel and writes one Client.         *)
LEMMA DeliverIs ==
  ASSUME TypeOK, NEW p \in Chips, Deliver(p)
  PROVE  /\ down[p] # <<>> /\ Head(down[p]) \in Message
         /\ cl' = [cl EXCEPT ![Head(down[p]).to] =
                      Written(Head(down[p]), cl[Head(down[p]).to])]
         /\ down' = [down EXCEPT ![p] = Tail(down[p])]
         /\ UNCHANGED <<keys, call, reg, busy, fits>>
<1>1. /\ down[p] # <<>> /\ down' = [down EXCEPT ![p] = Tail(down[p])]
      /\ UNCHANGED <<keys, call, reg, busy, fits>>
  BY DEF Deliver
<1>2. down[p] \in Seq(Message)
  BY DEF TypeOK
<1> DEFINE m == Head(down[p])
           c == m.to
           written(r) ==
               CASE m.kind = "config" -> [r EXCEPT !.config = TRUE]
                 [] m.kind = "response" ->
                      [r EXCEPT !.sem = @ + 1, !.answer = m.answer]
                 [] OTHER -> [r EXCEPT !.recv = @ + 1]
<1>3. m \in Message
  BY <1>1, <1>2, HeadTailProperties
<1>4. cl' = [cl EXCEPT ![c] =
                IF cl[c].memory = "held" THEN written(cl[c]) ELSE cl[c]]
  BY DEF Deliver
<1>5. (IF cl[c].memory = "held" THEN written(cl[c]) ELSE cl[c])
        = Written(m, cl[c])
  BY DEF Written
<1> QED
  BY <1>1, <1>3, <1>4, <1>5

(* A delivery disturbs no call.                                            *)
LEMMA DeliverCalls ==
  ASSUME CallInv, NEW p \in Chips, Deliver(p)
  PROVE  CallInv'
<1> DEFINE m == Head(down[p])
           c == m.to
           r == Written(m, cl[c])
<1>1. /\ down[p] # <<>> /\ m \in Message
      /\ cl' = [cl EXCEPT ![c] = r]
      /\ down' = [down EXCEPT ![p] = Tail(down[p])]
      /\ UNCHANGED <<keys, call, reg, busy, fits>>
  BY DeliverIs DEF CallInv
<1>2. c \in Clients /\ cl[c] \in ClientState
  BY <1>1 DEF Message, CallInv, TypeOK
<1>3. r \in ClientState /\ r.life = cl[c].life /\ r.token = cl[c].token
  BY <1>1, <1>2, WrittenIs
<1>4. down[p] \in Seq(Message) /\ Tail(down[p]) \in Seq(Message)
  BY <1>1, HeadTailProperties DEF CallInv, TypeOK
<1> HIDE DEF m, c, r
<1>5. /\ cl' \in [Clients -> ClientState] /\ cl'[c] = r
      /\ \A d \in Clients : d # c => cl'[d] = cl[d]
  BY <1>1, <1>2, <1>3, OneClient DEF CallInv
<1>6. down' \in [Chips -> Seq(Message)]
  BY <1>1, <1>4 DEF CallInv, TypeOK
<1>7. TypeOK' /\ Registered' /\ Tokened'
  BY <1>1, <1>3, <1>5, <1>6 DEF CallInv, TypeOK, Registered, Tokened
<1>8. \A d \in Clients :
          cl[d].life = "Established" => cl'[d].life = "Established"
  BY <1>3, <1>5
<1> QED
  BY <1>1, <1>7, <1>8, CallsStay

(* Every step keeps the calls in order.                                    *)
LEMMA StepCalls ==
  ASSUME CallInv, [Next]_vars
  PROVE  CallInv'
<1>1. CASE UNCHANGED vars
  <2>1. TypeOK' /\ Registered' /\ Tokened'
    BY <1>1 DEF vars, CallInv, TypeOK, Registered, Tokened
  <2> QED
    BY <1>1, <2>1, CallsStay DEF vars
<1>2. ASSUME NEW c \in Clients,
             \/ Refused(c) \/ Construct(c) \/ PrepareFails(c) \/ Attempt(c)
             \/ TimedOut(c) \/ Accept(c) \/ Reject(c) \/ OutcomeUnknown(c)
      PROVE  CallInv'
  BY <1>2, RefusedCalls, ConstructCalls, AttemptCalls, HandshakeCalls
<1>3. ASSUME NEW t \in Threads,
             \/ \E c \in Clients :
                    Request(t, c) \/ Close(t, c) \/ Destroy(t, c)
             \/ GetParallel(t) \/ Lock(t) \/ TurnedAway(t) \/ Begin(t)
             \/ RollBack(t) \/ EnqueueFails(t) \/ Submit(t) \/ Complete(t)
             \/ FailAfterEnqueue(t)
      PROVE  CallInv'
  BY <1>3, BeginsCalls, LockCalls, TurnedAwayCalls, BeginCalls,
     RollBackCalls, FailingCalls, SubmitCalls, CompleteCalls
<1>4. ASSUME NEW p \in Chips, HandleEstablish(p) \/ ServePacket(p) \/ Deliver(p)
      PROVE  CallInv'
  BY <1>4, HandleEstablishCalls, ServePacketCalls, DeliverCalls
<1>5. CASE ClearBootstrap
  BY <1>5, ClearBootstrapCalls
<1> QED
  BY <1>1, <1>2, <1>3, <1>4, <1>5 DEF Next

(* The inductive invariant of the calls: whichever threads are in a        *)
(* request, get_parallel, close() or the destructor, and wherever each of  *)
(* them failed, their lifecycle locks exclude each other and are taken in  *)
(* order, and a transaction is open only on Clients that are established.  *)
THEOREM CallInvariant == Spec => []CallInv
<1>1. Init => CallInv
  BY InitCalls
<1>2. CallInv /\ [Next]_vars => CallInv'
  BY StepCalls
<1> QED
  BY <1>1, <1>2, PTL DEF Spec

(* The types of every variable, in particular that the generation stays    *)
(* in its mask and a response is for a Client (kClientGenerationMask).     *)
THEOREM TypeCorrect == Spec => []TypeOK
<1>1. CallInv => TypeOK
  BY DEF CallInv
<1> QED
  BY <1>1, CallInvariant, PTL

(* get_parallel takes several lifecycle mutexes in the order of the        *)
(* Clients' addresses, and no threads wait for each other in a circle.     *)
THEOREM LocksNeverDeadlock == Spec => []NoWaitCycle
BY LocksHaveOrder, CallInvariant, PTL

----------------------------------------------------------------------------
(* The invariant of the sessions.  Its parts are about one Client: what is *)
(* kept of it (r), the Server's registry entry of its chip (g), what is on *)
(* its way to the chip (d), whether the Server accepts its parameters and  *)
(* whether its request is in the mailbox and unread.                       *)

To(d, c) == {i \in DOMAIN d : d[i].to = c}
Of(d, c, kind) == {i \in To(d, c) : d[i].kind = kind}
Blank(g) == \A s \in 0..(RingSlots - 1) : g.ring[s] = None

(* The life cycle.                                                         *)
Shape(r) ==
    /\ r.life = "Unborn" => r.attempts = 0 /\ r.sem = 0 /\ r.answer = 0
    /\ r.life = "Constructing" =>
           r.memory = "held" /\ (r.attempts # 0 => r.may)
    /\ r.life = "Established" => r.memory = "held" /\ r.attempts # 0
    /\ r.clean => r.life = "Closed"

(* Nothing of the Client has reached the Server, or nothing is left of it. *)
Mute(r) ==
    \/ r.life \in {"Unborn", "Failed"}
    \/ r.life = "Constructing" /\ r.attempts = 0
Silent(c, r, g, d, unread) ==
    Mute(r) => To(d, c) = {} /\ g.nonce # c /\ ~unread

(* The mailbox is the Client's while it lives.                             *)
Owned(c, r, g) ==
    r.life \in {"Constructing", "Established"} /\ r.attempts # 0 =>
        g.boot \in {c, None}

(* The handshake: what the Server has said to a Client under construction  *)
(* is what its registry says, and the configuration came before it.        *)
Shaking(c, r, g, d, fit) ==
    r.life = "Constructing" =>
        /\ Of(d, c, "reply") = {}
        /\ Of(d, c, "config") # {} => fit
        /\ g.nonce = c => /\ fit /\ g.state = "Established"
                          /\ g.cursor = 0 /\ Blank(g)
                          /\ r.config \/ Of(d, c, "config") # {}
        /\ r.answer # 0 => g.nonce = c /\ g.gen = r.answer /\ r.config
        /\ r.sem # 0 /\ r.answer = 0 => ~fit
        /\ \A i \in Of(d, c, "response") :
              /\ d[i].answer = 0 => ~fit
              /\ d[i].answer # 0 =>
                    /\ g.nonce = c /\ g.gen = d[i].answer
                    /\ r.config \/ \E j \in Of(d, c, "config") : j < i

(* The first attempt is answered once.                                     *)
Once(c, r, d, unread) ==
    r.life = "Constructing" /\ r.attempts = 1 =>
        /\ \A i, j \in Of(d, c, "response") : i = j
        /\ r.sem # 0 => Of(d, c, "response") = {}
        /\ r.sem # 0 \/ Of(d, c, "response") # {} => ~unread

(* A Client that was closed cleanly leaves a tombstone and no message.     *)
CleanlyClosed(c, r, g, d) ==
    r.clean => /\ To(d, c) = {}
               /\ g.nonce = c => g.state = "Retired"
               /\ g.boot = c => g.nonce = c

(* A session: the slot n places behind the Client's is the one the cursor  *)
(* is at.                                                                  *)
Back(slot, n) == (slot + RingSlots - n) % RingSlots

Agreed(c, r, g) ==
    g.nonce = c /\ g.gen = r.token /\ r.config /\ r.token # 0

(* No packet is under way, and n slots are taken.                          *)
Parked(c, r, g, d, n) ==
    /\ g.state = "Established" /\ Blank(g) /\ Of(d, c, "reply") = {}
    /\ g.cursor % RingSlots = Back(r.slot, n)

(* Of the packets of the call k the last m are in the ring, the replies to *)
(* the others are on their way or in the Client's memory.                  *)
InFlight(c, r, g, d, k, m) ==
    /\ m + Cardinality(Of(d, c, "reply")) + r.recv = k.count
    /\ \A s \in 0..(RingSlots - 1) : g.ring[s] =
          IF s \in {Back(r.slot, i) : i \in 1..m}
          THEN [token |-> r.token, op |-> k.packet] ELSE None
    /\ IF k.packet = "detach" /\ m = 0
       THEN /\ g.state = "Retired"
            /\ \A i \in To(d, c) : \E j \in Of(d, c, "reply") : i <= j
       ELSE /\ g.state = "Established"
            /\ g.cursor % RingSlots = Back(r.slot, m)

WorksOn(c, t) == c \in On(t) /\ Working(t)

Session(c) ==
    LET r == cl[c]
        g == reg[Chip[c]]
        d == down[Chip[c]]
    IN r.life = "Established" =>
        /\ Agreed(c, r, g)
        /\ (\A t \in Threads : ~WorksOn(c, t)) => Parked(c, r, g, d, 0)
        /\ \A t \in Threads : WorksOn(c, t) /\ call[t].step = "begun" =>
              Parked(c, r, g, d, call[t].count)
        /\ \A t \in Threads : WorksOn(c, t) /\ call[t].step # "begun" =>
              \E m \in 0..call[t].count : InFlight(c, r, g, d, call[t], m)

Unread(c) == reg[Chip[c]].boot = c /\ busy # Chip[c]

Alone(c, r, g, d, unread) ==
    /\ Shape(r)
    /\ Silent(c, r, g, d, unread)
    /\ Owned(c, r, g)
    /\ Shaking(c, r, g, d, fits[c])
    /\ Once(c, r, d, unread)
    /\ CleanlyClosed(c, r, g, d)

(* The Clients that live have their chips' keys and share none.            *)
Living(c) == cl[c].life \in {"Constructing", "Established", "Quarantined"}

KeysAreExclusive ==
    /\ \A c \in Clients : Living(c) => Chip[c] \in keys
    /\ \A c, d \in Clients : Living(c) /\ Living(d) /\ Chip[c] = Chip[d] => c = d

(* What names a Client on a chip names one of that chip.                   *)
Addressed(p) ==
    /\ reg[p].boot # None => Chip[reg[p].boot] = p
    /\ reg[p].nonce # None => Chip[reg[p].nonce] = p
    /\ \A i \in DOMAIN down[p] : Chip[down[p][i].to] = p
    /\ reg[p].state = "Established" => reg[p].gen # 0

ClientInv(c) ==
    /\ Alone(c, cl[c], reg[Chip[c]], down[Chip[c]], Unread(c))
    /\ Session(c)

Sessions ==
    /\ KeysAreExclusive
    /\ \A p \in Chips : Addressed(p)
    /\ \A c \in Clients : ClientInv(c)

SessionInv == CallInv /\ Sessions

----------------------------------------------------------------------------
(* Slots.                                                                  *)

(* The slot n places behind another, around the ring.                      *)
LEMMA BackIs ==
  ASSUME NEW slot \in 0..(RingSlots - 1), NEW n \in 0..RingSlots
  PROVE  /\ Back(slot, n) = IF n <= slot THEN slot - n
                            ELSE slot + RingSlots - n
         /\ Back(slot, n) \in 0..(RingSlots - 1)
         /\ Back(slot, 0) = slot
<1>1. RingSlots \in Nat \ {0}
  BY ConstantTypes
<1>2. /\ slot + RingSlots - n \in Nat /\ slot + RingSlots - n < 2 * RingSlots
      /\ slot + RingSlots - 0 \in Nat /\ slot + RingSlots - 0 < 2 * RingSlots
  BY <1>1
<1> DEFINE x == slot + RingSlots - n
           y == slot + RingSlots - 0
<1>3. /\ x \in Nat /\ x < 2 * RingSlots /\ Back(slot, n) = x % RingSlots
      /\ y \in Nat /\ y < 2 * RingSlots /\ Back(slot, 0) = y % RingSlots
  BY <1>2 DEF Back
<1>4. /\ x = slot + RingSlots - n
      /\ y = slot + RingSlots - 0
  OBVIOUS
<1> HIDE DEF x, y
<1>5. /\ x % RingSlots = IF x < RingSlots THEN x ELSE x - RingSlots
      /\ y % RingSlots = IF y < RingSlots THEN y ELSE y - RingSlots
  BY <1>1, <1>3, ModShort
<1> QED
  BY <1>1, <1>3, <1>4, <1>5

(* The slots a transaction takes are as many as its packets.               *)
LEMMA BackApart ==
  ASSUME NEW slot \in 0..(RingSlots - 1),
         NEW i \in 1..RingSlots, NEW j \in 1..RingSlots,
         Back(slot, i) = Back(slot, j)
  PROVE  i = j
<1>1. RingSlots \in Nat /\ i \in 0..RingSlots /\ j \in 0..RingSlots
  BY ConstantTypes
<1>2. Back(slot, i) = IF i <= slot THEN slot - i ELSE slot + RingSlots - i
  BY <1>1, BackIs
<1>3. Back(slot, j) = IF j <= slot THEN slot - j ELSE slot + RingSlots - j
  BY <1>1, BackIs
<1> DEFINE a == Back(slot, i)
           b == Back(slot, j)
<1>4. /\ a = IF i <= slot THEN slot - i ELSE slot + RingSlots - i
      /\ b = IF j <= slot THEN slot - j ELSE slot + RingSlots - j
      /\ a = b
  BY <1>2, <1>3
<1> HIDE DEF a, b
<1> QED
  BY <1>1, <1>4

(* Taking n slots puts the Client n slots ahead.                           *)
LEMMA BackOfAdvanced ==
  ASSUME NEW slot \in 0..(RingSlots - 1), NEW n \in 1..RingSlots
  PROVE  Back((slot + n) % RingSlots, n) = slot
<1>1. RingSlots \in Nat \ {0}
      /\ slot + n \in Nat /\ slot + n < 2 * RingSlots /\ n \in 0..RingSlots
  BY ConstantTypes
<1> DEFINE y == slot + n
           x == y % RingSlots
<1>2. y % RingSlots = IF y < RingSlots THEN y ELSE y - RingSlots
  <2>1. y \in Nat /\ y < 2 * RingSlots
    BY <1>1
  <2> HIDE DEF y
  <2> QED
    BY <1>1, <2>1, ModShort
<1>3. x \in 0..(RingSlots - 1)
  BY <1>1, <1>2
<1>4. x = IF y < RingSlots THEN y ELSE y - RingSlots
  <2> HIDE DEF y
  <2> QED
    BY <1>2
<1> HIDE DEF x
<1>5. Back(x, n) = IF n <= x THEN x - n ELSE x + RingSlots - n
  BY <1>1, <1>3, BackIs
<1>6. Back(x, n) = slot
  BY <1>1, <1>3, <1>4, <1>5
<1> QED
  BY <1>6 DEF x

(* The cursor moves on with the packets, past the end of its range too.    *)
LEMMA CursorFollows ==
  ASSUME NEW slot \in 0..(RingSlots - 1), NEW m \in 1..RingSlots,
         NEW cursor \in 0..(CursorModulus - 1),
         cursor % RingSlots = Back(slot, m)
  PROVE  Following(cursor) % RingSlots = Back(slot, m - 1)
<1>1. /\ RingSlots \in Nat \ {0} /\ CursorModulus \in Nat \ {0}
      /\ m \in 0..RingSlots /\ m - 1 \in 0..RingSlots /\ cursor \in Nat
  BY ConstantTypes
<1>2. (cursor + 1) % RingSlots = Back(slot, m - 1)
  <2>1. /\ Back(slot, m) = IF m <= slot THEN slot - m ELSE slot + RingSlots - m
        /\ Back(slot, m - 1) = IF m - 1 <= slot THEN slot - (m - 1)
                               ELSE slot + RingSlots - (m - 1)
    BY <1>1, BackIs
  <2>2. (cursor + 1) % RingSlots = IF Back(slot, m) + 1 = RingSlots THEN 0
                                   ELSE Back(slot, m) + 1
    BY <1>1, ModNext
  <2> QED
    BY <1>1, <2>1, <2>2
<1>3. CASE cursor + 1 < CursorModulus
  <2>1. cursor + 1 \in Nat /\ cursor + 1 < 2 * CursorModulus
    BY <1>1, <1>3
  <2>2. Following(cursor) = cursor + 1
    BY <1>1, <1>3, <2>1, ModShort DEF Following
  <2> QED
    BY <1>2, <2>2
<1>4. CASE cursor + 1 = CursorModulus
  <2>1. /\ cursor + 1 \in Nat /\ cursor + 1 < 2 * CursorModulus
        /\ 0 \in Nat /\ 0 < 2 * RingSlots
    BY <1>1, <1>4
  <2> DEFINE y == cursor + 1
  <2>2. y % CursorModulus = 0
    <3>1. y \in Nat /\ y < 2 * CursorModulus /\ y = CursorModulus
      BY <1>4, <2>1
    <3> HIDE DEF y
    <3>2. y % CursorModulus = IF y < CursorModulus THEN y ELSE y - CursorModulus
      BY <1>1, <3>1, ModShort
    <3> QED
      BY <1>1, <3>1, <3>2
  <2>3. Following(cursor) = 0
    BY <1>1, <1>4, <2>2 DEF Following
  <2>4. 0 % RingSlots = 0
    BY <1>1, <2>1, ModShort
  <2> QED
    BY <1>2, <1>4, <2>3, <2>4, RingAssumption
<1> QED
  BY <1>1, <1>3, <1>4

(* Messages: what is appended comes last, what is delivered was the first. *)
LEMMA MessageTypes ==
  ASSUME TypeOK, NEW p \in Chips
  PROVE  /\ down[p] \in Seq(Message)
         /\ \A i \in DOMAIN down[p] : down[p][i] \in Message /\ i \in Nat
BY ElementOfSeq DEF TypeOK

(* The entries of a channel after a message is sent.                       *)
LEMMA OneMore ==
  ASSUME NEW d \in Seq(Message), NEW m \in Message
  PROVE  LET e == Append(d, m) IN
         /\ e \in Seq(Message) /\ e[Len(d) + 1] = m
         /\ Len(d) + 1 \in DOMAIN e
         /\ \A i \in DOMAIN d : i \in DOMAIN e /\ e[i] = d[i] /\ i <= Len(d)
                                 /\ i \in Nat
         /\ \A i \in DOMAIN e : i \in DOMAIN d \/ i = Len(d) + 1
         /\ Len(d) \in Nat
BY AppendProperties

(* The entries of a channel after its head is delivered.                   *)
LEMMA OneLess ==
  ASSUME NEW d \in Seq(Message), d # <<>>
  PROVE  LET e == Tail(d) IN
         /\ e \in Seq(Message) /\ d[1] = Head(d) /\ 1 \in DOMAIN d
         /\ \A i \in DOMAIN e : i + 1 \in DOMAIN d /\ e[i] = d[i + 1]
                                 /\ i \in Nat
         /\ \A i \in DOMAIN d : i # 1 => i - 1 \in DOMAIN e
                                          /\ e[i - 1] = d[i] /\ i - 1 \in Nat
BY HeadTailProperties

(* The messages of a kind for a Client can be counted.                     *)
LEMMA RepliesFinite ==
  ASSUME NEW d \in Seq(Message), NEW c, NEW kind
  PROVE  IsFiniteSet(Of(d, c, kind)) /\ Cardinality(Of(d, c, kind)) \in Nat
<1>1. IsFiniteSet(1..Len(d)) /\ DOMAIN d = 1..Len(d)
  BY FS_Interval, LenProperties
<1>2. Of(d, c, kind) \subseteq 1..Len(d)
  BY <1>1 DEF Of, To
<1>3. IsFiniteSet(Of(d, c, kind))
  BY <1>1, <1>2, FS_Subset
<1> QED
  BY <1>3, FS_CardinalityType

(* A message sent counts for its own Client and kind only.                 *)
LEMMA RepliesSent ==
  ASSUME NEW d \in Seq(Message), NEW m \in Message, NEW c, NEW kind
  PROVE  /\ To(Append(d, m), c) = To(d, c)
                \cup IF m.to = c THEN {Len(d) + 1} ELSE {}
         /\ Of(Append(d, m), c, kind) = Of(d, c, kind)
                \cup IF m.to = c /\ m.kind = kind THEN {Len(d) + 1} ELSE {}
         /\ Cardinality(Of(Append(d, m), c, kind)) =
                Cardinality(Of(d, c, kind))
                    + IF m.to = c /\ m.kind = kind THEN 1 ELSE 0
<1> DEFINE e == Append(d, m)
<1>1. /\ e[Len(d) + 1] = m /\ Len(d) + 1 \in DOMAIN e
      /\ \A i \in DOMAIN d : i \in DOMAIN e /\ e[i] = d[i] /\ i <= Len(d)
      /\ \A i \in DOMAIN e : i \in DOMAIN d \/ i = Len(d) + 1
      /\ Len(d) \in Nat
  BY OneMore
<1> HIDE DEF e
<1>2. To(e, c) = To(d, c) \cup IF m.to = c THEN {Len(d) + 1} ELSE {}
  BY <1>1 DEF To
<1>3. Of(e, c, kind) = Of(d, c, kind)
          \cup IF m.to = c /\ m.kind = kind THEN {Len(d) + 1} ELSE {}
  BY <1>1 DEF To, Of
<1>4. Len(d) + 1 \notin Of(d, c, kind)
  BY <1>1 DEF To, Of
<1>5. Cardinality(Of(d, c, kind) \cup {Len(d) + 1})
          = Cardinality(Of(d, c, kind)) + 1
  BY <1>4, RepliesFinite, FS_AddElement
<1>6. Cardinality(Of(d, c, kind)) + 0 = Cardinality(Of(d, c, kind))
  BY RepliesFinite
<1>7. CASE m.to = c /\ m.kind = kind
  BY <1>2, <1>3, <1>5, <1>7 DEF e
<1>8. CASE ~(m.to = c /\ m.kind = kind)
  BY <1>2, <1>3, <1>6, <1>8 DEF e
<1> QED
  BY <1>7, <1>8

(* So does a message delivered.                                            *)
LEMMA RepliesGot ==
  ASSUME NEW d \in Seq(Message), d # <<>>, NEW c, NEW kind
  PROVE  Cardinality(Of(d, c, kind)) = Cardinality(Of(Tail(d), c, kind))
             + IF Head(d).to = c /\ Head(d).kind = kind THEN 1 ELSE 0
<1> DEFINE e == Tail(d)
           A == Of(e, c, kind)
           B == {i \in Of(d, c, kind) : i # 1}
           f == [i \in A |-> i + 1]
<1>1. /\ e \in Seq(Message) /\ d[1] = Head(d) /\ 1 \in DOMAIN d
      /\ \A i \in DOMAIN e : i + 1 \in DOMAIN d /\ e[i] = d[i + 1] /\ i \in Nat
      /\ \A i \in DOMAIN d : i # 1 => i - 1 \in DOMAIN e
                                       /\ e[i - 1] = d[i] /\ i - 1 \in Nat
  BY OneLess
<1>2. \A i \in DOMAIN e : i # 0
  BY <1>1, LenProperties
<1> HIDE DEF e
<1>3. \A i \in A : i \in Nat /\ i + 1 \in B
  BY <1>1, <1>2 DEF Of, To
<1>4. \A i \in B : i - 1 \in A /\ (i - 1) + 1 = i
  BY <1>1 DEF Of, To
<1>5. f \in Bijection(A, B)
  <2>1. f \in [A -> B]
    BY <1>3
  <2>2. \A i, j \in A : f[i] = f[j] => i = j
    BY <1>3
  <2>3. \A b \in B : \E a \in A : f[a] = b
    BY <1>4
  <2> HIDE DEF f, A, B
  <2> QED
    BY <2>1, <2>2, <2>3, Fun_IsBij
<1>6. IsFiniteSet(A)
  BY <1>1, RepliesFinite
<1>7. Cardinality(B) = Cardinality(A) /\ IsFiniteSet(B)
  <2> HIDE DEF f, A, B
  <2> QED
    BY <1>5, <1>6, FS_Bijection DEF ExistsBijection
<1>8. Cardinality(A) \in Nat
  BY <1>6, FS_CardinalityType
<1>9. CASE Head(d).to = c /\ Head(d).kind = kind
  <2>1. Of(d, c, kind) = B \cup {1} /\ 1 \notin B
    BY <1>1, <1>9 DEF Of, To
  <2>2. Cardinality(Of(d, c, kind)) = Cardinality(A) + 1
    <3> HIDE DEF A, B
    <3> QED
      BY <2>1, <1>7, FS_AddElement
  <2> QED
    BY <2>2, <1>9 DEF e
<1>10. CASE ~(Head(d).to = c /\ Head(d).kind = kind)
  <2>1. Of(d, c, kind) = B
    BY <1>1, <1>10 DEF Of, To
  <2>2. Cardinality(Of(d, c, kind)) = Cardinality(A) + 0
    <3> HIDE DEF A, B
    <3> QED
      BY <2>1, <1>7, <1>8
  <2> QED
    BY <2>2, <1>10 DEF e
<1> QED
  BY <1>9, <1>10

----------------------------------------------------------------------------
(* What a step leaves of the Clients it is not about.                      *)

Kept(r, q) ==
    /\ q.life = r.life /\ q.memory = r.memory /\ q.clean = r.clean
    /\ q.attempts = r.attempts /\ q.may = r.may /\ q.sem = r.sem
    /\ q.answer = r.answer /\ q.config = r.config
Same(r, q) ==
    /\ Kept(r, q)
    /\ q.token = r.token /\ q.slot = r.slot /\ q.recv = r.recv

(* A Client nobody talks to any more stays so, as far as its record        *)
(* stays.                                                                  *)
LEMMA KeptAlone ==
  ASSUME NEW c, NEW r, NEW q, NEW g, NEW d, NEW u \in BOOLEAN,
         NEW v \in BOOLEAN, v => u, Kept(r, q), Alone(c, r, g, d, u)
  PROVE  Alone(c, q, g, d, v)
<1>1. Shape(q)
  BY DEF Kept, Alone, Shape
<1>2. Silent(c, q, g, d, v)
  BY DEF Kept, Alone, Silent, Mute
<1>3. Owned(c, q, g)
  BY DEF Kept, Alone, Owned
<1>4. Shaking(c, q, g, d, fits[c])
  BY DEF Kept, Alone, Shaking
<1>5. Once(c, q, d, v)
  BY DEF Kept, Alone, Once
<1>6. CleanlyClosed(c, q, g, d)
  BY DEF Kept, Alone, CleanlyClosed
<1> QED
  BY <1>1, <1>2, <1>3, <1>4, <1>5, <1>6 DEF Alone

(* What the two sides agree on does not depend on the rest of the          *)
(* record.                                                                 *)
LEMMA SameAgreed ==
  ASSUME NEW c, NEW r, NEW q, NEW g, Same(r, q), Agreed(c, r, g)
  PROVE  Agreed(c, q, g)
BY DEF Same, Kept, Agreed

(* Nor does what a parked transaction left in the ring.                    *)
LEMMA SameParked ==
  ASSUME NEW c, NEW r, NEW q, NEW g, NEW d, NEW n, Same(r, q),
         Parked(c, r, g, d, n)
  PROVE  Parked(c, q, g, d, n)
BY DEF Same, Kept, Parked

(* Nor does what a transaction under way has in the ring and the           *)
(* channel.                                                                *)
LEMMA SameInFlight ==
  ASSUME NEW c, NEW r, NEW q, NEW g, NEW d, NEW k, NEW n, Same(r, q),
         InFlight(c, r, g, d, k, n)
  PROVE  InFlight(c, q, g, d, k, n)
BY DEF Same, Kept, InFlight

(* A bootstrap mailbox is read or unread.                                  *)
LEMMA UnreadType ==
  ASSUME NEW c \in Clients
  PROVE  Unread(c) \in BOOLEAN /\ Unread(c)' \in BOOLEAN
BY DEF Unread

(* A step that leaves a Client, its calls and its chip alone keeps its     *)
(* session.                                                                *)
LEMMA Untouched ==
  ASSUME NEW c \in Clients, ClientInv(c), Same(cl[c], cl'[c]),
         reg'[Chip[c]] = reg[Chip[c]], down'[Chip[c]] = down[Chip[c]],
         fits' = fits, Unread(c)' => Unread(c),
         \A t \in Threads : \/ call'[t] = call[t]
                            \/ ~WorksOn(c, t) /\ ~WorksOn(c, t)'
  PROVE  ClientInv(c)'
<1> DEFINE r == cl[c]
           q == cl'[c]
           g == reg[Chip[c]]
           d == down[Chip[c]]
<1>1. Alone(c, r, g, d, Unread(c)) /\ Session(c)
  BY DEF ClientInv
<1>2. Alone(c, q, g, d, Unread(c)')
  <2> HIDE DEF r, q, g, d
  <2>1. Kept(r, q)
    BY DEF r, q, Same
  <2> QED
    BY <1>1, <2>1, UnreadType, KeptAlone
<1>3. Alone(c, cl[c], reg[Chip[c]], down[Chip[c]], Unread(c))'
  BY <1>2 DEF Alone
<1>4. Session(c)'
  <2> SUFFICES ASSUME q.life = "Established"
               PROVE
        /\ Agreed(c, q, g)
        /\ (\A t \in Threads : ~WorksOn(c, t)') => Parked(c, q, g, d, 0)
        /\ \A t \in Threads : WorksOn(c, t)' /\ call'[t].step = "begun" =>
              Parked(c, q, g, d, call'[t].count)
        /\ \A t \in Threads : WorksOn(c, t)' /\ call'[t].step # "begun" =>
              \E m \in 0..call'[t].count : InFlight(c, q, g, d, call'[t], m)
    BY DEF Session
  <2>1. r.life = "Established" /\ Same(r, q)
    BY DEF Same, Kept
  <2>2. \A t \in Threads : WorksOn(c, t)' <=> WorksOn(c, t)
    BY DEF WorksOn, Working, On
  <2>3. \A t \in Threads : WorksOn(c, t)' => call'[t] = call[t]
    BY <2>2
  <2>4. /\ Agreed(c, r, g)
        /\ (\A t \in Threads : ~WorksOn(c, t)) => Parked(c, r, g, d, 0)
        /\ \A t \in Threads : WorksOn(c, t) /\ call[t].step = "begun" =>
              Parked(c, r, g, d, call[t].count)
        /\ \A t \in Threads : WorksOn(c, t) /\ call[t].step # "begun" =>
              \E m \in 0..call[t].count : InFlight(c, r, g, d, call[t], m)
    BY <1>1, <2>1 DEF Session
  <2> HIDE DEF r, q, g, d
  <2>5. Agreed(c, q, g)
    BY <2>1, <2>4, SameAgreed
  <2>6. (\A t \in Threads : ~WorksOn(c, t)') => Parked(c, q, g, d, 0)
    BY <2>1, <2>2, <2>4, SameParked
  <2>7. ASSUME NEW t \in Threads, WorksOn(c, t)', call'[t].step = "begun"
        PROVE  Parked(c, q, g, d, call'[t].count)
    BY <2>1, <2>2, <2>3, <2>4, <2>7, SameParked
  <2>8. ASSUME NEW t \in Threads, WorksOn(c, t)', call'[t].step # "begun"
        PROVE  \E m \in 0..call'[t].count : InFlight(c, q, g, d, call'[t], m)
    <3>1. WorksOn(c, t) /\ call'[t] = call[t]
      BY <2>2, <2>3, <2>8
    <3>2. PICK m \in 0..call[t].count : InFlight(c, r, g, d, call[t], m)
      BY <2>4, <2>8, <3>1
    <3>3. InFlight(c, q, g, d, call[t], m)
      BY <2>1, <3>2, SameInFlight
    <3> QED
      BY <3>1, <3>3
  <2> QED
    BY <2>5, <2>6, <2>7, <2>8
<1> QED
  BY <1>3, <1>4 DEF ClientInv

(* A Client whose session is over, or has not begun, does not look at the  *)
(* ring.                                                                   *)
LEMMA Bystander ==
  ASSUME NEW c \in Clients, ClientInv(c), Same(cl[c], cl'[c]),
         cl[c].life \notin {"Constructing", "Established"},
         reg'[Chip[c]].nonce = reg[Chip[c]].nonce,
         reg'[Chip[c]].state = reg[Chip[c]].state,
         reg'[Chip[c]].boot = c => reg[Chip[c]].boot = c,
         down'[Chip[c]] = down[Chip[c]],
         Unread(c)' => Unread(c)
  PROVE  ClientInv(c)'
<1>1. Alone(c, cl[c], reg[Chip[c]], down[Chip[c]], Unread(c))
  BY DEF ClientInv
<1>2. Shape(cl[c])'
  BY <1>1 DEF Same, Kept, Alone, Shape
<1>3. Silent(c, cl[c], reg[Chip[c]], down[Chip[c]], Unread(c))'
  BY <1>1 DEF Same, Kept, Alone, Silent, Mute
<1>4. CleanlyClosed(c, cl[c], reg[Chip[c]], down[Chip[c]])'
  BY <1>1 DEF Same, Kept, Alone, CleanlyClosed
<1>5. cl'[c].life \notin {"Constructing", "Established"}
  BY DEF Same, Kept
<1> QED
  BY <1>2, <1>3, <1>4, <1>5
     DEF ClientInv, Alone, Owned, Shaking, Once, Session

(* A Client that is quarantined or freed without an answer is forgotten.   *)
LEMMA Forgotten ==
  ASSUME NEW c \in Clients, cl'[c].life \in {"Quarantined", "Closed"},
         ~cl'[c].clean
  PROVE  ClientInv(c)'
BY DEF ClientInv, Alone, Shape, Silent, Mute, Owned, Shaking, Once,
       CleanlyClosed, Session

(* Removing the keys of Clients that die frees the keys of no other.       *)
LEMMA KeysStay ==
  ASSUME KeysAreExclusive, NEW D \in SUBSET Clients,
         \A c \in D : Living(c),
         \A c \in Clients : Living(c)' => Living(c) /\ c \notin D,
         keys \ {Chip[c] : c \in D} \subseteq keys'
  PROVE  KeysAreExclusive'
<1>1. ASSUME NEW c \in Clients, Living(c)'
      PROVE  Chip[c] \in keys'
  <2>1. Living(c) /\ c \notin D /\ Chip[c] \in keys
    BY <1>1 DEF KeysAreExclusive
  <2>2. \A e \in D : Chip[e] # Chip[c]
    BY <2>1 DEF KeysAreExclusive
  <2> QED
    BY <2>1, <2>2
<1> QED
  BY <1>1 DEF KeysAreExclusive

(* A chip that only forgets its bootstrap still addresses its own          *)
(* Clients.                                                                *)
LEMMA AddressesStay ==
  ASSUME \A p \in Chips : Addressed(p), down' = down,
         \A p \in Chips : /\ reg'[p].boot = reg[p].boot \/ reg'[p].boot = None
                          /\ reg'[p].nonce = reg[p].nonce
                          /\ reg'[p].state = reg[p].state
                          /\ reg'[p].gen = reg[p].gen
  PROVE  \A p \in Chips : Addressed(p)'
BY DEF Addressed

----------------------------------------------------------------------------
(* Construction.                                                           *)

(* A Client's record, its chip's registry and its channel are well         *)
(* typed.                                                                  *)
LEMMA ClientTypes ==
  ASSUME CallInv, NEW c \in Clients
  PROVE  /\ cl[c] \in ClientState /\ Chip[c] \in Chips
         /\ reg[Chip[c]] \in Registry
         /\ down[Chip[c]] \in Seq(Message)
BY ConstantTypes DEF CallInv, TypeOK

(* A record agrees with itself.                                            *)
LEMMA SameItself ==
  ASSUME NEW r
  PROVE  Same(r, r)
BY DEF Same, Kept

(* A step on one Client's record leaves every other session alone.         *)
LEMMA OthersStay ==
  ASSUME SessionInv, NEW c \in Clients, NEW r \in ClientState,
         cl' = [cl EXCEPT ![c] = r],
         UNCHANGED <<call, reg, busy, down, fits>>,
         KeysAreExclusive', ClientInv(c)'
  PROVE  Sessions'
<1>1. cl'[c] = r /\ \A e \in Clients : e # c => cl'[e] = cl[e]
  BY OneClient DEF SessionInv, CallInv
<1>2. ASSUME NEW e \in Clients, e # c
      PROVE  ClientInv(e)'
  <2>1. Same(cl[e], cl'[e])
    BY <1>1, <1>2, SameItself
  <2>2. ClientInv(e)
    BY DEF SessionInv, Sessions
  <2>3. Unread(e)' => Unread(e)
    BY DEF Unread
  <2> QED
    BY <2>1, <2>2, <2>3, Untouched
<1>3. \A p \in Chips : Addressed(p)'
  BY AddressesStay DEF SessionInv, Sessions
<1> QED
  BY <1>2, <1>3 DEF Sessions

(* A constructor that is refused leaves no session.                        *)
LEMMA RefusedSessions ==
  ASSUME SessionInv, NEW c \in Clients, Refused(c)
  PROVE  Sessions'
<1> DEFINE r == [cl[c] EXCEPT !.life = "Failed"]
<1>1. /\ cl[c] \in ClientState /\ cl[c].life = "Unborn"
      /\ cl' = [cl EXCEPT ![c] = r]
      /\ UNCHANGED <<keys, call, reg, busy, down, fits>>
  BY ClientTypes DEF SessionInv, Refused
<1>2. r \in ClientState /\ r.life = "Failed" /\ r.clean = cl[c].clean
  BY <1>1 DEF ClientState
<1> HIDE DEF r
<1>3. cl'[c] = r /\ \A e \in Clients : e # c => cl'[e] = cl[e]
  BY <1>1, <1>2, OneClient DEF SessionInv, CallInv
<1>4. KeysAreExclusive'
  <2>1. \A e \in Clients : Living(e)' => Living(e)
    BY <1>2, <1>3 DEF Living
  <2> QED
    BY <1>1, <2>1 DEF SessionInv, Sessions, KeysAreExclusive
<1>5. ClientInv(c)'
  <2>1. /\ Silent(c, cl[c], reg[Chip[c]], down[Chip[c]], Unread(c))
        /\ Shape(cl[c])
    BY DEF SessionInv, Sessions, ClientInv, Alone
  <2>2. /\ To(down[Chip[c]], c) = {} /\ reg[Chip[c]].nonce # c /\ ~Unread(c)
        /\ ~r.clean
    BY <1>1, <1>2, <2>1 DEF Silent, Mute, Shape
  <2>3. To(down'[Chip[c]], c) = {} /\ reg'[Chip[c]].nonce # c /\ ~Unread(c)'
    BY <1>1, <2>2 DEF Unread
  <2> QED
    BY <1>2, <1>3, <2>2, <2>3
       DEF ClientInv, Alone, Shape, Silent, Owned, Shaking, Once,
           CleanlyClosed, Session
<1> QED
  BY <1>1, <1>2, <1>4, <1>5, OthersStay

(* A constructor that is admitted holds its key alone.                     *)
LEMMA ConstructSessions ==
  ASSUME SessionInv, NEW c \in Clients, Construct(c)
  PROVE  Sessions'
<1>1. CASE Chip[c] \in keys
  <2>1. Refused(c)
    BY <1>1 DEF Construct, Refused
  <2> QED
    BY <2>1, RefusedSessions
<1>2. CASE Chip[c] \notin keys
  <2> DEFINE r == [cl[c] EXCEPT !.life = "Constructing", !.memory = "held"]
  <2>1. /\ cl[c] \in ClientState /\ cl[c].life = "Unborn"
        /\ keys' = keys \cup {Chip[c]}
        /\ UNCHANGED <<call, reg, busy, down, fits>>
    BY <1>2, ClientTypes DEF SessionInv, Construct
  <2>2. cl' = [cl EXCEPT ![c] = r]
    BY <1>2 DEF Construct
  <2>3. r \in ClientState /\ r.life = "Constructing" /\ r.memory = "held"
        /\ r.clean = cl[c].clean /\ r.attempts = cl[c].attempts
        /\ r.sem = cl[c].sem /\ r.answer = cl[c].answer
    BY <2>1 DEF ClientState
  <2> HIDE DEF r
  <2>4. cl'[c] = r /\ \A e \in Clients : e # c => cl'[e] = cl[e]
    BY <2>2, <2>3, OneClient DEF SessionInv, CallInv
  <2>5. KeysAreExclusive'
    <3>1. \A e \in Clients : e # c /\ Living(e)' => Living(e)
      BY <2>4 DEF Living
    <3>2. \A e \in Clients : Living(e) => Chip[e] \in keys /\ Chip[e] # Chip[c]
      BY <1>2 DEF SessionInv, Sessions, KeysAreExclusive
    <3> QED
      BY <2>1, <3>1, <3>2 DEF SessionInv, Sessions, KeysAreExclusive
  <2>6. ClientInv(c)'
    <3>1. /\ Silent(c, cl[c], reg[Chip[c]], down[Chip[c]], Unread(c))
          /\ Shape(cl[c])
      BY DEF SessionInv, Sessions, ClientInv, Alone
    <3>2. /\ To(down[Chip[c]], c) = {} /\ reg[Chip[c]].nonce # c /\ ~Unread(c)
          /\ r.attempts = 0 /\ r.sem = 0 /\ r.answer = 0 /\ ~r.clean
      BY <2>1, <2>3, <3>1 DEF Silent, Mute, Shape
    <3>3. /\ To(down'[Chip[c]], c) = {} /\ reg'[Chip[c]].nonce # c
          /\ ~Unread(c)'
      BY <2>1, <3>2 DEF Unread
    <3>4. \A kind : Of(down'[Chip[c]], c, kind) = {}
      BY <3>3 DEF Of
    <3> QED
      BY <2>3, <2>4, <3>2, <3>3, <3>4
         DEF ClientInv, Alone, Shape, Silent, Owned, Shaking, Once,
             CleanlyClosed, Session
  <2> QED
    BY <2>1, <2>2, <2>3, <2>5, <2>6, OthersStay
<1> QED
  BY <1>1, <1>2

(* A Client that ends gives up its key or keeps it in quarantine.          *)
LEMMA EndingKeys ==
  ASSUME SessionInv, NEW c \in Clients, NEW r \in ClientState, Living(c),
         cl' = [cl EXCEPT ![c] = r],
         \/ r.life \in {"Constructing", "Established", "Quarantined"}
            /\ keys' = keys
         \/ r.life \in {"Failed", "Closed"} /\ keys' = keys \ {Chip[c]}
  PROVE  KeysAreExclusive'
<1>1. cl'[c] = r /\ \A e \in Clients : e # c => cl'[e] = cl[e]
  BY OneClient DEF SessionInv, CallInv
<1>2. CASE keys' = keys
           /\ r.life \in {"Constructing", "Established", "Quarantined"}
  <2>1. \A e \in Clients : Living(e)' => Living(e)
    BY <1>1 DEF Living
  <2> QED
    BY <1>2, <2>1 DEF SessionInv, Sessions, KeysAreExclusive
<1>3. CASE keys' = keys \ {Chip[c]} /\ r.life \in {"Failed", "Closed"}
  <2>1. \A e \in Clients : Living(e)' => Living(e) /\ e # c
    BY <1>1, <1>3 DEF Living
  <2> DEFINE D == {c}
  <2>2. /\ D \in SUBSET Clients /\ \A e \in D : Living(e)
        /\ keys \ {Chip[e] : e \in D} \subseteq keys'
        /\ \A e \in Clients : Living(e)' => Living(e) /\ e \notin D
    BY <1>3, <2>1
  <2> HIDE DEF D
  <2> QED
    BY <2>2, KeysStay DEF SessionInv, Sessions
<1> QED
  BY <1>2, <1>3

(* A construction is undone when the Server has nothing of the Client.     *)
LEMMA UndoneSessions ==
  ASSUME SessionInv, NEW c \in Clients, cl[c].life = "Constructing",
         To(down[Chip[c]], c) = {}, reg[Chip[c]].nonce # c, ~Unread(c),
         cl' = [cl EXCEPT ![c] = Undone(cl[c])], keys' = keys \ {Chip[c]},
         UNCHANGED <<call, reg, busy, down, fits>>
  PROVE  Sessions'
<1> DEFINE r == Undone(cl[c])
<1>1. r \in ClientState /\ r.life = "Failed" /\ ~r.clean
  BY ClientTypes, EndedClient DEF SessionInv
<1>2. cl' = [cl EXCEPT ![c] = r]
  OBVIOUS
<1> HIDE DEF r
<1>3. cl'[c] = r
  BY <1>1, <1>2, OneClient DEF SessionInv, CallInv
<1>4. KeysAreExclusive'
  BY <1>1, <1>2, EndingKeys DEF Living
<1>5. ClientInv(c)'
  <2>1. To(down'[Chip[c]], c) = {} /\ reg'[Chip[c]].nonce # c /\ ~Unread(c)'
    BY DEF Unread
  <2> QED
    BY <1>1, <1>3, <2>1
       DEF ClientInv, Alone, Shape, Silent, Owned, Shaking, Once,
           CleanlyClosed, Session
<1> QED
  BY <1>1, <1>2, <1>4, <1>5, OthersStay

(* A Client whose outcome is not known keeps everything.                   *)
LEMMA DoubtSessions ==
  ASSUME SessionInv, NEW c \in Clients, cl[c].life = "Constructing",
         cl' = [cl EXCEPT ![c] = Quarantined(cl[c])],
         UNCHANGED <<keys, call, reg, busy, down, fits>>
  PROVE  Sessions'
<1> DEFINE r == Quarantined(cl[c])
<1>1. r \in ClientState /\ r.life = "Quarantined" /\ ~r.clean
  BY ClientTypes, EndedClient DEF SessionInv
<1>2. cl' = [cl EXCEPT ![c] = r]
  OBVIOUS
<1> HIDE DEF r
<1>3. cl'[c] = r
  BY <1>1, <1>2, OneClient DEF SessionInv, CallInv
<1>4. KeysAreExclusive'
  BY <1>1, <1>2, EndingKeys DEF Living
<1>5. ClientInv(c)'
  BY <1>1, <1>3, Forgotten
<1> QED
  BY <1>1, <1>2, <1>4, <1>5, OthersStay

(* A failed preparation gives the key back before anything was sent.       *)
LEMMA PrepareFailsSessions ==
  ASSUME SessionInv, NEW c \in Clients, PrepareFails(c)
  PROVE  Sessions'
<1>1. /\ cl[c].life = "Constructing" /\ ~cl[c].may
      /\ cl' = [cl EXCEPT ![c] = Undone(cl[c])] /\ keys' = keys \ {Chip[c]}
      /\ UNCHANGED <<call, reg, busy, down, fits>>
  BY DEF PrepareFails
<1>2. /\ Silent(c, cl[c], reg[Chip[c]], down[Chip[c]], Unread(c))
      /\ Shape(cl[c])
  BY DEF SessionInv, Sessions, ClientInv, Alone
<1>3. cl[c].attempts = 0
  BY <1>1, <1>2 DEF Shape
<1>4. To(down[Chip[c]], c) = {} /\ reg[Chip[c]].nonce # c /\ ~Unread(c)
  BY <1>1, <1>2, <1>3 DEF Silent, Mute
<1> QED
  BY <1>1, <1>4, UndoneSessions

(* An attempt that times out leaves the session as it was: a late answer   *)
(* may still come for the next one.                                        *)
LEMMA TimedOutSessions ==
  ASSUME SessionInv, NEW c \in Clients, TimedOut(c)
  PROVE  Sessions'
<1> DEFINE r == [cl[c] EXCEPT !.running = FALSE]
<1>1. /\ cl[c] \in ClientState /\ cl[c].life = "Constructing"
      /\ cl' = [cl EXCEPT ![c] = r]
      /\ UNCHANGED <<keys, call, reg, busy, down, fits>>
  BY ClientTypes DEF SessionInv, TimedOut
<1>2. r \in ClientState /\ r.life = "Constructing" /\ Same(cl[c], r)
  BY <1>1 DEF ClientState, Same, Kept
<1> HIDE DEF r
<1>3. cl'[c] = r
  BY <1>1, <1>2, OneClient DEF SessionInv, CallInv
<1>4. KeysAreExclusive'
  BY <1>1, <1>2, EndingKeys DEF Living
<1>5. ClientInv(c)'
  <2>1. Unread(c)' => Unread(c)
    BY <1>1 DEF Unread
  <2> QED
    BY <1>1, <1>2, <1>3, <2>1, Untouched DEF SessionInv, Sessions
<1> QED
  BY <1>1, <1>2, <1>4, <1>5, OthersStay

(* A first attempt that is rejected leaves nothing on its way to the       *)
(* Client; any other failure keeps the key and the memory.                 *)
LEMMA RejectSessions ==
  ASSUME SessionInv, NEW c \in Clients, Reject(c) \/ OutcomeUnknown(c)
  PROVE  Sessions'
<1>1. CASE Reject(c) /\ cl[c].attempts = 1
  <2>1. /\ cl[c].life = "Constructing" /\ cl[c].sem # 0 /\ cl[c].answer = 0
        /\ cl' = [cl EXCEPT ![c] = Undone(cl[c])] /\ keys' = keys \ {Chip[c]}
        /\ UNCHANGED <<call, reg, busy, down, fits>>
    BY <1>1 DEF Reject, Responded
  <2> DEFINE r == cl[c]
             g == reg[Chip[c]]
             d == down[Chip[c]]
  <2>2. Shaking(c, r, g, d, fits[c]) /\ Once(c, r, d, Unread(c))
    BY DEF SessionInv, Sessions, ClientInv, Alone
  <2>3. /\ ~fits[c] /\ g.nonce # c
        /\ Of(d, c, "reply") = {} /\ Of(d, c, "config") = {}
        /\ Of(d, c, "response") = {} /\ ~Unread(c)
    BY <1>1, <2>1, <2>2 DEF Shaking, Once
  <2>4. To(d, c) = {}
    <3>1. \A i \in DOMAIN d : d[i].kind \in {"config", "response", "reply"}
      BY ClientTypes, MessageTypes DEF SessionInv, CallInv, Message
    <3> QED
      BY <2>3, <3>1 DEF To, Of
  <2> QED
    BY <2>1, <2>3, <2>4, UndoneSessions
<1>2. CASE Reject(c) /\ cl[c].attempts # 1
  BY <1>2, DoubtSessions DEF Reject, Responded
<1>3. CASE OutcomeUnknown(c)
  BY <1>3, DoubtSessions DEF OutcomeUnknown
<1> QED
  BY <1>1, <1>2, <1>3

(* An attempt writes the mailbox of the chip over the one before it and    *)
(* forgets no session configuration that a retry still needs.              *)
LEMMA AttemptSessions ==
  ASSUME SessionInv, NEW c \in Clients, Attempt(c)
  PROVE  Sessions'
<1> DEFINE p == Chip[c]
           b == Started(cl[c])
           r == [b EXCEPT !.may = TRUE, !.attempts = cl[c].attempts + 1,
                          !.running = TRUE]
           h == [reg[p] EXCEPT !.boot = c]
<1>1. /\ cl[c] \in ClientState /\ p \in Chips /\ reg[p] \in Registry
      /\ cl[c].life = "Constructing"
      /\ reg' = [reg EXCEPT ![p] = h]
      /\ UNCHANGED <<keys, call, busy, down, fits>>
  BY ClientTypes DEF SessionInv, Attempt
<1>2. cl' = [cl EXCEPT ![c] = r]
  BY DEF Attempt
<1>3. /\ b \in ClientState /\ b.sem = 0
      /\ b.config = (cl[c].config /\ cl[c].attempts # 0)
      /\ b.life = cl[c].life /\ b.memory = cl[c].memory
      /\ b.clean = cl[c].clean /\ b.answer = cl[c].answer
  BY <1>1 DEF Started, ClientState
<1>4. /\ r \in ClientState /\ r.life = "Constructing" /\ r.may
      /\ r.attempts = cl[c].attempts + 1
      /\ r.sem = 0 /\ r.config = (cl[c].config /\ cl[c].attempts # 0)
      /\ r.memory = cl[c].memory /\ r.clean = cl[c].clean
      /\ r.answer = cl[c].answer
  <2> HIDE DEF b
  <2>1. cl[c].attempts \in Nat /\ cl[c].attempts + 1 \in Nat
    BY <1>1 DEF ClientState
  <2> QED
    BY <1>1, <1>3, <2>1 DEF ClientState
<1>5. /\ h \in Registry /\ h.boot = c /\ h.nonce = reg[p].nonce
      /\ h.state = reg[p].state /\ h.gen = reg[p].gen
      /\ h.cursor = reg[p].cursor /\ h.ring = reg[p].ring
  BY <1>1 DEF Registry
<1> HIDE DEF r, h, b
<1>6. /\ cl'[c] = r /\ \A e \in Clients : e # c => cl'[e] = cl[e]
      /\ reg'[p] = h /\ \A q \in Chips : q # p => reg'[q] = reg[q]
  BY <1>1, <1>2, <1>4, <1>5, OneClient DEF SessionInv, CallInv, TypeOK
<1>7. KeysAreExclusive'
  BY <1>1, <1>2, <1>4, EndingKeys DEF Living
<1>8. ASSUME NEW q \in Chips
      PROVE  Addressed(q)'
  <2>1. Addressed(q)
    BY DEF SessionInv, Sessions
  <2> QED
    BY <1>1, <1>5, <1>6, <2>1 DEF Addressed
<1>9. ASSUME NEW e \in Clients, e # c
      PROVE  ClientInv(e)'
  <2>1. ClientInv(e) /\ Same(cl[e], cl'[e]) /\ Chip[e] \in Chips
    BY <1>6, <1>9, SameItself, ConstantTypes DEF SessionInv, Sessions
  <2>2. CASE Chip[e] # p
    <3>1. reg'[Chip[e]] = reg[Chip[e]] /\ (Unread(e)' => Unread(e))
      BY <1>1, <1>6, <2>1, <2>2 DEF Unread
    <3> QED
      BY <1>1, <2>1, <3>1, Untouched
  <2>3. CASE Chip[e] = p
    <3>1. cl[e].life \notin {"Constructing", "Established"}
      BY <1>1, <1>9, <2>3 DEF SessionInv, Sessions, KeysAreExclusive, Living
    <3>2. /\ reg'[Chip[e]].nonce = reg[Chip[e]].nonce
          /\ reg'[Chip[e]].state = reg[Chip[e]].state
          /\ reg'[Chip[e]].boot # e /\ ~Unread(e)'
      BY <1>5, <1>6, <1>9, <2>3 DEF Unread
    <3> QED
      BY <1>1, <2>1, <3>1, <3>2, Bystander
  <2> QED
    BY <2>2, <2>3
<1>10. ClientInv(c)'
  <2> DEFINE o == cl[c]
             g == reg[p]
             d == down[p]
             u == Unread(c)'
  <2>1. Alone(c, o, g, d, Unread(c))
    BY DEF SessionInv, Sessions, ClientInv
  <2>2. o.attempts \in Nat /\ r.attempts # 0 /\ (r.attempts = 1 <=> o.attempts = 0)
    BY <1>1, <1>4 DEF ClientState
  <2>3. o.attempts = 0 =>
            /\ To(d, c) = {} /\ g.nonce # c
            /\ \A kind : Of(d, c, kind) = {}
    BY <1>1, <2>1 DEF Alone, Silent, Mute, Of
  <2>4. Shape(r) /\ CleanlyClosed(c, r, h, d) /\ Silent(c, r, h, d, u)
    BY <1>1, <1>4, <2>1, <2>2 DEF Alone, Shape, CleanlyClosed, Silent, Mute
  <2>5. Owned(c, r, h)
    BY <1>5 DEF Owned
  <2>6. Shaking(c, r, h, d, fits[c])
    <3>1. Shaking(c, o, g, d, fits[c])
      BY <2>1 DEF Alone
    <3>2. CASE o.attempts = 0
      BY <1>1, <1>4, <1>5, <2>3, <3>1, <3>2 DEF Shaking
    <3>3. CASE o.attempts # 0
      <4>1. r.config = o.config
        BY <1>1, <1>4, <3>3 DEF ClientState
      <4> HIDE DEF d, o, g
      <4>2. Blank(h) <=> Blank(g)
        BY <1>5 DEF Blank, g
      <4> QED
        BY <1>1, <1>4, <1>5, <3>1, <4>1, <4>2 DEF Shaking, o, g
    <3> QED
      BY <3>2, <3>3
  <2>7. Once(c, r, d, u)
    BY <1>4, <2>2, <2>3 DEF Once
  <2>8. Alone(c, cl[c], reg[Chip[c]], down[Chip[c]], Unread(c))'
    BY <1>1, <1>6, <2>4, <2>5, <2>6, <2>7 DEF Alone
  <2>9. Session(c)'
    BY <1>4, <1>6 DEF Session
  <2> QED
    BY <2>8, <2>9 DEF ClientInv
<1> QED
  BY <1>7, <1>8, <1>9, <1>10 DEF Sessions

(* The response is accepted: both sides have the session.                  *)
LEMMA AcceptSessions ==
  ASSUME SessionInv, NEW c \in Clients, Accept(c)
  PROVE  Sessions'
<1> DEFINE p == Chip[c]
           o == cl[c]
           g == reg[p]
           d == down[p]
           r == [o EXCEPT !.life = "Established", !.object = TRUE,
                          !.may = FALSE, !.running = FALSE, !.sem = 0,
                          !.token = o.answer, !.slot = 0]
<1>1. /\ o \in ClientState /\ g \in Registry /\ d \in Seq(Message)
      /\ o.life = "Constructing" /\ o.answer # 0
      /\ UNCHANGED <<keys, call, reg, busy, down, fits>>
  BY ClientTypes DEF SessionInv, Accept, Responded
<1>2. cl' = [cl EXCEPT ![c] = r]
  BY DEF Accept
<1>3. /\ r.life = "Established" /\ r.token = o.answer /\ r.slot = 0
      /\ r.memory = o.memory /\ r.clean = o.clean /\ r.attempts = o.attempts
      /\ r.config = o.config
  BY <1>1 DEF ClientState
<1>4. r \in ClientState
  <2>1. o.answer \in 0..Generations /\ 0 \in 0..(RingSlots - 1)
    BY <1>1, ConstantTypes DEF ClientState
  <2> HIDE DEF o
  <2> QED
    BY <1>1, <2>1 DEF ClientState
<1>5. Alone(c, o, g, d, Unread(c))
  BY DEF SessionInv, Sessions, ClientInv
<1> HIDE DEF r
<1>6. cl'[c] = r
  BY <1>2, <1>4, OneClient DEF SessionInv, CallInv
<1>7. KeysAreExclusive'
  BY <1>1, <1>2, <1>3, <1>4, EndingKeys DEF Living
<1> HIDE DEF o, g, d
<1>8. /\ g.nonce = c /\ g.gen = o.answer /\ o.config /\ g.state = "Established"
      /\ g.cursor = 0 /\ Blank(g) /\ Of(d, c, "reply") = {}
  BY <1>1, <1>5 DEF Alone, Shaking
<1>9. o.attempts # 0
  BY <1>1, <1>5, <1>8 DEF Alone, Silent, Mute
<1>10. Agreed(c, r, g)
  BY <1>1, <1>3, <1>8 DEF Agreed
<1>11. Parked(c, r, g, d, 0)
  <2>1. Back(0, 0) = 0 /\ 0 % RingSlots = 0
    <3>1. RingSlots \in Nat \ {0} /\ 0 \in 0..(RingSlots - 1)
          /\ 0 \in 0..RingSlots /\ 0 < 2 * RingSlots
      BY ConstantTypes
    <3> QED
      BY <3>1, BackIs, ModShort
  <2> QED
    BY <1>3, <1>8, <2>1 DEF Parked
<1>12. \A t \in Threads : ~WorksOn(c, t)'
  BY <1>1 DEF WorksOn, Working, On, SessionInv, CallInv, WorkIsEstablished, o
<1>13. Alone(c, r, g, d, Unread(c)')
  BY <1>1, <1>3, <1>5, <1>9
     DEF Alone, Shape, Silent, Mute, Owned, Shaking, Once, CleanlyClosed
<1>14. ClientInv(c)'
  <2>1. Alone(c, cl[c], reg[Chip[c]], down[Chip[c]], Unread(c))'
    BY <1>1, <1>6, <1>13 DEF Alone, g, d
  <2>2. Session(c)'
    BY <1>1, <1>6, <1>10, <1>11, <1>12 DEF Session, g, d
  <2> QED
    BY <2>1, <2>2 DEF ClientInv
<1> QED
  BY <1>1, <1>2, <1>4, <1>7, <1>14, OthersStay

----------------------------------------------------------------------------
(* Calls.                                                                  *)

(* Nobody else works on the Clients of a thread that has its locks.        *)
LEMMA NobodyElse ==
  ASSUME CallInv, NEW t \in Threads, call[t].op # "none",
         call[t].step # "lock", NEW c \in On(t), NEW u \in Threads, u # t
  PROVE  ~WorksOn(c, u)
<1>1. CallShape(t) /\ CallShape(u)
  BY DEF CallInv
<1> QED
  BY <1>1, WorkIsApart DEF CallInv, WorksOn, Working

(* The step of a thread that has no transaction open, before or after it.  *)
LEMMA IdleStep ==
  ASSUME SessionInv, NEW t \in Threads, ~Working(t), ~Working(t)',
         \A u \in Threads : u # t => call'[u] = call[u],
         \A c \in Clients : Same(cl[c], cl'[c]),
         UNCHANGED <<keys, reg, busy, down, fits>>
  PROVE  Sessions'
<1>1. ASSUME NEW c \in Clients
      PROVE  ClientInv(c)'
  <2>1. ClientInv(c)
    BY DEF SessionInv, Sessions
  <2>2. Unread(c)' => Unread(c)
    BY DEF Unread
  <2>3. \A u \in Threads : \/ call'[u] = call[u]
                           \/ ~WorksOn(c, u) /\ ~WorksOn(c, u)'
    BY DEF WorksOn
  <2> QED
    BY <2>1, <2>2, <2>3, Untouched
<1>2. KeysAreExclusive'
  <2>1. \A c \in Clients : Living(c)' <=> Living(c)
    BY DEF Living, Same, Kept
  <2> QED
    BY <2>1 DEF SessionInv, Sessions, KeysAreExclusive
<1>3. \A p \in Chips : Addressed(p)'
  BY AddressesStay DEF SessionInv, Sessions
<1> QED
  BY <1>1, <1>2, <1>3 DEF Sessions

(* An established Client has read the generation the chip keeps.           *)
LEMMA EnterSessions ==
  ASSUME SessionInv, NEW t \in Threads, NEW on, NEW op, NEW count,
         Enter(t, op, on, count)
  PROVE  Sessions'
<1> DEFINE next(c) == [cl[c] EXCEPT !.calls = cl[c].calls + 1,
                                    !.object = op # "destroy"]
<1>1. /\ call[t].op = "none"
      /\ cl' = [c \in Clients |-> IF c \in Range(on) THEN next(c) ELSE cl[c]]
      /\ UNCHANGED <<keys, reg, busy, down, fits>>
  BY DEF Enter
<1>2. \A u \in Threads : u # t => call'[u] = call[u]
  BY DEF Enter, SessionInv, CallInv, TypeOK
<1>3. call'[t].step = "lock"
  BY IdleType DEF Enter, SessionInv, CallInv, TypeOK, CallState
<1>4. ASSUME NEW c \in Clients
      PROVE  Same(cl[c], next(c))
  <2>1. cl[c] \in ClientState
    BY ClientTypes DEF SessionInv
  <2> QED
    BY <2>1 DEF ClientState, Same, Kept
<1> HIDE DEF next
<1>5. \A c \in Clients : Same(cl[c], cl'[c])
  BY <1>1, <1>4, SameItself
<1>6. ~Working(t) /\ ~Working(t)'
  BY <1>1, <1>3 DEF Working
<1> QED
  BY <1>1, <1>2, <1>5, <1>6, IdleStep

(* A call that begins has sent nothing yet.                                *)
LEMMA BeginsSessions ==
  ASSUME SessionInv, NEW t \in Threads,
         \/ \E c \in Clients : Request(t, c) \/ Close(t, c) \/ Destroy(t, c)
         \/ GetParallel(t)
  PROVE  Sessions'
BY EnterSessions DEF Request, Close, Destroy, GetParallel

(* Taking a lock sends nothing.                                            *)
LEMMA LockSessions ==
  ASSUME SessionInv, NEW t \in Threads, Lock(t)
  PROVE  Sessions'
<1>1. /\ call[t].op # "none" /\ call[t].step = "lock"
      /\ UNCHANGED <<cl, keys, reg, busy, down, fits>>
      /\ \A u \in Threads : u # t => call'[u] = call[u]
  BY DEF Lock, SessionInv, CallInv, TypeOK
<1>2. call'[t].step \in {"lock", "begin"}
  BY DEF Lock, SessionInv, CallInv, TypeOK, CallState
<1>3. ~Working(t) /\ ~Working(t)'
  BY <1>1, <1>2 DEF Working
<1>4. \A c \in Clients : Same(cl[c], cl'[c])
  BY <1>1, SameItself
<1> QED
  BY <1>1, <1>3, <1>4, IdleStep

(* Nor does turning a call away.                                           *)
LEMMA TurnedAwaySessions ==
  ASSUME SessionInv, NEW t \in Threads, TurnedAway(t)
  PROVE  Sessions'
<1>1. /\ call[t].step = "begin" /\ call' = [call EXCEPT ![t] = Idle]
      /\ UNCHANGED <<cl, keys, reg, busy, down, fits>>
  BY DEF TurnedAway, At, Return
<1>2. /\ \A u \in Threads : u # t => call'[u] = call[u]
      /\ call'[t] = Idle
  BY <1>1 DEF SessionInv, CallInv, TypeOK
<1>3. ~Working(t) /\ ~Working(t)'
  BY <1>1, <1>2, IdleType DEF Working
<1>4. \A c \in Clients : Same(cl[c], cl'[c])
  BY <1>1, SameItself
<1> QED
  BY <1>1, <1>2, <1>3, <1>4, IdleStep

(* The step of a thread on Clients whose locks it has: the others look on. *)
LEMMA Onlookers ==
  ASSUME SessionInv, NEW t \in Threads, NEW k,
         call' = [call EXCEPT ![t] = k], k.on = call[t].on \/ ~Working(t)',
         NEW c \in Clients, c \notin On(t), cl'[c] = cl[c],
         UNCHANGED <<reg, busy, down, fits>>
  PROVE  ClientInv(c)'
<1>1. call'[t] = k /\ \A u \in Threads : u # t => call'[u] = call[u]
  BY DEF SessionInv, CallInv, TypeOK
<1>2. ~WorksOn(c, t) /\ ~WorksOn(c, t)'
  BY <1>1 DEF WorksOn, On
<1>3. ClientInv(c) /\ Same(cl[c], cl'[c])
  BY SameItself DEF SessionInv, Sessions
<1>4. Unread(c)' => Unread(c)
  BY DEF Unread
<1>5. \A u \in Threads : \/ call'[u] = call[u]
                         \/ ~WorksOn(c, u) /\ ~WorksOn(c, u)'
  BY <1>1, <1>2
<1> QED
  BY <1>3, <1>4, <1>5, Untouched

(* What is known of a Client of a thread that has its locks.               *)
LEMMA AtWork ==
  ASSUME SessionInv, NEW t \in Threads, call[t].op # "none",
         call[t].step # "lock", NEW c \in On(t), cl[c].life = "Established"
  PROVE  LET r == cl[c]
             g == reg[Chip[c]]
             d == down[Chip[c]]
         IN /\ c \in Clients /\ r \in ClientState
            /\ g \in Registry /\ d \in Seq(Message)
            /\ call[t].count \in 1..RingSlots
            /\ Alone(c, r, g, d, Unread(c)) /\ Agreed(c, r, g)
            /\ call[t].step = "begin" => Parked(c, r, g, d, 0)
            /\ call[t].step = "begun" => Parked(c, r, g, d, call[t].count)
            /\ call[t].step = "sent" =>
                  \E m \in 0..call[t].count : InFlight(c, r, g, d, call[t], m)
<1>1. /\ c \in Clients /\ call[t].count \in 1..RingSlots
      /\ \A u \in Threads : u # t => ~WorksOn(c, u)
  BY HoldsAll, NobodyElse DEF SessionInv
<1>2. /\ cl[c] \in ClientState /\ reg[Chip[c]] \in Registry
      /\ down[Chip[c]] \in Seq(Message)
  BY <1>1, ClientTypes DEF SessionInv
<1>3. /\ Alone(c, cl[c], reg[Chip[c]], down[Chip[c]], Unread(c))
      /\ Session(c)
  BY <1>1 DEF SessionInv, Sessions, ClientInv
<1>4. CASE call[t].step = "begin"
  <2>1. \A u \in Threads : ~WorksOn(c, u)
    BY <1>1, <1>4 DEF WorksOn, Working
  <2> QED
    BY <1>1, <1>2, <1>3, <1>4, <2>1 DEF Session
<1>5. CASE call[t].step \in {"begun", "sent"}
  <2>1. WorksOn(c, t)
    BY <1>5 DEF WorksOn, Working
  <2> QED
    BY <1>1, <1>2, <1>3, <1>5, <2>1 DEF Session
<1>6. call[t].step \in {"begin", "begun", "sent"}
  BY DEF SessionInv, CallInv, TypeOK, CallState
<1> QED
  BY <1>4, <1>5, <1>6

(* The state of such a Client after a step of its thread: parked if the    *)
(* thread has no transaction open any more.                                *)
LEMMA AfterWork ==
  ASSUME SessionInv, NEW t \in Threads, NEW k, call[t].op # "none",
         call[t].step # "lock", call' = [call EXCEPT ![t] = k],
         NEW c \in On(t), cl'[c].life = "Established",
         LET r == cl'[c]
             g == reg'[Chip[c]]
             d == down'[Chip[c]]
         IN /\ Agreed(c, r, g)
            /\ ~Working(t)' => Parked(c, r, g, d, 0)
            /\ k.step = "begun" => Parked(c, r, g, d, k.count)
            /\ k.step = "sent" =>
                  \E m \in 0..k.count : InFlight(c, r, g, d, k, m),
         Working(t)' => k.on = call[t].on
  PROVE  Session(c)'
<1>1. call'[t] = k /\ \A u \in Threads : u # t => call'[u] = call[u]
  BY DEF SessionInv, CallInv, TypeOK
<1>2. \A u \in Threads : u # t => ~WorksOn(c, u)'
  <2>1. \A u \in Threads : u # t => ~WorksOn(c, u)
    BY NobodyElse DEF SessionInv
  <2> QED
    BY <1>1, <2>1 DEF WorksOn, Working, On
<1>3. Working(t)' => WorksOn(c, t)'
  BY <1>1 DEF WorksOn, On
<1>4. WorksOn(c, t)' => Working(t)' /\ k.step \in {"begun", "sent"}
  BY <1>1 DEF WorksOn, Working
<1>5. (\A u \in Threads : ~WorksOn(c, u)') =>
          Parked(c, cl'[c], reg'[Chip[c]], down'[Chip[c]], 0)
  BY <1>3
<1>6. ASSUME NEW u \in Threads, WorksOn(c, u)', call'[u].step = "begun"
      PROVE  Parked(c, cl'[c], reg'[Chip[c]], down'[Chip[c]], call'[u].count)
  BY <1>1, <1>2, <1>6
<1>7. ASSUME NEW u \in Threads, WorksOn(c, u)', call'[u].step # "begun"
      PROVE  \E m \in 0..call'[u].count :
                InFlight(c, cl'[c], reg'[Chip[c]], down'[Chip[c]], call'[u], m)
  <2>1. u = t /\ call'[u] = k
    BY <1>1, <1>2, <1>7
  <2>2. k.step = "sent"
    BY <1>4, <1>7, <2>1
  <2> QED
    BY <2>1, <2>2
<1> QED
  BY <1>5, <1>6, <1>7 DEF Session

(* A step of a thread on the Clients whose locks it has.                   *)
LEMMA WorkStep ==
  ASSUME SessionInv, NEW t \in Threads, NEW k,
         call[t].op # "none", call[t].step # "lock",
         call' = [call EXCEPT ![t] = k], k.on = call[t].on \/ ~Working(t)',
         \A c \in Clients : c \notin On(t) => cl'[c] = cl[c],
         UNCHANGED <<reg, busy, down, fits>>,
         KeysAreExclusive',
         \A c \in On(t) : ClientInv(c)'
  PROVE  Sessions'
<1>1. ASSUME NEW c \in Clients
      PROVE  ClientInv(c)'
  BY Onlookers
<1>2. \A p \in Chips : Addressed(p)'
  BY AddressesStay DEF SessionInv, Sessions
<1> QED
  BY <1>1, <1>2 DEF Sessions

(* A Client at work whose bookkeeping of slots and replies moved.          *)
LEMMA WorkedOn ==
  ASSUME SessionInv, NEW t \in Threads, NEW k,
         call[t].op # "none", call[t].step # "lock",
         call' = [call EXCEPT ![t] = k], Working(t)' => k.on = call[t].on,
         NEW c \in On(t), cl[c].life = "Established",
         Kept(cl[c], cl'[c]), cl'[c].token = cl[c].token,
         UNCHANGED <<busy, down, fits>>,
         \/ reg'[Chip[c]] = reg[Chip[c]]
         \/ /\ reg'[Chip[c]].nonce = reg[Chip[c]].nonce
            /\ reg'[Chip[c]].gen = reg[Chip[c]].gen
            /\ reg'[Chip[c]].boot = reg[Chip[c]].boot,
         ~Working(t)' =>
            Parked(c, cl'[c], reg'[Chip[c]], down[Chip[c]], 0),
         k.step = "begun" =>
            Parked(c, cl'[c], reg'[Chip[c]], down[Chip[c]], k.count),
         k.step = "sent" => \E m \in 0..k.count :
            InFlight(c, cl'[c], reg'[Chip[c]], down[Chip[c]], k, m)
  PROVE  ClientInv(c)'
<1> DEFINE r == cl[c]
           q == cl'[c]
           g == reg[Chip[c]]
           h == reg'[Chip[c]]
           d == down[Chip[c]]
<1>1. c \in Clients /\ Alone(c, r, g, d, Unread(c)) /\ Agreed(c, r, g)
  BY AtWork
<1>2. Unread(c)' => Unread(c)
  BY DEF Unread
<1>3. /\ Kept(r, q) /\ r.life = "Established" /\ q.token = r.token
      /\ h.nonce = g.nonce /\ h.gen = g.gen /\ h.boot = g.boot
  OBVIOUS
<1>4. Alone(c, q, h, d, Unread(c)')
  <2> HIDE DEF r, q, g, h, d
  <2>1. Alone(c, q, g, d, Unread(c)')
    BY <1>1, <1>2, <1>3, UnreadType, KeptAlone
  <2>2. q.life = "Established" /\ (q.clean => q.life = "Closed")
    BY <1>3, <2>1 DEF Kept, Alone, Shape
  <2> QED
    BY <1>3, <2>1, <2>2
       DEF Alone, Silent, Mute, Owned, Shaking, Once, CleanlyClosed
<1>5. Alone(c, cl[c], reg[Chip[c]], down[Chip[c]], Unread(c))'
  BY <1>4 DEF Alone
<1>6. Agreed(c, q, h) /\ q.life = "Established"
  <2> HIDE DEF r, q, g, h, d
  <2> QED
    BY <1>1, <1>3 DEF Agreed, Kept
<1>7. Session(c)'
  BY <1>6, AfterWork
<1> QED
  BY <1>5, <1>7 DEF ClientInv

(* Opening a transaction sends nothing yet.                                *)
LEMMA BeginSessions ==
  ASSUME SessionInv, NEW t \in Threads, Begin(t)
  PROVE  Sessions'
<1> DEFINE k == [call[t] EXCEPT !.step = "begun"]
           n == call[t].count
<1>1. /\ call[t].op # "none" /\ call[t].step = "begin"
      /\ \A c \in On(t) : cl[c].life = "Established"
      /\ cl' = [c \in Clients |->
            IF c \in On(t) THEN Advanced(cl[c], n) ELSE cl[c]]
      /\ call' = [call EXCEPT ![t] = k]
      /\ UNCHANGED <<keys, reg, busy, down, fits>>
  BY DEF Begin, At
<1>2. /\ call[t] \in CallState /\ n \in 1..RingSlots /\ n \in 0..RingSlots
      /\ \A c \in Clients : cl[c] \in ClientState
      /\ On(t) \subseteq Clients
  BY <1>1, HoldsAll DEF SessionInv
<1>3. k.on = call[t].on /\ k.step = "begun" /\ k.count = n /\ k.op # "none"
  BY <1>1, <1>2 DEF CallState
<1> HIDE DEF k
<1>4. call'[t] = k
  BY <1>1 DEF SessionInv, CallInv, TypeOK
<1>5. Working(t)'
  BY <1>3, <1>4 DEF Working
<1>6. ASSUME NEW c \in On(t)
      PROVE  /\ Kept(cl[c], cl'[c]) /\ cl'[c].token = cl[c].token
             /\ cl'[c].slot = (cl[c].slot + n) % RingSlots
  <2>1. cl[c] \in ClientState /\ cl'[c] = Advanced(cl[c], n)
    BY <1>1, <1>2
  <2> DEFINE s == (cl[c].slot + n) % RingSlots
  <2>2. cl'[c] = [cl[c] EXCEPT !.slot = s]
    BY <2>1 DEF Advanced
  <2> HIDE DEF s
  <2>3. /\ Kept(cl[c], cl'[c]) /\ cl'[c].token = cl[c].token
        /\ cl'[c].slot = s
    BY <2>1, <2>2 DEF ClientState, Kept
  <2> QED
    BY <2>3 DEF s
<1>7. ASSUME NEW c \in On(t)
      PROVE  ClientInv(c)'
  <2> DEFINE r == cl[c]
             q == cl'[c]
             g == reg[Chip[c]]
             d == down[Chip[c]]
  <2>1. r \in ClientState /\ Parked(c, r, g, d, 0)
    BY <1>1, AtWork
  <2>2. r.slot \in 0..(RingSlots - 1)
    BY <2>1 DEF ClientState
  <2>3. Back(r.slot, 0) = r.slot /\ Back(q.slot, n) = r.slot
    BY <1>2, <1>6, <2>2, BackIs, BackOfAdvanced
  <2>4. Parked(c, q, g, d, n)
    BY <2>1, <2>3 DEF Parked
  <2> QED
    BY <1>1, <1>3, <1>5, <1>6, <2>4, WorkedOn
<1>8. KeysAreExclusive'
  <2>1. \A c \in Clients : Living(c)' <=> Living(c)
    BY <1>1, <1>6 DEF Living, Kept
  <2> QED
    BY <1>1, <2>1 DEF SessionInv, Sessions, KeysAreExclusive
<1>9. \A c \in Clients : c \notin On(t) => cl'[c] = cl[c]
  BY <1>1
<1> QED
  BY <1>1, <1>3, <1>7, <1>8, <1>9, WorkStep

(* A Client whose session is over, with what it left on the Server.        *)
LEMMA Over ==
  ASSUME NEW c \in Clients, cl'[c].life \in {"Quarantined", "Closed"},
         cl'[c].clean => cl'[c].life = "Closed",
         CleanlyClosed(c, cl'[c], reg'[Chip[c]], down'[Chip[c]])
  PROVE  ClientInv(c)'
<1>1. CleanlyClosed(c, cl[c], reg[Chip[c]], down[Chip[c]])'
  BY DEF CleanlyClosed
<1> QED
  BY <1>1 DEF ClientInv, Alone, Shape, Silent, Mute, Owned, Shaking, Once,
              Session

(* A call returns: its Clients are parked again or their sessions are over.*)
LEMMA ReturnSessions ==
  ASSUME SessionInv, NEW t \in Threads, Return(t),
         call[t].op # "none", call[t].step # "lock",
         \A c \in On(t) : cl[c].life = "Established",
         \A c \in Clients : c \notin On(t) => cl'[c] = cl[c],
         UNCHANGED <<reg, busy, down, fits>>,
         \/ keys' = keys
         \/ /\ keys' = keys \ {Chip[c] : c \in On(t)}
            /\ \A c \in On(t) : cl'[c].life = "Closed",
         \A c \in On(t) :
            \/ /\ cl'[c].life \in {"Quarantined", "Closed"}
               /\ cl'[c].clean => cl'[c].life = "Closed"
               /\ CleanlyClosed(c, cl'[c], reg[Chip[c]], down[Chip[c]])
            \/ /\ Kept(cl[c], cl'[c]) /\ cl'[c].token = cl[c].token
               /\ Parked(c, cl'[c], reg[Chip[c]], down[Chip[c]], 0)
  PROVE  Sessions'
<1>1. call' = [call EXCEPT ![t] = Idle] /\ call'[t] = Idle
  BY DEF Return, SessionInv, CallInv, TypeOK
<1>2. ~Working(t)' /\ Idle.step = "lock"
  BY <1>1, IdleType DEF Working
<1>3. On(t) \subseteq Clients
  BY HoldsAll DEF SessionInv
<1>4. ASSUME NEW c \in On(t)
      PROVE  ClientInv(c)'
  <2>1. CASE /\ cl'[c].life \in {"Quarantined", "Closed"}
             /\ cl'[c].clean => cl'[c].life = "Closed"
             /\ CleanlyClosed(c, cl'[c], reg[Chip[c]], down[Chip[c]])
    <3>1. CleanlyClosed(c, cl'[c], reg'[Chip[c]], down'[Chip[c]])
      BY <2>1 DEF CleanlyClosed
    <3> QED
      BY <1>3, <2>1, <3>1, Over
  <2>2. CASE /\ Kept(cl[c], cl'[c]) /\ cl'[c].token = cl[c].token
             /\ Parked(c, cl'[c], reg[Chip[c]], down[Chip[c]], 0)
    <3>1. Parked(c, cl'[c], reg'[Chip[c]], down[Chip[c]], 0)
      BY <2>2
    <3> QED
      BY <1>1, <1>2, <2>2, <3>1, WorkedOn
  <2> QED
    BY <2>1, <2>2
<1>5. KeysAreExclusive'
  <2>1. /\ \A c \in On(t) : Living(c)
        /\ \A c \in Clients : Living(c)' => Living(c)
    BY DEF Living
  <2>2. CASE keys' = keys
    BY <2>1, <2>2 DEF SessionInv, Sessions, KeysAreExclusive
  <2>3. CASE /\ keys' = keys \ {Chip[c] : c \in On(t)}
             /\ \A c \in On(t) : cl'[c].life = "Closed"
    <3>1. \A c \in Clients : Living(c)' => Living(c) /\ c \notin On(t)
      BY <2>1, <2>3 DEF Living
    <3> QED
      BY <1>3, <2>1, <2>3, <3>1, KeysStay DEF SessionInv, Sessions
  <2> QED
    BY <2>2, <2>3
<1> QED
  BY <1>1, <1>2, <1>4, <1>5, WorkStep

(* Rolling a transaction back puts its slots back.                         *)
LEMMA RollBackSessions ==
  ASSUME SessionInv, NEW t \in Threads, RollBack(t)
  PROVE  Sessions'
<1> DEFINE n == call[t].count
           back(c) == Restored(cl[c], n)
           after(c) ==
               IF call[t].packet = "detach" THEN Quarantined(back(c))
               ELSE IF call[t].op = "destroy" THEN Released(back(c), FALSE)
               ELSE back(c)
<1>1. /\ call[t].op # "none" /\ call[t].step = "begun" /\ Return(t)
      /\ cl' = [c \in Clients |-> IF c \in On(t) THEN after(c) ELSE cl[c]]
      /\ keys' = IF call[t].op = "destroy" /\ call[t].packet # "detach"
                 THEN keys \ {Chip[c] : c \in On(t)} ELSE keys
      /\ UNCHANGED <<reg, busy, down, fits>>
  BY DEF RollBack, At
<1>2. /\ call[t] \in CallState /\ n \in 1..RingSlots /\ n \in 0..RingSlots
      /\ \A c \in Clients : cl[c] \in ClientState
      /\ On(t) \subseteq Clients
      /\ \A c \in On(t) : cl[c].life = "Established"
  BY <1>1, HoldsAll DEF SessionInv, Working
<1>3. ASSUME NEW c \in On(t)
      PROVE  /\ back(c) \in ClientState
             /\ Kept(cl[c], back(c)) /\ back(c).token = cl[c].token
             /\ back(c).slot = Back(cl[c].slot, n)
  <2>1. cl[c] \in ClientState /\ back(c) \in ClientState
    BY <1>2, SlotTypes
  <2> DEFINE s == Back(cl[c].slot, n)
             r == back(c)
  <2>2. r = [cl[c] EXCEPT !.slot = s]
    BY DEF Restored, Back
  <2> HIDE DEF s, r
  <2>3. Kept(cl[c], r) /\ r.token = cl[c].token /\ r.slot = s
    BY <2>1, <2>2 DEF ClientState, Kept
  <2> QED
    BY <2>1, <2>3 DEF s, r
<1> HIDE DEF back
<1>4. ASSUME NEW c \in On(t), call[t].packet # "detach", call[t].op # "destroy"
      PROVE  Parked(c, back(c), reg[Chip[c]], down[Chip[c]], 0)
  <2>1. cl[c] \in ClientState /\ Parked(c, cl[c], reg[Chip[c]], down[Chip[c]], n)
    BY <1>1, <1>2, AtWork
  <2>2. back(c).slot \in 0..(RingSlots - 1)
    BY <1>3 DEF ClientState
  <2>3. Back(back(c).slot, 0) = Back(cl[c].slot, n)
    BY <1>2, <1>3, <2>2, BackIs
  <2> QED
    BY <2>1, <2>3 DEF Parked
<1>5. ASSUME NEW c \in On(t)
      PROVE
        \/ /\ after(c).life \in {"Quarantined", "Closed"}
           /\ after(c).clean => after(c).life = "Closed"
           /\ CleanlyClosed(c, after(c), reg[Chip[c]], down[Chip[c]])
        \/ /\ Kept(cl[c], after(c)) /\ after(c).token = cl[c].token
           /\ Parked(c, after(c), reg[Chip[c]], down[Chip[c]], 0)
  <2>1. CASE call[t].packet = "detach" \/ call[t].op = "destroy"
    <3>1. after(c).life \in {"Quarantined", "Closed"} /\ ~after(c).clean
      BY <2>1, <1>3, EndedClient
    <3> HIDE DEF after
    <3> QED
      BY <3>1 DEF CleanlyClosed
  <2>2. CASE call[t].packet # "detach" /\ call[t].op # "destroy"
    BY <1>3, <1>4, <2>2
  <2> QED
    BY <2>1, <2>2
<1>6. \/ keys' = keys
      \/ /\ keys' = keys \ {Chip[c] : c \in On(t)}
         /\ \A c \in On(t) : after(c).life = "Closed"
  <2>1. CASE call[t].op = "destroy" /\ call[t].packet # "detach"
    BY <1>1, <1>3, <2>1, EndedClient
  <2>2. CASE ~(call[t].op = "destroy" /\ call[t].packet # "detach")
    BY <1>1, <2>2
  <2> QED
    BY <2>1, <2>2
<1> HIDE DEF after
<1>7. /\ \A c \in On(t) : cl'[c] = after(c)
      /\ \A c \in Clients : c \notin On(t) => cl'[c] = cl[c]
  BY <1>1, <1>2
<1>8. \A c \in On(t) :
        \/ /\ cl'[c].life \in {"Quarantined", "Closed"}
           /\ cl'[c].clean => cl'[c].life = "Closed"
           /\ CleanlyClosed(c, cl'[c], reg[Chip[c]], down[Chip[c]])
        \/ /\ Kept(cl[c], cl'[c]) /\ cl'[c].token = cl[c].token
           /\ Parked(c, cl'[c], reg[Chip[c]], down[Chip[c]], 0)
  BY <1>5, <1>7
<1> QED
  BY <1>1, <1>2, <1>6, <1>7, <1>8, ReturnSessions

(* Once all the replies are in, nothing of the transaction is under way.   *)
LEMMA AnsweredIs ==
  ASSUME SessionInv, NEW t \in Threads, call[t].op # "none",
         call[t].step = "sent", Answered(t), NEW c \in On(t),
         cl[c].life = "Established"
  PROVE  /\ call[t].packet # "detach" =>
               Parked(c, cl[c], reg[Chip[c]], down[Chip[c]], 0)
         /\ call[t].packet = "detach" =>
               /\ reg[Chip[c]].state = "Retired" /\ reg[Chip[c]].nonce = c
               /\ To(down[Chip[c]], c) = {}
<1> DEFINE r == cl[c]
           g == reg[Chip[c]]
           d == down[Chip[c]]
           k == call[t]
<1>1. /\ r \in ClientState /\ d \in Seq(Message) /\ k.count \in 1..RingSlots
      /\ Agreed(c, r, g)
      /\ \E m \in 0..k.count : InFlight(c, r, g, d, k, m)
  BY AtWork
<1>2. PICK m \in 0..k.count : InFlight(c, r, g, d, k, m)
  BY <1>1
<1>3. r.recv >= k.count /\ r.recv \in Nat
  BY <1>1 DEF Answered, ClientState
<1> HIDE DEF r, g, d, k
<1>4. Cardinality(Of(d, c, "reply")) \in Nat /\ IsFiniteSet(Of(d, c, "reply"))
  BY <1>1, RepliesFinite
<1>5. m + Cardinality(Of(d, c, "reply")) + r.recv = k.count
  BY <1>2 DEF InFlight
<1>6. m = 0 /\ Cardinality(Of(d, c, "reply")) = 0
  BY <1>1, <1>3, <1>4, <1>5
<1>7. Of(d, c, "reply") = {}
  BY <1>4, <1>6, FS_EmptySet
<1>8. Blank(g)
  BY <1>2, <1>6 DEF InFlight, Blank
<1>9. CASE k.packet # "detach"
  <2>1. g.state = "Established" /\ g.cursor % RingSlots = Back(r.slot, 0)
    BY <1>2, <1>6, <1>9 DEF InFlight
  <2>2. Parked(c, r, g, d, 0)
    BY <1>7, <1>8, <2>1 DEF Parked
  <2> QED
    BY <1>9, <2>2 DEF r, g, d, k
<1>10. CASE k.packet = "detach"
  <2>1. /\ g.state = "Retired" /\ g.nonce = c
        /\ \A i \in To(d, c) : \E j \in Of(d, c, "reply") : i <= j
    BY <1>1, <1>2, <1>6, <1>10 DEF InFlight, Agreed
  <2>2. To(d, c) = {}
    BY <1>7, <2>1
  <2> QED
    BY <1>10, <2>1, <2>2 DEF r, g, d, k
<1> QED
  BY <1>9, <1>10

(* A quarantined Client keeps its memory and its key.                      *)
LEMMA QuarantineSessions ==
  ASSUME SessionInv, NEW t \in Threads, NEW Q \in SUBSET On(t),
         call[t].op # "none", call[t].step # "lock", Return(t),
         cl' = [c \in Clients |-> IF c \in Q THEN Quarantined(cl[c]) ELSE cl[c]],
         UNCHANGED <<keys, reg, busy, down, fits>>,
         \A c \in On(t) : cl[c].life = "Established",
         \A c \in On(t) : c \notin Q =>
             Parked(c, cl[c], reg[Chip[c]], down[Chip[c]], 0)
  PROVE  Sessions'
<1>1. On(t) \subseteq Clients /\ \A c \in Clients : cl[c] \in ClientState
  BY HoldsAll DEF SessionInv
<1>2. ASSUME NEW c \in On(t)
      PROVE
        \/ /\ cl'[c].life \in {"Quarantined", "Closed"}
           /\ cl'[c].clean => cl'[c].life = "Closed"
           /\ CleanlyClosed(c, cl'[c], reg[Chip[c]], down[Chip[c]])
        \/ /\ Kept(cl[c], cl'[c]) /\ cl'[c].token = cl[c].token
           /\ Parked(c, cl'[c], reg[Chip[c]], down[Chip[c]], 0)
  <2>1. CASE c \in Q
    <3>1. cl'[c].life = "Quarantined" /\ ~cl'[c].clean
      BY <1>1, <2>1, EndedClient
    <3> QED
      BY <3>1 DEF CleanlyClosed
  <2>2. CASE c \notin Q
    <3>1. cl'[c] = cl[c]
      BY <1>1, <2>2
    <3> QED
      BY <2>2, <3>1 DEF Kept
  <2> QED
    BY <2>1, <2>2
<1>3. \A c \in Clients : c \notin On(t) => cl'[c] = cl[c]
  BY <1>1
<1> QED
  BY <1>1, <1>2, <1>3, ReturnSessions

(* Every way an operation fails leaves each Client in a known session.     *)
LEMMA FailingSessions ==
  ASSUME SessionInv, NEW t \in Threads, EnqueueFails(t) \/ FailAfterEnqueue(t)
  PROVE  Sessions'
<1>1. /\ call[t].op # "none" /\ call[t].step \in {"begun", "sent"} /\ Return(t)
      /\ UNCHANGED <<keys, reg, busy, down, fits>>
  BY DEF EnqueueFails, FailAfterEnqueue, At
<1>2. /\ call[t] \in CallState /\ CallShape(t)
      /\ \A c \in On(t) : cl[c].life = "Established"
  BY <1>1, HoldsAll DEF SessionInv, CallInv, Working
<1>3. CASE EnqueueFails(t)
  <2>1. cl' = [c \in Clients |->
                  IF c \in On(t) THEN Quarantined(cl[c]) ELSE cl[c]]
    BY <1>3 DEF EnqueueFails
  <2> QED
    BY <1>1, <1>2, <2>1, QuarantineSessions
<1>4. CASE FailAfterEnqueue(t)
  <2> DEFINE failed(k) == {call[t].on[i] : i \in (k + 1)..Len(call[t].on)}
  <2>1. PICK k \in 0..(Len(call[t].on) - 1) :
          /\ k > 0 => Answered(t)
          /\ cl' = [c \in Clients |->
                IF c \in failed(k) THEN Quarantined(cl[c]) ELSE cl[c]]
    BY <1>4 DEF FailAfterEnqueue
  <2>2. call[t].on \in Seq(Clients) /\ Len(call[t].on) \in Nat
    BY <1>2 DEF CallState
  <2>3. failed(k) \subseteq On(t) /\ (k = 0 => On(t) \subseteq failed(k))
    BY <2>2, OnClients DEF SessionInv, CallInv
  <2>4. ASSUME NEW c \in On(t), c \notin failed(k)
        PROVE  Parked(c, cl[c], reg[Chip[c]], down[Chip[c]], 0)
    <3>1. k > 0 /\ Len(call[t].on) > 1
      BY <2>1, <2>2, <2>3, <2>4
    <3>2. call[t].op = "request"
      BY <1>1, <1>2, <3>1 DEF CallShape, CallState
    <3>3. call[t].packet # "detach" /\ call[t].step = "sent"
      BY <1>1, <1>2, <1>4, <3>2 DEF CallShape, FailAfterEnqueue, At
    <3> QED
      BY <1>1, <1>2, <2>1, <3>1, <3>3, AnsweredIs
  <2> HIDE DEF failed
  <2>5. failed(k) \in SUBSET On(t)
    BY <2>3
  <2> QED
    BY <1>1, <1>2, <2>1, <2>4, <2>5, QuarantineSessions
<1> QED
  BY <1>3, <1>4

(* All replies are in; a DETACH leaves a tombstone and nothing under way.  *)
LEMMA CompleteSessions ==
  ASSUME SessionInv, NEW t \in Threads, Complete(t)
  PROVE  Sessions'
<1>1. /\ call[t].op # "none" /\ call[t].step = "sent" /\ Answered(t)
      /\ UNCHANGED <<reg, busy, down, fits>>
  BY DEF Complete, At
<1>2. /\ call[t] \in CallState /\ On(t) \subseteq Clients
      /\ \A c \in Clients : cl[c] \in ClientState
      /\ \A c \in On(t) : cl[c].life = "Established"
  BY <1>1, HoldsAll DEF SessionInv, Working
<1>3. CASE call[t].packet = "request"
  <2>1. Return(t) /\ UNCHANGED <<cl, keys>>
    BY <1>3 DEF Complete
  <2>2. \A c \in On(t) :
          /\ Kept(cl[c], cl'[c]) /\ cl'[c].token = cl[c].token
          /\ Parked(c, cl'[c], reg[Chip[c]], down[Chip[c]], 0)
    BY <1>1, <1>2, <1>3, <2>1, AnsweredIs DEF Kept
  <2> QED
    BY <1>1, <1>2, <2>1, <2>2, ReturnSessions
<1>4. CASE call[t].packet = "barrier"
  <2> DEFINE k == [call[t] EXCEPT !.packet = "detach", !.step = "begin"]
  <2>1. call' = [call EXCEPT ![t] = k] /\ UNCHANGED <<cl, keys>>
    BY <1>2, <1>4 DEF Complete, CallState
  <2>2. k.on = call[t].on /\ k.step = "begin"
    BY <1>2 DEF CallState
  <2> HIDE DEF k
  <2>3. call'[t] = k
    BY <2>1 DEF SessionInv, CallInv, TypeOK
  <2>4. ~Working(t)'
    BY <2>2, <2>3 DEF Working
  <2>5. ASSUME NEW c \in On(t)
        PROVE  ClientInv(c)'
    <3>1. Parked(c, cl'[c], reg'[Chip[c]], down[Chip[c]], 0)
      BY <1>1, <1>2, <1>4, <2>1, AnsweredIs
    <3>2. Kept(cl[c], cl'[c]) /\ cl'[c].token = cl[c].token
      BY <2>1 DEF Kept
    <3> QED
      BY <1>1, <1>2, <2>1, <2>2, <2>4, <3>1, <3>2, WorkedOn
  <2>6. KeysAreExclusive'
    BY <2>1 DEF SessionInv, Sessions, KeysAreExclusive, Living
  <2> QED
    BY <1>1, <2>1, <2>2, <2>5, <2>6, WorkStep
<1>5. CASE call[t].packet \notin {"request", "barrier"}
  <2>1. /\ cl' = [c \in Clients |->
              IF c \in On(t) THEN Released(cl[c], TRUE) ELSE cl[c]]
        /\ keys' = keys \ {Chip[c] : c \in On(t)} /\ Return(t)
    BY <1>5 DEF Complete
  <2>2. call[t].packet = "detach"
    BY <1>2, <1>5 DEF CallState
  <2>3. ASSUME NEW c \in On(t)
        PROVE  /\ cl'[c].life = "Closed"
               /\ CleanlyClosed(c, cl'[c], reg[Chip[c]], down[Chip[c]])
    <3>1. cl'[c].life = "Closed"
      BY <1>2, <2>1, EndedClient
    <3>2. /\ reg[Chip[c]].state = "Retired" /\ reg[Chip[c]].nonce = c
          /\ To(down[Chip[c]], c) = {}
      BY <1>1, <1>2, <2>2, AnsweredIs
    <3> QED
      BY <3>1, <3>2 DEF CleanlyClosed
  <2>4. \A c \in Clients : c \notin On(t) => cl'[c] = cl[c]
    BY <2>1
  <2> QED
    BY <1>1, <1>2, <2>1, <2>3, <2>4, ReturnSessions
<1> QED
  BY <1>3, <1>4, <1>5

(* The kernels fill the slots of the transaction, and no other ring than   *)
(* those of the chips its Clients are on.                                  *)
LEMMA SubmitIs ==
  ASSUME SessionInv, NEW t \in Threads, Submit(t)
  PROVE  /\ \A c \in On(t) :
               LET q == cl'[c]
                   g == reg[Chip[c]]
                   h == reg'[Chip[c]]
               IN /\ Kept(cl[c], q) /\ q.token = cl[c].token
                  /\ q.slot = cl[c].slot /\ q.recv = 0
                  /\ h.nonce = g.nonce /\ h.gen = g.gen /\ h.boot = g.boot
                  /\ h.state = g.state /\ h.cursor = g.cursor
                  /\ \A s \in 0..(RingSlots - 1) : h.ring[s] =
                        IF s \in {Back(cl[c].slot, i) : i \in 1..call[t].count}
                        THEN [token |-> cl[c].token, op |-> call[t].packet]
                        ELSE g.ring[s]
         /\ \A p \in Chips : (\A c \in On(t) : Chip[c] # p) => reg'[p] = reg[p]
         /\ \A c \in Clients : c \notin On(t) => cl'[c] = cl[c]
<1> DEFINE here(p) == {c \in On(t) : Chip[c] = p}
           d(p) == CHOOSE c \in here(p) : TRUE
           ring(p) == [s \in 0..(RingSlots - 1) |->
                         IF s \in Taken(d(p), call[t].count)
                         THEN [token |-> cl[d(p)].token, op |-> call[t].packet]
                         ELSE reg[p].ring[s]]
           g(p) == IF here(p) = {} THEN reg[p]
                   ELSE [reg[p] EXCEPT !.ring = ring(p)]
           r(c) == IF c \in On(t) THEN [cl[c] EXCEPT !.recv = 0] ELSE cl[c]
<1>1. /\ call[t].op # "none" /\ call[t].step = "begun"
      /\ reg' = [p \in Chips |-> g(p)]
      /\ cl' = [c \in Clients |-> r(c)]
  BY DEF Submit, At
<1>2. /\ On(t) \subseteq Clients
      /\ \A c \in Clients : cl[c] \in ClientState
      /\ \A c \in On(t) : cl[c].life = "Established"
  BY <1>1, HoldsAll DEF SessionInv, Working
<1>3. ASSUME NEW c \in On(t)
      PROVE  /\ Kept(cl[c], cl'[c]) /\ cl'[c].token = cl[c].token
             /\ cl'[c].slot = cl[c].slot /\ cl'[c].recv = 0
  <2>1. cl[c] \in ClientState /\ cl'[c] = [cl[c] EXCEPT !.recv = 0]
    BY <1>1, <1>2
  <2> QED
    BY <2>1 DEF ClientState, Kept
<1>4. ASSUME NEW c \in On(t)
      PROVE  here(Chip[c]) # {} /\ d(Chip[c]) = c
  <2>1. \A e \in On(t) : Chip[e] = Chip[c] => e = c
    BY <1>2 DEF SessionInv, Sessions, KeysAreExclusive, Living
  <2> QED
    BY <2>1
<1>5. ASSUME NEW c \in On(t)
      PROVE  LET b == reg[Chip[c]]
                 h == reg'[Chip[c]]
             IN /\ h.nonce = b.nonce /\ h.gen = b.gen /\ h.boot = b.boot
                /\ h.state = b.state /\ h.cursor = b.cursor
                /\ \A s \in 0..(RingSlots - 1) : h.ring[s] =
                      IF s \in {Back(cl[c].slot, i) : i \in 1..call[t].count}
                      THEN [token |-> cl[c].token, op |-> call[t].packet]
                      ELSE b.ring[s]
  <2> DEFINE p == Chip[c]
             f == ring(p)
  <2>1. p \in Chips /\ reg[p] \in Registry
    BY <1>2, ClientTypes DEF SessionInv
  <2>2. reg'[p] = [reg[p] EXCEPT !.ring = f]
    BY <1>1, <1>4, <2>1
  <2>3. \A s \in 0..(RingSlots - 1) : f[s] =
           IF s \in {Back(cl[c].slot, i) : i \in 1..call[t].count}
           THEN [token |-> cl[c].token, op |-> call[t].packet]
           ELSE reg[p].ring[s]
    <3>1. Taken(c, call[t].count)
              = {Back(cl[c].slot, i) : i \in 1..call[t].count}
      BY DEF Taken, Back
    <3>2. d(p) = c
      BY <1>4
    <3> HIDE DEF d, p
    <3> QED
      BY <3>1, <3>2
  <2> HIDE DEF f, p, d, here, ring, g, r
  <2>4. /\ reg'[p].nonce = reg[p].nonce /\ reg'[p].gen = reg[p].gen
        /\ reg'[p].boot = reg[p].boot /\ reg'[p].state = reg[p].state
        /\ reg'[p].cursor = reg[p].cursor /\ reg'[p].ring = f
    BY <2>1, <2>2 DEF Registry
  <2> QED
    BY <2>3, <2>4 DEF p
<1>6. \A p \in Chips : (\A c \in On(t) : Chip[c] # p) => reg'[p] = reg[p]
  BY <1>1
<1>7. \A c \in Clients : c \notin On(t) => cl'[c] = cl[c]
  BY <1>1
<1> HIDE DEF here, d, ring, g, r
<1> QED
  BY <1>3, <1>5, <1>6, <1>7

(* A submitted packet fills the ring slot under the Client's cursor.       *)
LEMMA SubmitSessions ==
  ASSUME SessionInv, NEW t \in Threads, Submit(t)
  PROVE  Sessions'
<1> DEFINE k == [call[t] EXCEPT !.step = "sent"]
           n == call[t].count
<1>1. /\ call[t].op # "none" /\ call[t].step = "begun"
      /\ call' = [call EXCEPT ![t] = k]
      /\ UNCHANGED <<keys, busy, down, fits>>
  BY DEF Submit, At
<1>2. /\ call[t] \in CallState /\ n \in 1..RingSlots /\ n \in Nat
      /\ n \in 0..RingSlots
      /\ \A c \in On(t) : c \in Clients /\ cl[c].life = "Established"
  BY <1>1, HoldsAll, ConstantTypes DEF SessionInv, Working
<1>3. k.on = call[t].on /\ k.step = "sent" /\ k.count = n /\ k.op # "none"
      /\ k.packet = call[t].packet
  BY <1>1, <1>2 DEF CallState
<1> HIDE DEF k
<1>4. call'[t] = k /\ \A u \in Threads : u # t => call'[u] = call[u]
  BY <1>1 DEF SessionInv, CallInv, TypeOK
<1>5. Working(t)'
  BY <1>3, <1>4 DEF Working
<1>6. ASSUME NEW c \in On(t)
      PROVE  ClientInv(c)'
  <2> DEFINE r == cl[c]
             q == cl'[c]
             g == reg[Chip[c]]
             h == reg'[Chip[c]]
             d == down[Chip[c]]
             ours == {Back(r.slot, i) : i \in 1..n}
  <2>1. Parked(c, r, g, d, n) /\ d \in Seq(Message)
    BY <1>1, <1>2, AtWork
  <2>2. /\ Kept(r, q) /\ q.token = r.token /\ q.slot = r.slot /\ q.recv = 0
        /\ h.nonce = g.nonce /\ h.gen = g.gen /\ h.boot = g.boot
        /\ h.state = g.state /\ h.cursor = g.cursor
        /\ \A s \in 0..(RingSlots - 1) : h.ring[s] =
              IF s \in ours
              THEN [token |-> r.token, op |-> call[t].packet] ELSE g.ring[s]
    BY SubmitIs
  <2>3. InFlight(c, q, h, d, k, n)
    <3> HIDE DEF r, q, g, h, d
    <3>1. Of(d, c, "reply") = {}
      BY <2>1 DEF Parked
    <3>2. n + Cardinality(Of(d, c, "reply")) + q.recv = k.count
      <4>1. Cardinality(Of(d, c, "reply")) = 0
        BY <3>1, FS_EmptySet
      <4> QED
        BY <1>2, <1>3, <2>2, <4>1
    <3>3. \A s \in 0..(RingSlots - 1) : h.ring[s] =
             IF s \in {Back(q.slot, i) : i \in 1..n}
             THEN [token |-> q.token, op |-> k.packet] ELSE None
      BY <1>3, <2>1, <2>2 DEF Parked, Blank
    <3>4. n # 0 /\ h.state = "Established"
          /\ h.cursor % RingSlots = Back(q.slot, n)
      BY <1>2, <2>1, <2>2 DEF Parked
    <3> QED
      BY <3>2, <3>3, <3>4 DEF InFlight
  <2>4. n \in 0..k.count
    BY <1>2, <1>3
  <2> QED
    BY <1>1, <1>2, <1>3, <1>5, <2>2, <2>3, <2>4, WorkedOn
<1>7. ASSUME NEW e \in Clients, e \notin On(t)
      PROVE  ClientInv(e)'
  <2>1. ClientInv(e) /\ Same(cl[e], cl'[e]) /\ Chip[e] \in Chips
    BY <1>7, SubmitIs, SameItself, ConstantTypes DEF SessionInv, Sessions
  <2>2. CASE \A c \in On(t) : Chip[c] # Chip[e]
    <3>1. reg'[Chip[e]] = reg[Chip[e]]
      BY <2>1, <2>2, SubmitIs
    <3>2. Unread(e)' => Unread(e)
      BY <1>1, <3>1 DEF Unread
    <3>3. \A u \in Threads : \/ call'[u] = call[u]
                             \/ ~WorksOn(e, u) /\ ~WorksOn(e, u)'
      BY <1>3, <1>4, <1>7 DEF WorksOn, On
    <3> QED
      BY <1>1, <2>1, <3>1, <3>2, <3>3, Untouched
  <2>3. ASSUME NEW c \in On(t), Chip[c] = Chip[e]
        PROVE  ClientInv(e)'
    <3>1. cl[e].life \notin {"Constructing", "Established"}
      BY <1>2, <1>7, <2>3 DEF SessionInv, Sessions, KeysAreExclusive, Living
    <3>2. /\ reg'[Chip[e]].nonce = reg[Chip[e]].nonce
          /\ reg'[Chip[e]].state = reg[Chip[e]].state
          /\ reg'[Chip[e]].boot = reg[Chip[e]].boot
      <4>1. /\ reg'[Chip[c]].nonce = reg[Chip[c]].nonce
            /\ reg'[Chip[c]].state = reg[Chip[c]].state
            /\ reg'[Chip[c]].boot = reg[Chip[c]].boot
        BY SubmitIs
      <4> QED
        BY <2>3, <4>1
    <3>3. Unread(e)' => Unread(e)
      BY <1>1, <3>2 DEF Unread
    <3> QED
      BY <1>1, <2>1, <3>1, <3>2, <3>3, Bystander
  <2> QED
    BY <2>2, <2>3
<1>8. KeysAreExclusive'
  <2>1. \A c \in Clients : Living(c)' <=> Living(c)
    BY SubmitIs DEF Living, Kept
  <2> QED
    BY <1>1, <2>1 DEF SessionInv, Sessions, KeysAreExclusive
<1>9. \A p \in Chips : Addressed(p)'
  <2>1. \A p \in Chips : /\ reg'[p].boot = reg[p].boot
                         /\ reg'[p].nonce = reg[p].nonce
                         /\ reg'[p].state = reg[p].state
                         /\ reg'[p].gen = reg[p].gen
    <3>1. \A c \in On(t) : /\ reg'[Chip[c]].boot = reg[Chip[c]].boot
                           /\ reg'[Chip[c]].nonce = reg[Chip[c]].nonce
                           /\ reg'[Chip[c]].state = reg[Chip[c]].state
                           /\ reg'[Chip[c]].gen = reg[Chip[c]].gen
      BY SubmitIs
    <3>2. \A p \in Chips : (\A c \in On(t) : Chip[c] # p) => reg'[p] = reg[p]
      BY SubmitIs
    <3> QED
      BY <3>1, <3>2
  <2> QED
    BY <1>1, <2>1, AddressesStay DEF SessionInv, Sessions
<1> QED
  BY <1>6, <1>7, <1>8, <1>9 DEF Sessions

----------------------------------------------------------------------------
(* The Server.                                                             *)

(* A message for another Client does not change what a Client is sent.     *)
SameMail(c, d, e) ==
    To(e, c) = To(d, c) /\ \A i \in To(d, c) : e[i] = d[i]

(* Channels with the same mail for a Client count the same.                *)
LEMMA SameMailOf ==
  ASSUME NEW c, NEW d, NEW e, SameMail(c, d, e), NEW kind
  PROVE  Of(e, c, kind) = Of(d, c, kind)
BY DEF SameMail, Of

(* Mail for another Client is not this Client's mail.                      *)
LEMMA SentElsewhere ==
  ASSUME NEW d \in Seq(Message), NEW m \in Message, NEW c, m.to # c
  PROVE  SameMail(c, d, Append(d, m))
<1> DEFINE e == Append(d, m)
<1>1. /\ e[Len(d) + 1] = m
      /\ \A i \in DOMAIN d : i \in DOMAIN e /\ e[i] = d[i]
      /\ \A i \in DOMAIN e : i \in DOMAIN d \/ i = Len(d) + 1
  BY OneMore
<1> HIDE DEF e
<1>2. SameMail(c, d, e)
  BY <1>1 DEF SameMail, To
<1> QED
  BY <1>2 DEF e

(* A Client nobody talks to is not disturbed by mail of others.            *)
LEMMA MailAlone ==
  ASSUME NEW c, NEW r, NEW g, NEW d, NEW e, NEW u \in BOOLEAN,
         NEW v \in BOOLEAN, v => u, SameMail(c, d, e), Alone(c, r, g, d, u)
  PROVE  Alone(c, r, g, e, v)
<1>1. /\ To(e, c) = To(d, c)
      /\ Of(e, c, "reply") = Of(d, c, "reply")
      /\ Of(e, c, "config") = Of(d, c, "config")
      /\ Of(e, c, "response") = Of(d, c, "response")
  BY SameMailOf DEF SameMail
<1>2. \A i \in Of(d, c, "response") : e[i] = d[i]
  BY DEF SameMail, Of
<1>3. Silent(c, r, g, e, v)
  BY <1>1 DEF Alone, Silent
<1>4. Shaking(c, r, g, e, fits[c])
  BY <1>1, <1>2 DEF Alone, Shaking
<1>5. Once(c, r, e, v)
  BY <1>1 DEF Alone, Once
<1>6. CleanlyClosed(c, r, g, e)
  BY <1>1 DEF Alone, CleanlyClosed
<1> QED
  BY <1>3, <1>4, <1>5, <1>6 DEF Alone

(* How a session stands, whichever part of it a step is about.             *)
LEMMA StandOf ==
  ASSUME NEW c \in Clients, Session(c), cl[c].life = "Established"
  PROVE  LET r == cl[c]
             g == reg[Chip[c]]
             d == down[Chip[c]]
         IN /\ Agreed(c, r, g)
            /\ \/ /\ \A t \in Threads : ~WorksOn(c, t)
                  /\ Parked(c, r, g, d, 0)
               \/ \E t \in Threads :
                     WorksOn(c, t) /\ call[t].step = "begun"
                     /\ Parked(c, r, g, d, call[t].count)
               \/ \E t \in Threads : \E m \in 0..call[t].count :
                     WorksOn(c, t) /\ call[t].step # "begun"
                     /\ InFlight(c, r, g, d, call[t], m)
BY DEF Session

(* A session keeps standing if its parts do.                               *)
LEMMA Stands ==
  ASSUME NEW c \in Clients, Session(c), cl'[c].life = cl[c].life,
         call' = call,
         cl[c].life = "Established" =>
            Agreed(c, cl'[c], reg'[Chip[c]]),
         \A n \in Nat : Parked(c, cl[c], reg[Chip[c]], down[Chip[c]], n) =>
             Parked(c, cl'[c], reg'[Chip[c]], down'[Chip[c]], n),
         \A t \in Threads : \A m \in 0..call[t].count :
             WorksOn(c, t) /\ cl[c].life = "Established"
             /\ InFlight(c, cl[c], reg[Chip[c]], down[Chip[c]], call[t], m)
             => \E n \in 0..call[t].count :
                  InFlight(c, cl'[c], reg'[Chip[c]], down'[Chip[c]], call[t], n),
         \A t \in Threads : call[t].count \in Nat
  PROVE  Session(c)'
<1>1. \A t \in Threads : WorksOn(c, t)' <=> WorksOn(c, t)
  BY DEF WorksOn, Working, On
<1>2. 0 \in Nat
  OBVIOUS
<1> SUFFICES ASSUME cl'[c].life = "Established"
    PROVE
        /\ Agreed(c, cl'[c], reg'[Chip[c]])
        /\ (\A t \in Threads : ~WorksOn(c, t)') =>
              Parked(c, cl'[c], reg'[Chip[c]], down'[Chip[c]], 0)
        /\ \A t \in Threads : WorksOn(c, t)' /\ call'[t].step = "begun" =>
              Parked(c, cl'[c], reg'[Chip[c]], down'[Chip[c]], call'[t].count)
        /\ \A t \in Threads : WorksOn(c, t)' /\ call'[t].step # "begun" =>
              \E m \in 0..call'[t].count :
                InFlight(c, cl'[c], reg'[Chip[c]], down'[Chip[c]], call'[t], m)
  BY DEF Session
<1>3. /\ (\A t \in Threads : ~WorksOn(c, t)) =>
            Parked(c, cl[c], reg[Chip[c]], down[Chip[c]], 0)
      /\ \A t \in Threads : WorksOn(c, t) /\ call[t].step = "begun" =>
            Parked(c, cl[c], reg[Chip[c]], down[Chip[c]], call[t].count)
      /\ \A t \in Threads : WorksOn(c, t) /\ call[t].step # "begun" =>
            \E m \in 0..call[t].count :
              InFlight(c, cl[c], reg[Chip[c]], down[Chip[c]], call[t], m)
  BY DEF Session
<1>4. ASSUME NEW t \in Threads, WorksOn(c, t)', call'[t].step # "begun"
      PROVE  \E m \in 0..call'[t].count :
               InFlight(c, cl'[c], reg'[Chip[c]], down'[Chip[c]], call'[t], m)
  BY <1>1, <1>3, <1>4
<1>5. ASSUME NEW t \in Threads, WorksOn(c, t)', call'[t].step = "begun"
      PROVE  Parked(c, cl'[c], reg'[Chip[c]], down'[Chip[c]], call'[t].count)
  BY <1>1, <1>3, <1>5
<1> QED
  BY <1>1, <1>2, <1>3, <1>4, <1>5

(* What the chip does for one Client leaves the others' sessions alone.    *)
LEMMA Elsewhere ==
  ASSUME SessionInv, NEW c \in Clients,
         UNCHANGED <<cl, call, fits>>, reg'[Chip[c]] = reg[Chip[c]],
         SameMail(c, down[Chip[c]], down'[Chip[c]]), Unread(c)' => Unread(c)
  PROVE  ClientInv(c)'
<1> DEFINE r == cl[c]
           g == reg[Chip[c]]
           d == down[Chip[c]]
           e == down'[Chip[c]]
<1>1. Alone(c, r, g, d, Unread(c)) /\ Session(c)
  BY DEF SessionInv, Sessions, ClientInv
<1>2. Alone(c, r, g, e, Unread(c)')
  <2> HIDE DEF r, g
  <2> QED
    BY <1>1, UnreadType, MailAlone
<1>3. Alone(c, cl[c], reg[Chip[c]], down[Chip[c]], Unread(c))'
  BY <1>2 DEF Alone
<1>4. Session(c)'
  <2>1. /\ To(e, c) = To(d, c) /\ Of(e, c, "reply") = Of(d, c, "reply")
    BY SameMailOf DEF SameMail
  <2> HIDE DEF r, g, d, e
  <2>2. \A n \in Nat : Parked(c, r, g, d, n) => Parked(c, r, g, e, n)
    BY <2>1 DEF Parked
  <2>3. ASSUME NEW k, NEW m, InFlight(c, r, g, d, k, m)
        PROVE  InFlight(c, r, g, e, k, m)
    BY <2>1, <2>3 DEF InFlight
  <2>4. \A t \in Threads : call[t].count \in Nat
    BY ConstantTypes DEF SessionInv, CallInv, TypeOK, CallState
  <2>5. cl[c].life = "Established" => Agreed(c, r, g)
    BY <1>1 DEF Session, r, g
  <2> QED
    BY <1>1, <2>2, <2>3, <2>4, <2>5, Stands DEF r, g, d, e
<1> QED
  BY <1>3, <1>4 DEF ClientInv

(* Whose request it is: a Client that is under construction, established   *)
(* or gone without the Server's knowledge.                                 *)
LEMMA BootIs ==
  ASSUME SessionInv, NEW p \in Chips, busy = None, reg[p].boot # None
  PROVE  LET b == reg[p].boot
         IN /\ b \in Clients /\ Chip[b] = p /\ Unread(b)
            /\ ~Mute(cl[b])
            /\ cl[b].clean => reg[p].nonce = b /\ reg[p].state = "Retired"
            /\ cl[b].life = "Established" => reg[p].nonce = b
            /\ \A c \in Clients : c # b /\ Chip[c] = p /\ ~Mute(cl[c]) =>
                  cl[c].life \notin {"Constructing", "Established"}
<1> DEFINE b == reg[p].boot
<1>1. b \in Clients /\ Chip[b] = p
  BY DEF SessionInv, CallInv, TypeOK, Registry, Sessions, Addressed
<1>2. Unread(b)
  BY <1>1, ConstantTypes DEF Unread
<1>3. /\ Alone(b, cl[b], reg[p], down[p], Unread(b)) /\ Session(b)
      /\ \A c \in Clients : Owned(c, cl[c], reg[Chip[c]]) /\ Shape(cl[c])
  BY <1>1 DEF SessionInv, Sessions, ClientInv, Alone
<1>4. ~Mute(cl[b])
  BY <1>2, <1>3 DEF Alone, Silent
<1>5. cl[b].clean => reg[p].nonce = b /\ reg[p].state = "Retired"
  BY <1>3 DEF Alone, CleanlyClosed
<1>6. cl[b].life = "Established" => reg[p].nonce = b
  BY <1>1, <1>3 DEF Session, Agreed
<1>7. ASSUME NEW c \in Clients, c # b, Chip[c] = p, ~Mute(cl[c])
      PROVE  cl[c].life \notin {"Constructing", "Established"}
  <2>1. Owned(c, cl[c], reg[p]) /\ Shape(cl[c])
    BY <1>3, <1>7
  <2> QED
    BY <1>7, <2>1 DEF Owned, Shape, Mute
<1> QED
  BY <1>1, <1>2, <1>4, <1>5, <1>6, <1>7

(* An answer to a Client whose request the Server does not drop.           *)
LEMMA AnswersSessions ==
  ASSUME SessionInv, NEW p \in Chips, busy = None, reg[p].boot # None,
         busy' = p, UNCHANGED <<cl, keys, call, fits>>,
         NEW a \in 0..Generations, Answers(p, a),
         \/ /\ a = 0 /\ ~fits[reg[p].boot]
            /\ reg[p].nonce = reg[p].boot =>
                  reg[p].state \in {"Empty", "Established"}
         \/ /\ a = reg[p].gen /\ fits[reg[p].boot]
            /\ reg[p].state = "Established" /\ reg[p].nonce = reg[p].boot
  PROVE  \A c \in Clients : Chip[c] = p => ClientInv(c)'
<1>0. PICK b \in Clients : b = reg[p].boot
  BY BootIs
<1> DEFINE m == Response(b, a)
           g == reg[p]
           d == down[p]
           e == Append(d, m)
           last == Len(d) + 1
<1>1. /\ Chip[b] = p /\ Unread(b) /\ ~Mute(cl[b])
      /\ cl[b].clean => g.nonce = b /\ g.state = "Retired"
      /\ cl[b].life = "Established" => g.nonce = b
  BY <1>0, BootIs
<1>2. /\ m \in Message /\ m.to = b /\ m.kind = "response" /\ m.answer = a
  BY <1>1, ResponseType DEF Response
<1>3. /\ d \in Seq(Message) /\ g \in Registry
      /\ reg' = reg /\ down'[p] = e
  BY <1>0 DEF Answers, SessionInv, CallInv, TypeOK
<1>4. \A c \in Clients : Chip[c] = p => ~Unread(c)'
  BY DEF Unread
<1>5. ASSUME NEW c \in Clients, Chip[c] = p, c # b
      PROVE  ClientInv(c)'
  <2>1. SameMail(c, d, e)
    <3> HIDE DEF m, d
    <3> QED
      BY <1>2, <1>3, <1>5, SentElsewhere
  <2> QED
    BY <1>3, <1>4, <1>5, <2>1, Elsewhere
<1>6. ClientInv(b)'
  <2> DEFINE r == cl[b]
             fit == fits[b]
             u == Unread(b)
             v == Unread(b)'
  <2>1. Alone(b, r, g, d, u) /\ Session(b) /\ u /\ ~v
    BY <1>1, <1>4 DEF SessionInv, Sessions, ClientInv
  <2>2. r.clean => FALSE
    BY <1>0, <1>1
  <2>3. \/ a = 0 /\ ~fit
        \/ a = g.gen /\ fit /\ g.state = "Established" /\ g.nonce = b
    BY <1>0
  <2>4. g.nonce = b => g.state \in {"Empty", "Established"}
    BY <1>0
  <2> HIDE DEF m, d, e, g, r, fit, u, v
  <2>5. /\ Of(e, b, "reply") = Of(d, b, "reply")
        /\ Of(e, b, "config") = Of(d, b, "config")
        /\ Of(e, b, "response") = Of(d, b, "response") \cup {last}
    <3>1. ASSUME NEW kind
          PROVE  Of(e, b, kind) = Of(d, b, kind)
                    \cup IF kind = "response" THEN {last} ELSE {}
      BY <1>2, <1>3, RepliesSent DEF e
    <3> HIDE DEF last
    <3> QED
      BY <3>1
  <2>6. /\ e[last] = m
        /\ \A i \in DOMAIN d : e[i] = d[i] /\ i < last /\ i \in Nat
    BY <1>2, <1>3, OneMore DEF e
  <2>7. \A kind : \A i \in Of(d, b, kind) : i \in DOMAIN d
    BY DEF Of, To
  <2>8. Alone(b, r, g, e, v)
    <3>1. Shape(r) /\ Owned(b, r, g) /\ Silent(b, r, g, e, v)
      BY <1>1, <2>1 DEF Alone, Silent, r
    <3>2. Shaking(b, r, g, e, fits[b])
      <4>1. SUFFICES ASSUME r.life = "Constructing"
                     PROVE
          /\ Of(e, b, "reply") = {}
          /\ Of(e, b, "config") # {} => fit
          /\ g.nonce = b => /\ fit /\ g.state = "Established"
                            /\ g.cursor = 0 /\ Blank(g)
                            /\ r.config \/ Of(e, b, "config") # {}
          /\ r.answer # 0 => g.nonce = b /\ g.gen = r.answer /\ r.config
          /\ r.sem # 0 /\ r.answer = 0 => ~fit
          /\ \A i \in Of(e, b, "response") :
                /\ e[i].answer = 0 => ~fit
                /\ e[i].answer # 0 =>
                      /\ g.nonce = b /\ g.gen = e[i].answer
                      /\ r.config \/ \E j \in Of(e, b, "config") : j < i
        BY DEF Shaking, fit
      <4>2. /\ Of(d, b, "reply") = {}
            /\ Of(d, b, "config") # {} => fit
            /\ g.nonce = b => /\ fit /\ g.state = "Established"
                              /\ g.cursor = 0 /\ Blank(g)
                              /\ r.config \/ Of(d, b, "config") # {}
            /\ r.answer # 0 => g.nonce = b /\ g.gen = r.answer /\ r.config
            /\ r.sem # 0 /\ r.answer = 0 => ~fit
            /\ \A i \in Of(d, b, "response") :
                  /\ d[i].answer = 0 => ~fit
                  /\ d[i].answer # 0 =>
                        /\ g.nonce = b /\ g.gen = d[i].answer
                        /\ r.config \/ \E j \in Of(d, b, "config") : j < i
        BY <2>1, <4>1 DEF Alone, Shaking, fit
      <4>3. ASSUME NEW i \in Of(d, b, "response")
            PROVE  /\ e[i].answer = 0 => ~fit
                   /\ e[i].answer # 0 =>
                        /\ g.nonce = b /\ g.gen = e[i].answer
                        /\ r.config \/ \E j \in Of(e, b, "config") : j < i
        BY <2>5, <2>6, <2>7, <4>2
      <4>4. /\ e[last].answer = 0 => ~fit
            /\ e[last].answer # 0 =>
                  /\ g.nonce = b /\ g.gen = e[last].answer
                  /\ r.config \/ \E j \in Of(e, b, "config") : j < last
        <5>1. e[last].answer = a
          BY <1>2, <2>6
        <5>2. a = 0 => ~fit
          <6>1. g.state = "Established" => g.gen # 0
            BY DEF g, SessionInv, Sessions, Addressed
          <6> QED
            BY <2>3, <6>1
        <5>3. a # 0 => g.nonce = b /\ g.gen = a
                       /\ (r.config \/ Of(e, b, "config") # {})
          BY <2>3, <2>5, <4>2
        <5>4. \A j \in Of(e, b, "config") : j < last
          BY <2>5, <2>6, <2>7
        <5> QED
          BY <5>1, <5>2, <5>3, <5>4
      <4> QED
        BY <2>5, <4>2, <4>3, <4>4
    <3>3. Once(b, r, e, v)
      BY <2>1, <2>5 DEF Alone, Once
    <3>4. CleanlyClosed(b, r, g, e)
      BY <2>2 DEF CleanlyClosed
    <3> QED
      BY <3>1, <3>2, <3>3, <3>4 DEF Alone
  <2>9. Alone(b, cl[b], reg[Chip[b]], down[Chip[b]], Unread(b))'
    BY <1>1, <1>3, <2>8 DEF Alone, r, g, e, v
  <2>10. Session(b)'
    <3>1. \A n \in Nat : Parked(b, r, g, d, n) => Parked(b, r, g, e, n)
      BY <2>5 DEF Parked
    <3>2. ASSUME NEW k, NEW n, r.life = "Established", InFlight(b, r, g, d, k, n)
          PROVE  InFlight(b, r, g, e, k, n)
      <4>1. g.state # "Retired"
        BY <1>1, <2>4, <3>2 DEF r, g
      <4> QED
        BY <2>5, <3>2, <4>1 DEF InFlight
    <3>3. \A t \in Threads : call[t].count \in Nat
      BY ConstantTypes DEF SessionInv, CallInv, TypeOK, CallState
    <3>4. cl[b].life = "Established" => Agreed(b, r, g)
      BY <1>1, <2>1 DEF Session, r, g
    <3>5. down'[Chip[b]] = e /\ reg'[Chip[b]] = g /\ cl'[b] = r
          /\ down[Chip[b]] = d /\ reg[Chip[b]] = g
      BY <1>1, <1>3 DEF r, g, d, e
    <3> QED
      BY <1>1, <2>1, <3>1, <3>2, <3>3, <3>4, <3>5, Stands DEF r
  <2> QED
    BY <2>9, <2>10 DEF ClientInv
<1> QED
  BY <1>5, <1>6

(* A session is opened: for a Client under construction that the registry  *)
(* does not know.                                                          *)
LEMMA OpensSessions ==
  ASSUME SessionInv, NEW p \in Chips, busy = None, reg[p].boot # None,
         busy' = p, UNCHANGED <<cl, keys, call, fits>>, Opens(p),
         fits[reg[p].boot],
         \/ reg[p].state = "Empty"
         \/ /\ reg[p].state \notin {"Empty", "Established"}
            /\ reg[p].nonce # reg[p].boot
  PROVE  \A c \in Clients : Chip[c] = p => ClientInv(c)'
<1>0. PICK b \in Clients : b = reg[p].boot
  BY BootIs
<1> DEFINE gen == NextGeneration(reg[p].gen)
           m == Configuration(p)
           n == Response(b, gen)
           g == reg[p]
           h == Opened(p)
           d == down[p]
           f == Append(d, m)
           e == Append(f, n)
<1>1. /\ Chip[b] = p /\ Unread(b) /\ ~Mute(cl[b])
      /\ cl[b].clean => g.nonce = b /\ g.state = "Retired"
      /\ cl[b].life = "Established" => g.nonce = b
      /\ \A c \in Clients : c # b /\ Chip[c] = p /\ ~Mute(cl[c]) =>
            cl[c].life \notin {"Constructing", "Established"}
  BY <1>0, BootIs
<1>2. g \in Registry /\ gen \in 1..Generations /\ gen \in 0..Generations
      /\ 0 \in 0..Generations
  <2>1. g \in Registry
    BY DEF SessionInv, CallInv, TypeOK
  <2>2. reg[p].gen \in 0..Generations
    BY <2>1 DEF Registry
  <2>3. gen \in 1..Generations /\ gen \in 0..Generations
    BY <2>2, GenerationType
  <2> QED
    BY <2>1, <2>3, ConstantTypes
<1>3. /\ m \in Message /\ m.to = b /\ m.kind = "config"
      /\ n \in Message /\ n.to = b /\ n.kind = "response" /\ n.answer = gen
  BY <1>0, <1>2, ResponseType DEF Response, Configuration
<1>4. /\ d \in Seq(Message) /\ f \in Seq(Message) /\ e \in Seq(Message)
  <2>1. d \in Seq(Message)
    BY DEF SessionInv, CallInv, TypeOK
  <2> HIDE DEF d, m, n
  <2> QED
    BY <1>3, <2>1, AppendProperties
<1>5. down'[p] = e
  <2>1. down'[p] = d \o <<m, n>>
    BY <1>0 DEF Opens, SessionInv, CallInv, TypeOK
  <2> HIDE DEF d, m, n
  <2>2. d \o <<m, n>> = Append(Append(d, m), n)
    BY <1>3, <1>4
  <2> QED
    BY <2>1, <2>2
<1>6. /\ reg'[p] = h /\ h.state = "Established" /\ h.nonce = b /\ h.gen = gen
      /\ h.boot = b /\ h.cursor = 0 /\ Blank(h)
  <2>1. reg'[p] = h
    BY DEF Opens, SessionInv, CallInv, TypeOK
  <2>2. /\ h.state = "Established" /\ h.nonce = b /\ h.gen = gen
        /\ h.boot = b /\ h.cursor = 0
        /\ h.ring = [s \in 0..(RingSlots - 1) |-> None]
    <3> HIDE DEF h
    <3> QED
      BY <1>0, OpenedType DEF SessionInv, CallInv, h
  <2> HIDE DEF h
  <2>3. Blank(h)
    BY <2>2 DEF Blank
  <2> QED
    BY <2>1, <2>2, <2>3
<1>7. \A c \in Clients : Chip[c] = p => ~Unread(c)'
  BY DEF Unread
<1>8. fits[b] /\ (g.nonce = b => g.state = "Empty") /\ g.state # "Established"
  BY <1>0
<1> HIDE DEF gen, m, n, g, h, d, f, e
<1>9. ASSUME NEW c \in Clients, Chip[c] = p, c # b
      PROVE  ClientInv(c)'
  <2> DEFINE r == cl[c]
             u == Unread(c)
  <2>1. Alone(c, r, g, d, u)
    BY <1>9 DEF SessionInv, Sessions, ClientInv, g, d
  <2>2. /\ SameMail(c, d, f) /\ SameMail(c, f, e)
    BY <1>3, <1>4, <1>9, SentElsewhere DEF f, e
  <2>3. To(e, c) = To(d, c)
    BY <2>2 DEF SameMail
  <2>4. cl'[c] = r /\ reg'[Chip[c]] = h /\ down'[Chip[c]] = e /\ ~Unread(c)'
    BY <1>5, <1>6, <1>7, <1>9
  <2> HIDE DEF r, u
  <2>5. CASE Mute(r)
    <3>1. To(e, c) = {} /\ g.nonce # c
      BY <2>1, <2>3, <2>5 DEF Alone, Silent
    <3>2. \A kind : Of(e, c, kind) = {}
      BY <3>1 DEF Of
    <3>3. Shape(r) /\ (r.answer # 0 /\ r.life = "Constructing" => FALSE)
      BY <2>1, <3>1 DEF Alone, Shaking
    <3>4. r.sem # 0 /\ r.answer = 0 /\ r.life = "Constructing" => ~fits[c]
      BY <2>1 DEF Alone, Shaking
    <3>5. /\ r.life = "Constructing" => r.attempts = 0
          /\ r.life # "Established" /\ ~r.clean
      BY <2>5, <3>3 DEF Mute, Shape
    <3>6. Silent(c, r, h, e, Unread(c)') /\ Owned(c, r, h)
          /\ CleanlyClosed(c, r, h, e) /\ Once(c, r, e, Unread(c)')
      BY <1>6, <1>9, <2>4, <3>1, <3>5
         DEF Silent, Owned, CleanlyClosed, Once
    <3>7. Shaking(c, r, h, e, fits[c])
      BY <1>6, <1>9, <3>2, <3>3, <3>4 DEF Shaking
    <3>8. Alone(c, cl[c], reg[Chip[c]], down[Chip[c]], Unread(c))'
      BY <2>4, <3>3, <3>6, <3>7 DEF Alone
    <3>9. Session(c)'
      BY <2>4, <3>5 DEF Session
    <3> QED
      BY <3>8, <3>9 DEF ClientInv
  <2>6. CASE ~Mute(r)
    <3>1. r.life \in {"Quarantined", "Closed"} /\ (r.clean => r.life = "Closed")
      <4>1. r.life \in {"Unborn", "Constructing", "Established", "Quarantined",
                        "Closed", "Failed"}
        BY ClientTypes DEF SessionInv, ClientState, r
      <4>2. r.life \notin {"Constructing", "Established"}
        BY <1>1, <1>9, <2>6 DEF r
      <4> QED
        BY <2>1, <2>6, <4>1, <4>2 DEF Mute, Alone, Shape
    <3>2. CleanlyClosed(c, r, h, e)
      BY <1>6, <1>9, <2>1, <2>3 DEF Alone, CleanlyClosed
    <3> QED
      BY <2>4, <3>1, <3>2, Over
  <2> QED
    BY <2>5, <2>6
<1>10. ClientInv(b)'
  <2> DEFINE r == cl[b]
             u == Unread(b)
  <2>1. Alone(b, r, g, d, u) /\ Session(b) /\ u /\ ~Unread(b)'
    BY <1>1, <1>7 DEF SessionInv, Sessions, ClientInv, g, d
  <2>2. ~r.clean /\ ~Mute(r)
    BY <1>1, <1>8
  <2>3. r.life # "Established"
    <3>1. SUFFICES ASSUME r.life = "Established"
                   PROVE  FALSE
      OBVIOUS
    <3>2. g.nonce = b /\ g.state = "Empty"
      BY <1>1, <1>8, <3>1
    <3>3. g.state \in {"Established", "Retired"}
      BY <1>1, <2>1, <3>1, StandOf DEF Parked, InFlight, g
    <3> QED
      BY <3>2, <3>3
  <2>4. cl'[b] = r /\ reg'[Chip[b]] = h /\ down'[Chip[b]] = e
    BY <1>1, <1>5, <1>6
  <2> HIDE DEF r, u
  <2>5. /\ Of(e, b, "reply") = Of(d, b, "reply")
        /\ Of(e, b, "config") = Of(d, b, "config") \cup {Len(d) + 1}
        /\ Of(e, b, "response") = Of(d, b, "response") \cup {Len(f) + 1}
    <3>1. ASSUME NEW kind
          PROVE  Of(f, b, kind) = Of(d, b, kind)
                    \cup IF kind = "config" THEN {Len(d) + 1} ELSE {}
      BY <1>3, <1>4, RepliesSent DEF f
    <3>2. ASSUME NEW kind
          PROVE  Of(e, b, kind) = Of(f, b, kind)
                    \cup IF kind = "response" THEN {Len(f) + 1} ELSE {}
      BY <1>3, <1>4, RepliesSent DEF e
    <3> QED
      BY <3>1, <3>2
  <2>6. /\ e[Len(f) + 1] = n
        /\ \A i \in DOMAIN d : e[i] = d[i]
        /\ Len(d) + 1 < Len(f) + 1
    <3>1. /\ e[Len(f) + 1] = n /\ Len(f) \in Nat
          /\ \A i \in DOMAIN f : e[i] = f[i] /\ i <= Len(f) /\ i \in Nat
      BY <1>3, <1>4, OneMore DEF e
    <3>2. /\ Len(d) + 1 \in DOMAIN f
          /\ \A i \in DOMAIN d : i \in DOMAIN f /\ f[i] = d[i]
      BY <1>3, <1>4, OneMore DEF f
    <3>3. \A i \in DOMAIN d : e[i] = d[i]
      BY <3>1, <3>2
    <3>4. Len(d) + 1 \in Nat /\ Len(d) + 1 <= Len(f) /\ Len(f) \in Nat
      BY <3>1, <3>2
    <3> QED
      BY <3>1, <3>3, <3>4
  <2>7. \A kind : \A i \in Of(d, b, kind) : i \in DOMAIN d
    BY DEF Of, To
  <2>8. g.nonce # b \/ r.life # "Constructing"
    BY <1>8, <2>1 DEF Alone, Shaking
  <2>9. Shaking(b, r, h, e, fits[b])
    <3>1. SUFFICES ASSUME r.life = "Constructing"
                   PROVE
          /\ Of(e, b, "reply") = {}
          /\ h.nonce = b => /\ fits[b] /\ h.state = "Established"
                            /\ h.cursor = 0 /\ Blank(h)
                            /\ r.config \/ Of(e, b, "config") # {}
          /\ r.answer = 0 /\ r.sem = 0
          /\ \A i \in Of(e, b, "response") :
                /\ e[i].answer # 0 /\ h.gen = e[i].answer
                /\ \E j \in Of(e, b, "config") : j < i
      BY <1>6, <1>8 DEF Shaking
    <3>2. /\ Of(d, b, "reply") = {} /\ r.answer = 0 /\ r.sem = 0
          /\ Of(d, b, "response") = {}
      BY <1>8, <2>1, <2>8, <3>1 DEF Alone, Shaking
    <3>3. e[Len(f) + 1].answer = gen /\ gen # 0
      BY <1>2, <1>3, <2>6
    <3>4. h.nonce = b => /\ fits[b] /\ h.state = "Established"
                         /\ h.cursor = 0 /\ Blank(h)
                         /\ r.config \/ Of(e, b, "config") # {}
      BY <1>6, <1>8, <2>5
    <3>5. \A i \in Of(e, b, "response") :
                /\ e[i].answer # 0 /\ h.gen = e[i].answer
                /\ \E j \in Of(e, b, "config") : j < i
      BY <1>6, <2>5, <2>6, <3>2, <3>3
    <3> QED
      BY <2>5, <3>2, <3>4, <3>5
  <2>10. Once(b, r, e, Unread(b)')
    BY <2>1, <2>5 DEF Alone, Once
  <2>11. /\ Shape(r) /\ Silent(b, r, h, e, Unread(b)')
         /\ Owned(b, r, h) /\ CleanlyClosed(b, r, h, e)
    BY <1>6, <2>1, <2>2 DEF Alone, Silent, Owned, CleanlyClosed
  <2>12. Alone(b, cl[b], reg[Chip[b]], down[Chip[b]], Unread(b))'
    BY <2>4, <2>9, <2>10, <2>11 DEF Alone
  <2>13. Session(b)'
    BY <2>3, <2>4 DEF Session
  <2> QED
    BY <2>12, <2>13 DEF ClientInv
<1> QED
  BY <1>9, <1>10

(* The chip goes on to address only Clients of its own.                    *)
LEMMA AddressedStill ==
  ASSUME SessionInv, NEW p \in Chips, NEW b \in Clients, Chip[b] = p,
         reg'[p].boot \in {reg[p].boot, None},
         reg'[p].nonce \in {reg[p].nonce, b},
         reg'[p].state = "Established" => reg'[p].gen # 0,
         \A i \in DOMAIN down'[p] :
             \/ down'[p][i].to = b
             \/ \E j \in DOMAIN down[p] : down'[p][i] = down[p][j],
         \A q \in Chips : q # p => reg'[q] = reg[q] /\ down'[q] = down[q]
  PROVE  \A q \in Chips : Addressed(q)'
<1>1. \A q \in Chips : Addressed(q)
  BY DEF SessionInv, Sessions
<1>2. ASSUME NEW q \in Chips, q # p
      PROVE  Addressed(q)'
  BY <1>1, <1>2 DEF Addressed
<1>3. Addressed(p)'
  <2>1. Addressed(p)
    BY <1>1
  <2>2. /\ reg'[p].boot # None => Chip[reg'[p].boot] = p
        /\ reg'[p].nonce # None => Chip[reg'[p].nonce] = p
    BY <2>1 DEF Addressed
  <2>3. \A i \in DOMAIN down'[p] : Chip[down'[p][i].to] = p
    BY <2>1 DEF Addressed
  <2> QED
    BY <2>2, <2>3 DEF Addressed
<1> QED
  BY <1>2, <1>3

(* handle_establish replays the session it has or starts the one it        *)
(* answers.                                                                *)
LEMMA HandleEstablishSessions ==
  ASSUME SessionInv, NEW p \in Chips, HandleEstablish(p)
  PROVE  Sessions'
<1>1. /\ busy = None /\ reg[p].boot # None /\ busy' = p
      /\ UNCHANGED <<cl, keys, call, fits>>
  BY EstablishCases
<1>2. PICK b \in Clients : b = reg[p].boot /\ Chip[b] = p
  BY <1>1, BootIs
<1>3. KeysAreExclusive'
  BY <1>1 DEF SessionInv, Sessions, KeysAreExclusive, Living
<1>4. ASSUME \A q \in Chips : q # p => reg'[q] = reg[q] /\ down'[q] = down[q]
      PROVE  \A c \in Clients : Chip[c] # p => ClientInv(c)'
  <2> SUFFICES ASSUME NEW c \in Clients, Chip[c] # p
               PROVE  ClientInv(c)'
    OBVIOUS
  <2>1. /\ Chip[c] \in Chips /\ reg'[Chip[c]] = reg[Chip[c]]
        /\ SameMail(c, down[Chip[c]], down'[Chip[c]])
    BY <1>4, ConstantTypes DEF SameMail
  <2>2. Unread(c)' => Unread(c)
    BY <1>1, <2>1, ConstantTypes DEF Unread
  <2> QED
    BY <1>1, <2>1, <2>2, Elsewhere
<1>5. CASE reg' = reg /\ down' = down
  <2>1. \A c \in Clients : Chip[c] = p => ClientInv(c)'
    <3> SUFFICES ASSUME NEW c \in Clients, Chip[c] = p
                 PROVE  ClientInv(c)'
      OBVIOUS
    <3>1. SameMail(c, down[Chip[c]], down'[Chip[c]]) /\ ~Unread(c)'
      BY <1>1, <1>5 DEF SameMail, Unread
    <3> QED
      BY <1>1, <1>5, <3>1, Elsewhere
  <2>2. \A q \in Chips : Addressed(q)'
    BY <1>5, AddressesStay DEF SessionInv, Sessions
  <2> QED
    BY <1>3, <1>4, <1>5, <2>1, <2>2 DEF Sessions
<1>6. ASSUME NEW a \in 0..Generations, Answers(p, a),
             \/ /\ a = 0 /\ ~fits[reg[p].boot]
                /\ reg[p].nonce = reg[p].boot =>
                      reg[p].state \in {"Empty", "Established"}
             \/ /\ a = reg[p].gen /\ fits[reg[p].boot]
                /\ reg[p].state = "Established" /\ reg[p].nonce = reg[p].boot
      PROVE  Sessions'
  <2> DEFINE m == Response(b, a)
  <2>1. m \in Message /\ m.to = b
    BY ResponseType DEF Response
  <2>2. reg' = reg /\ down' = [down EXCEPT ![p] = Append(down[p], m)]
    BY <1>2, <1>6 DEF Answers
  <2> HIDE DEF m
  <2>3. /\ down[p] \in Seq(Message) /\ down'[p] = Append(down[p], m)
        /\ \A q \in Chips : q # p => down'[q] = down[q]
    BY <2>1, <2>2, SentType DEF SessionInv, CallInv, TypeOK
  <2>4. \A i \in DOMAIN down'[p] :
             \/ down'[p][i].to = b
             \/ \E j \in DOMAIN down[p] : down'[p][i] = down[p][j]
    BY <2>1, <2>3, OneMore
  <2>5. reg[p].state = "Established" => reg[p].gen # 0
    BY DEF SessionInv, Sessions, Addressed
  <2>6. \A q \in Chips : Addressed(q)'
    BY <1>2, <2>2, <2>3, <2>4, <2>5, AddressedStill
  <2>7. \A c \in Clients : Chip[c] = p => ClientInv(c)'
    BY <1>1, <1>6, AnswersSessions
  <2> QED
    BY <1>3, <1>4, <2>2, <2>3, <2>6, <2>7 DEF Sessions
<1>7. ASSUME Opens(p), fits[reg[p].boot],
             \/ reg[p].state = "Empty"
             \/ reg[p].state \notin {"Empty", "Established"}
                /\ reg[p].nonce # reg[p].boot
      PROVE  Sessions'
  <2> DEFINE m == Configuration(p)
             n == Response(b, NextGeneration(reg[p].gen))
             h == Opened(p)
  <2>1. reg[p].gen \in 0..Generations /\ 0 \in 0..Generations
    BY ConstantTypes DEF SessionInv, CallInv, TypeOK, Registry
  <2>2. NextGeneration(reg[p].gen) \in 1..Generations
        /\ NextGeneration(reg[p].gen) \in 0..Generations
    BY <2>1, GenerationType
  <2>3. m \in Message /\ n \in Message /\ m.to = b /\ n.to = b
    BY <1>2, <2>1, <2>2, ResponseType DEF Configuration, Response
  <2>4. h.nonce = b /\ h.boot = b /\ h.gen # 0
    <3> HIDE DEF h
    <3>1. h.nonce = b /\ h.boot = b /\ h.gen = NextGeneration(reg[p].gen)
      BY <1>1, <1>2, OpenedType DEF h, SessionInv, CallInv
    <3> QED
      BY <2>2, <3>1
  <2> HIDE DEF m, n, h
  <2>5. /\ reg' = [reg EXCEPT ![p] = h]
        /\ down' = [down EXCEPT ![p] = down[p] \o <<m, n>>]
    BY <1>2, <1>7 DEF Opens, m, n, h
  <2>6. /\ down[p] \in Seq(Message) /\ down'[p] = down[p] \o <<m, n>>
        /\ reg'[p] = h
        /\ \A q \in Chips : q # p => reg'[q] = reg[q] /\ down'[q] = down[q]
    BY <2>5 DEF SessionInv, CallInv, TypeOK
  <2>7. \A i \in DOMAIN down'[p] :
             \/ down'[p][i].to = b
             \/ \E j \in DOMAIN down[p] : down'[p][i] = down[p][j]
    <3> DEFINE d == down[p]
               f == Append(d, m)
    <3>1. down'[p] = Append(f, n)
      <4> HIDE DEF d
      <4>1. d \in Seq(Message) /\ down'[p] = d \o <<m, n>>
        BY <2>6 DEF d
      <4>2. d \o <<m, n>> = Append(Append(d, m), n)
        BY <2>3, <4>1
      <4> QED
        BY <4>1, <4>2
    <3>2. f \in Seq(Message)
      BY <2>3, <2>6, AppendProperties
    <3>3. \A i \in DOMAIN f :
             f[i].to = b \/ \E j \in DOMAIN down[p] : f[i] = down[p][j]
      BY <2>3, <2>6, OneMore
    <3> HIDE DEF f
    <3>4. \A i \in DOMAIN Append(f, n) : Append(f, n)[i].to = b
             \/ \E j \in DOMAIN f : Append(f, n)[i] = f[j]
      BY <2>3, <3>2, OneMore
    <3> QED
      BY <3>1, <3>3, <3>4
  <2>8. \A q \in Chips : Addressed(q)'
    BY <1>2, <2>4, <2>6, <2>7, AddressedStill
  <2>9. \A c \in Clients : Chip[c] = p => ClientInv(c)'
    BY <1>1, <1>7, OpensSessions
  <2> QED
    BY <1>3, <1>4, <2>6, <2>8, <2>9 DEF Sessions
<1>8. reg[p].gen \in 0..Generations /\ 0 \in 0..Generations
  BY ConstantTypes DEF SessionInv, CallInv, TypeOK, Registry
<1> QED
  BY <1>5, <1>6, <1>7, <1>8, EstablishCases

(* Clearing the mailbox ends the handshake on the chip's side.             *)
LEMMA ClearBootstrapSessions ==
  ASSUME SessionInv, ClearBootstrap
  PROVE  Sessions'
<1> DEFINE h == [reg[busy] EXCEPT !.boot = None]
<1>1. /\ busy \in Chips /\ reg[busy] \in Registry
      /\ busy' = None /\ busy # None
      /\ UNCHANGED <<cl, keys, call, down, fits>>
      /\ reg' = [reg EXCEPT ![busy] = h]
  BY DEF SessionInv, CallInv, TypeOK, ClearBootstrap
<1>2. /\ h.state = reg[busy].state /\ h.nonce = reg[busy].nonce
      /\ h.gen = reg[busy].gen /\ h.cursor = reg[busy].cursor
      /\ h.ring = reg[busy].ring /\ h.boot = None
  BY <1>1 DEF Registry
<1> HIDE DEF h
<1>3. reg'[busy] = h /\ \A q \in Chips : q # busy => reg'[q] = reg[q]
  BY <1>1 DEF SessionInv, CallInv, TypeOK
<1>4. KeysAreExclusive'
  BY <1>1 DEF SessionInv, Sessions, KeysAreExclusive, Living
<1>5. \A p \in Chips : Addressed(p)'
  BY <1>1, <1>2, <1>3, AddressesStay DEF SessionInv, Sessions
<1>6. ASSUME NEW c \in Clients, Chip[c] # busy
      PROVE  ClientInv(c)'
  <2>1. Chip[c] \in Chips /\ SameMail(c, down[Chip[c]], down'[Chip[c]])
    BY <1>1, ConstantTypes DEF SameMail
  <2>2. Unread(c)' => Unread(c)
    BY <1>3, <1>6, <2>1 DEF Unread
  <2> QED
    BY <1>1, <1>3, <1>6, <2>1, <2>2, Elsewhere
<1>7. ASSUME NEW c \in Clients, Chip[c] = busy
      PROVE  ClientInv(c)'
  <2> DEFINE r == cl[c]
             g == reg[Chip[c]]
             d == down[Chip[c]]
             u == Unread(c)'
  <2>1. ~u
    BY <1>2, <1>3, <1>7, ConstantTypes DEF Unread
  <2>2. Alone(c, r, g, d, Unread(c)) /\ Session(c)
    BY DEF SessionInv, Sessions, ClientInv
  <2>3. reg'[Chip[c]] = h /\ cl'[c] = r /\ down'[Chip[c]] = d /\ h.boot # c
        /\ h.boot = None
        /\ h.state = g.state /\ h.nonce = g.nonce /\ h.gen = g.gen
        /\ h.cursor = g.cursor /\ h.ring = g.ring
    BY <1>1, <1>2, <1>3, <1>7, ConstantTypes
  <2> HIDE DEF r, g, d, u
  <2>4. Blank(h) <=> Blank(g)
    BY <2>3 DEF Blank
  <2>5. Alone(c, r, g, d, u)
    <3>1. Kept(r, r)
      BY DEF Kept
    <3> QED
      BY <2>1, <2>2, <3>1, UnreadType, KeptAlone DEF u
  <2>6. Alone(c, r, h, d, u)
    BY <2>3, <2>4, <2>5
       DEF Alone, Silent, Owned, Shaking, Once, CleanlyClosed
  <2>7. Alone(c, cl[c], reg[Chip[c]], down[Chip[c]], Unread(c))'
    BY <1>1, <2>3, <2>6 DEF Alone, u
  <2>8. Session(c)'
    <3>1. \A n \in Nat : Parked(c, r, g, d, n) => Parked(c, r, h, d, n)
      BY <2>3, <2>4 DEF Parked
    <3>2. \A k, m : InFlight(c, r, g, d, k, m) => InFlight(c, r, h, d, k, m)
      BY <2>3 DEF InFlight
    <3>3. \A t \in Threads : call[t].count \in Nat
      BY ConstantTypes DEF SessionInv, CallInv, TypeOK, CallState
    <3>4. cl[c].life = "Established" => Agreed(c, r, h)
      BY <2>2, <2>3 DEF Session, Agreed, r, g
    <3> QED
      BY <1>1, <2>2, <2>3, <3>1, <3>2, <3>3, <3>4, Stands DEF r, g, d
  <2> QED
    BY <2>7, <2>8 DEF ClientInv
<1> QED
  BY <1>4, <1>5, <1>6, <1>7 DEF Sessions

(* The packet under the cursor, when the registry is that of a Client that *)
(* is at work, is the oldest of its transaction; the next one is behind    *)
(* it.  A DETACH has one packet.                                           *)
ServesOldest(c, r, g, h, d, m, k, n) ==
    /\ r \in ClientState /\ g \in Registry /\ h \in Registry
    /\ d \in Seq(Message) /\ m \in Message /\ k \in CallState
    /\ n \in 0..k.count
    /\ InFlight(c, r, g, d, k, n)
    /\ k.packet = "detach" => k.count = 1
    /\ g.ring[g.cursor % RingSlots] # None
    /\ m.to = c /\ m.kind = "reply"
    /\ h.ring = [g.ring EXCEPT ![g.cursor % RingSlots] = None]
    /\ k.packet = "detach" => h.state = "Retired"
    /\ k.packet # "detach" => /\ h.state = g.state
                              /\ h.cursor = Following(g.cursor)

(* Serving the oldest packet turns one of the ring into a reply of the     *)
(* channel.                                                                *)
LEMMA OldestServed ==
  ASSUME NEW c, NEW r, NEW g, NEW h, NEW d, NEW m, NEW k, NEW n,
         ServesOldest(c, r, g, h, d, m, k, n)
  PROVE  /\ n - 1 \in 0..k.count
         /\ InFlight(c, r, h, Append(d, m), k, n - 1)
<1> DEFINE slot == r.slot
           under == g.cursor % RingSlots
           e == Append(d, m)
<1>0. /\ r \in ClientState /\ g \in Registry /\ h \in Registry
      /\ d \in Seq(Message) /\ m \in Message /\ k \in CallState
      /\ n \in 0..k.count
      /\ InFlight(c, r, g, d, k, n)
      /\ k.packet = "detach" => k.count = 1
      /\ g.ring[g.cursor % RingSlots] # None
      /\ m.to = c /\ m.kind = "reply"
      /\ h.ring = [g.ring EXCEPT ![g.cursor % RingSlots] = None]
      /\ k.packet = "detach" => h.state = "Retired"
      /\ k.packet # "detach" => /\ h.state = g.state
                                /\ h.cursor = Following(g.cursor)
  BY DEF ServesOldest
<1>1. /\ RingSlots \in Nat \ {0} /\ slot \in 0..(RingSlots - 1)
      /\ g.cursor \in 0..(CursorModulus - 1) /\ g.cursor \in Nat
      /\ k.count \in 0..RingSlots /\ r.recv \in Nat
      /\ g.ring \in [0..(RingSlots - 1) -> Packets \cup {None}]
  BY <1>0, ConstantTypes DEF ClientState, Registry, CallState
<1>2. under \in 0..(RingSlots - 1)
  BY <1>1, ModRange
<1> HIDE DEF slot, under, e
<1>3. \A s \in 0..(RingSlots - 1) : g.ring[s] =
         IF s \in {Back(slot, i) : i \in 1..n}
         THEN [token |-> r.token, op |-> k.packet] ELSE None
  BY <1>0 DEF InFlight, slot
<1>4. n # 0 /\ n \in 1..RingSlots /\ n \in 0..RingSlots /\ n - 1 \in 0..k.count
      /\ n - 1 \in 0..RingSlots
  <2>1. n # 0
    BY <1>0, <1>2, <1>3 DEF under
  <2> QED
    BY <1>0, <1>1, <2>1
<1>5. g.state = "Established" /\ under = Back(slot, n)
  BY <1>0, <1>4 DEF InFlight, slot, under
<1>7. \A s \in 0..(RingSlots - 1) : h.ring[s] =
         IF s \in {Back(slot, i) : i \in 1..(n - 1)}
         THEN [token |-> r.token, op |-> k.packet] ELSE None
  <2>1. ASSUME NEW s \in 0..(RingSlots - 1), s = under
        PROVE  s \notin {Back(slot, i) : i \in 1..(n - 1)}
    <3>1. \A i \in 1..(n - 1) : i \in 1..RingSlots /\ i # n
      BY <1>0, <1>1, <1>4
    <3> QED
      BY <1>1, <1>4, <1>5, <2>1, <3>1, BackApart
  <2>2. ASSUME NEW s \in 0..(RingSlots - 1), s # under
        PROVE  s \in {Back(slot, i) : i \in 1..n} <=>
                  s \in {Back(slot, i) : i \in 1..(n - 1)}
    <3>1. \A i \in 1..n : i = n \/ i \in 1..(n - 1)
      BY <1>0, <1>4
    <3>2. \A i \in 1..(n - 1) : i \in 1..n
      BY <1>0, <1>4
    <3> QED
      BY <1>5, <2>2, <3>1, <3>2
  <2>3. h.ring = [g.ring EXCEPT ![under] = None]
    BY <1>0 DEF under
  <2>4. h.ring[under] = None
        /\ \A s \in 0..(RingSlots - 1) : s # under => h.ring[s] = g.ring[s]
    BY <1>0, <1>1, <1>2, <2>3
  <2> QED
    BY <1>0, <1>3, <2>1, <2>2, <2>4
<1>8. Of(e, c, "reply") = Of(d, c, "reply") \cup {Len(d) + 1}
      /\ To(e, c) = To(d, c) \cup {Len(d) + 1}
      /\ Cardinality(Of(e, c, "reply")) = Cardinality(Of(d, c, "reply")) + 1
  <2>1. /\ d \in Seq(Message) /\ m \in Message
        /\ m.to = c /\ m.kind = "reply"
    BY <1>0
  <2> QED
    BY <2>1, RepliesSent DEF e
<1>9. (n - 1) + Cardinality(Of(e, c, "reply")) + r.recv = k.count
  <2>1. Cardinality(Of(d, c, "reply")) \in Nat
    BY <1>0, RepliesFinite
  <2>2. n + Cardinality(Of(d, c, "reply")) + r.recv = k.count
    BY <1>0 DEF InFlight
  <2> QED
    BY <1>0, <1>1, <1>4, <1>8, <2>1, <2>2
<1>10. IF k.packet = "detach" /\ n - 1 = 0
       THEN /\ h.state = "Retired"
            /\ \A i \in To(e, c) : \E j \in Of(e, c, "reply") : i <= j
       ELSE /\ h.state = "Established"
            /\ h.cursor % RingSlots = Back(slot, n - 1)
  <2>1. CASE k.packet = "detach"
    <3>1. n - 1 = 0
      BY <1>0, <1>4, <2>1
    <3>2. \A i \in To(e, c) : i <= Len(d) + 1
      <4>1. \A i \in DOMAIN d : i <= Len(d) /\ i \in Nat
        BY <1>0, OneMore
      <4>2. Len(d) \in Nat /\ \A i \in To(d, c) : i \in DOMAIN d
        BY <1>0, LenProperties DEF To
      <4> QED
        BY <1>0, <1>8, <4>1, <4>2
    <3> QED
      BY <1>0, <1>8, <2>1, <3>1, <3>2
  <2>2. CASE k.packet # "detach"
    <3>1. Following(g.cursor) % RingSlots = Back(slot, n - 1)
      BY <1>0, <1>1, <1>4, <1>5, CursorFollows DEF under
    <3> QED
      BY <1>0, <1>5, <2>2, <3>1
  <2> QED
    BY <2>1, <2>2
<1>11. InFlight(c, r, h, e, k, n - 1)
  BY <1>0, <1>7, <1>9, <1>10 DEF InFlight, slot
<1> QED
  BY <1>4, <1>11 DEF e

(* A served packet belongs to the session whose nonce it carries.          *)
LEMMA ServePacketSessions ==
  ASSUME SessionInv, NEW p \in Chips, ServePacket(p)
  PROVE  Sessions'
<1> DEFINE g == reg[p]
           h == Served(p)
           d == down[p]
           e == down'[p]
           m == Reply(p)
<1>1. /\ busy = None /\ Packet(p) # None
      /\ reg' = [reg EXCEPT ![p] = h]
      /\ down' = IF Serves(p) THEN [down EXCEPT ![p] = Append(d, m)] ELSE down
      /\ UNCHANGED <<cl, keys, call, busy, fits>>
  BY ServeIs DEF SessionInv, CallInv
<1>2. /\ g \in Registry /\ d \in Seq(Message)
      /\ h \in Registry /\ Under(p) \in 0..(RingSlots - 1)
      /\ h.state = IF Detaches(p) THEN "Retired" ELSE g.state
      /\ h.nonce = g.nonce /\ h.gen = g.gen /\ h.boot = g.boot
      /\ h.cursor = IF Detaches(p) THEN 0 ELSE Following(g.cursor)
      /\ h.ring = [g.ring EXCEPT ![Under(p)] = None]
  BY ServedType DEF SessionInv, CallInv, TypeOK
<1>3. reg'[p] = h /\ \A q \in Chips : q # p => reg'[q] = reg[q]
  BY <1>1 DEF SessionInv, CallInv, TypeOK
<1>4. /\ Serves(p) => /\ m \in Message /\ m.to = g.nonce /\ m.kind = "reply"
                      /\ e = Append(d, m) /\ g.state = "Established"
                      /\ g.nonce \in Clients /\ Chip[g.nonce] = p
      /\ ~Serves(p) => e = d
      /\ \A q \in Chips : q # p => down'[q] = down[q]
  <2>1. CASE Serves(p)
    <3>1. g.nonce \in Clients /\ g.state = "Established" /\ Chip[g.nonce] = p
      BY <2>1 DEF Serves, SessionInv, CallInv, TypeOK, Registered, Registry,
                  Sessions, Addressed
    <3>2. 0 \in 0..Generations
      BY ConstantTypes
    <3>3. m \in Message /\ m.to = g.nonce /\ m.kind = "reply"
      BY <3>1, <3>2, ResponseType DEF Reply
    <3>4. down' = [down EXCEPT ![p] = Append(d, m)]
      BY <1>1, <2>1
    <3> HIDE DEF m
    <3>5. e = Append(d, m) /\ \A q \in Chips : q # p => down'[q] = down[q]
      BY <3>3, <3>4, SentType DEF SessionInv, CallInv
    <3> QED
      BY <2>1, <3>1, <3>3, <3>5
  <2>2. CASE ~Serves(p)
    BY <1>1, <2>2
  <2> QED
    BY <2>1, <2>2
<1> HIDE DEF g, h, d, e, m
<1>5. KeysAreExclusive'
  BY <1>1 DEF SessionInv, Sessions, KeysAreExclusive, Living
<1>6. ASSUME NEW c \in Clients, Chip[c] # p
      PROVE  ClientInv(c)'
  <2>1. /\ Chip[c] \in Chips /\ reg'[Chip[c]] = reg[Chip[c]]
        /\ SameMail(c, down[Chip[c]], down'[Chip[c]])
    BY <1>3, <1>4, <1>6, ConstantTypes DEF SameMail
  <2>2. Unread(c)' => Unread(c)
    BY <1>1, <2>1 DEF Unread
  <2> QED
    BY <1>1, <2>1, <2>2, Elsewhere
<1>7. \A q \in Chips : Addressed(q)'
  <2>1. \A q \in Chips : Addressed(q)
    BY DEF SessionInv, Sessions
  <2>2. \A q \in Chips : q # p => Addressed(q)'
    BY <1>3, <1>4, <2>1 DEF Addressed
  <2>3. Addressed(p)'
    <3>1. /\ g.boot # None => Chip[g.boot] = p
          /\ g.nonce # None => Chip[g.nonce] = p
          /\ \A i \in DOMAIN d : Chip[d[i].to] = p
          /\ g.state = "Established" => g.gen # 0
      BY <2>1 DEF Addressed, g, d
    <3>2. \A i \in DOMAIN e : Chip[e[i].to] = p
      BY <1>2, <1>4, <3>1, OneMore
    <3>3. h.state = "Established" => h.gen # 0
      BY <1>2, <3>1
    <3> QED
      BY <1>2, <1>3, <3>1, <3>2, <3>3 DEF Addressed, e
  <2> QED
    BY <2>2, <2>3
<1>8. ASSUME NEW c \in Clients, Chip[c] = p
      PROVE  ClientInv(c)'
  <2> DEFINE r == cl[c]
             u == Unread(c)'
  <2>1. Alone(c, r, g, d, Unread(c)) /\ Session(c) /\ r \in ClientState
    BY <1>8, ClientTypes DEF SessionInv, Sessions, ClientInv, g, d
  <2>2. u <=> Unread(c)
    BY <1>1, <1>2, <1>3, <1>8 DEF Unread, g
  <2>3. /\ cl'[c] = r /\ reg'[Chip[c]] = h /\ down'[Chip[c]] = e
        /\ reg[Chip[c]] = g /\ down[Chip[c]] = d
    BY <1>1, <1>3, <1>8 DEF g, d, e
  <2>4. g.nonce # c \/ ~Serves(p) => SameMail(c, d, e)
    <3>1. CASE Serves(p)
      BY <1>2, <1>4, <3>1, SentElsewhere
    <3>2. CASE ~Serves(p)
      BY <1>4, <3>2 DEF SameMail
    <3> QED
      BY <3>1, <3>2
  <2>5. ~Blank(g)
    BY <1>1, <1>2 DEF Blank, Packet, g
  <2>6. r.life \in {"Unborn", "Constructing", "Established", "Quarantined",
                    "Closed", "Failed"}
    BY <2>1 DEF ClientState
  <2> HIDE DEF r, u
  <2>7. CASE r.life \in {"Unborn", "Constructing", "Failed"}
    <3>1. g.nonce # c
      BY <2>1, <2>5, <2>7 DEF Alone, Silent, Mute, Shaking
    <3>2. Alone(c, r, g, e, u)
      BY <2>1, <2>2, <2>4, <3>1, UnreadType, MailAlone DEF u
    <3>3. Alone(c, r, h, e, u)
      BY <1>2, <2>7, <3>1, <3>2
         DEF Alone, Shape, Silent, Owned, Shaking, Once, CleanlyClosed
    <3>4. Alone(c, cl[c], reg[Chip[c]], down[Chip[c]], Unread(c))'
      BY <1>1, <2>3, <3>3 DEF Alone, u
    <3>5. Session(c)'
      BY <2>3, <2>7 DEF Session
    <3> QED
      BY <3>4, <3>5 DEF ClientInv
  <2>8. CASE r.life \in {"Quarantined", "Closed"}
    <3>1. r.clean => r.life = "Closed"
      BY <2>1 DEF Alone, Shape
    <3>2. CleanlyClosed(c, r, h, e)
      <4>1. CleanlyClosed(c, r, g, d)
        BY <2>1 DEF Alone
      <4>2. ASSUME r.clean
            PROVE  To(e, c) = {} /\ (g.nonce = c => h.state = g.state)
        <5>1. g.nonce = c => ~Serves(p)
          BY <4>1, <4>2 DEF CleanlyClosed, Serves, g
        <5>2. SameMail(c, d, e)
          BY <2>4, <5>1
        <5>3. g.nonce # c \/ h.state = g.state
          BY <1>2, <5>1 DEF Detaches
        <5> QED
          BY <4>1, <4>2, <5>2, <5>3 DEF CleanlyClosed, SameMail
      <4> QED
        BY <1>2, <4>1, <4>2 DEF CleanlyClosed
    <3> QED
      BY <2>3, <2>8, <3>1, <3>2, Over
  <2>9. CASE r.life = "Established"
    <3>1. Agreed(c, r, g)
      BY <2>1, <2>3, <2>9 DEF Session, r
    <3>2. \A n \in Nat : ~Parked(c, r, g, d, n)
      BY <2>5 DEF Parked
    <3>3. ASSUME NEW t \in Threads, WorksOn(c, t), NEW n \in 0..call[t].count,
                 InFlight(c, r, g, d, call[t], n)
          PROVE  /\ n - 1 \in 0..call[t].count
                 /\ InFlight(c, r, h, e, call[t], n - 1)
      <4> DEFINE k == call[t]
      <4>1. k \in CallState /\ (k.packet = "detach" => k.count = 1)
        BY <3>3 DEF SessionInv, CallInv, TypeOK, CallShape, CallState,
                    WorksOn, Working
      <4>2. g.ring[g.cursor % RingSlots] # None
        BY <1>1 DEF Packet, Under, g
      <4>3. /\ g.state = "Established"
            /\ g.ring[g.cursor % RingSlots]
                  = [token |-> r.token, op |-> k.packet]
        <5> DEFINE under == g.cursor % RingSlots
        <5>1. \A s \in 0..(RingSlots - 1) : g.ring[s] =
                IF s \in {Back(r.slot, i) : i \in 1..n}
                THEN [token |-> r.token, op |-> k.packet] ELSE None
          BY <3>3 DEF InFlight
        <5>2. under \in 0..(RingSlots - 1)
          BY <1>2 DEF Under, g
        <5> HIDE DEF under, k
        <5>3. g.ring[under] = [token |-> r.token, op |-> k.packet]
          BY <4>2, <5>1, <5>2 DEF under
        <5>4. n # 0
          <6>1. ASSUME n = 0
                PROVE  FALSE
            <7>1. {Back(r.slot, i) : i \in 1..n} = {}
              BY <6>1
            <7> QED
              BY <4>2, <5>1, <5>2, <7>1 DEF under
          <6> QED
            BY <6>1
        <5>5. g.state = "Established"
          BY <3>3, <5>4 DEF InFlight, k
        <5> QED
          BY <5>3, <5>5 DEF under
      <4>4. /\ Serves(p) /\ (Detaches(p) <=> k.packet = "detach")
        BY <3>1, <4>3 DEF Serves, Detaches, Packet, Under, Agreed, g
      <4>5. /\ m \in Message /\ m.to = c /\ m.kind = "reply"
            /\ e = Append(d, m)
        BY <1>4, <3>1, <4>4 DEF Agreed
      <4>6. /\ h.ring = [g.ring EXCEPT ![g.cursor % RingSlots] = None]
            /\ k.packet = "detach" => h.state = "Retired"
            /\ k.packet # "detach" => /\ h.state = g.state
                                      /\ h.cursor = Following(g.cursor)
        BY <1>2, <4>4 DEF Under, g
      <4>8. n \in 0..k.count /\ InFlight(c, r, g, d, k, n)
        BY <3>3
      <4> HIDE DEF k
      <4>9. n - 1 \in 0..k.count /\ InFlight(c, r, h, Append(d, m), k, n - 1)
        <5>1. ServesOldest(c, r, g, h, d, m, k, n)
          BY <1>2, <2>1, <4>1, <4>2, <4>5, <4>6, <4>8 DEF ServesOldest
        <5> QED
          BY <5>1, OldestServed
      <4> QED
        BY <4>5, <4>9 DEF k
    <3>4. Alone(c, r, h, e, u)
      BY <1>2, <2>1, <2>9
         DEF Alone, Shape, Silent, Mute, Owned, Shaking, Once, CleanlyClosed
    <3>5. Alone(c, cl[c], reg[Chip[c]], down[Chip[c]], Unread(c))'
      BY <1>1, <2>3, <3>4 DEF Alone, u
    <3>6. Session(c)'
      <4>1. \A t \in Threads : call[t].count \in Nat
        BY ConstantTypes DEF SessionInv, CallInv, TypeOK, CallState
      <4>2. Agreed(c, r, h)
        BY <1>2, <3>1 DEF Agreed
      <4>3. cl[c] = r
        BY DEF r
      <4> QED
        BY <1>1, <2>1, <2>3, <3>2, <3>3, <4>1, <4>2, <4>3, Stands
    <3> QED
      BY <3>5, <3>6 DEF ClientInv
  <2> QED
    BY <2>6, <2>7, <2>8, <2>9
<1> QED
  BY <1>5, <1>6, <1>7, <1>8 DEF Sessions

(* A message leaves: the others move up, and a Client keeps its own.       *)
Moved(d, e, c, kind) ==
    /\ \A i \in Of(e, c, kind) : /\ i \in Nat /\ i # 0
                                 /\ i + 1 \in Of(d, c, kind)
                                 /\ e[i] = d[i + 1]
    /\ \A i \in Of(d, c, kind) : i # 1 => i - 1 \in Of(e, c, kind) /\ i \in Nat
    /\ 1 \in Of(d, c, kind) <=> Head(d).to = c /\ Head(d).kind = kind

(* The messages left after a delivery, one place further up.               *)
LEMMA MovesUp ==
  ASSUME NEW d \in Seq(Message), d # <<>>, NEW c
  PROVE  /\ Head(d).to = c => 1 \in To(d, c)
         /\ \A i \in To(Tail(d), c) : i \in Nat /\ i + 1 \in To(d, c)
         /\ \A i \in To(d, c) : i # 1 => i - 1 \in To(Tail(d), c) /\ i \in Nat
         /\ Head(d).to # c => 1 \notin To(d, c)
         /\ \A kind : Moved(d, Tail(d), c, kind)
<1> DEFINE e == Tail(d)
<1>1. /\ e \in Seq(Message) /\ d[1] = Head(d) /\ 1 \in DOMAIN d
      /\ \A i \in DOMAIN e : i + 1 \in DOMAIN d /\ e[i] = d[i + 1] /\ i \in Nat
      /\ \A i \in DOMAIN d : i # 1 => i - 1 \in DOMAIN e
                                       /\ e[i - 1] = d[i] /\ i - 1 \in Nat
  BY OneLess
<1>2. \A i \in DOMAIN e : i # 0
  BY <1>1, LenProperties
<1>3. \A i \in DOMAIN d : i \in Nat
  BY LenProperties
<1> HIDE DEF e
<1>4. /\ Head(d).to = c => 1 \in To(d, c)
      /\ \A i \in To(e, c) : i \in Nat /\ i + 1 \in To(d, c)
      /\ \A i \in To(d, c) : i # 1 => i - 1 \in To(e, c) /\ i \in Nat
      /\ Head(d).to # c => 1 \notin To(d, c)
  BY <1>1, <1>3 DEF To
<1>5. ASSUME NEW kind
      PROVE  Moved(d, e, c, kind)
  BY <1>1, <1>2, <1>3 DEF To, Of, Moved
<1> QED
  BY <1>4, <1>5 DEF e

(* A message for another Client arrives.                                   *)
LEMMA PassedBy ==
  ASSUME NEW c, NEW r, NEW g, NEW d \in Seq(Message), d # <<>>,
         Head(d).to # c, NEW u \in BOOLEAN, Alone(c, r, g, d, u)
  PROVE  Alone(c, r, g, Tail(d), u)
<1> DEFINE e == Tail(d)
<1>1. /\ \A i \in To(e, c) : i \in Nat /\ i + 1 \in To(d, c)
      /\ \A kind :
           /\ \A i \in Of(e, c, kind) : /\ i \in Nat
                                        /\ i + 1 \in Of(d, c, kind)
                                        /\ e[i] = d[i + 1]
           /\ \A i \in Of(d, c, kind) : i - 1 \in Of(e, c, kind) /\ i \in Nat
  <2>1. /\ \A i \in To(e, c) : i \in Nat /\ i + 1 \in To(d, c)
        /\ \A kind : Moved(d, e, c, kind)
    BY MovesUp
  <2>2. \A kind : 1 \notin Of(d, c, kind)
    BY <2>1 DEF Moved
  <2> HIDE DEF e
  <2> QED
    BY <2>1, <2>2 DEF Moved
<1> HIDE DEF e
<1>2. /\ To(d, c) = {} => To(e, c) = {}
      /\ \A kind : Of(d, c, kind) = {} <=> Of(e, c, kind) = {}
  BY <1>1
<1>3. Silent(c, r, g, e, u) /\ CleanlyClosed(c, r, g, e)
  BY <1>2 DEF Alone, Silent, CleanlyClosed
<1>4. ASSUME r.life = "Constructing",
             NEW i \in Of(e, c, "response")
      PROVE  /\ e[i].answer = 0 => ~fits[c]
             /\ e[i].answer # 0 =>
                  /\ g.nonce = c /\ g.gen = e[i].answer
                  /\ r.config \/ \E j \in Of(e, c, "config") : j < i
  <2>1. /\ i \in Nat /\ i + 1 \in Of(d, c, "response") /\ e[i] = d[i + 1]
    BY <1>1
  <2>2. /\ e[i].answer = 0 => ~fits[c]
        /\ e[i].answer # 0 =>
             /\ g.nonce = c /\ g.gen = e[i].answer
             /\ r.config \/ \E j \in Of(d, c, "config") : j < i + 1
    BY <1>4, <2>1 DEF Alone, Shaking
  <2>3. ASSUME NEW j \in Of(d, c, "config"), j < i + 1
        PROVE  j - 1 \in Of(e, c, "config") /\ j - 1 < i
    BY <1>1, <2>1, <2>3
  <2> QED
    BY <2>2, <2>3
<1>5. Shaking(c, r, g, e, fits[c])
  BY <1>2, <1>4 DEF Alone, Shaking
<1>6. Once(c, r, e, u)
  <2>1. SUFFICES ASSUME r.life = "Constructing", r.attempts = 1
                 PROVE  /\ \A i, j \in Of(e, c, "response") : i = j
                        /\ r.sem # 0 => Of(e, c, "response") = {}
                        /\ r.sem # 0 \/ Of(e, c, "response") # {} => ~u
    BY DEF Once
  <2>2. /\ \A i, j \in Of(d, c, "response") : i = j
        /\ r.sem # 0 => Of(d, c, "response") = {}
        /\ r.sem # 0 \/ Of(d, c, "response") # {} => ~u
    BY <2>1 DEF Alone, Once
  <2>3. \A i, j \in Of(e, c, "response") : i = j
    <3> SUFFICES ASSUME NEW i \in Of(e, c, "response"),
                        NEW j \in Of(e, c, "response")
                 PROVE  i = j
      OBVIOUS
    <3>1. i \in Nat /\ j \in Nat /\ i + 1 = j + 1
      BY <1>1, <2>2
    <3> QED
      BY <3>1
  <2> QED
    BY <1>2, <2>2, <2>3
<1> QED
  BY <1>3, <1>5, <1>6 DEF Alone, e

(* A message for a Client under construction arrives.                      *)
LEMMA ReachesNew ==
  ASSUME NEW c, NEW r \in ClientState, NEW g, NEW d \in Seq(Message),
         d # <<>>, Head(d).to = c, Head(d) \in Message,
         r.life = "Constructing", NEW u \in BOOLEAN, Alone(c, r, g, d, u)
  PROVE  Alone(c, Written(Head(d), r), g, Tail(d), u)
<1> DEFINE e == Tail(d)
           m == Head(d)
           w == Written(m, r)
<1>1. /\ 1 \in To(d, c)
      /\ \A kind :
           /\ \A i \in Of(e, c, kind) : /\ i \in Nat /\ i # 0
                                        /\ i + 1 \in Of(d, c, kind)
                                        /\ e[i] = d[i + 1]
           /\ \A i \in Of(d, c, kind) : i # 1 => i - 1 \in Of(e, c, kind)
                                                 /\ i \in Nat
           /\ 1 \in Of(d, c, kind) <=> m.kind = kind
  <2>1. 1 \in To(d, c) /\ \A kind : Moved(d, e, c, kind)
    BY MovesUp
  <2> HIDE DEF e
  <2> QED
    BY <2>1 DEF Moved
<1>2. d[1] = m
  BY OneLess
<1>3. /\ w.life = r.life /\ w.memory = r.memory /\ w.clean = r.clean
      /\ w.attempts = r.attempts /\ w.may = r.may
      /\ r.memory = "held" /\ m.kind = "config" =>
             /\ w.config /\ w.sem = r.sem /\ w.answer = r.answer
      /\ r.memory = "held" /\ m.kind = "response" =>
             /\ w.config = r.config /\ w.sem = r.sem + 1
             /\ w.answer = m.answer
  BY WrittenIs
<1>4. r.sem \in Nat /\ r.sem + 1 # 0
      /\ m.kind \in {"config", "response", "reply"}
  BY DEF ClientState, Message
<1> HIDE DEF e, m, w
<1>5. /\ Of(d, c, "reply") = {}
      /\ Of(d, c, "config") # {} => fits[c]
      /\ g.nonce = c => /\ fits[c] /\ g.state = "Established"
                        /\ g.cursor = 0 /\ Blank(g)
                        /\ r.config \/ Of(d, c, "config") # {}
      /\ r.answer # 0 => g.nonce = c /\ g.gen = r.answer /\ r.config
      /\ r.sem # 0 /\ r.answer = 0 => ~fits[c]
      /\ \A i \in Of(d, c, "response") :
            /\ d[i].answer = 0 => ~fits[c]
            /\ d[i].answer # 0 =>
                  /\ g.nonce = c /\ g.gen = d[i].answer
                  /\ r.config \/ \E j \in Of(d, c, "config") : j < i
  BY DEF Alone, Shaking
<1>6. /\ Shape(r) /\ Silent(c, r, g, d, u) /\ Owned(c, r, g)
      /\ Once(c, r, d, u) /\ r.memory = "held"
  BY DEF Alone, Shape
<1>7. m.kind \in {"config", "response"}
  BY <1>1, <1>4, <1>5
<1>8. Of(e, c, "reply") = {}
  BY <1>1, <1>5
<1>9. Of(e, c, "config") # {} => fits[c]
  BY <1>1, <1>5
<1>10. \A i \in Of(d, c, "config") : i \in Nat /\ i >= 1
  <2>1. \A i \in DOMAIN d : i \in Nat /\ i >= 1
    BY LenProperties
  <2> QED
    BY <2>1 DEF Of, To
<1>11. CASE m.kind = "config"
  <2>1. w.config /\ w.sem = r.sem /\ w.answer = r.answer
    BY <1>3, <1>6, <1>11
  <2>2. Shaking(c, w, g, e, fits[c])
    BY <1>1, <1>3, <1>5, <1>8, <1>9, <2>1 DEF Shaking
  <2>3. \A i \in Of(e, c, "response") : i + 1 \in Of(d, c, "response") /\ i \in Nat
    BY <1>1
  <2>4. Once(c, w, e, u)
    <3>1. SUFFICES ASSUME r.attempts = 1
                   PROVE  /\ \A i, j \in Of(e, c, "response") : i = j
                          /\ r.sem # 0 => Of(e, c, "response") = {}
                          /\ r.sem # 0 \/ Of(e, c, "response") # {} => ~u
      BY <1>3, <2>1 DEF Once
    <3>2. /\ \A i, j \in Of(d, c, "response") : i = j
          /\ r.sem # 0 => Of(d, c, "response") = {}
          /\ r.sem # 0 \/ Of(d, c, "response") # {} => ~u
      BY <1>6, <3>1 DEF Once
    <3>3. \A i, j \in Of(e, c, "response") : i + 1 = j + 1
      BY <2>3, <3>2
    <3>4. \A i, j \in Of(e, c, "response") : i = j
      BY <2>3, <3>3
    <3> QED
      BY <2>3, <3>2, <3>4
  <2>5. Shape(w) /\ Silent(c, w, g, e, u) /\ Owned(c, w, g)
        /\ CleanlyClosed(c, w, g, e)
    BY <1>1, <1>3, <1>6, <2>1
       DEF Shape, Silent, Mute, Owned, CleanlyClosed
  <2> QED
    BY <2>2, <2>4, <2>5 DEF Alone, e, m, w
<1>12. CASE m.kind = "response"
  <2>1. w.config = r.config /\ w.sem # 0 /\ w.answer = m.answer
    BY <1>3, <1>4, <1>6, <1>12
  <2>2. 1 \in Of(d, c, "response") /\ 1 \notin Of(d, c, "config")
    BY <1>1, <1>12
  <2>3. /\ m.answer = 0 => ~fits[c]
        /\ m.answer # 0 => g.nonce = c /\ g.gen = m.answer /\ r.config
    BY <1>2, <1>5, <1>10, <2>2
  <2>4. \A j \in Of(d, c, "config") : j - 1 \in Of(e, c, "config")
    BY <1>1, <2>2
  <2>5. ASSUME NEW i \in Of(e, c, "response")
        PROVE  /\ e[i].answer = 0 => ~fits[c]
               /\ e[i].answer # 0 =>
                    /\ g.nonce = c /\ g.gen = e[i].answer
                    /\ r.config \/ \E j \in Of(e, c, "config") : j < i
    <3>1. /\ i \in Nat /\ i + 1 \in Of(d, c, "response") /\ e[i] = d[i + 1]
      BY <1>1
    <3>2. /\ e[i].answer = 0 => ~fits[c]
          /\ e[i].answer # 0 =>
               /\ g.nonce = c /\ g.gen = e[i].answer
               /\ r.config \/ \E j \in Of(d, c, "config") : j < i + 1
      BY <1>5, <3>1
    <3>3. ASSUME NEW j \in Of(d, c, "config"), j < i + 1
          PROVE  j - 1 \in Of(e, c, "config") /\ j - 1 < i
      BY <1>10, <2>4, <3>1, <3>3
    <3> QED
      BY <3>2, <3>3
  <2>6. Of(d, c, "config") # {} => Of(e, c, "config") # {}
    BY <2>4
  <2>7. Shaking(c, w, g, e, fits[c])
    BY <1>5, <1>8, <1>9, <2>1, <2>3, <2>5, <2>6 DEF Shaking
  <2>8. Once(c, w, e, u)
    <3>1. SUFFICES ASSUME r.attempts = 1
                   PROVE  Of(e, c, "response") = {} /\ ~u
      BY <1>3 DEF Once
    <3>2. /\ \A i, j \in Of(d, c, "response") : i = j
          /\ Of(d, c, "response") # {} => ~u
      BY <1>6, <3>1 DEF Once
    <3>3. ASSUME NEW i \in Of(e, c, "response")
          PROVE  FALSE
      <4>1. i \in Nat /\ i # 0 /\ i + 1 \in Of(d, c, "response")
        BY <1>1
      <4>2. i + 1 = 1
        BY <2>2, <3>2, <4>1
      <4> QED
        BY <4>1, <4>2
    <3> QED
      BY <2>2, <3>2, <3>3
  <2>9. Shape(w) /\ Silent(c, w, g, e, u) /\ Owned(c, w, g)
        /\ CleanlyClosed(c, w, g, e)
    BY <1>1, <1>3, <1>6, <2>1
       DEF Shape, Silent, Mute, Owned, CleanlyClosed
  <2> QED
    BY <2>7, <2>8, <2>9 DEF Alone, e, m, w
<1> QED
  BY <1>7, <1>11, <1>12

(* A reply that arrives is counted by its Client instead of its way.       *)
Counted(c, r, w, d) ==
    /\ w.slot = r.slot /\ w.token = r.token
    /\ w.recv = r.recv + IF Head(d).to = c /\ Head(d).kind = "reply"
                         THEN 1 ELSE 0

(* A delivery keeps what a parked transaction is owed.                     *)
LEMMA ParkedMoves ==
  ASSUME NEW c, NEW r, NEW w, NEW g, NEW d \in Seq(Message), d # <<>>, NEW n,
         w.slot = r.slot, Parked(c, r, g, d, n)
  PROVE  Parked(c, w, g, Tail(d), n)
<1>1. Moved(d, Tail(d), c, "reply")
  BY MovesUp
<1>2. Of(Tail(d), c, "reply") = {}
  BY <1>1 DEF Moved, Parked
<1> QED
  BY <1>2 DEF Parked

(* A delivery moves one reply of a transaction from the channel to the     *)
(* Client.                                                                 *)
LEMMA InFlightMoves ==
  ASSUME NEW c, NEW r \in ClientState, NEW w, NEW g, NEW d \in Seq(Message),
         d # <<>>, NEW k, NEW n \in Nat, Counted(c, r, w, d),
         InFlight(c, r, g, d, k, n)
  PROVE  InFlight(c, w, g, Tail(d), k, n)
<1> DEFINE e == Tail(d)
           got == IF Head(d).to = c /\ Head(d).kind = "reply" THEN 1 ELSE 0
<1>1. e \in Seq(Message)
  BY OneLess
<1>2. /\ Moved(d, e, c, "reply") /\ \A i \in To(e, c) : i \in Nat /\ i + 1 \in To(d, c)
  BY MovesUp
<1>3. Cardinality(Of(d, c, "reply")) = Cardinality(Of(e, c, "reply")) + got
  BY RepliesGot
<1>4. /\ w.slot = r.slot /\ w.token = r.token /\ w.recv = r.recv + got
  BY DEF Counted
<1>5. r.recv \in Nat /\ got \in Nat
  BY DEF ClientState
<1> HIDE DEF e, got
<1>6. n + Cardinality(Of(e, c, "reply")) + w.recv = k.count
  <2>1. Cardinality(Of(e, c, "reply")) \in Nat
    BY <1>1, RepliesFinite
  <2>2. n + Cardinality(Of(d, c, "reply")) + r.recv = k.count
    BY DEF InFlight
  <2> QED
    BY <1>3, <1>4, <1>5, <2>1, <2>2
<1>7. ASSUME \A i \in To(d, c) : \E j \in Of(d, c, "reply") : i <= j
      PROVE  \A i \in To(e, c) : \E j \in Of(e, c, "reply") : i <= j
  <2> SUFFICES ASSUME NEW i \in To(e, c)
               PROVE  \E j \in Of(e, c, "reply") : i <= j
    OBVIOUS
  <2>1. i \in Nat /\ i + 1 \in To(d, c)
    BY <1>2
  <2>2. PICK j \in Of(d, c, "reply") : i + 1 <= j
    BY <1>7, <2>1
  <2>3. /\ i # 0 /\ j \in Nat
    <3>1. DOMAIN e = 1..Len(e) /\ DOMAIN d = 1..Len(d)
      BY <1>1, LenProperties
    <3> QED
      BY <2>2, <3>1 DEF To, Of
  <2>4. j # 1 /\ j - 1 \in Of(e, c, "reply") /\ i <= j - 1
    BY <1>2, <2>1, <2>2, <2>3 DEF Moved
  <2> QED
    BY <2>4
<1>8. InFlight(c, w, g, e, k, n)
  <2>1. \A s \in 0..(RingSlots - 1) : g.ring[s] =
           IF s \in {Back(w.slot, i) : i \in 1..n}
           THEN [token |-> w.token, op |-> k.packet] ELSE None
    BY <1>4 DEF InFlight
  <2>2. IF k.packet = "detach" /\ n = 0
        THEN /\ g.state = "Retired"
             /\ \A i \in To(e, c) : \E j \in Of(e, c, "reply") : i <= j
        ELSE /\ g.state = "Established"
             /\ g.cursor % RingSlots = Back(w.slot, n)
    <3>1. CASE k.packet = "detach" /\ n = 0
      BY <1>7, <3>1 DEF InFlight
    <3>2. CASE ~(k.packet = "detach" /\ n = 0)
      BY <1>4, <3>2 DEF InFlight
    <3> QED
      BY <3>1, <3>2
  <2> QED
    BY <1>6, <2>1, <2>2 DEF InFlight
<1> QED
  BY <1>8 DEF e

(* A delivered message reaches a Client that still waits for it, or        *)
(* none.                                                                   *)
LEMMA DeliverSessions ==
  ASSUME SessionInv, NEW p \in Chips, Deliver(p)
  PROVE  Sessions'
<1> DEFINE d == down[p]
           e == Tail(d)
           m == Head(d)
           b == m.to
           w == Written(m, cl[b])
<1>1. /\ d # <<>> /\ d \in Seq(Message) /\ m \in Message
      /\ cl' = [cl EXCEPT ![b] = w]
      /\ down' = [down EXCEPT ![p] = e]
      /\ UNCHANGED <<keys, call, reg, busy, fits>>
  BY DeliverIs DEF SessionInv, CallInv, TypeOK
<1>2. /\ b \in Clients /\ cl[b] \in ClientState
  BY <1>1 DEF Message, SessionInv, CallInv, TypeOK
<1>3. Chip[b] = p /\ d[1] = m /\ 1 \in DOMAIN d
  BY <1>1, OneLess DEF SessionInv, Sessions, Addressed
<1>4. /\ w \in ClientState
      /\ w.life = cl[b].life /\ w.memory = cl[b].memory
      /\ w.clean = cl[b].clean /\ w.attempts = cl[b].attempts
      /\ w.token = cl[b].token /\ w.slot = cl[b].slot
      /\ cl[b].memory = "held" /\ m.kind = "reply" =>
             w.config = cl[b].config /\ w.recv = cl[b].recv + 1
      /\ cl[b].memory = "held" /\ m.kind = "response" =>
             w.config = cl[b].config /\ w.recv = cl[b].recv
      /\ cl[b].memory = "held" /\ m.kind = "config" =>
             w.config /\ w.recv = cl[b].recv
      /\ m.kind \in {"config", "response", "reply"}
  <2>1. m.kind \in {"config", "response", "reply"}
    BY <1>1 DEF Message
  <2> HIDE DEF m, b
  <2> QED
    BY <1>1, <1>2, <2>1, WrittenIs
<1> HIDE DEF d, e, m, b, w
<1>5. /\ cl'[b] = w /\ \A c \in Clients : c # b => cl'[c] = cl[c]
      /\ down'[p] = e /\ \A q \in Chips : q # p => down'[q] = down[q]
  BY <1>1, <1>2, <1>4, OneClient DEF SessionInv, CallInv, TypeOK
<1>6. KeysAreExclusive'
  <2>1. \A c \in Clients : Living(c)' <=> Living(c)
    BY <1>4, <1>5 DEF Living
  <2> QED
    BY <1>1, <2>1 DEF SessionInv, Sessions, KeysAreExclusive
<1>7. ASSUME NEW q \in Chips
      PROVE  Addressed(q)'
  <2>1. Addressed(q)
    BY DEF SessionInv, Sessions
  <2>2. CASE q # p
    BY <1>1, <1>5, <2>1, <2>2 DEF Addressed
  <2>3. CASE q = p
    <3>1. \A i \in DOMAIN e : i + 1 \in DOMAIN d /\ e[i] = d[i + 1]
      BY <1>1, OneLess DEF e
    <3>2. \A i \in DOMAIN d : Chip[d[i].to] = p
      BY <2>1, <2>3 DEF Addressed, d
    <3>3. \A i \in DOMAIN e : Chip[e[i].to] = p
      BY <3>1, <3>2
    <3> QED
      BY <1>1, <1>5, <2>1, <2>3, <3>3 DEF Addressed
  <2> QED
    BY <2>2, <2>3
<1>8. \A c \in Clients : Unread(c)' <=> Unread(c)
  BY <1>1 DEF Unread
<1>9. ASSUME NEW c \in Clients, Chip[c] # p
      PROVE  ClientInv(c)'
  <2>1. /\ ClientInv(c) /\ cl'[c] = cl[c] /\ Chip[c] \in Chips
        /\ down'[Chip[c]] = down[Chip[c]]
    BY <1>3, <1>5, <1>9, ConstantTypes DEF SessionInv, Sessions
  <2>2. Same(cl[c], cl'[c])
    BY <2>1, SameItself
  <2> QED
    BY <1>1, <1>8, <2>1, <2>2, Untouched
<1>10. ASSUME NEW c \in Clients, Chip[c] = p
       PROVE  ClientInv(c)'
  <2> DEFINE r == cl[c]
             q == cl'[c]
             g == reg[p]
             u == Unread(c)
  <2>1. /\ Alone(c, r, g, d, u) /\ Session(c) /\ r \in ClientState
        /\ u \in BOOLEAN
    BY <1>10, ClientTypes, UnreadType
       DEF SessionInv, Sessions, ClientInv, d
  <2>2. /\ q.life = r.life /\ q.clean = r.clean /\ (c # b => q = r)
        /\ q.token = r.token /\ q.slot = r.slot
    BY <1>4, <1>5
  <2>3. /\ reg'[Chip[c]] = g /\ down'[Chip[c]] = e /\ reg[Chip[c]] = g
        /\ down[Chip[c]] = d /\ (u <=> Unread(c)')
    BY <1>1, <1>5, <1>8, <1>10 DEF d
  <2> HIDE DEF g, u
  <2>4. b = c => 1 \in To(d, c)
    BY <1>1, <1>3 DEF To, b, m
  <2>5. Shape(r)
    BY <2>1 DEF Alone
  <2>6. CASE q.life \in {"Quarantined", "Closed"}
    <3>1. /\ q.clean => q.life = "Closed"
      BY <2>2, <2>5 DEF Shape
    <3>2. To(d, c) = {} => To(e, c) = {}
      BY <1>1, MovesUp DEF e
    <3>3. CleanlyClosed(c, q, g, e)
      BY <2>1, <2>2, <3>2 DEF Alone, CleanlyClosed
    <3> QED
      BY <2>3, <2>6, <3>1, <3>3, Over
  <2>7. CASE q.life \in {"Unborn", "Constructing", "Failed", "Established"}
    <3>1. Alone(c, q, g, e, u)
      <4>1. CASE c # b
        <5>1. Alone(c, r, g, e, u)
          <6> HIDE DEF r
          <6> QED
            BY <1>1, <2>1, <4>1, PassedBy DEF e, b, m
        <5> QED
          BY <2>2, <4>1, <5>1
      <4>2. CASE c = b /\ r.life = "Constructing"
        <5>1. q = Written(m, r)
          BY <1>5, <4>2 DEF w
        <5>2. Alone(c, Written(m, r), g, e, u)
          <6> HIDE DEF r
          <6> QED
            BY <1>1, <2>1, <4>2, ReachesNew DEF e, b, m
        <5> QED
          BY <5>1, <5>2
      <4>3. CASE c = b /\ r.life = "Established"
        <5>1. /\ q.life = "Established" /\ q.memory = r.memory /\ ~q.clean
              /\ q.attempts = r.attempts
          BY <1>4, <1>5, <2>2, <2>5, <4>3 DEF Shape
        <5> HIDE DEF q, r
        <5> QED
          BY <2>1, <2>5, <4>3, <5>1
             DEF Alone, Shape, Silent, Mute, Owned, Shaking, Once,
                 CleanlyClosed
      <4>4. CASE c = b /\ r.life \in {"Unborn", "Failed"}
        BY <2>1, <2>4, <4>4 DEF Alone, Silent, Mute
      <4> QED
        BY <2>2, <2>7, <4>1, <4>2, <4>3, <4>4
    <3>2. Alone(c, cl[c], reg[Chip[c]], down[Chip[c]], Unread(c))'
      BY <1>1, <2>1, <2>3, <3>1, UnreadType DEF Alone
    <3>3. Session(c)'
      <4>1. CASE r.life # "Established"
        BY <2>2, <4>1 DEF Session
      <4>2. CASE r.life = "Established"
        <5>1. r.memory = "held" /\ Agreed(c, r, g) /\ r.recv \in Nat
          BY <2>1, <2>3, <2>5, <4>2 DEF Shape, Session, ClientState
        <5>2. Counted(c, r, q, d)
          <6>1. CASE c = b
            <7>1. q.recv = r.recv + IF m.kind = "reply" THEN 1 ELSE 0
              BY <1>4, <1>5, <5>1, <6>1
            <7> QED
              BY <2>2, <6>1, <7>1 DEF Counted, b, m
          <6>2. CASE c # b
            BY <2>2, <5>1, <6>2 DEF Counted, b, m
          <6> QED
            BY <6>1, <6>2
        <5>3. Agreed(c, q, g)
          <6>1. r.config => q.config
            BY <1>4, <1>5, <2>2, <5>1
          <6> QED
            BY <2>2, <5>1, <6>1 DEF Agreed
        <5>4. cl[c] = r /\ cl'[c] = q
          OBVIOUS
        <5> HIDE DEF r, q
        <5>5. \A n \in Nat : Parked(c, r, g, d, n) => Parked(c, q, g, e, n)
          BY <1>1, <2>2, ParkedMoves DEF e
        <5>6. ASSUME NEW t \in Threads, NEW n \in 0..call[t].count,
                     InFlight(c, r, g, d, call[t], n)
              PROVE  InFlight(c, q, g, e, call[t], n)
          <6>1. n \in Nat
            OBVIOUS
          <6> QED
            BY <1>1, <2>1, <5>2, <5>6, <6>1, InFlightMoves DEF e
        <5>7. \A t \in Threads : call[t].count \in Nat
          BY ConstantTypes DEF SessionInv, CallInv, TypeOK, CallState
        <5> QED
          BY <1>1, <2>1, <2>2, <2>3, <5>3, <5>4, <5>5, <5>6, <5>7, Stands
      <4> QED
        BY <4>1, <4>2
    <3> QED
      BY <3>2, <3>3 DEF ClientInv
  <2>8. q.life \in {"Unborn", "Constructing", "Established", "Quarantined",
                    "Closed", "Failed"}
    BY <2>1, <2>2 DEF ClientState
  <2> QED
    BY <2>6, <2>7, <2>8
<1> QED
  BY <1>6, <1>7, <1>9, <1>10 DEF Sessions

----------------------------------------------------------------------------
(* All steps together, and the theorems.                                   *)

(* No session exists before the first Client.                              *)
LEMMA InitSessions == Init => Sessions
<1> SUFFICES ASSUME Init
             PROVE  Sessions
  OBVIOUS
<1>1. \A c \in Clients : cl[c] = Unborn /\ ~Living(c)
  BY DEF Init, Unborn, Living
<1>2. \A p \in Chips : /\ reg[p].state = "Empty" /\ reg[p].nonce = None
                       /\ reg[p].boot = None /\ down[p] = <<>>
  BY DEF Init
<1>3. KeysAreExclusive
  BY <1>1 DEF KeysAreExclusive
<1>4. \A p \in Chips : Addressed(p)
  BY <1>2 DEF Addressed
<1>5. ASSUME NEW c \in Clients
      PROVE  ClientInv(c)
  <2>1. /\ Chip[c] \in Chips /\ c # None
    BY ConstantTypes, ConstantsAssumption
  <2>2. /\ To(down[Chip[c]], c) = {} /\ reg[Chip[c]].nonce # c /\ ~Unread(c)
    BY <1>2, <2>1 DEF To, Unread
  <2>3. /\ cl[c].life = "Unborn" /\ ~cl[c].clean /\ cl[c].attempts = 0
        /\ cl[c].sem = 0 /\ cl[c].answer = 0
    BY <1>1 DEF Unborn
  <2> QED
    BY <2>2, <2>3 DEF ClientInv, Alone, Shape, Silent, Owned, Shaking, Once,
                      CleanlyClosed, Session
<1> QED
  BY <1>3, <1>4, <1>5 DEF Sessions

(* A stuttering step keeps the sessions.                                   *)
LEMMA StillSessions ==
  ASSUME SessionInv, UNCHANGED vars
  PROVE  Sessions'
<1>1. UNCHANGED <<cl, keys, call, reg, busy, down, fits>>
  BY DEF vars
<1>2. KeysAreExclusive'
  BY <1>1 DEF SessionInv, Sessions, KeysAreExclusive, Living
<1>3. \A p \in Chips : Addressed(p)'
  BY <1>1, AddressesStay DEF SessionInv, Sessions
<1>4. ASSUME NEW c \in Clients
      PROVE  ClientInv(c)'
  <2>1. ClientInv(c) /\ Same(cl[c], cl'[c])
    BY <1>1, SameItself DEF SessionInv, Sessions
  <2>2. Unread(c)' => Unread(c)
    BY <1>1 DEF Unread
  <2> QED
    BY <1>1, <2>1, <2>2, Untouched
<1> QED
  BY <1>2, <1>3, <1>4 DEF Sessions

(* Every step keeps the sessions.                                          *)
LEMMA StepSessions ==
  ASSUME SessionInv, [Next]_vars
  PROVE  SessionInv'
<1>1. CASE UNCHANGED vars
  BY <1>1, StillSessions, StepCalls DEF SessionInv
<1>2. ASSUME NEW c \in Clients,
             \/ Refused(c) \/ Construct(c) \/ PrepareFails(c) \/ Attempt(c)
             \/ TimedOut(c) \/ Accept(c) \/ Reject(c) \/ OutcomeUnknown(c)
      PROVE  Sessions'
  BY <1>2, RefusedSessions, ConstructSessions, PrepareFailsSessions,
     AttemptSessions, TimedOutSessions, AcceptSessions, RejectSessions
<1>3. ASSUME NEW t \in Threads,
             \/ \E c \in Clients :
                    Request(t, c) \/ Close(t, c) \/ Destroy(t, c)
             \/ GetParallel(t) \/ Lock(t) \/ TurnedAway(t) \/ Begin(t)
             \/ RollBack(t) \/ EnqueueFails(t) \/ Submit(t) \/ Complete(t)
             \/ FailAfterEnqueue(t)
      PROVE  Sessions'
  BY <1>3, BeginsSessions, LockSessions, TurnedAwaySessions, BeginSessions,
     RollBackSessions, FailingSessions, SubmitSessions, CompleteSessions
<1>4. ASSUME NEW p \in Chips, HandleEstablish(p) \/ ServePacket(p) \/ Deliver(p)
      PROVE  Sessions'
  BY <1>4, HandleEstablishSessions, ServePacketSessions, DeliverSessions
<1>5. CASE ClearBootstrap
  BY <1>5, ClearBootstrapSessions, StepCalls DEF SessionInv
<1> QED
  BY <1>1, <1>2, <1>3, <1>4, <1>5, StepCalls DEF Next, SessionInv

(* The inductive invariant of the sessions: through every interleaving of  *)
(* attempts, replays, requests, rollbacks, failures, closes and destructors*)
(* with the Server's loop and the arrival of its writes, the Client, the   *)
(* registry entry of its chip, its ring and what is on its way agree.      *)
THEOREM SessionInvariant == Spec => []SessionInv
<1>1. Init => SessionInv
  BY InitCalls, InitSessions DEF SessionInv
<1>2. SessionInv /\ [Next]_vars => SessionInv'
  BY StepSessions
<1> QED
  BY <1>1, <1>2, PTL DEF Spec

(* Established on both sides, the two sides have the same session.         *)
LEMMA SessionsHaveAgreed == SessionInv => SessionsAgree
<1> SUFFICES ASSUME SessionInv
             PROVE  SessionsAgree
  OBVIOUS
<1>1. ASSUME NEW c \in Clients, cl[c].life = "Established"
      PROVE  /\ Session(c) /\ Chip[c] \in keys
             /\ Agreed(c, cl[c], reg[Chip[c]])
  BY <1>1 DEF SessionInv, Sessions, ClientInv, Session, KeysAreExclusive,
              Living
<1>2. ASSUME NEW c \in Clients, cl[c].life = "Established", ~Detaching(c)
      PROVE  reg[Chip[c]].state = "Established"
  <2>1. CASE \A t \in Threads : ~WorksOn(c, t)
    BY <1>1, <1>2, <2>1 DEF Session, Parked
  <2>2. ASSUME NEW t \in Threads, WorksOn(c, t)
        PROVE  reg[Chip[c]].state = "Established"
    <3>1. CASE call[t].step = "begun"
      BY <1>1, <1>2, <2>2, <3>1 DEF Session, Parked
    <3>2. CASE call[t].step # "begun"
      <4>1. PICK m \in 0..call[t].count :
                InFlight(c, cl[c], reg[Chip[c]], down[Chip[c]], call[t], m)
        BY <1>1, <1>2, <2>2, <3>2 DEF Session
      <4>2. call[t].packet # "detach"
        BY <1>2, <2>2, <3>2 DEF WorksOn, Working, Detaching, In, At
      <4> QED
        BY <4>1, <4>2 DEF InFlight
    <3> QED
      BY <3>1, <3>2
  <2> QED
    BY <2>1, <2>2
<1>3. ASSUME NEW c \in Clients, cl[c].life = "Established", ~Pending(c)
      PROVE  /\ reg[Chip[c]].cursor % RingSlots = cl[c].slot
             /\ \A s \in 0..(RingSlots - 1) : reg[Chip[c]].ring[s] = None
  <2>1. \A t \in Threads : ~WorksOn(c, t)
    BY <1>3 DEF WorksOn, Working, Pending, In
  <2>2. Parked(c, cl[c], reg[Chip[c]], down[Chip[c]], 0)
    BY <1>1, <1>3, <2>1 DEF Session
  <2>3. cl[c].slot \in 0..(RingSlots - 1)
    BY ClientTypes DEF SessionInv, ClientState
  <2>4. Back(cl[c].slot, 0) = cl[c].slot
    <3>1. /\ RingSlots \in Nat /\ RingSlots > 1 /\ 0 \in 0..RingSlots
      BY ConstantsAssumption
    <3> QED
      BY <2>3, <3>1, BackIs
  <2> QED
    BY <2>2, <2>4 DEF Parked, Blank
<1> QED
  BY <1>1, <1>2, <1>3 DEF SessionsAgree, RequestMeetsCursor, Agreed

(* Both sides of an established session agree on it: the Server's registry *)
(* entry is this Client's, with the token that every packet carries, the   *)
(* configuration arrived before the first request, and a Client with no    *)
(* transaction open will write its next packet where cursor[owner] looks,  *)
(* whatever was rolled back or retried before.                             *)
THEOREM EstablishedSidesAgree == Spec => []SessionsAgree
BY SessionsHaveAgreed, SessionInvariant, PTL

(* A Client that closed cleanly has no message under way to its memory.    *)
LEMMA NothingReachesTheFreed == SessionInv => CleanCloseOutlivesReplays
<1> SUFFICES ASSUME SessionInv, NEW c \in Clients,
                    cl[c].clean \/ cl[c].life = "Failed"
             PROVE  To(down[Chip[c]], c) = {}
  BY DEF CleanCloseOutlivesReplays, To
<1> QED
  BY DEF SessionInv, Sessions, ClientInv, Alone, Silent, Mute, CleanlyClosed

(* A Client that close() released, or whose constructor threw before       *)
(* anything could be in doubt, is sent nothing any more: the memory that   *)
(* release_host_resources gave back is not written by the Server.          *)
THEOREM FreedMemoryIsQuiet == Spec => []CleanCloseOutlivesReplays
BY NothingReachesTheFreed, SessionInvariant, PTL
==============================================================================
