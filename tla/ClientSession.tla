--------------------------- MODULE ClientSession ---------------------------
(***************************************************************************)
(* The Clients of one Server: construction and the ESTABLISH handshake     *)
(* (client_connection.cpp), the life cycle, the registry of active Clients *)
(* and the quarantine (client_lifecycle.cpp), the calls and get_parallel   *)
(* under the per-Client lifecycle_mutex_ (client_operations_adapter.cpp),  *)
(* their RequestTransaction, and the part of the Server kernel they meet:  *)
(* the bootstrap mailbox, the session registry and the request rings.      *)
(*                                                                         *)
(* A Client's chip is its key in active_clients (one mesh is modelled) and *)
(* its entry in the Server's tables.  Messages of one direction of a chip  *)
(* arrive in order; a request is in the Server's memory once it is sent,   *)
(* and the Server may look at it as late as it likes.  operation_mutex_ is *)
(* only ever taken under lifecycle_mutex_ and is left out, and so is what  *)
(* a request does to the values (Tiering).                                 *)
(***************************************************************************)
EXTENDS Integers, Sequences, FiniteSets, Functions

CONSTANTS
    Clients,           \* the Client objects, numbered in pointer order; a nonce
                       \* (clock and counter) names one Client
    Chips,             \* coordinates of the client mesh
    Chip,              \* the chip a Client is built on
    Threads,           \* threads of the program that calls the Clients
    Parallel,          \* argument lists the program gives to get_parallel
    RingSlots,         \* kRingSlotsPerClient
    CursorModulus,     \* the Server's cursors are uint32_t: 2^32 in the code
    Generations,       \* kClientGenerationMask
    InitialGeneration, \* session_generation_seed
    Doubtful,          \* Clients whose request may be incompatible
    MaxAttempts,       \* bound on a Client's ESTABLISH attempts (its deadline)
    MaxBatch,          \* bound on the ring slots a Client's request consumes
    MaxCalls,          \* bound on the calls begun on each Client
    None

Packets == [token : 1..Generations, op : {"request", "barrier", "detach"}]

\* get_parallel refuses an empty list and one that names a Client twice.
ASSUME ConstantsAssumption ==
    /\ IsFiniteSet(Clients) /\ Clients = 1..Cardinality(Clients)
    /\ Chip \in [Clients -> Chips]
    /\ RingSlots \in Nat /\ RingSlots > 1 /\ CursorModulus \in Nat \ {0}
    /\ Generations \in Nat \ {0} /\ InitialGeneration \in 0..Generations
    /\ MaxAttempts \in [Clients -> Nat] /\ MaxCalls \in [Clients -> Nat]
    /\ MaxBatch \in [Clients -> 1..RingSlots]
    /\ Doubtful \subseteq Clients
    /\ Parallel \subseteq Seq(Clients) \ {<<>>}
    /\ \A cs \in Parallel : \A i, j \in DOMAIN cs : i # j => cs[i] # cs[j]
    /\ None \notin Clients /\ None \notin Chips /\ None \notin Packets

\* A partition whose size divides 2^32, as the default of two slots does; the
\* code takes others, with which the wrapped cursor leaves the Client's slot.
ASSUME RingAssumption == CursorModulus % RingSlots = 0

VARIABLES
    cl,    \* the Clients
    keys,  \* active_clients
    call,  \* the call each thread is in
    reg,   \* the Server's registry entry, mailbox, ring and cursor of a chip
    busy,  \* the chip whose ESTABLISH is handled and not yet cleared
    down,  \* what the Server sent to a chip and has not arrived
    fits   \* whether the Server accepts the Client's parameters

vars == <<cl, keys, call, reg, busy, down, fits>>

ClientState ==
    [life : {"Unborn", "Constructing", "Established", "Quarantined",
             "Closed", "Failed"},
     object : BOOLEAN, memory : {"none", "held", "kept", "freed"},
     clean : BOOLEAN, attempts : Nat, may : BOOLEAN,
     running : BOOLEAN, sem : Nat, answer : 0..Generations,
     config : BOOLEAN, token : 0..Generations, slot : 0..(RingSlots - 1),
     recv : Nat, calls : Nat]

CallState ==
    [op : {"none", "request", "close", "destroy"},
     on : Seq(Clients), count : 0..RingSlots, held : SUBSET Clients,
     step : {"lock", "begin", "begun", "sent"},
     packet : {"request", "barrier", "detach"}]

Registry ==
    [state : {"Empty", "Established", "Retired"},
     nonce : Clients \cup {None}, gen : 0..Generations,
     boot : Clients \cup {None}, cursor : 0..(CursorModulus - 1),
     ring : [0..(RingSlots - 1) -> Packets \cup {None}]]

Message == [to : Clients, answer : 0..Generations,
            kind : {"config", "response", "reply"}]

TypeOK ==
    /\ cl \in [Clients -> ClientState]
    /\ keys \subseteq Chips
    /\ call \in [Threads -> CallState]
    /\ reg \in [Chips -> Registry]
    /\ busy \in Chips \cup {None}
    /\ down \in [Chips -> Seq(Message)]
    /\ fits \in [Clients -> BOOLEAN]

Idle == [op |-> "none", on |-> <<>>, count |-> 0, held |-> {},
         step |-> "lock", packet |-> "request"]

Unborn ==
    [life |-> "Unborn", object |-> FALSE, memory |-> "none", clean |-> FALSE,
     attempts |-> 0, may |-> FALSE, running |-> FALSE, sem |-> 0, answer |-> 0,
     config |-> FALSE, token |-> 0, slot |-> 0, recv |-> 0, calls |-> 0]

Init ==
    /\ cl = [c \in Clients |-> Unborn]
    /\ keys = {}
    /\ call = [t \in Threads |-> Idle]
    /\ reg = [p \in Chips |->
          [state |-> "Empty", nonce |-> None, gen |-> InitialGeneration,
           boot |-> None, cursor |-> 0,
           ring |-> [s \in 0..(RingSlots - 1) |-> None]]]
    /\ busy = None
    /\ down = [p \in Chips |-> <<>>]
    /\ fits \in {f \in [Clients -> BOOLEAN] : \A c \in Clients \ Doubtful : f[c]}

----------------------------------------------------------------------------
(* What becomes of a Client and its memory; the rest of its fields are not *)
(* read again.                                                             *)

Ended(r, life, memory) ==
    [Unborn EXCEPT !.life = life, !.memory = memory,
                   !.object = r.object, !.calls = r.calls]

\* quarantine_resources: the holder keeps the memory for good, the key stays.
Quarantined(r) == Ended(r, "Quarantined", "kept")

\* release_host_resources; clean says that the Server released the session.
Released(r, clean) == [Ended(r, "Closed", "freed") EXCEPT !.clean = clean]

\* A constructor that throws before anything can have reached the Server.
Undone(r) == Ended(r, "Failed", "freed")

----------------------------------------------------------------------------
(* Construction.                                                           *)

\* The checks of the constructor's parameters and of the route throw.
Refused(c) ==
    /\ cl[c].life = "Unborn"
    /\ cl' = [cl EXCEPT ![c].life = "Failed"]
    /\ UNCHANGED <<keys, call, reg, busy, down, fits>>

\* The key is taken, or the chip has a Client and the constructor throws.
Construct(c) ==
    /\ cl[c].life = "Unborn"
    /\ IF Chip[c] \in keys
       THEN /\ cl' = [cl EXCEPT ![c].life = "Failed"]
            /\ UNCHANGED keys
       ELSE /\ cl' = [cl EXCEPT ![c].life = "Constructing",
                                ![c].memory = "held"]
            /\ keys' = keys \cup {Chip[c]}
    /\ UNCHANGED <<call, reg, busy, down, fits>>

\* Operations, bootstrap buffers or the first program: nothing was sent.
PrepareFails(c) ==
    /\ cl[c].life = "Constructing" /\ ~cl[c].may
    /\ cl' = [cl EXCEPT ![c] = Undone(@)]
    /\ keys' = keys \ {Chip[c]}
    /\ UNCHANGED <<call, reg, busy, down, fits>>

\* Mutant of Started: every attempt clears the session configuration.
StartedAfresh(r) == [r EXCEPT !.sem = 0, !.config = FALSE]

\* What the ESTABLISH kernel leaves of the response semaphore and of the
\* session configuration when it starts: only the first attempt clears the
\* configuration.
Started(r) ==
    [r EXCEPT !.sem = 0, !.config = @ /\ r.attempts # 0]

\* One more attempt before the deadline; the kernel sends the request, which
\* lands in the mailbox of the chip over whatever is there.
Attempt(c) ==
    /\ cl[c].life = "Constructing" /\ ~cl[c].running
    /\ cl[c].attempts < MaxAttempts[c]
    /\ cl' = [cl EXCEPT ![c] = [Started(@) EXCEPT
                 !.may = TRUE, !.attempts = cl[c].attempts + 1,
                 !.running = TRUE]]
    /\ reg' = [reg EXCEPT ![Chip[c]].boot = c]
    /\ UNCHANGED <<keys, call, busy, down, fits>>

\* The kernel gives up waiting; the host starts another one or none.
TimedOut(c) ==
    /\ cl[c].life = "Constructing" /\ cl[c].running /\ cl[c].sem = 0
    /\ cl' = [cl EXCEPT ![c].running = FALSE]
    /\ UNCHANGED <<keys, call, reg, busy, down, fits>>

\* A response arrived in time: the kernel clears the semaphore and the host
\* reads the response.
Responded(c) ==
    cl[c].life = "Constructing" /\ cl[c].running /\ cl[c].sem # 0

Accept(c) ==
    /\ Responded(c) /\ cl[c].answer # 0
    /\ cl' = [cl EXCEPT ![c] = [@ EXCEPT
                 !.life = "Established", !.object = TRUE, !.may = FALSE,
                 !.running = FALSE, !.sem = 0, !.token = cl[c].answer,
                 !.slot = 0]]
    /\ UNCHANGED <<keys, call, reg, busy, down, fits>>

\* After one attempt nothing else is under way and all is undone; an earlier
\* attempt may still be answered, so the outcome is unknown.
Reject(c) ==
    /\ Responded(c) /\ cl[c].answer = 0
    /\ IF cl[c].attempts = 1
       THEN /\ cl' = [cl EXCEPT ![c] = Undone(@)]
            /\ keys' = keys \ {Chip[c]}
       ELSE /\ cl' = [cl EXCEPT ![c] = Quarantined(@)]
            /\ UNCHANGED keys
    /\ UNCHANGED <<call, reg, busy, down, fits>>

\* The deadline or the watchdog passed, a program failed to build or to be
\* enqueued, or the response does not validate.
OutcomeUnknown(c) ==
    /\ cl[c].life = "Constructing" /\ cl[c].may
    /\ cl' = [cl EXCEPT ![c] = Quarantined(@)]
    /\ UNCHANGED <<keys, call, reg, busy, down, fits>>

----------------------------------------------------------------------------
(* Calls.                                                                  *)

On(t) == Range(call[t].on)
In(c) == {t \in Threads : call[t].op # "none" /\ c \in On(t)}

\* The program begins a call; it uses no object it destroyed or is
\* destroying, and destroys none that is in use.
Enter(t, op, on, count) ==
    /\ call[t].op = "none"
    /\ \A c \in Range(on) : cl[c].object /\ cl[c].calls < MaxCalls[c]
    /\ call' = [call EXCEPT ![t] = [Idle EXCEPT
          !.op = op, !.on = on, !.count = count,
          !.packet = IF op = "request" THEN "request" ELSE "barrier"]]
    /\ cl' = [c \in Clients |->
          IF c \in Range(on)
          THEN [cl[c] EXCEPT !.calls = @ + 1, !.object = op # "destroy"]
          ELSE cl[c]]
    /\ UNCHANGED <<keys, reg, busy, down, fits>>

\* put, get, exists, remove, move, flush, ping: a put_batch takes a ring slot
\* for each of its items.
Request(t, c) == \E n \in 1..MaxBatch[c] : Enter(t, "request", <<c>>, n)

GetParallel(t) == \E on \in Parallel : Enter(t, "request", on, 1)

Close(t, c) == Enter(t, "close", <<c>>, 1)

Destroy(t, c) == In(c) = {} /\ Enter(t, "destroy", <<c>>, 1)

\* Mutant of NextLock: get_parallel locks in its caller's order.
NextInCallersOrder(t) ==
    call[t].on[CHOOSE i \in DOMAIN call[t].on :
                  /\ call[t].on[i] \notin call[t].held
                  /\ \A j \in 1..(i - 1) : call[t].on[j] \in call[t].held]

\* get_parallel sorts the Clients and locks them in that order.
NextLock(t) ==
    CHOOSE c \in On(t) \ call[t].held :
        \A d \in On(t) \ call[t].held : c <= d

Lock(t) ==
    /\ call[t].op # "none" /\ call[t].step = "lock"
    /\ \A u \in Threads : NextLock(t) \notin call[u].held
    /\ LET held == call[t].held \cup {NextLock(t)}
       IN call' = [call EXCEPT ![t].held = held,
                     ![t].step = IF held = On(t) THEN "begin" ELSE "lock"]
    /\ UNCHANGED <<cl, keys, reg, busy, down, fits>>

At(t, step) == call[t].op # "none" /\ call[t].step = step

\* The call gives its locks back and returns or throws.
Return(t) == call' = [call EXCEPT ![t] = Idle]

\* A request of a Client that is not established throws; a close of one that
\* is closed or quarantined has nothing to do.
TurnedAway(t) ==
    /\ At(t, "begin")
    /\ \E c \in On(t) : cl[c].life # "Established"
    /\ Return(t)
    /\ UNCHANGED <<cl, keys, reg, busy, down, fits>>

\* The RequestTransaction of each Client takes its ring slots.
Advanced(r, n) == [r EXCEPT !.slot = (@ + n) % RingSlots]
Restored(r, n) == [r EXCEPT !.slot = (@ + RingSlots - n) % RingSlots]

Begin(t) ==
    /\ At(t, "begin")
    /\ \A c \in On(t) : cl[c].life = "Established"
    /\ cl' = [c \in Clients |->
          IF c \in On(t) THEN Advanced(cl[c], call[t].count) ELSE cl[c]]
    /\ call' = [call EXCEPT ![t].step = "begun"]
    /\ UNCHANGED <<keys, reg, busy, down, fits>>

\* Something throws before the program is enqueued and the transactions are
\* rolled back.  close() leaves the Client established; the destructor frees
\* it all the same; a DETACH that fails is quarantined whatever happened.
RollBack(t) ==
    /\ At(t, "begun")
    /\ LET back(c) == Restored(cl[c], call[t].count)
           after(c) ==
               IF call[t].packet = "detach" THEN Quarantined(back(c))
               ELSE IF call[t].op = "destroy" THEN Released(back(c), FALSE)
               ELSE back(c)
       IN /\ cl' = [c \in Clients |-> IF c \in On(t) THEN after(c) ELSE cl[c]]
          /\ keys' = IF call[t].op = "destroy" /\ call[t].packet # "detach"
                     THEN keys \ {Chip[c] : c \in On(t)} ELSE keys
    /\ Return(t)
    /\ UNCHANGED <<reg, busy, down, fits>>

\* Enqueueing throws and none of the packets left.
EnqueueFails(t) ==
    /\ At(t, "begun")
    /\ cl' = [c \in Clients |->
          IF c \in On(t) THEN Quarantined(cl[c]) ELSE cl[c]]
    /\ Return(t)
    /\ UNCHANGED <<keys, reg, busy, down, fits>>

\* The ring slots a transaction took: base_ring_slot_at wraps in the partition.
Taken(c, n) == {(cl[c].slot + RingSlots - i) % RingSlots : i \in 1..n}

\* The kernels send the packets, one per ring slot, each over what is there.
Submit(t) ==
    /\ At(t, "begun")
    /\ reg' = [p \in Chips |->
          LET here == {c \in On(t) : Chip[c] = p}
          IN IF here = {} THEN reg[p]
             ELSE LET c == CHOOSE d \in here : TRUE
                  IN [reg[p] EXCEPT !.ring = [s \in 0..(RingSlots - 1) |->
                        IF s \in Taken(c, call[t].count)
                        THEN [token |-> cl[c].token, op |-> call[t].packet]
                        ELSE reg[p].ring[s]]]]
    /\ cl' = [c \in Clients |->
          IF c \in On(t) THEN [cl[c] EXCEPT !.recv = 0] ELSE cl[c]]
    /\ call' = [call EXCEPT ![t].step = "sent"]
    /\ UNCHANGED <<keys, busy, down, fits>>

Answered(t) == \A c \in On(t) : cl[c].recv >= call[t].count

\* All replies are in.  close() follows its barrier with the DETACH and
\* releases the host's side once that is answered.
Complete(t) ==
    /\ At(t, "sent") /\ Answered(t)
    /\ CASE call[t].packet = "request" ->
              Return(t) /\ UNCHANGED <<cl, keys>>
         [] call[t].packet = "barrier" ->
              /\ call' = [call EXCEPT ![t].packet = "detach",
                                      ![t].step = "begin"]
              /\ UNCHANGED <<cl, keys>>
         [] OTHER ->
              /\ cl' = [c \in Clients |->
                    IF c \in On(t) THEN Released(cl[c], TRUE) ELSE cl[c]]
              /\ keys' = keys \ {Chip[c] : c \in On(t)}
              /\ Return(t)
    /\ UNCHANGED <<reg, busy, down, fits>>

\* Something throws after the program was enqueued: every transaction that
\* was not completed is quarantined.  get_parallel completes its transactions
\* in the caller's order, and only once all the replies are in.
FailAfterEnqueue(t) ==
    /\ At(t, "sent")
    /\ \E k \in 0..(Len(call[t].on) - 1) :
          /\ k > 0 => Answered(t)
          /\ LET failed == {call[t].on[i] : i \in (k + 1)..Len(call[t].on)}
             IN cl' = [c \in Clients |->
                   IF c \in failed THEN Quarantined(cl[c]) ELSE cl[c]]
    /\ Return(t)
    /\ UNCHANGED <<keys, reg, busy, down, fits>>

----------------------------------------------------------------------------
(* The Server kernel: one loop serves the mailboxes and rings of all chips. *)

\* Mutant of RegistryAction: DETACH leaves no tombstone.
ActionWithoutTombstone(state, same) ==
    IF state = "Established"
    THEN IF same THEN "Replay" ELSE "Drop"
    ELSE "Create"

RegistryAction(state, same) ==
    CASE state = "Empty" -> "Create"
      [] state = "Established" -> IF same THEN "Replay" ELSE "Drop"
      [] OTHER -> IF same THEN "Drop" ELSE "Create"

\* Mutant of NextGeneration: no mask.
GenerationWithoutMask(g) == g + 1

NextGeneration(g) == IF g = Generations THEN 1 ELSE g + 1

Response(c, gen) == [to |-> c, kind |-> "response", answer |-> gen]

\* handle_establish_request, up to its return: a dropped request writes
\* nothing; only a new session clears the ring, rewinds the cursor and sends
\* the configuration ahead of the response.
HandleEstablish(p) ==
    /\ busy = None /\ reg[p].boot # None
    /\ LET c == reg[p].boot
           action == RegistryAction(reg[p].state, reg[p].nonce = c)
           gen == NextGeneration(reg[p].gen)
       IN CASE action = "Drop" -> UNCHANGED <<reg, down>>
            [] action # "Drop" /\ ~fits[c] ->
                 /\ down' = [down EXCEPT ![p] = Append(@, Response(c, 0))]
                 /\ UNCHANGED reg
            [] action = "Replay" /\ fits[c] ->
                 /\ down' = [down EXCEPT ![p] =
                                Append(@, Response(c, reg[p].gen))]
                 /\ UNCHANGED reg
            [] OTHER ->
                 /\ reg' = [reg EXCEPT ![p] = [@ EXCEPT
                       !.state = "Established", !.nonce = c, !.gen = gen,
                       !.cursor = 0,
                       !.ring = [s \in 0..(RingSlots - 1) |-> None]]]
                 /\ down' = [down EXCEPT ![p] = @ \o
                       << [to |-> c, kind |-> "config", answer |-> 0],
                          Response(c, gen) >>]
    /\ busy' = p
    /\ UNCHANGED <<cl, keys, call, fits>>

\* *bootstrap_sem = 0, after the handler returned: a request that landed
\* meanwhile is lost.
ClearBootstrap ==
    /\ busy # None
    /\ reg' = [reg EXCEPT ![busy].boot = None]
    /\ busy' = None
    /\ UNCHANGED <<cl, keys, call, down, fits>>

Following(cursor) == (cursor + 1) % CursorModulus

\* The packet under the cursor is served for the registered Client, or thrown
\* away when it carries another token or the session is over.
ServePacket(p) ==
    LET slot == reg[p].cursor % RingSlots
        packet == reg[p].ring[slot]
        served == reg[p].state = "Established" /\ packet.token = reg[p].gen
        detach == served /\ packet.op = "detach"
    IN /\ busy = None /\ packet # None
       /\ reg' = [reg EXCEPT ![p] = [@ EXCEPT
             !.ring[slot] = None,
             !.state = IF detach THEN "Retired" ELSE reg[p].state,
             !.cursor = IF detach THEN 0 ELSE Following(reg[p].cursor)]]
       /\ down' = IF served
                  THEN [down EXCEPT ![p] = Append(@,
                          [to |-> reg[p].nonce, kind |-> "reply",
                           answer |-> 0])]
                  ELSE down
       /\ UNCHANGED <<cl, keys, call, busy, fits>>

\* The oldest write to a chip arrives; in memory that is quarantined nobody
\* sees it, and in memory that was freed it hits whatever is there now.
Deliver(p) ==
    /\ down[p] # <<>>
    /\ LET m == Head(down[p])
           written(r) ==
               CASE m.kind = "config" -> [r EXCEPT !.config = TRUE]
                 [] m.kind = "response" ->
                      [r EXCEPT !.sem = @ + 1, !.answer = m.answer]
                 [] OTHER -> [r EXCEPT !.recv = @ + 1]
       IN cl' = [cl EXCEPT ![m.to] =
                    IF @.memory = "held" THEN written(@) ELSE @]
    /\ down' = [down EXCEPT ![p] = Tail(@)]
    /\ UNCHANGED <<keys, call, reg, busy, fits>>

Next ==
    \/ \E c \in Clients :
          \/ Refused(c) \/ Construct(c) \/ PrepareFails(c) \/ Attempt(c)
          \/ TimedOut(c) \/ Accept(c) \/ Reject(c) \/ OutcomeUnknown(c)
          \/ \E t \in Threads : Request(t, c) \/ Close(t, c) \/ Destroy(t, c)
    \/ \E t \in Threads :
          \/ GetParallel(t) \/ Lock(t) \/ TurnedAway(t) \/ Begin(t)
          \/ RollBack(t) \/ EnqueueFails(t) \/ Submit(t) \/ Complete(t)
          \/ FailAfterEnqueue(t)
    \/ \E p \in Chips : HandleEstablish(p) \/ ServePacket(p) \/ Deliver(p)
    \/ ClearBootstrap

Spec == Init /\ [][Next]_vars

----------------------------------------------------------------------------
(* Properties.                                                             *)

Pending(c) == \E t \in In(c) : call[t].step \in {"begun", "sent"}
Detaching(c) == \E t \in In(c) : call[t].packet = "detach" /\ At(t, "sent")

\* An established Client that has no transaction open will put its next
\* packet in the slot the Server watches, and the Server's ring holds nothing
\* of it: RequestTransaction and its rollback against cursor[owner].
RequestMeetsCursor ==
    \A c \in Clients : cl[c].life = "Established" /\ ~Pending(c) =>
        /\ reg[Chip[c]].cursor % RingSlots = cl[c].slot
        /\ \A s \in 0..(RingSlots - 1) : reg[Chip[c]].ring[s] = None

\* Both sides of an established session agree on it, however many attempts,
\* replays and failures came before: the registry entry of the chip is that of
\* this Client and of its token, the session configuration is in its memory,
\* no other Client of the chip is established, and its requests are seen.
SessionsAgree ==
    /\ \A c \in Clients : cl[c].life = "Established" /\ ~Detaching(c) =>
          /\ reg[Chip[c]].state = "Established" /\ reg[Chip[c]].nonce = c
          /\ reg[Chip[c]].gen = cl[c].token /\ cl[c].config
          /\ Chip[c] \in keys
    /\ RequestMeetsCursor

\* Once a Client was closed cleanly, or its construction was undone, nothing
\* is on its way to the memory it freed: not the replay of a retried ESTABLISH
\* that the Server reads only now, nor a reply.
CleanCloseOutlivesReplays ==
    \A c \in Clients :
        cl[c].memory = "freed" /\ (cl[c].clean \/ cl[c].life = "Failed") =>
            \A i \in DOMAIN down[Chip[c]] : down[Chip[c]][i].to # c

\* No threads wait for each other's Clients in a circle: get_parallel takes
\* several lifecycle mutexes, in an order all calls share.
NoWaitCycle ==
    \A S \in (SUBSET Threads) \ {{}} :
        ~ \A t \in S :
              /\ At(t, "lock")
              /\ \E u \in S : NextLock(t) \in call[u].held
=============================================================================
