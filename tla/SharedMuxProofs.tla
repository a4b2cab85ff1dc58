--------------------------- MODULE SharedMuxProofs ---------------------------
(***************************************************************************)
(* Proofs about SharedMux, for any worker groups and any shards: types     *)
(* (terminated_servers never passes shard_count), KernelMemoryIsHeld and   *)
(* ProgramIsFresh.                                                         *)
(*                                                                         *)
(* The argument: the weak registry may let go of the service only when no  *)
(* shard and no quarantine holds it, so something must hold it while a     *)
(* kernel may run.  Until the last kernel was told to stop there is a      *)
(* member that was not told yet, because terminated_servers counts each    *)
(* member once; afterwards the member that waits in Finish(), or failed    *)
(* there, has not been released; and once the outcome of a launch is       *)
(* unknown the quarantine list holds the service for ever.                 *)
(***************************************************************************)
EXTENDS SharedMux, FiniteSetTheorems, TLAPS

(* Who holds what: a shard that owns its memory refers to the service, a   *)
(* quarantined one has it kept.                                            *)
Holding(s) ==
    /\ shard[s].ref <=> shard[s].memory = "own"
    /\ shard[s].kept <=> shard[s].memory = "quarantined"
    /\ shard[s].core = "Quarantined" => ~shard[s].ref

LiveSteps == {"prepared", "launching", "open", "closing", "finishing"}
Holds(s) == shard[s].memory \in {"own", "quarantined"}

Stage(s) ==
    /\ shard[s].step = "new" => shard[s].memory = "none"
    /\ shard[s].step = "reserved" => shard[s].memory = "own"
    /\ shard[s].step \in {"new", "reserved"} =>
           /\ shard[s].core = "Constructing"
           /\ s \notin service.servers /\ ~shard[s].signalled
    /\ shard[s].step \in LiveSteps => s \in service.servers /\ Holds(s)
    /\ shard[s].step = "finishing" => service.launched /\ shard[s].signalled
    /\ shard[s].step = "terminated" /\ s \in service.servers
           /\ shard[s].memory = "own" => shard[s].signalled

OneFinisher ==
    \A s, t \in Shards :
        shard[s].step = "finishing" /\ shard[t].step = "finishing" => s = t

Told == {t \in service.servers : shard[t].signalled}

(* A member keeps the service until Finish() has returned.                 *)
Anchor(t) ==
    \/ shard[t].memory = "quarantined"
    \/ /\ shard[t].memory = "own"
       /\ ~shard[t].signalled \/ shard[t].step \in {"finishing", "closing"}

(* The service gathers its shards, compiles, runs and has ended.           *)
Phases ==
    /\ service.launched => service.workload /\ ~service.failed
    /\ service.workload => service.prepared
    /\ ~service.prepared => \A t \in service.servers : Holds(t)
    /\ ~service.launched /\ (service.prepared => service.workload) =>
           service.terminated = 0 /\ Told = {}
    /\ service.workload /\ ~service.failed =>
           /\ Cardinality(service.servers) = ShardCount
           /\ \A t \in service.servers : shard[t].signalled \/ Holds(t)
    /\ service.workload => \A t \in service.servers :
           shard[t].memory \in {"own", "retired", "quarantined"}
    /\ service.launched =>
           /\ service.terminated = Cardinality(Told)
           /\ \E t \in service.servers : Anchor(t)

KernelOwner ==
    \A g \in Groups : kernel[g] # None =>
        /\ service.workload
        /\ \/ service.launched /\ kernel[g] \in service.servers
           \/ shard[kernel[g]].memory = "quarantined"

(* The inductive invariant.                                                *)
IInv ==
    /\ TypeOK
    /\ IsFiniteSet(service.servers)
    /\ \A s \in Shards : Holding(s) /\ Stage(s)
    /\ OneFinisher
    /\ Phases
    /\ KernelOwner

----------------------------------------------------------------------------
(* Types, by name.                                                         *)

Object == [
    step : {"new", "reserved", "prepared", "launching", "open",
            "closing", "finishing", "terminated", "gone"},
    core : {"Constructing", "Ready", "Closing", "Closed", "Quarantined"},
    memory : {"none", "own", "retired", "quarantined", "freed"},
    ref : BOOLEAN, kept : BOOLEAN, running : BOOLEAN,
    started : BOOLEAN, signalled : BOOLEAN]

Service == [
    servers : SUBSET Shards, terminated : 0..ShardCount,
    prepared : BOOLEAN, failed : BOOLEAN, workload : BOOLEAN,
    launched : BOOLEAN]

(* The number of worker groups is a number.                                *)
LEMMA ShardCountNat == ShardCount \in Nat
  BY MuxAssumption, FS_CardinalityType DEF ShardCount

(* A step that changes one shard, and neither what it was signalled nor    *)
(* the program: its memory stays, or is quarantined, or it was in no       *)
(* program yet.                                                            *)
LEMMA LocalStep ==
    ASSUME IInv, NEW s \in Shards, NEW o \in Object,
           shard' = [shard EXCEPT ![s] = o],
           slots' \subseteq Groups, word' \in [Groups -> {"run", "stop"}],
           UNCHANGED <<service, kernel>>,
           o.ref <=> o.memory = "own",
           o.kept <=> o.memory = "quarantined",
           o.core = "Quarantined" => ~o.ref,
           o.signalled = shard[s].signalled,
           o.step \notin {"new", "finishing"},
           o.step = "reserved" => o.memory = "own" /\ o.core = "Constructing"
                                  /\ shard[s].step = "new",
           o.step \in LiveSteps => shard[s].step \in LiveSteps,
           o.step = "terminated" /\ o.memory = "own" => s \notin service.servers,
           o.memory = shard[s].memory \/ o.memory = "quarantined"
               \/ shard[s].step = "new",
           shard[s].step \in {"finishing", "closing"} =>
               o.step = "closing" \/ o.memory # "own"
    PROVE  IInv'
  <1> USE DEF IInv, TypeOK, Object
  <1>1. TypeOK'
    BY DEF Object
  <1>2. /\ shard'[s] = o
        /\ \A t \in Shards : t # s => shard'[t] = shard[t]
    OBVIOUS
  <1>. HIDE DEF TypeOK
  <1>3. \A t \in Shards : Holding(t)' /\ Stage(t)'
    BY <1>2 DEF Holding, Stage, LiveSteps, Holds, TypeOK
  <1>4. OneFinisher'
    BY <1>2 DEF OneFinisher
  <1>5. Told' = Told
    BY <1>2 DEF Told, TypeOK
  <1>6. Phases'
    <2>1. \A t \in service.servers : Holds(t) => Holds(t)'
      BY <1>2 DEF Holds, TypeOK, Stage
    <2>2. \A t \in service.servers : Anchor(t) => Anchor(t)'
      BY <1>2 DEF Anchor, TypeOK, Stage, Holding, LiveSteps
    <2>3. \A t \in service.servers :
              shard[t].memory \in {"own", "retired", "quarantined"} =>
              shard'[t].memory \in {"own", "retired", "quarantined"}
      BY <1>2 DEF TypeOK, Stage
    <2>4. \A t \in service.servers : shard'[t].signalled = shard[t].signalled
      BY <1>2 DEF TypeOK
    <2>. QED
      BY <1>5, <2>1, <2>2, <2>3, <2>4 DEF Phases
  <1>7. KernelOwner'
    BY <1>2 DEF KernelOwner, Stage
  <1>. QED
    BY <1>1, <1>3, <1>4, <1>6, <1>7

(* The steps that change one shard and leave the program alone.            *)
LEMMA LocalSteps ==
    ASSUME IInv, NEW s \in Shards,
           \/ Construct(s) \/ LaunchEnters(s) \/ LaunchReturns(s)
           \/ TerminateNothing(s) \/ FinishThrows(s) \/ Quarantine(s)
    PROVE  IInv'
  <1>1. /\ shard[s] \in Object
        /\ shard \in [Shards -> Object]
        /\ slots \subseteq Groups
        /\ word \in [Groups -> {"run", "stop"}]
        /\ GroupOf[s] \in Groups
        /\ Holding(s) /\ Stage(s)
    BY MuxAssumption DEF IInv, TypeOK, Object
  <1>2. CASE Construct(s)
    <2> DEFINE o == [shard[s] EXCEPT !.step = "reserved", !.memory = "own",
                                     !.ref = TRUE]
    <2>1. o \in Object /\ shard' = [shard EXCEPT ![s] = o]
      BY <1>1, <1>2 DEF Construct, Object
    <2>. QED
      BY <1>1, <1>2, <2>1, LocalStep
         DEF Construct, Holding, Stage, LiveSteps, Object
  <1>3. CASE LaunchEnters(s)
    <2> DEFINE o == [shard[s] EXCEPT !.step = IF shard[s].core = "Constructing"
                                              THEN "launching" ELSE "gone"]
    <2>1. o \in Object /\ shard' = [shard EXCEPT ![s] = o]
      BY <1>1, <1>3 DEF LaunchEnters, Object
    <2>2. /\ o.memory = shard[s].memory /\ o.ref = shard[s].ref
          /\ o.kept = shard[s].kept /\ o.core = shard[s].core
          /\ o.signalled = shard[s].signalled
          /\ o.step \in {"launching", "gone"}
      BY <1>1, <1>3 DEF LaunchEnters, Holding, Object
    <2>3. /\ shard[s].step = "prepared"
          /\ slots' \subseteq Groups /\ word' \in [Groups -> {"run", "stop"}]
          /\ UNCHANGED <<service, kernel>>
      BY <1>1, <1>3 DEF LaunchEnters
    <2>. HIDE DEF o
    <2>. QED
      BY <1>1, <2>1, <2>2, <2>3, LocalStep DEF Holding, Stage, LiveSteps
  <1>4. CASE LaunchReturns(s)
    <2> DEFINE o == [shard[s] EXCEPT !.step = "open", !.core = "Ready"]
    <2>1. o \in Object /\ shard' = [shard EXCEPT ![s] = o]
      BY <1>1, <1>4 DEF LaunchReturns, Object
    <2>2. /\ o.memory = shard[s].memory /\ o.ref = shard[s].ref
          /\ o.kept = shard[s].kept /\ o.core = "Ready"
          /\ o.signalled = shard[s].signalled /\ o.step = "open"
      BY <1>1, <1>4 DEF LaunchReturns, Holding, Object
    <2>3. /\ shard[s].step = "launching"
          /\ slots' \subseteq Groups /\ word' \in [Groups -> {"run", "stop"}]
          /\ UNCHANGED <<service, kernel>>
      BY <1>1, <1>4 DEF LaunchReturns
    <2>. HIDE DEF o
    <2>. QED
      BY <1>1, <2>1, <2>2, <2>3, LocalStep DEF Holding, Stage, LiveSteps
  <1>5. CASE TerminateNothing(s)
    <2> DEFINE o == [shard[s] EXCEPT !.step = "terminated",
               !.core = IF @ = "Quarantined" THEN @ ELSE "Closing"]
    <2>1. o \in Object /\ shard' = [shard EXCEPT ![s] = o]
      BY <1>1, <1>5 DEF TerminateNothing, Object
    <2>2. /\ o.memory = shard[s].memory /\ o.ref = shard[s].ref
          /\ o.kept = shard[s].kept /\ o.core \in {shard[s].core, "Closing"}
          /\ o.signalled = shard[s].signalled /\ o.step = "terminated"
          /\ ~o.ref
      BY <1>1, <1>5 DEF TerminateNothing, Closable, Holding, Object
    <2>3. /\ shard[s].step \in {"open", "closing"}
          /\ slots' \subseteq Groups /\ word' \in [Groups -> {"run", "stop"}]
          /\ UNCHANGED <<service, kernel>>
      BY <1>1, <1>5 DEF TerminateNothing, Closable
    <2>. HIDE DEF o
    <2>. QED
      BY <1>1, <2>1, <2>2, <2>3, LocalStep DEF Holding, Stage, LiveSteps
  <1>6. CASE FinishThrows(s)
    <2> DEFINE o == [shard[s] EXCEPT !.step = "closing"]
    <2>1. o \in Object /\ shard' = [shard EXCEPT ![s] = o]
      BY <1>1, <1>6 DEF FinishThrows, Object
    <2>2. /\ o.memory = shard[s].memory /\ o.ref = shard[s].ref
          /\ o.kept = shard[s].kept /\ o.core = shard[s].core
          /\ o.signalled = shard[s].signalled /\ o.step = "closing"
      BY <1>1, <1>6 DEF FinishThrows, Holding, Object
    <2>3. /\ shard[s].step = "finishing"
          /\ slots' \subseteq Groups /\ word' \in [Groups -> {"run", "stop"}]
          /\ UNCHANGED <<service, kernel>>
      BY <1>1, <1>6 DEF FinishThrows
    <2>. HIDE DEF o
    <2>. QED
      BY <1>1, <2>1, <2>2, <2>3, LocalStep DEF Holding, Stage, LiveSteps
  <1>7. CASE Quarantine(s)
    <2> DEFINE o == [Quarantined(shard[s]) EXCEPT !.step = "gone"]
    <2>1. o \in Object /\ shard' = [shard EXCEPT ![s] = o]
      BY <1>1, <1>7 DEF Quarantine, Quarantined, Object
    <2>2. /\ o.step = "gone" /\ o.core = "Quarantined" /\ ~o.ref /\ o.kept
          /\ o.memory = "quarantined" /\ o.signalled = shard[s].signalled
      BY <1>1, <1>7 DEF Quarantine, Quarantined, Object, Holding, Stage,
                        Closable, LiveSteps, Holds
    <2>. QED
      BY <1>1, <1>7, <2>1, <2>2, LocalStep
         DEF Quarantine, LiveSteps
  <1>. QED
    BY <1>2, <1>3, <1>4, <1>5, <1>6, <1>7

(* A shard joins the program, and the last one compiles it.                *)
LEMMA RegisterStep ==
    ASSUME IInv, NEW s \in Shards, Register(s) PROVE IInv'
  <1> USE DEF IInv
  <1> DEFINE all == service.servers \union {s}
             last == Cardinality(all) = ShardCount
  <1>1. /\ shard[s].step = "reserved" /\ shard[s].memory = "own"
        /\ s \notin service.servers /\ ~shard[s].signalled
        /\ ~service.prepared /\ ~service.failed /\ ~service.launched
        /\ ~service.workload
    BY DEF Register, Takes, Stage, Phases
  <1>2. /\ service' = [service EXCEPT !.servers = all, !.prepared = last,
                                      !.workload = last]
        /\ shard' = [shard EXCEPT ![s].step = "prepared"]
        /\ slots' = slots /\ kernel' = kernel /\ word' = word
    BY DEF Register
  <1>3. /\ service'.servers = all /\ service'.prepared = last
        /\ service'.workload = last /\ ~service'.launched
        /\ ~service'.failed /\ service'.terminated = service.terminated
        /\ service' \in Service
    BY <1>1, <1>2 DEF TypeOK, Service
  <1>4. /\ shard' \in [Shards -> Object]
        /\ shard'[s] = [shard[s] EXCEPT !.step = "prepared"]
        /\ \A t \in Shards : t # s => shard'[t] = shard[t]
    BY <1>2 DEF TypeOK, Object
  <1>5. TypeOK' /\ IsFiniteSet(service.servers)'
    BY <1>2, <1>3, <1>4, FS_AddElement DEF TypeOK, Object, Service
  <1>6. \A t \in Shards : Holding(t)' /\ Stage(t)'
    BY <1>1, <1>3, <1>4
       DEF Holding, Stage, LiveSteps, Holds, TypeOK
  <1>7. OneFinisher'
    BY <1>4 DEF OneFinisher, TypeOK
  <1>8. Phases'
    <2>1. service.terminated = 0 /\ Told = {}
      BY <1>1 DEF Phases
    <2>2. Told' = {}
      BY <1>1, <1>3, <1>4, <2>1 DEF Told, TypeOK
    <2>3. \A t \in all : Holds(t)'
      BY <1>1, <1>3, <1>4 DEF Phases, Holds, TypeOK
    <2>. QED
      BY <1>3, <2>1, <2>2, <2>3 DEF Phases, Holds
  <1>9. KernelOwner'
    BY <1>1, <1>2 DEF KernelOwner
  <1>. QED
    BY <1>5, <1>6, <1>7, <1>8, <1>9

(* A step that changes no shard but one, whose reference to the service    *)
(* goes.  While a kernel may run, somebody else holds the service.         *)
LEMMA LeaveStep ==
    ASSUME IInv, NEW s \in Shards, NEW objects \in [Shards -> Object],
           NEW spoilt \in BOOLEAN,
           \A t \in Shards : t # s => objects[t] = shard[t],
           slots' \subseteq Groups, UNCHANGED <<kernel, word>>,
           Settle(objects, [service EXCEPT !.failed = @ \/ spoilt]),
           spoilt => ~service.launched,
           objects[s].step = "gone", ~objects[s].ref, objects[s].signalled = shard[s].signalled,
           objects[s].kept <=> objects[s].memory = "quarantined",
           IF shard[s].memory # "own" THEN objects[s].memory = shard[s].memory
           ELSE /\ objects[s].memory \in {"retired", "freed"}
                /\ s \in service.servers =>
                       /\ service.prepared
                       /\ service.workload => objects[s].memory = "retired"
                       /\ \/ service.failed
                          \/ /\ shard[s].signalled
                             /\ shard[s].step = "terminated"
    PROVE  IInv'
  <1> USE DEF IInv
  <1> DEFINE svc == [service EXCEPT !.failed = @ \/ spoilt]
             alive == \E t \in Shards : objects[t].ref \/ objects[t].kept
             frees(t) == objects[t].memory = "retired"
                             /\ ~(alive /\ svc.workload)
  <1>1. /\ service' = IF alive THEN svc ELSE Fresh
        /\ shard' = [t \in Shards |->
               IF frees(t) THEN [objects[t] EXCEPT !.memory = "freed"]
               ELSE objects[t]]
    BY DEF Settle
  <1>2. /\ objects \in [Shards -> Object]
        /\ \A t \in Shards : t # s => objects[t] = shard[t]
        /\ \A t \in Shards : objects[t].signalled = shard[t].signalled
    BY DEF TypeOK, Object
  <1>3. /\ svc \in Service /\ svc.servers = service.servers
        /\ svc.terminated = service.terminated
        /\ svc.prepared = service.prepared /\ svc.workload = service.workload
        /\ svc.launched = service.launched
        /\ svc.failed = (service.failed \/ spoilt)
    BY DEF TypeOK, Service
  <1>. HIDE DEF svc
  <1>4. /\ shard' \in [Shards -> Object]
        /\ \A t \in Shards :
              /\ shard'[t].step = objects[t].step
              /\ shard'[t].core = objects[t].core
              /\ shard'[t].ref = objects[t].ref
              /\ shard'[t].kept = objects[t].kept
              /\ shard'[t].signalled = shard[t].signalled
              /\ shard'[t].memory = IF frees(t) THEN "freed"
                                    ELSE objects[t].memory
    BY <1>1, <1>2 DEF Object
  <1>5. \A t \in Shards :
            alive \/ (objects[t].memory \notin {"own", "quarantined"}
                      /\ objects[t].step \notin LiveSteps \union {"reserved"})
    BY <1>2 DEF Holding, Stage, Holds, LiveSteps
  <1>6. /\ Fresh \in Service /\ Fresh.servers = {} /\ Fresh.terminated = 0
        /\ ~Fresh.prepared /\ ~Fresh.failed /\ ~Fresh.workload
        /\ ~Fresh.launched
    BY ShardCountNat DEF Fresh, Service
  <1>7. TypeOK' /\ IsFiniteSet(service.servers)'
    BY <1>1, <1>3, <1>4, <1>6, FS_EmptySet DEF TypeOK, Object, Service
  <1>8. \A t \in Shards : Holding(t)'
    BY <1>2, <1>4 DEF Holding
  <1>9. \A t \in Shards : Stage(t)'
    BY <1>1, <1>2, <1>3, <1>4, <1>5, <1>6 DEF Stage, Holds, LiveSteps
  <1>10. OneFinisher'
    BY <1>2, <1>4 DEF OneFinisher
  <1>11. service.launched => /\ \E t \in service.servers : Anchor(t)'
                             /\ alive
    <2> SUFFICES ASSUME service.launched
                 PROVE  (\E t \in service.servers : Anchor(t)') /\ alive
      OBVIOUS
    <2>1. PICK t \in service.servers : Anchor(t)
      BY DEF Phases
    <2>2. Anchor(t)' /\ alive
      BY <1>2, <1>4, <2>1 DEF Anchor, Phases, Holding, TypeOK
    <2>. QED
      BY <2>1, <2>2
  <1>12. CASE alive
    <2>1. Told' = Told
      BY <1>1, <1>3, <1>4, <1>12 DEF Told, TypeOK
    <2>2. \A t \in service.servers : Holds(t) /\ t # s => Holds(t)'
      BY <1>2, <1>4 DEF Holds, TypeOK
    <2>3. service.workload => \A t \in service.servers :
              /\ shard'[t].memory = objects[t].memory
              /\ shard'[t].memory \in {"own", "retired", "quarantined"}
      BY <1>2, <1>3, <1>4, <1>12 DEF Phases, TypeOK
    <2>4. s \in service.servers =>
              \/ Holds(s)' \/ shard[s].signalled
              \/ service.failed \/ ~Holds(s)
      BY <1>2, <1>4 DEF Holds
    <2>5. ~service.prepared => \A t \in service.servers : Holds(t)'
      BY <1>2, <1>4, <2>2 DEF Phases, Holds
    <2>6. Phases'
      <3>1. service' = svc
        BY <1>1, <1>12
      <3>2. service.workload /\ ~svc.failed => \A t \in service.servers :
                shard'[t].signalled \/ Holds(t)'
        BY <1>3, <1>4, <2>2, <2>4 DEF Phases, TypeOK
      <3>. QED
        BY <1>3, <1>11, <2>1, <2>3, <2>5, <3>1, <3>2 DEF Phases
    <2>7. KernelOwner'
      BY <1>1, <1>2, <1>3, <1>4, <1>12 DEF KernelOwner, TypeOK
    <2>. QED
      BY <1>7, <1>8, <1>9, <1>10, <2>6, <2>7
  <1>13. CASE ~alive
    <2>1. Told' = {}
      BY <1>1, <1>6, <1>13 DEF Told
    <2>2. Phases'
      BY <1>1, <1>6, <1>13, <2>1 DEF Phases
    <2>3. \A g \in Groups : kernel[g] = None
      BY <1>2, <1>11, <1>13 DEF KernelOwner, Holding, TypeOK
    <2>. QED
      BY <1>7, <1>8, <1>9, <1>10, <2>2, <2>3 DEF KernelOwner
  <1>. QED
    BY <1>12, <1>13

(* A shard that fails to register, is refused its launch or is             *)
(* destroyed.                                                              *)
LEMMA LeavingSteps ==
    ASSUME IInv, NEW s \in Shards,
           RegisterFails(s) \/ LaunchRefused(s) \/ Destroy(s)
    PROVE  IInv'
  <1>1. /\ shard[s] \in Object
        /\ shard \in [Shards -> Object] /\ service \in Service
        /\ slots \subseteq Groups
        /\ Holding(s) /\ Stage(s) /\ Phases
    BY DEF IInv, TypeOK, Object, Service
  <1>2. CASE RegisterFails(s)
    <2> DEFINE objects == [shard EXCEPT ![s].step = "gone", ![s].ref = FALSE,
                                        ![s].memory = "freed"]
    <2>1. objects \in [Shards -> Object]
      BY <1>1 DEF Object
    <2>2. /\ \A t \in Shards : t # s => objects[t] = shard[t]
          /\ objects[s].step = "gone" /\ ~objects[s].ref
          /\ objects[s].memory = "freed" /\ objects[s].kept = shard[s].kept
          /\ objects[s].signalled = shard[s].signalled
      BY <1>1 DEF Object
    <2>3. PICK spoilt \in BOOLEAN :
              /\ spoilt => ~service.launched
              /\ Settle(objects, [service EXCEPT !.failed = @ \/ spoilt])
      BY <1>1, <1>2 DEF RegisterFails, Service
    <2>4. /\ shard[s].step = "reserved" /\ slots' \subseteq Groups
          /\ UNCHANGED <<kernel, word>>
      BY <1>1, <1>2 DEF RegisterFails
    <2>. HIDE DEF objects
    <2>. QED
      BY <1>1, <2>1, <2>2, <2>3, <2>4, LeaveStep DEF Stage, Holding
  <1>3. ASSUME Release(s), shard[s].step \in {"launching", "terminated"},
               shard[s].step = "launching" =>
                   service.prepared /\ service.failed
        PROVE  IInv'
    <2> DEFINE objects == Released(s)
    <2>1. objects \in [Shards -> Object]
      <3>1. CASE shard[s].core = "Quarantined"
        BY <1>1, <3>1 DEF Released, Object
      <3>2. CASE shard[s].core # "Quarantined"
        BY <1>1, <3>2 DEF Released, Object
      <3>. QED
        BY <3>1, <3>2
    <2>2. /\ \A t \in Shards : t # s => objects[t] = shard[t]
          /\ objects[s].step = "gone" /\ objects[s].kept = shard[s].kept
          /\ objects[s].signalled = shard[s].signalled
      BY <1>1 DEF Released, Object
    <2>3. /\ ~objects[s].ref
          /\ shard[s].memory # "own" => objects[s].memory = shard[s].memory
          /\ shard[s].memory = "own" => objects[s].memory =
                 IF service.workload THEN "retired" ELSE "freed"
      BY <1>1 DEF Released, Holding, Object
    <2>4. /\ UNCHANGED <<kernel, word>> /\ slots' \subseteq Groups
          /\ Settle(objects, service)
      BY <1>1, <1>3 DEF Release
    <2>5. [service EXCEPT !.failed = @ \/ FALSE] = service
      BY <1>1 DEF Service
    <2>6. s \in service.servers /\ shard[s].memory = "own" =>
              /\ service.prepared
              /\ \/ service.failed
                 \/ shard[s].signalled /\ shard[s].step = "terminated"
      <3>1. CASE shard[s].step = "launching"
        BY <1>3, <3>1
      <3>2. CASE shard[s].step = "terminated"
        <4>1. s \in service.servers /\ shard[s].memory = "own" =>
                  s \in Told
          BY <1>1, <3>2 DEF Stage, Told
        <4>. QED
          BY <1>1, <3>2, <4>1 DEF Phases, Told
      <3>. QED
        BY <1>3, <3>1, <3>2
    <2>. HIDE DEF objects
    <2>. QED
      BY <1>1, <2>1, <2>2, <2>3, <2>4, <2>5, <2>6, LeaveStep DEF Holding
  <1>. QED
    BY <1>2, <1>3 DEF LaunchRefused, Destroy

(* A kernel ends.                                                          *)
LEMMA KernelEndsStep ==
    ASSUME IInv, NEW g \in Groups, KernelEnds(g) PROVE IInv'
  <1>1. /\ UNCHANGED <<shard, service, slots, word>>
        /\ kernel' = [kernel EXCEPT ![g] = None]
    BY DEF KernelEnds
  <1>2. TypeOK'
    BY <1>1 DEF IInv, TypeOK
  <1>3. KernelOwner'
    BY <1>1 DEF IInv, TypeOK, KernelOwner
  <1>. QED
    BY <1>1, <1>2, <1>3
       DEF IInv, Holding, Stage, OneFinisher, Phases, Told, Anchor, Holds

(* A shard that closes before the launch leaves the program, which is      *)
(* given up.                                                               *)
LEMMA TerminateUnlaunchedStep ==
    ASSUME IInv, NEW s \in Shards, TerminateUnlaunched(s) PROVE IInv'
  <1> USE DEF IInv
  <1>1. /\ shard[s].step \in LiveSteps /\ shard[s].ref
        /\ shard[s].step # "finishing" /\ shard[s].memory = "own"
        /\ shard[s].core # "Quarantined"
        /\ ~service.launched
    BY DEF TerminateUnlaunched, Closable, LiveSteps, Holding
  <1>2. /\ shard' = [shard EXCEPT ![s].step = "terminated",
                        ![s].core = "Closing", ![s].running = FALSE]
        /\ service' = [service EXCEPT !.failed = TRUE, !.servers = @ \ {s}]
        /\ slots' = slots /\ kernel' = kernel /\ word' = word
    BY DEF TerminateUnlaunched
  <1>3. /\ service' \in Service /\ service'.servers = service.servers \ {s}
        /\ service'.failed /\ ~service'.launched
        /\ service'.prepared = service.prepared
        /\ service'.workload = service.workload
        /\ service'.terminated = service.terminated
    BY <1>1, <1>2 DEF TypeOK, Service
  <1>4. /\ shard' \in [Shards -> Object]
        /\ shard'[s].step = "terminated" /\ shard'[s].core = "Closing"
        /\ \A t \in Shards : t # s => shard'[t] = shard[t]
        /\ \A t \in Shards : /\ shard'[t].memory = shard[t].memory
                             /\ shard'[t].ref = shard[t].ref
                             /\ shard'[t].kept = shard[t].kept
                             /\ shard'[t].signalled = shard[t].signalled
    <2>1. shard \in [Shards -> Object]
      BY DEF TypeOK, Object
    <2> DEFINE o == [shard[s] EXCEPT !.step = "terminated",
                                     !.core = "Closing", !.running = FALSE]
    <2>2. o \in Object
      BY <2>1 DEF Object
    <2>3. shard' = [shard EXCEPT ![s] = o]
      BY <1>2, <2>1
    <2>4. shard' \in [Shards -> Object]
      BY <2>1, <2>2, <2>3
    <2>. QED
      BY <2>1, <2>3, <2>4 DEF Object
  <1>5. TypeOK' /\ IsFiniteSet(service.servers)'
    BY <1>2, <1>3, <1>4, FS_RemoveElement DEF TypeOK, Object, Service
  <1>6. \A t \in Shards : Holding(t)' /\ Stage(t)'
    BY <1>1, <1>3, <1>4 DEF Holding, Stage, Holds, LiveSteps
  <1>7. OneFinisher'
    BY <1>4 DEF OneFinisher
  <1>8. Phases'
    <2>1. Told' \subseteq Told
      BY <1>3, <1>4 DEF Told, TypeOK
    <2>. QED
      BY <1>1, <1>3, <1>4, <2>1 DEF Phases, Holds, TypeOK
  <1>9. KernelOwner'
    BY <1>1, <1>2, <1>3, <1>4 DEF KernelOwner, TypeOK
  <1>. QED
    BY <1>5, <1>6, <1>7, <1>8, <1>9

(* A member is told to stop.  If it was the last that the service leaned   *)
(* on, terminated_servers has reached shard_count and it waits itself.     *)
LEMMA TerminateStep ==
    ASSUME IInv, NEW s \in Shards, Terminate(s) PROVE IInv'
  <1> USE DEF IInv
  <1> DEFINE count == Signals(s)
             finishes == count = ShardCount /\ service.workload
  <1>1. /\ shard[s].step \in {"open", "closing"} /\ shard[s].ref
        /\ shard[s].memory = "own" /\ s \in service.servers
        /\ MutexFree
        /\ service.launched /\ service.workload /\ ~service.failed
        /\ service.terminated = Cardinality(Told)
        /\ Cardinality(service.servers) = ShardCount
    BY DEF Terminate, Closable, Stage, LiveSteps, Holding, Phases
  <1>2. /\ shard' = [shard EXCEPT ![s].core = "Closing",
                  ![s].signalled = TRUE, ![s].running = FALSE,
                  ![s].step = IF finishes THEN "finishing" ELSE "terminated"]
        /\ service' = [service EXCEPT !.terminated = count]
        /\ slots' = slots /\ kernel' = kernel
        /\ word' \in [Groups -> {"run", "stop"}]
    BY MuxAssumption DEF Terminate, TypeOK
  <1>3. shard \in [Shards -> Object] /\ service \in Service
    BY DEF TypeOK, Object, Service
  <1>4. /\ shard' \in [Shards -> Object]
        /\ shard'[s].core = "Closing" /\ shard'[s].signalled
        /\ shard'[s].step = IF finishes THEN "finishing" ELSE "terminated"
        /\ shard'[s].memory = shard[s].memory /\ shard'[s].ref = shard[s].ref
        /\ shard'[s].kept = shard[s].kept
        /\ \A t \in Shards : t # s => shard'[t] = shard[t]
    <2> DEFINE o == [shard[s] EXCEPT !.core = "Closing",
                        !.signalled = TRUE, !.running = FALSE,
                        !.step = IF finishes THEN "finishing"
                                 ELSE "terminated"]
    <2>1. o \in Object
      BY <1>3 DEF Object
    <2>2. shard' = [shard EXCEPT ![s] = o]
      BY <1>2, <1>3
    <2>3. shard' \in [Shards -> Object]
      BY <1>3, <2>1, <2>2
    <2>. QED
      BY <1>3, <2>2, <2>3 DEF Object
  <1>5. Told' = Told \union {s}
    BY <1>1, <1>2, <1>3, <1>4 DEF Told, Service
  <1>6. /\ IsFiniteSet(Told) /\ Cardinality(Told) \in Nat
        /\ IsFiniteSet(Told') /\ Cardinality(Told') \in Nat
        /\ Cardinality(Told') <= ShardCount
        /\ Cardinality(Told') = ShardCount => Told' = service.servers
    <2>1. Told \subseteq service.servers /\ Told' \subseteq service.servers
      BY <1>1, <1>5 DEF Told
    <2>. QED
      BY <1>1, <2>1, FS_Subset, FS_CardinalityType
  <1>7. count = Cardinality(Told')
    BY <1>1, <1>5, <1>6, FS_AddElement DEF Signals, Told
  <1>8. /\ service' \in Service /\ service'.terminated = count
        /\ service'.servers = service.servers
        /\ service'.prepared = service.prepared
        /\ service'.failed = service.failed
        /\ service'.workload = service.workload
        /\ service'.launched = service.launched
    BY <1>2, <1>3, <1>6, <1>7, ShardCountNat DEF Service
  <1>. HIDE DEF count
  <1>9. TypeOK' /\ IsFiniteSet(service.servers)'
    BY <1>2, <1>4, <1>8 DEF TypeOK, Object, Service
  <1>10. \A t \in Shards : Holding(t)' /\ Stage(t)'
    <2>1. Holding(s)' /\ Stage(s)'
      BY <1>1, <1>4, <1>8 DEF Holding, Stage, Holds, LiveSteps
    <2>2. \A t \in Shards : t # s => Holding(t)' /\ Stage(t)'
      BY <1>4, <1>8 DEF Holding, Stage, Holds
    <2>. QED
      BY <2>1, <2>2
  <1>11. OneFinisher'
    BY <1>1, <1>4 DEF OneFinisher, MutexFree
  <1>12. \E t \in service.servers : Anchor(t)'
    <2>1. CASE finishes
      BY <1>1, <1>4, <2>1 DEF Anchor
    <2>2. CASE ~finishes
      <3>1. Cardinality(Told') # ShardCount
        BY <1>1, <1>7, <2>2
      <3>2. PICK t \in service.servers : t \notin Told'
        BY <1>1, <1>5, <3>1 DEF Told
      <3>3. t \in Shards /\ t # s /\ ~shard[t].signalled
        BY <1>3, <1>5, <3>2 DEF Told, Service
      <3>4. Holds(t)
        BY <1>1, <3>2, <3>3 DEF Phases
      <3>. QED
        BY <1>4, <3>2, <3>3, <3>4 DEF Anchor, Holds
    <2>. QED
      BY <2>1, <2>2
  <1>13. Phases'
    <2>1. \A t \in Shards : /\ shard'[t].memory = shard[t].memory
                            /\ shard[t].signalled => shard'[t].signalled
      BY <1>3, <1>4
    <2>. QED
      BY <1>1, <1>3, <1>7, <1>8, <1>12, <2>1 DEF Phases, Holds, Service
  <1>14. KernelOwner'
    BY <1>2, <1>3, <1>4, <1>8 DEF KernelOwner, TypeOK
  <1>. QED
    BY <1>9, <1>10, <1>11, <1>13, <1>14

(* Finish() returns: no kernel runs, and the workload goes.                *)
LEMMA FinishedStep ==
    ASSUME IInv, NEW s \in Shards, Finished(s) PROVE IInv'
  <1> USE DEF IInv
  <1> DEFINE objects == [shard EXCEPT ![s].step = "terminated"]
             svc == [service EXCEPT !.workload = FALSE, !.launched = FALSE]
             alive == \E t \in Shards : objects[t].ref \/ objects[t].kept
             frees(t) == objects[t].memory = "retired"
                             /\ ~(alive /\ svc.workload)
  <1>1. /\ service' = IF alive THEN svc ELSE Fresh
        /\ shard' = [t \in Shards |->
               IF frees(t) THEN [objects[t] EXCEPT !.memory = "freed"]
               ELSE objects[t]]
        /\ slots' = slots /\ kernel' = kernel /\ word' = word
        /\ \A g \in Groups : kernel[g] = None
        /\ shard[s].step = "finishing"
    BY DEF Finished, Settle
  <1>2. shard \in [Shards -> Object] /\ service \in Service
    BY DEF TypeOK, Object, Service
  <1>3. /\ s \in service.servers /\ Holds(s) /\ shard[s].signalled
        /\ service.launched /\ service.workload /\ service.prepared
    BY <1>1 DEF Stage, LiveSteps, Phases
  <1>4. /\ objects \in [Shards -> Object]
        /\ objects[s].step = "terminated"
        /\ \A t \in Shards : t # s => objects[t] = shard[t]
        /\ \A t \in Shards : /\ objects[t].memory = shard[t].memory
                             /\ objects[t].ref = shard[t].ref
                             /\ objects[t].kept = shard[t].kept
                             /\ objects[t].core = shard[t].core
                             /\ objects[t].signalled = shard[t].signalled
    <2>1. objects \in [Shards -> Object]
      BY <1>2 DEF Object
    <2>. QED
      BY <1>2, <2>1
  <1>. HIDE DEF objects
  <1>5. alive
    BY <1>2, <1>3, <1>4 DEF Holding, Holds, Service
  <1>6. /\ service' \in Service /\ service'.servers = service.servers
        /\ service'.prepared /\ ~service'.workload /\ ~service'.launched
        /\ service'.terminated = service.terminated
    BY <1>1, <1>2, <1>3, <1>5 DEF Service
  <1>7. /\ shard' \in [Shards -> Object]
        /\ \A t \in Shards :
              /\ shard'[t].step = objects[t].step
              /\ shard'[t].core = objects[t].core
              /\ shard'[t].ref = objects[t].ref
              /\ shard'[t].kept = objects[t].kept
              /\ shard'[t].signalled = objects[t].signalled
              /\ shard'[t].memory = IF frees(t) THEN "freed"
                                    ELSE objects[t].memory
    BY <1>1, <1>4 DEF Object
  <1>8. TypeOK' /\ IsFiniteSet(service.servers)'
    BY <1>1, <1>6, <1>7 DEF TypeOK, Object, Service
  <1>9. \A t \in Shards : Holding(t)' /\ Stage(t)'
    BY <1>1, <1>3, <1>4, <1>6, <1>7
       DEF Holding, Stage, Holds, LiveSteps, OneFinisher
  <1>10. OneFinisher'
    BY <1>4, <1>7 DEF OneFinisher
  <1>11. Phases'
    BY <1>6 DEF Phases
  <1>12. KernelOwner'
    BY <1>1 DEF KernelOwner
  <1>. QED
    BY <1>8, <1>9, <1>10, <1>11, <1>12

(* A launch puts only kernels of members on the cores.                     *)
LEMMA KernelsOnMembers ==
    ASSUME NEW some \in SUBSET Shards, KernelsOn(some),
           kernel \in [Groups -> Shards \union {None}]
    PROVE  /\ kernel' \in [Groups -> Shards \union {None}]
           /\ \A g \in Groups : kernel'[g] \in some \union {kernel[g]}
  <1>1. \A g \in Groups : (\E t \in some : GroupOf[t] = g) =>
            (CHOOSE t \in some : GroupOf[t] = g) \in some
    OBVIOUS
  <1>. QED
    BY <1>1 DEF KernelsOn

(* Who launches is a member of a compiled program that nobody spoilt, and  *)
(* every member still holds the service.                                   *)
LEMMA LaunchesFacts ==
    ASSUME IInv, NEW s \in Shards, Launches(s)
    PROVE  /\ shard \in [Shards -> Object] /\ service \in Service
           /\ shard[s].step = "launching" /\ s \in service.servers
           /\ service.prepared /\ service.workload
           /\ ~service.failed /\ ~service.launched
           /\ service.terminated = 0 /\ Told = {}
           /\ Cardinality(service.servers) = ShardCount
           /\ \A t \in service.servers : Holds(t) /\ ~shard[t].signalled
           /\ \A t \in Shards : shard[t].step # "finishing"
           /\ kernel \in [Groups -> Shards \union {None}]
  <1> USE DEF IInv
  <1>1. shard \in [Shards -> Object] /\ service \in Service
    BY DEF TypeOK, Object, Service
  <1>2. /\ shard[s].step = "launching" /\ s \in service.servers
        /\ service.prepared /\ service.workload
        /\ ~service.failed /\ ~service.launched
        /\ \A t \in Shards : shard[t].step # "finishing"
    BY DEF Launches, MutexFree, Stage, LiveSteps
  <1>3. service.terminated = 0 /\ Told = {}
    BY <1>2 DEF Phases
  <1>4. \A t \in service.servers : ~shard[t].signalled
    BY <1>3 DEF Told
  <1>. QED
    BY <1>1, <1>2, <1>3, <1>4 DEF Phases, TypeOK

(* The workload is enqueued.                                               *)
LEMMA LaunchStep ==
    ASSUME IInv, NEW s \in Shards, Launch(s) PROVE IInv'
  <1>1. Launches(s) /\ KernelsOn(service.servers)
        /\ slots' = slots /\ word' = word
    BY DEF Launch
  <1>2. /\ shard \in [Shards -> Object] /\ service \in Service
        /\ shard[s].step = "launching" /\ s \in service.servers
        /\ service.prepared /\ service.workload
        /\ ~service.failed /\ ~service.launched
        /\ service.terminated = 0 /\ Told = {}
        /\ Cardinality(service.servers) = ShardCount
        /\ \A t \in service.servers : Holds(t) /\ ~shard[t].signalled
        /\ \A t \in Shards : shard[t].step # "finishing"
        /\ kernel \in [Groups -> Shards \union {None}]
    BY <1>1, LaunchesFacts
  <1>3. /\ service' \in Service /\ service'.launched
        /\ service'.servers = service.servers
        /\ service'.terminated = 0 /\ service'.prepared
        /\ service'.workload /\ ~service'.failed
    BY <1>2 DEF Launch, Service
  <1>4. /\ shard' \in [Shards -> Object]
        /\ \A t \in Shards :
              /\ shard'[t].memory = shard[t].memory
              /\ shard'[t].ref = shard[t].ref
              /\ shard'[t].kept = shard[t].kept
              /\ shard'[t].signalled = shard[t].signalled
              /\ shard'[t].step = IF t = s THEN "open" ELSE shard[t].step
              /\ shard'[t].core = IF t = s THEN "Ready" ELSE shard[t].core
    <2>1. shard' = [t \in Shards |->
              IF t \notin service.servers THEN shard[t]
              ELSE [shard[t] EXCEPT !.started = TRUE, !.running = TRUE,
                       !.step = IF t = s THEN "open" ELSE @,
                       !.core = IF t = s THEN "Ready" ELSE @]]
      BY DEF Launch
    <2>2. ASSUME NEW t \in Shards
          PROVE  /\ shard'[t] \in Object
                 /\ shard'[t].memory = shard[t].memory
                 /\ shard'[t].ref = shard[t].ref
                 /\ shard'[t].kept = shard[t].kept
                 /\ shard'[t].signalled = shard[t].signalled
                 /\ shard'[t].step = IF t = s THEN "open" ELSE shard[t].step
                 /\ shard'[t].core = IF t = s THEN "Ready" ELSE shard[t].core
      <3>1. CASE t \notin service.servers
        BY <1>2, <2>1, <3>1
      <3>2. CASE t \in service.servers
        <4>1. shard'[t] = [shard[t] EXCEPT !.started = TRUE, !.running = TRUE,
                              !.step = IF t = s THEN "open" ELSE @,
                              !.core = IF t = s THEN "Ready" ELSE @]
          BY <2>1, <3>2
        <4>2. shard[t] \in Object
          BY <1>2
        <4>. QED
          BY <4>1, <4>2 DEF Object
      <3>. QED
        BY <3>1, <3>2
    <2>. QED
      BY <2>1, <2>2
  <1>5. /\ kernel' \in [Groups -> Shards \union {None}]
        /\ \A g \in Groups : kernel'[g] \in service.servers \union {kernel[g]}
    BY <1>1, <1>2, KernelsOnMembers DEF Service
  <1>6. TypeOK' /\ IsFiniteSet(service.servers)'
    BY <1>1, <1>3, <1>4, <1>5 DEF IInv, TypeOK, Object, Service
  <1>7. \A t \in Shards : Holding(t)'
    BY <1>4 DEF IInv, Holding
  <1>8. \A t \in Shards : Stage(t)'
    <2>1. Stage(s)'
      BY <1>2, <1>3, <1>4 DEF Stage, Holds, LiveSteps
    <2>2. ASSUME NEW t \in Shards, t # s PROVE Stage(t)'
      <3>1. Stage(t)
        BY DEF IInv
      <3>. QED
        BY <1>2, <1>3, <1>4, <2>2, <3>1 DEF Stage, Holds, LiveSteps
    <2>. QED
      BY <2>1, <2>2
  <1>9. OneFinisher'
    BY <1>2, <1>4 DEF OneFinisher
  <1>10. Phases'
    <2>1. Told' = {}
      BY <1>2, <1>3, <1>4 DEF Told, Service
    <2>2. Anchor(s)'
      BY <1>2, <1>4 DEF Anchor, Holds
    <2>. QED
      BY <1>2, <1>3, <1>4, <2>1, <2>2, FS_EmptySet
         DEF Phases, Holds, Service
  <1>11. KernelOwner'
    BY <1>2, <1>3, <1>4, <1>5 DEF IInv, KernelOwner
  <1>. QED
    BY <1>6, <1>7, <1>8, <1>9, <1>10, <1>11 DEF IInv

(* Any part of the workload may have been enqueued: every member and the   *)
(* service are kept.                                                       *)
LEMMA LaunchOutcomeUnknownStep ==
    ASSUME IInv, NEW s \in Shards, LaunchOutcomeUnknown(s) PROVE IInv'
  <1>1. /\ Launches(s) /\ service' = service
        /\ slots' = slots /\ word' = word
    BY DEF LaunchOutcomeUnknown
  <1>2. /\ shard \in [Shards -> Object] /\ service \in Service
        /\ shard[s].step = "launching" /\ s \in service.servers
        /\ service.prepared /\ service.workload
        /\ ~service.failed /\ ~service.launched
        /\ service.terminated = 0 /\ Told = {}
        /\ Cardinality(service.servers) = ShardCount
        /\ \A t \in service.servers : Holds(t) /\ ~shard[t].signalled
        /\ \A t \in Shards : shard[t].step # "finishing"
        /\ kernel \in [Groups -> Shards \union {None}]
    BY <1>1, LaunchesFacts
  <1>3. PICK sent \in SUBSET service.servers : KernelsOn(sent)
    BY DEF LaunchOutcomeUnknown
  <1>4. \A t \in Shards : Quarantined(shard[t]) \in Object
    <2> SUFFICES ASSUME NEW o \in Object PROVE Quarantined(o) \in Object
      BY <1>2
    <2>1. CASE o.memory = "own"
      BY <2>1 DEF Quarantined, Object
    <2>2. CASE o.memory # "own"
      BY <2>2 DEF Quarantined, Object
    <2>. QED
      BY <2>1, <2>2
  <1>5. \A t \in Shards : shard'[t] =
            IF t \notin service.servers THEN shard[t]
            ELSE [Quarantined(shard[t]) EXCEPT !.started = TRUE,
                     !.step = IF t = s THEN "gone" ELSE @]
    BY DEF LaunchOutcomeUnknown
  <1>6. /\ shard' \in [Shards -> Object]
        /\ \A t \in Shards : t \notin service.servers => shard'[t] = shard[t]
        /\ \A t \in service.servers :
              /\ shard'[t].memory = "quarantined"
              /\ ~shard'[t].ref /\ shard'[t].kept
              /\ shard'[t].signalled = shard[t].signalled
              /\ shard'[t].step = IF t = s THEN "gone" ELSE shard[t].step
    <2>1. shard' \in [Shards -> Object]
      <3>1. ASSUME NEW o \in Object, NEW t \in Shards
            PROVE  [o EXCEPT !.started = TRUE,
                       !.step = IF t = s THEN "gone" ELSE @] \in Object
        BY DEF Object
      <3>2. ASSUME NEW t \in Shards PROVE shard'[t] \in Object
        <4>1. CASE t \in service.servers
          <5>1. [Quarantined(shard[t]) EXCEPT !.started = TRUE,
                    !.step = IF t = s THEN "gone" ELSE @] \in Object
            BY <1>4, <3>1
          <5>. QED
            BY <1>5, <4>1, <5>1
        <4>2. CASE t \notin service.servers
          BY <1>2, <1>5, <4>2
        <4>. QED
          BY <4>1, <4>2
      <3>. QED
        BY <3>2 DEF LaunchOutcomeUnknown
    <2>2. ASSUME NEW t \in service.servers
          PROVE  /\ Quarantined(shard[t]).memory = "quarantined"
                 /\ ~Quarantined(shard[t]).ref /\ Quarantined(shard[t]).kept
                 /\ Quarantined(shard[t]).signalled = shard[t].signalled
                 /\ Quarantined(shard[t]).step = shard[t].step
      <3>1. t \in Shards /\ shard[t] \in Object /\ Holding(t) /\ Holds(t)
        BY <1>2 DEF IInv, Service
      <3>. QED
        BY <3>1 DEF Quarantined, Object, Holding, Holds
    <2>3. ASSUME NEW t \in service.servers
          PROVE  /\ shard'[t].memory = Quarantined(shard[t]).memory
                 /\ shard'[t].ref = Quarantined(shard[t]).ref
                 /\ shard'[t].kept = Quarantined(shard[t]).kept
                 /\ shard'[t].signalled = Quarantined(shard[t]).signalled
                 /\ shard'[t].step = IF t = s THEN "gone"
                                     ELSE Quarantined(shard[t]).step
      <3>1. t \in Shards /\ Quarantined(shard[t]) \in Object
        BY <1>2, <1>4 DEF Service
      <3>. QED
        BY <1>5, <3>1 DEF Object
    <2>4. \A t \in Shards : t \notin service.servers => shard'[t] = shard[t]
      BY <1>5
    <2>5. ASSUME NEW t \in service.servers
          PROVE  /\ shard'[t].memory = "quarantined"
                 /\ ~shard'[t].ref /\ shard'[t].kept
                 /\ shard'[t].signalled = shard[t].signalled
                 /\ shard'[t].step = IF t = s THEN "gone" ELSE shard[t].step
      BY <2>2, <2>3
    <2>. QED
      BY <2>1, <2>4, <2>5
  <1>7. /\ kernel' \in [Groups -> Shards \union {None}]
        /\ \A g \in Groups : kernel'[g] \in service.servers \union {kernel[g]}
    BY <1>2, <1>3, KernelsOnMembers DEF Service
  <1>8. TypeOK' /\ IsFiniteSet(service.servers)'
    BY <1>1, <1>6, <1>7 DEF IInv, TypeOK, Object
  <1>9. \A t \in Shards : Holding(t)' /\ Stage(t)'
    <2>1. ASSUME NEW t \in service.servers PROVE Holding(t)' /\ Stage(t)'
      <3>1. t \in Shards /\ Stage(t)
        BY <1>2 DEF IInv, Service
      <3>. QED
        BY <1>1, <1>2, <1>6, <3>1 DEF Holding, Stage, Holds, LiveSteps
    <2>2. ASSUME NEW t \in Shards, t \notin service.servers
          PROVE  Holding(t)' /\ Stage(t)'
      <3>1. Holding(t) /\ Stage(t)
        BY DEF IInv
      <3>. QED
        BY <1>1, <1>6, <2>2, <3>1 DEF Holding, Stage, Holds
    <2>. QED
      BY <2>1, <2>2
  <1>10. OneFinisher'
    BY <1>2, <1>6 DEF OneFinisher
  <1>11. Phases'
    <2>1. Told' = {}
      BY <1>1, <1>2, <1>6 DEF Told
    <2>. QED
      BY <1>1, <1>2, <1>6, <2>1 DEF Phases, Holds
  <1>12. KernelOwner'
    BY <1>1, <1>2, <1>6, <1>7 DEF IInv, KernelOwner, Service
  <1>. QED
    BY <1>8, <1>9, <1>10, <1>11, <1>12 DEF IInv

----------------------------------------------------------------------------
(* No shard holds the mux before the first is constructed.                 *)
LEMMA InitIInv == Init => IInv
  <1> SUFFICES ASSUME Init PROVE IInv
    OBVIOUS
  <1>1. Told = {}
    BY DEF Init, Fresh, Told
  <1>2. TypeOK
    BY MuxAssumption, ShardCountNat DEF Init, Fresh, Unborn, TypeOK
  <1>3. \A s \in Shards : Holding(s) /\ Stage(s)
    BY DEF Init, Fresh, Unborn, Holding, Stage, LiveSteps
  <1>4. OneFinisher /\ KernelOwner
    BY DEF Init, Unborn, OneFinisher, KernelOwner
  <1>5. Phases
    BY <1>1 DEF Init, Fresh, Phases
  <1>. QED
    BY <1>2, <1>3, <1>4, <1>5, FS_EmptySet DEF IInv, Init, Fresh

(* Every step keeps the invariant.                                         *)
LEMMA NextIInv == IInv /\ [Next]_vars => IInv'
  <1> SUFFICES ASSUME IInv, [Next]_vars PROVE IInv'
    OBVIOUS
  <1>1. ASSUME NEW s \in Shards, Construction(s) PROVE IInv'
    BY <1>1, LocalSteps, RegisterStep, LeavingSteps, LaunchStep,
       LaunchOutcomeUnknownStep DEF Construction
  <1>2. ASSUME NEW s \in Shards, Teardown(s) PROVE IInv'
    BY <1>2, LocalSteps, TerminateUnlaunchedStep, TerminateStep,
       FinishedStep, LeavingSteps DEF Teardown
  <1>3. CASE UNCHANGED vars
    BY <1>3 DEF vars, IInv, TypeOK, Holding, Stage, Holds, OneFinisher,
                Phases, Told, Anchor, KernelOwner
  <1>. QED
    BY <1>1, <1>2, <1>3, KernelEndsStep DEF Next

(* Every reachable state of any number of shards satisfies the invariant.  *)
THEOREM MuxInvariant == Spec => []IInv
  BY InitIInv, NextIInv, PTL DEF Spec

(* Types, and terminated_servers never exceeds shard_count, which          *)
(* terminate_server_kernel asserts, however often a close is retried.      *)
THEOREM TypeCorrect == Spec => []TypeOK
  BY MuxInvariant, PTL DEF IInv

(* While a persistent kernel may run, the shared workload object exists    *)
(* and the memory the kernel addresses is not freed.                       *)
THEOREM KernelMemoryStays == Spec => []KernelMemoryIsHeld
  <1>1. IInv => KernelMemoryIsHeld
    BY DEF IInv, KernelOwner, Phases, KernelMemoryIsHeld, TypeOK
  <1>. QED
    BY <1>1, MuxInvariant, PTL

(* A shard joins a program only while no kernel of an earlier program runs *)
(* on any core of the endpoint: only a registration adds to the program,   *)
(* and a service that takes one has never had a workload.                  *)
THEOREM FreshProgram == Spec => ProgramIsFresh
  <1>1. ASSUME IInv, [Next]_vars, service'.servers \ service.servers # {}
        PROVE  \A g \in Groups : kernel[g] = None
    <2>1. PICK s \in Shards : Register(s)
      <3>1. ASSUME NEW s \in Shards, ~Register(s),
                   Construction(s) \/ Teardown(s)
            PROVE  service'.servers \subseteq service.servers
        <4>1. ASSUME NEW objects, NEW svc, Settle(objects, svc),
                     svc.servers = service.servers
              PROVE  service'.servers \subseteq service.servers
          BY <4>1 DEF Settle, Fresh
        <4>2. service \in Service
          BY <1>1 DEF IInv, TypeOK, Service
        <4>3. CASE RegisterFails(s)
          <5>1. PICK spoilt \in BOOLEAN :
                    Settle([shard EXCEPT ![s].step = "gone",
                                 ![s].ref = FALSE, ![s].memory = "freed"],
                           [service EXCEPT !.failed = @ \/ spoilt])
            BY <4>2, <4>3 DEF RegisterFails, Service
          <5>2. [service EXCEPT !.failed = @ \/ spoilt].servers
                    = service.servers
            BY <4>2 DEF Service
          <5>. QED
            BY <4>1, <5>1, <5>2
        <4>4. CASE Release(s)
          BY <4>1, <4>4 DEF Release
        <4>5. CASE Finished(s)
          <5>1. [service EXCEPT !.workload = FALSE,
                                !.launched = FALSE].servers = service.servers
            BY <4>2 DEF Service
          <5>. QED
            BY <4>1, <4>5, <5>1 DEF Finished
        <4>6. CASE \/ Construct(s) \/ LaunchEnters(s) \/ LaunchReturns(s)
                   \/ LaunchOutcomeUnknown(s) \/ TerminateNothing(s)
                   \/ FinishThrows(s) \/ Quarantine(s)
          BY <4>6 DEF Construct, LaunchEnters, LaunchReturns,
               LaunchOutcomeUnknown, TerminateNothing, FinishThrows,
               Quarantine
        <4>7. CASE Launch(s) \/ TerminateUnlaunched(s) \/ Terminate(s)
          BY <4>2, <4>7 DEF Launch, TerminateUnlaunched, Terminate, Service
        <4>. QED
          BY <3>1, <4>3, <4>4, <4>5, <4>6, <4>7
             DEF Construction, Teardown, LaunchRefused, Destroy
      <3>2. ASSUME NEW g \in Groups, KernelEnds(g) PROVE service' = service
        BY <3>2 DEF KernelEnds
      <3>. QED
        BY <1>1, <3>1, <3>2 DEF Next, vars
    <2>2. ~service.workload
      BY <1>1, <2>1 DEF Register, Takes, IInv, Phases
    <2>. QED
      BY <1>1, <2>2 DEF IInv, KernelOwner
  <1>. QED
    BY <1>1, MuxInvariant, PTL DEF Spec, ProgramIsFresh
============================================================================
