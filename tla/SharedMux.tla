----------------------------- MODULE SharedMux -----------------------------
(***************************************************************************)
(* The shards of one static intermesh Server endpoint: one                 *)
(* ServerRuntimeCore per worker group, all of them linked into one program *)
(* that StaticIntermeshMuxService compiles when the last of them registers *)
(* and finishes when the last of them is told to stop.                     *)
(*                                                                         *)
(* A shard is an object that is constructed and destroyed once, by a       *)
(* thread of its own; several shards may in turn use the core of a worker  *)
(* group.  The steps are the critical sections of the service's mutex and  *)
(* of the slot registry.  The worker thread and the PUT drain of a shard   *)
(* are in ServerLifecycle; here they are reasons why a close fails.        *)
(***************************************************************************)
EXTENDS Naturals, FiniteSets

CONSTANTS
    Groups,        \* worker groups: the cores of the endpoint
    Shards,        \* ServerRuntimeCore objects
    GroupOf,       \* the worker group a shard is constructed for
    None           \* no kernel

ASSUME MuxAssumption ==
    /\ IsFiniteSet(Groups)
    /\ GroupOf \in [Shards -> Groups]
    /\ None \notin Shards

VARIABLES
    shard,    \* what each object is and owns
    service,  \* the service the registry's weak pointer leads to
    slots,    \* active_slots: the worker groups that are taken
    kernel,   \* whose persistent kernel runs on the core of a group
    word      \* the termination word of the core

vars == <<shard, service, slots, kernel, word>>

(***************************************************************************)
(* A shard refers to the service (ref), or the quarantine list does so on  *)
(* its behalf (kept).  Its device memory and failed_teardown_holder_ move  *)
(* together: they are its own, retired into the service, quarantined for   *)
(* the life of the process, or freed.                                      *)
(***************************************************************************)
Unborn == [step |-> "new", core |-> "Constructing", ref |-> FALSE,
           kept |-> FALSE, memory |-> "none", running |-> FALSE,
           started |-> FALSE, signalled |-> FALSE]
Fresh == [servers |-> {}, terminated |-> 0, prepared |-> FALSE,
          failed |-> FALSE, workload |-> FALSE, launched |-> FALSE]

ShardCount == Cardinality(Groups)

Init ==
    /\ shard = [s \in Shards |-> Unborn]
    /\ service = Fresh
    /\ slots = {}
    /\ kernel = [g \in Groups |-> None]
    /\ word = [g \in Groups |-> "run"]

(* Finish() is waited for with the service's mutex held.                   *)
MutexFree == \A s \in Shards : shard[s].step # "finishing"

(* The service dies with the last reference to it, and with it the         *)
(* workload and the memory that was retired into it.                       *)
Settle(objects, svc) ==
    LET alive == \E t \in Shards : objects[t].ref \/ objects[t].kept
        frees(t) == objects[t].memory = "retired" /\ ~(alive /\ svc.workload)
    IN  /\ service' = IF alive THEN svc ELSE Fresh
        /\ shard' = [t \in Shards |->
               IF frees(t) THEN [objects[t] EXCEPT !.memory = "freed"]
               ELSE objects[t]]

----------------------------------------------------------------------------
(* Construction.                                                           *)

(* The slot is claimed, memory reserved, the termination word cleared and  *)
(* the service looked up, before anything asks whether the service still   *)
(* takes shards.                                                           *)
Construct(s) ==
    /\ shard[s].step = "new"
    /\ GroupOf[s] \notin slots
    /\ slots' = slots \union {GroupOf[s]}
    /\ word' = [word EXCEPT ![GroupOf[s]] = "run"]
    /\ shard' = [shard EXCEPT ![s].step = "reserved", ![s].memory = "own",
                              ![s].ref = TRUE]
    /\ UNCHANGED <<service, kernel>>

Takes(s) ==
    /\ ~service.failed /\ ~service.prepared /\ ~service.launched
    /\ \A t \in service.servers : GroupOf[t] # GroupOf[s]

(* The kernels of the shard join the program; the last shard compiles it.  *)
Register(s) ==
    /\ shard[s].step = "reserved" /\ MutexFree /\ Takes(s)
    /\ LET all == service.servers \union {s}
           last == Cardinality(all) = ShardCount
       IN  service' = [service EXCEPT !.servers = all, !.prepared = last,
                                      !.workload = last]
    /\ shard' = [shard EXCEPT ![s].step = "prepared"]
    /\ UNCHANGED <<slots, kernel, word>>

(* The constructor throws: the service refused the shard, or something     *)
(* failed before; or building its kernels or compiling the program failed, *)
(* which spoils the program for all.  tt-metal itself refuses a second set *)
(* of kernels for one core.                                                *)
RegisterFails(s) ==
    /\ shard[s].step = "reserved" /\ MutexFree
    /\ slots' = slots \ {GroupOf[s]}
    /\ LET refused == service.failed \/ service.prepared \/ service.launched
       IN  \E spoilt \in {FALSE, ~refused} :
              Settle([shard EXCEPT ![s].step = "gone", ![s].ref = FALSE,
                                   ![s].memory = "freed"],
                     [service EXCEPT !.failed = @ \/ spoilt])
    /\ UNCHANGED <<kernel, word>>

(* A mutant: a closed shard frees its memory although peers still run.     *)
ReleasedUnretained(s) ==
    IF shard[s].core = "Quarantined" THEN [shard EXCEPT ![s].step = "gone"]
    ELSE [shard EXCEPT ![s].step = "gone", ![s].core = "Closed",
             ![s].ref = FALSE,
             ![s].memory = IF @ = "own" THEN "freed" ELSE @]

(* release_external_runtime_resources: what a workload may address is      *)
(* handed to the service, the rest is freed; refused once quarantined.     *)
Released(s) ==
    IF shard[s].core = "Quarantined" THEN [shard EXCEPT ![s].step = "gone"]
    ELSE [shard EXCEPT ![s].step = "gone", ![s].core = "Closed",
             ![s].ref = FALSE,
             ![s].memory = CASE @ # "own" -> @
                             [] shard[s].ref /\ service.workload -> "retired"
                             [] OTHER -> "freed"]

Release(s) ==
    /\ MutexFree
    /\ slots' = IF shard[s].core = "Quarantined" THEN slots
                ELSE slots \ {GroupOf[s]}
    /\ Settle(Released(s), service)
    /\ UNCHANGED <<kernel, word>>

(* No thread for the tiering worker: the object goes, its pointer stays in *)
(* service.servers.                                                        *)
ThreadFails(s) == shard[s].step = "prepared" /\ Release(s)

(* launch_external_runtime asks for the state before it has the mutex.  A  *)
(* shard that a peer quarantined is refused there, or a moment later when  *)
(* it finds its pointer to the service moved away.                         *)
LaunchEnters(s) ==
    /\ shard[s].step = "prepared"
    /\ IF shard[s].core = "Constructing"
       THEN shard' = [shard EXCEPT ![s].step = "launching"]
       ELSE shard' = [shard EXCEPT ![s].step = "gone"]
    /\ UNCHANGED <<service, slots, kernel, word>>

(* Nothing to launch yet, or a peer launched.                              *)
LaunchReturns(s) ==
    /\ shard[s].step = "launching" /\ MutexFree
    /\ ~service.prepared \/ (service.launched /\ ~service.failed)
    /\ shard' = [shard EXCEPT ![s].step = "open", ![s].core = "Ready"]
    /\ UNCHANGED <<service, slots, kernel, word>>

(* A peer was closed between the compilation and this launch.              *)
LaunchRefused(s) ==
    /\ shard[s].step = "launching" /\ service.prepared /\ service.failed
    /\ Release(s)

Launches(s) ==
    /\ shard[s].step = "launching" /\ MutexFree
    /\ service.prepared /\ ~service.failed /\ ~service.launched
    /\ service.workload

KernelsOn(some) ==
    kernel' = [g \in Groups |->
        IF \E t \in some : GroupOf[t] = g
        THEN CHOOSE t \in some : GroupOf[t] = g ELSE kernel[g]]

Launch(s) ==
    /\ Launches(s)
    /\ KernelsOn(service.servers)
    /\ service' = [service EXCEPT !.launched = TRUE]
    /\ shard' = [t \in Shards |->
           IF t \notin service.servers THEN shard[t]
           ELSE [shard[t] EXCEPT !.started = TRUE, !.running = TRUE,
                    !.step = IF t = s THEN "open" ELSE @,
                    !.core = IF t = s THEN "Ready" ELSE @]]
    /\ UNCHANGED <<slots, word>>

(* A mutant: the quarantine does not keep the service.                     *)
QuarantinedAlone(o) ==
    [o EXCEPT !.core = "Quarantined", !.running = FALSE,
        !.memory = IF @ = "own" THEN "quarantined" ELSE @, !.ref = FALSE]

(* quarantine_failed_teardown: once, while the holder is still there.      *)
Quarantined(o) ==
    [o EXCEPT !.core = "Quarantined", !.running = FALSE,
        !.memory = IF @ = "own" THEN "quarantined" ELSE @,
        !.kept = IF o.memory = "own" THEN o.ref ELSE @,
        !.ref = IF o.memory = "own" THEN FALSE ELSE @]

(* The enqueue throws and any part of the workload may have been sent:     *)
(* every shard is quarantined, whatever its own thread is doing.           *)
LaunchOutcomeUnknown(s) ==
    /\ Launches(s)
    /\ \E sent \in SUBSET service.servers : KernelsOn(sent)
    /\ shard' = [t \in Shards |->
           IF t \notin service.servers THEN shard[t]
           ELSE [Quarantined(shard[t]) EXCEPT !.started = TRUE,
                    !.step = IF t = s THEN "gone" ELSE @]]
    /\ UNCHANGED <<service, slots, word>>

----------------------------------------------------------------------------
(* Close and destruction.                                                  *)

Closable(s) == shard[s].step \in {"open", "closing"}

(* Nothing to stop: a peer's failed launch quarantined this shard, or took *)
(* the service from it.                                                    *)
TerminateNothing(s) ==
    /\ Closable(s)
    /\ shard[s].core = "Quarantined" \/ ~shard[s].ref
    /\ shard' = [shard EXCEPT ![s].step = "terminated",
           ![s].core = IF @ = "Quarantined" THEN @ ELSE "Closing"]
    /\ UNCHANGED <<service, slots, kernel, word>>

(* Before the launch: the program holds this shard's kernels and is given  *)
(* up.                                                                     *)
TerminateUnlaunched(s) ==
    /\ Closable(s) /\ MutexFree
    /\ shard[s].core # "Quarantined" /\ shard[s].ref /\ ~service.launched
    /\ shard' = [shard EXCEPT ![s].step = "terminated",
                              ![s].core = "Closing", ![s].running = FALSE]
    /\ service' = [service EXCEPT !.failed = TRUE, !.servers = @ \ {s}]
    /\ UNCHANGED <<slots, kernel, word>>

(* A mutant: a retried terminate() counts the shard again.                 *)
SignalsAgain(s) == service.terminated + 1

(* terminated_servers after this shard asked its kernel to stop, once      *)
(* however often terminate() is retried.                                   *)
Signals(s) == service.terminated + (IF shard[s].signalled THEN 0 ELSE 1)

(* The kernel is told to stop; the last shard waits for all of them.       *)
Terminate(s) ==
    /\ Closable(s) /\ MutexFree
    /\ shard[s].core # "Quarantined" /\ shard[s].ref /\ service.launched
    /\ word' = IF shard[s].signalled THEN word
               ELSE [word EXCEPT ![GroupOf[s]] = "stop"]
    /\ LET count == Signals(s)
       IN  /\ service' = [service EXCEPT !.terminated = count]
           /\ shard' = [shard EXCEPT ![s].core = "Closing",
                  ![s].signalled = TRUE, ![s].running = FALSE,
                  ![s].step = IF count = ShardCount /\ service.workload
                              THEN "finishing" ELSE "terminated"]
    /\ UNCHANGED <<slots, kernel>>

(* The workload has ended: it is destroyed, and what was retired with it.  *)
Finished(s) ==
    /\ shard[s].step = "finishing"
    /\ \A g \in Groups : kernel[g] = None
    /\ Settle([shard EXCEPT ![s].step = "terminated"],
              [service EXCEPT !.workload = FALSE, !.launched = FALSE])
    /\ UNCHANGED <<slots, kernel, word>>

(* Finish() throws, and the close may be retried.                          *)
FinishThrows(s) ==
    /\ shard[s].step = "finishing"
    /\ shard' = [shard EXCEPT ![s].step = "closing"]
    /\ UNCHANGED <<service, slots, kernel, word>>

(* ~ServerDeviceRuntime after terminate(); a quarantined shard stays one.  *)
Destroy(s) == shard[s].step = "terminated" /\ Release(s)

(* ~ServerDeviceRuntime without it: a drain, a termination or the worker   *)
(* failed.  None of them can before the launch: the drain and the poll     *)
(* return at once and the termination has nothing to signal.               *)
Quarantine(s) ==
    /\ Closable(s)
    /\ \/ shard[s].running
       \/ shard[s].core \in {"Closing", "Quarantined"}
    /\ shard' = [shard EXCEPT ![s] =
           [Quarantined(shard[s]) EXCEPT !.step = "gone"]]
    /\ UNCHANGED <<service, slots, kernel, word>>

----------------------------------------------------------------------------
(* A persistent kernel polls its termination word in every wait.           *)
KernelEnds(g) ==
    /\ kernel[g] # None /\ word[g] = "stop"
    /\ kernel' = [kernel EXCEPT ![g] = None]
    /\ UNCHANGED <<shard, service, slots, word>>

Construction(s) ==
    \/ Construct(s) \/ Register(s) \/ RegisterFails(s) \/ LaunchEnters(s)
    \/ LaunchReturns(s) \/ LaunchRefused(s) \/ Launch(s)
    \/ LaunchOutcomeUnknown(s)

Teardown(s) ==
    \/ TerminateNothing(s) \/ TerminateUnlaunched(s) \/ Terminate(s)
    \/ Finished(s) \/ FinishThrows(s) \/ Destroy(s) \/ Quarantine(s)

Next ==
    \/ \E s \in Shards : Construction(s) \/ Teardown(s)
    \/ \E g \in Groups : KernelEnds(g)

Spec == Init /\ [][Next]_vars

(* The same with threads that cannot be created.                           *)
NextWithThreadFailures == Next \/ \E s \in Shards : ThreadFails(s)
SpecWithThreadFailures == Init /\ [][NextWithThreadFailures]_vars

----------------------------------------------------------------------------
(* Types; terminated_servers never exceeds shard_count, which              *)
(* terminate_server_kernel asserts, however often a close is retried.      *)
TypeOK ==
    /\ shard \in [Shards -> [
           step : {"new", "reserved", "prepared", "launching", "open",
                   "closing", "finishing", "terminated", "gone"},
           core : {"Constructing", "Ready", "Closing", "Closed",
                   "Quarantined"},
           memory : {"none", "own", "retired", "quarantined", "freed"},
           ref : BOOLEAN, kept : BOOLEAN, running : BOOLEAN,
           started : BOOLEAN, signalled : BOOLEAN]]
    /\ service \in [servers : SUBSET Shards, terminated : 0..ShardCount,
           prepared : BOOLEAN, failed : BOOLEAN, workload : BOOLEAN,
           launched : BOOLEAN]
    /\ slots \subseteq Groups
    /\ kernel \in [Groups -> Shards \union {None}]
    /\ word \in [Groups -> {"run", "stop"}]

(* As long as a kernel of the shared workload may run, the workload object *)
(* exists and the memory of the shard whose kernel it is is not freed, be  *)
(* that shard closed, destroyed or quarantined by a peer                   *)
(* (preserve_static_intermesh_kernel_resources, quarantine_failed_teardown *)
(* and the loop over all shards of a failed launch).                       *)
KernelMemoryIsHeld ==
    \A g \in Groups : kernel[g] # None =>
        /\ service.workload
        /\ shard[kernel[g]].memory \in {"own", "retired", "quarantined"}

(* A shard joins a program only while no kernel of an earlier program can  *)
(* run on any core of the endpoint: the weak registry must not let go of a *)
(* service before its workload has ended, and must not append to it.       *)
ProgramIsFresh ==
    [][ service'.servers \ service.servers # {} =>
        \A g \in Groups : kernel[g] = None ]_vars

(* "shared KVM MUX launch expected {} live shards": a launch writes into   *)
(* every object of service.servers, so all of them must still exist.       *)
LaunchTouchesLiveShards ==
    [][ service'.launched /\ ~service.launched =>
        \A t \in service.servers : shard[t].step # "gone" ]_vars
============================================================================
