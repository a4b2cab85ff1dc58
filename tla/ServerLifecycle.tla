-------------------------- MODULE ServerLifecycle --------------------------
(***************************************************************************)
(* Construction, close, quarantine and destruction of kvcache_manager's    *)
(* Server (server_lifecycle.cpp) over its device runtime                   *)
(* (server_device_runtime.cpp) and runtime core (server.cpp), with the     *)
(* tiering worker thread and the persistent device kernel they stop.       *)
(*                                                                         *)
(* A Server claims a core (submesh, worker group) in two registries: the   *)
(* outer active_servers and the inner active_slots.  Closing it drains the *)
(* issued PUTs, terminates the kernel, stops and joins the worker, destroys*)
(* the host values and only then frees what the kernel and the worker      *)
(* address.  Whenever one of those steps fails the runtime is quarantined: *)
(* its memory is kept, and its inner slot with it, for the process' life.  *)
(*                                                                         *)
(* Any thread may call close(), concurrently with others; the destructor   *)
(* runs alone.  A request of the kernel is reduced to its kind and to the  *)
(* steps at which the worker waits or throws; HostPool and Tiering model   *)
(* what it moves.  The sharing of one kernel by several worker groups      *)
(* (static inter-mesh MUX) is not part of this module.                     *)
(***************************************************************************)
EXTENDS Naturals, FiniteSets

CONSTANTS
    Servers,    \* Server objects the application may ever construct
    Cores,      \* (server_submesh, worker_group) pairs: the registry keys
    CoreOf,     \* the core each Server is constructed on
    Callers,    \* application threads
    None,       \* no thread, no Server
    MaxPuts,    \* bound on the PUTs issued to one Server
    MaxCloses   \* bound on the calls of close() on one Server

ASSUME ConstantsAssumption ==
    /\ CoreOf \in [Servers -> Cores]
    /\ None \notin Callers \cup Servers
    /\ MaxPuts \in Nat
    /\ MaxCloses \in Nat

VARIABLES
    srv,    \* every Server with its runtime, core, kernel and worker
    call    \* the operation each application thread is in

vars == <<srv, call>>

Lives == {"Unborn", "Constructing", "Failed", "Ready", "Closing",
          "Quarantined", "Closed", "Destroyed"}
Runtimes == {"none", "Prepared", "Running", "Closing", "Terminated", "Quarantined"}
RuntimeCores == {"none", "Constructing", "Ready", "Closing", "Quarantined", "Closed"}
WorkerSteps == {"none", "gated", "poll", "begin", "wait", "complete", "raised", "exited"}
Requests == {"none", "write", "remove", "serve", "stored"}
CallSteps == {"idle", "create", "launch", "unwind", "lock", "drain", "check",
              "terminate", "finish", "stop", "force", "join", "reset"}

\* memory: the L1, DRAM and host buffers the kernel and the worker address.
Server ==
    [life : Lives,                   \* Server::Impl::lifecycle_state_
     registered : BOOLEAN,           \* member of the outer active_servers
     mutex : Callers \cup {None},    \* holder of lifecycle_mutex_
     runtime : Runtimes,             \* ServerDeviceRuntime::state_
     core : RuntimeCores,            \* ServerRuntimeCore::lifecycle_state_
     slot : BOOLEAN,                 \* member of the inner active_slots
     memory : {"none", "held", "kept", "freed"},
     kernel : {"off", "running", "stopped"},
     signalled : BOOLEAN,            \* the termination word of the kernel
     workload : BOOLEAN,             \* server_workload_running_
     worker : WorkerSteps,
     request : Requests,             \* the host request channel
     failed : BOOLEAN,               \* tiering_worker_failed_
     stop : BOOLEAN,                 \* worker_stop_
     cancelled : BOOLEAN,            \* external_host_io_cancelled_
     leases : 0..MaxPuts,            \* external_host_leases_
     issued : 0..MaxPuts,            \* commit_issued
     done : 0..MaxPuts,              \* commit_done
     target : 0..MaxPuts,            \* what the last drain waited for
     closes : 0..MaxCloses]           \* calls of close()

\* attempt: 0 for close(), 1 and 2 for the two closes of the destructor, 3
\* for its force_quarantine; forced: inside force_quarantine.
Call == [step : CallSteps, server : Servers \cup {None}, attempt : 0..3,
         forced : BOOLEAN]

TypeOK ==
    /\ srv \in [Servers -> Server]
    /\ call \in [Callers -> Call]

Unborn ==
    [life |-> "Unborn", registered |-> FALSE, mutex |-> None,
     runtime |-> "none", core |-> "none", slot |-> FALSE, memory |-> "none",
     kernel |-> "off", signalled |-> FALSE, workload |-> FALSE,
     worker |-> "none", request |-> "none", failed |-> FALSE, stop |-> FALSE,
     cancelled |-> FALSE, leases |-> 0, issued |-> 0, done |-> 0,
     target |-> 0, closes |-> 0]

Idle == [step |-> "idle", server |-> None, attempt |-> 0, forced |-> FALSE]

Init ==
    /\ srv = [s \in Servers |-> Unborn]
    /\ call = [c \in Callers |-> Idle]

----------------------------------------------------------------------------
(* The constructor.                                                        *)

SameCore(s) == {t \in Servers : CoreOf[t] = CoreOf[s]}

At(c, step) == call[c].step = step
Goto(c, step) == call' = [call EXCEPT ![c].step = step]
Enter(c, s, step, n) ==
    call' = [call EXCEPT ![c] = [step |-> step, server |-> s, attempt |-> n,
                                 forced |-> FALSE]]
Leave(c) == call' = [call EXCEPT ![c] = Idle]

\* The thread that constructs or destroys a Server, or closes it.
Inside(s) == {c \in Callers : call[c].step # "idle" /\ call[c].server = s}

\* A refused registration throws before the object has any state.
Register(c, s) ==
    /\ At(c, "idle")
    /\ srv[s].life = "Unborn"
    /\ \A t \in SameCore(s) : ~srv[t].registered
    /\ srv' = [srv EXCEPT ![s].life = "Constructing", ![s].registered = TRUE]
    /\ Enter(c, s, "create", 0)

\* The inner registry refuses a core that a quarantined runtime still holds,
\* or that a failed constructor has not released yet.
SlotFree(s) == \A t \in SameCore(s) : ~srv[t].slot

\* Create the runtime (claim the slot, allocate) and the gated worker.
CreateRuntime(c) ==
    LET s == call[c].server IN
    /\ At(c, "create")
    /\ SlotFree(s)
    /\ srv' = [srv EXCEPT ![s].slot = TRUE, ![s].memory = "held",
                          ![s].core = "Constructing", ![s].runtime = "Prepared",
                          ![s].worker = "gated"]
    /\ Goto(c, "launch")

\* The catch block of the constructor; the members, runtime_ among them, are
\* destroyed only after it.
Abandoned(r) == [r EXCEPT !.registered = FALSE, !.life = "Failed"]

\* Mutant of CreateFails: the catch block erases the slot it did not claim.
CreateFailsErasingSlot(c) ==
    LET s == call[c].server IN
    /\ At(c, "create")
    /\ srv' = [t \in Servers |->
                 IF t = s THEN Abandoned(srv[t])
                 ELSE IF t \in SameCore(s) THEN [srv[t] EXCEPT !.slot = FALSE]
                 ELSE srv[t]]
    /\ Goto(c, "unwind")

\* create_server_device_runtime throws: the slot is taken, or an allocation
\* failed and the slot claimed for it was given back.
CreateFails(c) ==
    LET s == call[c].server IN
    /\ At(c, "create")
    /\ srv' = [srv EXCEPT ![s] = Abandoned(@)]
    /\ Goto(c, "unwind")

\* The thread cannot be constructed: the runtime stays prepared.
ThreadFails(c) ==
    LET s == call[c].server IN
    /\ At(c, "create")
    /\ SlotFree(s)
    /\ srv' = [srv EXCEPT ![s] = [Abandoned(@) EXCEPT
                 !.slot = TRUE, !.memory = "held", !.core = "Constructing",
                 !.runtime = "Prepared"]]
    /\ Goto(c, "unwind")

Launch(c) ==
    LET s == call[c].server IN
    /\ At(c, "launch")
    /\ srv' = [srv EXCEPT ![s].kernel = "running", ![s].workload = TRUE,
                          ![s].core = "Ready", ![s].runtime = "Running",
                          ![s].worker = "poll", ![s].life = "Ready"]
    /\ Leave(c)

\* Nothing reached the device.  The gate cancels the worker, which is joined.
LaunchFails(c) ==
    LET s == call[c].server IN
    /\ At(c, "launch")
    /\ srv' = [srv EXCEPT ![s] = [Abandoned(@) EXCEPT !.worker = "exited"]]
    /\ Goto(c, "unwind")

\* Mutant of Quarantined: the inner slot is erased with the object.
QuarantinedFreeingSlot(r) ==
    [r EXCEPT !.cancelled = TRUE, !.workload = FALSE, !.leases = 0,
              !.core = "Quarantined", !.memory = "kept", !.slot = FALSE]

\* quarantine_failed_teardown: the emergency holder takes every buffer.
Quarantined(r) ==
    [r EXCEPT !.cancelled = TRUE, !.workload = FALSE, !.leases = 0,
              !.core = "Quarantined", !.memory = "kept"]

\* The enqueue threw, or a step after it: the kernel may be running.
LaunchOutcomeUnknown(c) ==
    LET s == call[c].server IN
    /\ At(c, "launch")
    /\ \E kernel \in {"off", "running"} :
         srv' = [srv EXCEPT ![s] = [Abandoned(@) EXCEPT
                   !.worker = "exited", !.kernel = kernel, !.runtime = "Quarantined",
                   !.core = "Quarantined", !.memory = "kept"]]
    /\ Goto(c, "unwind")

\* release_external_runtime_resources refuses while mapped leases exist.
Released(r) ==
    [r EXCEPT !.memory = "freed", !.slot = FALSE, !.core = "Closed"]

Releasable(r) ==
    /\ r.core \in {"Constructing", "Closing"}
    /\ r.leases = 0

\* Mutant of Reset: a runtime whose termination failed is released.
ResetFreesClosing(r) ==
    [(IF r.runtime \in {"Prepared", "Closing", "Terminated"} /\ Releasable(r)
        THEN Released(r)
      ELSE IF r.runtime \in {"none", "Quarantined"}
        THEN r
      ELSE Quarantined(r)) EXCEPT !.runtime = "none"]

\* ~ServerDeviceRuntime.
Reset(r) ==
    [(IF r.runtime \in {"Prepared", "Terminated"} /\ Releasable(r)
        THEN Released(r)
      ELSE IF r.runtime \in {"none", "Quarantined"}
        THEN r
      ELSE Quarantined(r)) EXCEPT !.runtime = "none"]

Unwind(c) ==
    LET s == call[c].server IN
    /\ At(c, "unwind")
    /\ srv' = [srv EXCEPT ![s] = Reset(@)]
    /\ Leave(c)

----------------------------------------------------------------------------
(* Clients and the persistent kernel.                                      *)

Serving(s) == srv[s].kernel = "running"

\* A PUT is accepted and counted in commit_issued.  A Server whose constructor
\* failed has handed out no descriptor.
IssuePut(s) ==
    /\ Serving(s)
    /\ srv[s].life # "Failed"
    /\ ~srv[s].signalled
    /\ srv[s].issued < MaxPuts
    /\ srv' = [srv EXCEPT ![s].issued = @ + 1]
    /\ UNCHANGED call

\* The kernel posts one host request at a time: the write-through of an
\* uncommitted PUT, or the removal or the serving of a stored value.
PostRequest(s) ==
    /\ Serving(s)
    /\ srv[s].request = "none"
    /\ \/ /\ srv[s].done < srv[s].issued
          /\ srv' = [srv EXCEPT ![s].request = "write"]
       \/ /\ srv[s].leases > 0
          /\ \E kind \in {"remove", "serve"} :
               srv' = [srv EXCEPT ![s].request = kind]
    /\ UNCHANGED call

\* Mutant of Commit: the channel is not emptied.
CommitKeepingRequest(s) ==
    /\ Serving(s)
    /\ srv[s].request = "stored"
    /\ srv' = [srv EXCEPT ![s].done = @ + 1]
    /\ UNCHANGED call

\* A write-through reported as processed advances commit_done.
Commit(s) ==
    /\ Serving(s)
    /\ srv[s].request = "stored"
    /\ srv' = [srv EXCEPT ![s].request = "none", ![s].done = @ + 1]
    /\ UNCHANGED call

\* Every wait of the kernel polls the termination word.
KernelStops(s) ==
    /\ Serving(s)
    /\ srv[s].signalled
    /\ srv' = [srv EXCEPT ![s].kernel = "stopped"]
    /\ UNCHANGED call

----------------------------------------------------------------------------
(* The tiering worker.                                                     *)

Worker(s, from, to) ==
    /\ srv[s].worker = from
    /\ srv' = [srv EXCEPT ![s].worker = to]
    /\ UNCHANGED call

\* Polling returns nothing, without a look at the device, once the runtime is
\* terminated, host I/O is cancelled or the workload has stopped.
Polls(r) == r.runtime # "Terminated" /\ ~r.cancelled /\ r.workload

WorkerPolls(s) ==
    /\ ~srv[s].stop
    /\ Polls(srv[s])
    /\ srv[s].request \in {"write", "remove", "serve"}
    /\ Worker(s, "poll", "begin")

WorkerLeaves(s) ==
    /\ srv[s].stop
    /\ Worker(s, "poll", "exited")

\* receive_value, supply_value and complete_host_request throw in any other
\* state of the runtime.
Usable(r) == r.runtime \in {"Running", "Closing"}

\* A write-through first drops the previous value of its slot, if there is
\* one.  A removal drops its value and completes.  A serve holds the lease.
WorkerBegins(s) ==
    LET r == srv[s] IN
    /\ r.worker = "begin"
    /\ \E left \in {l \in 0..MaxPuts : l = r.leases \/ l + 1 = r.leases} :
         /\ r.request = "serve" => left = r.leases
         /\ srv' = [srv EXCEPT ![s].leases = left,
                               ![s].worker = IF r.request = "remove" THEN "complete"
                                             ELSE IF Usable(r) THEN "wait"
                                             ELSE "raised"]
    /\ UNCHANGED call

\* The kernel answered: a pushed value becomes a lease.
WorkerAnswered(s) ==
    LET r == srv[s]
        pushed == IF r.request = "write" THEN 1 ELSE 0
    IN
    /\ r.worker = "wait"
    /\ Serving(s)
    /\ ~r.cancelled
    /\ r.leases + pushed <= MaxPuts
    /\ srv' = [srv EXCEPT ![s].leases = @ + pushed, ![s].worker = "complete"]
    /\ UNCHANGED call

\* Cancellation ends the wait; a reserved extent is given back.
WorkerCancelled(s) ==
    /\ srv[s].cancelled
    /\ Worker(s, "wait", "raised")

\* complete_host_request reports the request as processed.
WorkerCompletes(s) ==
    LET r == srv[s] IN
    /\ r.worker = "complete"
    /\ srv' = IF Usable(r)
                THEN [srv EXCEPT ![s].worker = "poll",
                        ![s].request = IF @ = "write" THEN "stored" ELSE "none"]
                ELSE [srv EXCEPT ![s].worker = "raised"]
    /\ UNCHANGED call

\* A device access, or a check of the request, throws.
WorkerFails(s) ==
    /\ srv[s].runtime # "Terminated"
    /\ \E from \in {"poll", "begin", "wait", "complete"} :
         /\ from = "poll" => ~srv[s].stop /\ Polls(srv[s])
         /\ Worker(s, from, "raised")

\* The catch block of the loop: an exception after the stop is expected.
WorkerExits(s) ==
    /\ srv[s].worker = "raised"
    /\ srv' = [srv EXCEPT ![s].worker = "exited",
                          ![s].failed = @ \/ ~srv[s].stop]
    /\ UNCHANGED call

WorkerNext(s) ==
    \/ WorkerPolls(s) \/ WorkerLeaves(s) \/ WorkerBegins(s)
    \/ WorkerCancelled(s) \/ WorkerCompletes(s) \/ WorkerExits(s)

----------------------------------------------------------------------------
(* close() and the destructor.                                             *)

Closable(s) == srv[s].life \in {"Ready", "Closing", "Quarantined", "Closed"}

\* A thread calls close(); the destructor tolerates no concurrent call.
Close(c, s) ==
    /\ At(c, "idle")
    /\ Closable(s)
    /\ \A d \in Inside(s) : call[d].attempt = 0
    /\ srv[s].closes < MaxCloses
    /\ srv' = [srv EXCEPT ![s].closes = @ + 1]
    /\ Enter(c, s, "lock", 0)

Destroy(c, s) ==
    /\ At(c, "idle")
    /\ Closable(s)
    /\ Inside(s) = {}
    /\ Enter(c, s, "lock", 1)
    /\ UNCHANGED srv

\* Leaving close() or force_quarantine() releases the mutex.  The destructor
\* closes once more after a failure and then forces the quarantine; once
\* either has returned, the object is gone.
Unlocked(c, r) == IF r.mutex = c THEN [r EXCEPT !.mutex = None] ELSE r

Returns(c, r) ==
    LET s == call[c].server IN
    /\ srv' = [srv EXCEPT ![s] =
                 IF call[c].attempt = 0 THEN Unlocked(c, r)
                 ELSE [Unlocked(c, r) EXCEPT !.life = "Destroyed"]]
    /\ Leave(c)

Throws(c, r) ==
    LET s == call[c].server
        n == call[c].attempt
    IN /\ srv' = [srv EXCEPT ![s] = Unlocked(c, r)]
       /\ \/ n = 0 /\ Leave(c)
          \/ n = 1 /\ Enter(c, s, "lock", 2)
          \/ n = 2 /\ Enter(c, s, "force", 3)

Over(s) == srv[s].life \in {"Closed", "Quarantined"}

Unheld(s) == srv[s].mutex = None

CloseReturnsAtOnce(c) ==
    LET s == call[c].server IN
    /\ At(c, "lock")
    /\ Unheld(s)
    /\ Over(s)
    /\ Returns(c, srv[s])

\* The first close, or the first after a failed drain, drains the PUTs; the
\* target is the number issued when it starts.
CloseStarts(c) ==
    LET s == call[c].server
        r == srv[s]
    IN
    /\ At(c, "lock")
    /\ Unheld(s)
    /\ r.life \in {"Ready", "Closing"}
    /\ srv' = [srv EXCEPT ![s].mutex = c, ![s].life = "Closing",
                          ![s].target = IF r.life = "Ready" /\ ~r.failed
                                        THEN r.issued ELSE @]
    /\ Goto(c, IF r.life = "Ready" /\ ~r.failed THEN "drain" ELSE "check")

\* Mutant of DrainCompletes: one PUT short.
DrainCompletesOneShort(c) ==
    /\ At(c, "drain")
    /\ srv[call[c].server].done + 1 >= srv[call[c].server].target
    /\ Goto(c, "check")
    /\ UNCHANGED srv

DrainCompletes(c) ==
    /\ At(c, "drain")
    /\ srv[call[c].server].done >= srv[call[c].server].target
    /\ Goto(c, "check")
    /\ UNCHANGED srv

\* Mutant of ReadyAgain: the Server stays Closing, as after a later failure.
StillClosing(r) == r

\* The drain times out, or a device access throws.  Unless the worker is the
\* culprit the Server is ready again, so that the next close() drains again.
ReadyAgain(r) == IF r.failed THEN r ELSE [r EXCEPT !.life = "Ready"]

DrainThrows(c) ==
    /\ At(c, "drain")
    /\ Throws(c, ReadyAgain(srv[call[c].server]))

\* With a failed worker close() lets go of the mutex and quarantines.
CloseChecksWorker(c) ==
    LET s == call[c].server IN
    /\ At(c, "check")
    /\ IF srv[s].failed
         THEN /\ srv' = [srv EXCEPT ![s].mutex = None]
              /\ Goto(c, "force")
         ELSE /\ UNCHANGED srv
              /\ Goto(c, "terminate")

\* Signal the kernel, unless the write fails, and wait for it.  An earlier
\* close() may have failed after doing so.
Terminate(c) ==
    LET s == call[c].server IN
    /\ At(c, "terminate")
    /\ \E written \in BOOLEAN :
         srv' = [srv EXCEPT ![s].runtime = "Closing", ![s].core = "Closing",
                            ![s].signalled = @ \/ written]
    /\ Goto(c, "finish")

KernelStopped(s) == srv[s].kernel = "stopped"

Finishes(c) ==
    LET s == call[c].server IN
    /\ At(c, "finish")
    /\ KernelStopped(s)
    /\ srv' = [srv EXCEPT ![s].workload = FALSE, ![s].cancelled = TRUE,
                          ![s].runtime = "Terminated"]
    /\ Goto(c, "stop")

\* Writing the signal or waiting throws, or a step after the wait does, when
\* the workload is already marked as stopped.  The Server stays Closing.
FinishThrows(c) ==
    LET s == call[c].server IN
    /\ At(c, "finish")
    /\ \E running \in {TRUE, ~KernelStopped(s)} :
         Throws(c, [srv[s] EXCEPT !.workload = @ /\ running])

\* worker_stop_, then cancel_host_io, then join.
StopWorker(c) ==
    LET s == call[c].server IN
    /\ At(c, "stop")
    /\ srv' = [srv EXCEPT ![s].stop = TRUE, ![s].cancelled = TRUE]
    /\ Goto(c, "join")

ForceReturns(c) ==
    LET s == call[c].server IN
    /\ At(c, "force")
    /\ Unheld(s)
    /\ Over(s)
    /\ IF call[c].attempt = 3 THEN Returns(c, srv[s]) ELSE Throws(c, srv[s])

\* Mutant of ForceQuarantine: host I/O is not cancelled before the join.
ForceQuarantineWithoutCancel(c) ==
    LET s == call[c].server IN
    /\ At(c, "force")
    /\ Unheld(s)
    /\ ~Over(s)
    /\ srv' = [srv EXCEPT ![s].mutex = c, ![s].stop = TRUE]
    /\ call' = [call EXCEPT ![c].step = "join", ![c].forced = TRUE]

ForceQuarantine(c) ==
    LET s == call[c].server IN
    /\ At(c, "force")
    /\ Unheld(s)
    /\ ~Over(s)
    /\ srv' = [srv EXCEPT ![s].mutex = c, ![s].stop = TRUE, ![s].cancelled = TRUE]
    /\ call' = [call EXCEPT ![c].step = "join", ![c].forced = TRUE]

\* Mutant of Joinable: the thread is detached.
Detached(s) == srv[s].worker \in WorkerSteps

\* Joined, the worker leaves nobody to use the host values: they are cleared.
Joinable(s) == srv[s].worker = "exited"

JoinAndClear(c) ==
    LET s == call[c].server IN
    /\ At(c, "join")
    /\ Joinable(s)
    /\ srv' = [srv EXCEPT ![s].leases = 0]
    /\ Goto(c, "reset")

\* runtime_.reset(), the final state, unregister_server.
Ended(r, life) == [Reset(r) EXCEPT !.life = life, !.registered = FALSE]

ResetRuntime(c) ==
    LET s == call[c].server IN
    /\ At(c, "reset")
    /\ \/ /\ ~call[c].forced
          /\ Returns(c, Ended(srv[s], "Closed"))
       \/ /\ call[c].forced
          /\ IF call[c].attempt = 3
               THEN Returns(c, Ended(srv[s], "Quarantined"))
               ELSE Throws(c, Ended(srv[s], "Quarantined"))

Progress(c) ==
    \/ CreateRuntime(c) \/ CreateFails(c) \/ ThreadFails(c)
    \/ Launch(c) \/ LaunchFails(c) \/ LaunchOutcomeUnknown(c) \/ Unwind(c)
    \/ CloseReturnsAtOnce(c) \/ CloseStarts(c) \/ DrainCompletes(c) \/ DrainThrows(c)
    \/ CloseChecksWorker(c) \/ Terminate(c) \/ Finishes(c) \/ FinishThrows(c)
    \/ StopWorker(c) \/ ForceReturns(c) \/ ForceQuarantine(c)
    \/ JoinAndClear(c) \/ ResetRuntime(c)

Next ==
    \/ \E c \in Callers :
         \/ Progress(c)
         \/ \E s \in Servers : Register(c, s) \/ Close(c, s) \/ Destroy(c, s)
    \/ \E s \in Servers :
         \/ IssuePut(s) \/ PostRequest(s) \/ Commit(s) \/ KernelStops(s)
         \/ WorkerNext(s) \/ WorkerAnswered(s) \/ WorkerFails(s)

Spec == Init /\ [][Next]_vars

\* The threads run, and the kernel reacts to its termination word.  That the
\* kernel ever answers the worker or commits a PUT is not assumed.
FairSpec ==
    /\ Spec
    /\ \A c \in Callers : WF_vars(Progress(c))
    /\ \A s \in Servers : WF_vars(WorkerNext(s)) /\ WF_vars(KernelStops(s))

----------------------------------------------------------------------------
(* Properties.                                                             *)

\* Whatever order of failures and retries led to it: what was freed is out of
\* reach.  No kernel that may still run addresses it, the worker is gone and no
\* lease points into it (release_external_runtime_resources).
FreedMeansUnreachable ==
    \A s \in Servers : srv[s].memory = "freed" =>
        /\ srv[s].kernel # "running"
        /\ srv[s].worker \in {"none", "exited"}
        /\ srv[s].leases = 0

\* Two Servers never own memory of one core at a time.  A quarantined runtime
\* keeps its inner slot although the outer registry has let the core go, so
\* a later Server cannot be placed under a kernel that may still run.
OneTenantPerCore ==
    \A s, t \in Servers :
        /\ s # t
        /\ CoreOf[s] = CoreOf[t]
        /\ srv[s].memory \in {"held", "kept"}
        => srv[t].memory \notin {"held", "kept"}

\* The worker reaches the runtime through a plain pointer: it has left its
\* loop before any path, close() or quarantine, destroys the runtime.
WorkerHasRuntime ==
    \A s \in Servers :
        srv[s].worker \in {"poll", "begin", "wait", "complete", "raised"}
            => srv[s].runtime # "none" /\ srv[s].memory = "held"

\* close() that ends in Closed has waited for every PUT that was issued when
\* its drain began, also when earlier attempts timed out or terminate() threw,
\* and leaves the core free for the next Server.
ClosedMeansDrainedAndFree ==
    \A s \in Servers : srv[s].life = "Closed" =>
        /\ srv[s].done >= srv[s].target
        /\ srv[s].memory = "freed"
        /\ ~srv[s].slot
        /\ ~srv[s].registered

\* A quarantine keeps what the kernel may address, and the inner slot, for
\* good: no later call and no destructor takes it back.
QuarantineIsForever ==
    [][\A s \in Servers : srv[s].memory = "kept" =>
         /\ srv'[s].memory = "kept"
         /\ srv'[s].slot]_vars

\* Every constructor, close() and destructor returns or throws: no join waits
\* for a worker that waits for a dead kernel, and no mutex is left behind.
EveryCallReturns ==
    \A c \in Callers : call[c].step # "idle" ~> call[c].step = "idle"
=============================================================================
