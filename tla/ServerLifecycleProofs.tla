----------------------- MODULE ServerLifecycleProofs -----------------------
(***************************************************************************)
(* The safety of ServerLifecycle, for any number of Servers, cores and     *)
(* threads.  The inductive invariant says what a Server's fields are at    *)
(* each point of its life, what a thread may rely on at each step of its   *)
(* call, who may be inside one Server together, and that the inner slots   *)
(* of a core exclude each other.                                           *)
(***************************************************************************)
EXTENDS ServerLifecycle, TLAPS

Live == {"poll", "begin", "wait", "complete", "raised"}
Building == {"create", "launch", "unwind"}
Holding == {"drain", "check", "terminate", "finish", "stop", "join", "reset"}

Drained(r) == r.done >= r.target

\* What holds of a Server at each point of its life.
Shape(r) ==
    /\ r.slot <=> r.memory \in {"held", "kept"}
    /\ r.request \in {"write", "stored"} => r.done < r.issued
    /\ r.life = "Unborn" =>
         r.runtime = "none" /\ r.memory = "none" /\ r.worker = "none"
         /\ r.kernel = "off" /\ r.leases = 0 /\ r.mutex = None
    /\ r.life = "Constructing" =>
         /\ r.kernel = "off" /\ r.leases = 0 /\ r.mutex = None
         /\ \/ r.runtime = "none" /\ r.memory = "none" /\ r.worker = "none"
            \/ /\ r.runtime = "Prepared" /\ r.memory = "held"
               /\ r.core = "Constructing" /\ r.worker = "gated"
    /\ r.life = "Failed" =>
         /\ r.worker \in {"none", "exited"} /\ r.leases = 0
         /\ \/ r.runtime = "none" /\ r.memory \in {"none", "freed"} /\ r.kernel = "off"
            \/ /\ r.runtime = "Prepared" /\ r.memory = "held"
               /\ r.core = "Constructing" /\ r.kernel = "off"
            \/ r.runtime \in {"none", "Quarantined"} /\ r.memory = "kept"
    /\ r.life = "Ready" =>
         /\ r.memory = "held" /\ r.runtime = "Running"
         /\ r.worker \in Live \cup {"exited"}
    /\ r.life = "Closing" =>
         /\ r.memory = "held"
         /\ r.worker \in Live \cup {"exited"}
         /\ r.runtime \in {"Running", "Closing", "Terminated"}
         /\ r.runtime = "Terminated" =>
              r.core = "Closing" /\ r.kernel = "stopped" /\ r.mutex # None
         /\ r.mutex = None => Drained(r) \/ r.failed
    /\ r.life = "Closed" =>
         r.memory = "freed" /\ Drained(r) /\ ~r.registered
    /\ r.life = "Quarantined" => r.memory = "kept"
    /\ r.life \in {"Closed", "Quarantined", "Destroyed"} =>
         /\ r.runtime = "none" /\ r.worker = "exited" /\ r.leases = 0
         /\ \/ r.memory = "freed" /\ r.kernel = "stopped"
            \/ r.memory = "kept"

\* What a thread relies on, step by step.
Step(c, k, r) ==
    /\ k.step = "create" => r.life = "Constructing" /\ r.runtime = "none"
    /\ k.step = "launch" => r.life = "Constructing" /\ r.runtime = "Prepared"
    /\ k.step = "unwind" => r.life = "Failed"
    /\ k.step \in {"lock", "force"} =>
         r.life \in {"Ready", "Closing", "Quarantined", "Closed"}
    /\ k.step \in Holding => r.mutex = c
    /\ k.step = "drain" => r.life = "Closing" /\ r.runtime = "Running"
    /\ k.step \in {"check", "terminate"} =>
         r.life = "Closing" /\ r.runtime \in {"Running", "Closing"}
    /\ k.step = "finish" => r.life = "Closing" /\ r.runtime = "Closing" /\ r.core = "Closing"
    /\ k.step = "stop" => r.life = "Closing" /\ r.runtime = "Terminated"
    /\ k.step = "check" => Drained(r) \/ r.failed
    /\ k.step \in {"terminate", "finish", "stop"} => Drained(r)
    /\ k.step \in {"join", "reset"} =>
         \/ ~k.forced /\ r.life = "Closing" /\ r.runtime = "Terminated" /\ Drained(r)
         \/ k.forced /\ r.life \in {"Ready", "Closing"} /\ r.runtime \in {"Running", "Closing"}
    /\ k.step = "reset" => r.worker = "exited" /\ r.leases = 0
    /\ k.forced => k.step \in {"join", "reset"}

CallOK(c) ==
    call[c].step # "idle" =>
        /\ call[c].server \in Servers
        /\ Step(c, call[c], srv[call[c].server])

\* Only calls of close() share a Server.
Apart(c, d) ==
    /\ c # d
    /\ call[c].step # "idle"
    /\ call[d].step # "idle"
    /\ call[c].server = call[d].server
    => call[c].attempt = 0 /\ call[c].step \notin Building

SlotsExclude ==
    \A s, t \in Servers :
        s # t /\ CoreOf[s] = CoreOf[t] /\ srv[s].slot => ~srv[t].slot

IInv ==
    /\ TypeOK
    /\ \A s \in Servers : Shape(srv[s])
    /\ \A c \in Callers : CallOK(c)
    /\ \A c, d \in Callers : Apart(c, d)
    /\ SlotsExclude

----------------------------------------------------------------------------
(* Frames: what one step must show for the invariant to survive it.        *)

\* What a thread may rely on while the kernel and the worker move.
Keeps(q, r) ==
    /\ r.slot = q.slot /\ r.life = q.life /\ r.runtime = q.runtime
    /\ r.core = q.core /\ r.mutex = q.mutex /\ r.target = q.target
    /\ r.done >= q.done
    /\ q.failed => r.failed
    /\ q.worker = "exited" => r.worker = "exited" /\ r.leases = q.leases

\* A step of the kernel or the worker of s.  It leaves what threads rely on.
LEMMA LocalStep ==
    ASSUME IInv, NEW s \in Servers,
           srv' = [srv EXCEPT ![s] = srv'[s]], UNCHANGED call,
           srv'[s] \in Server, Shape(srv'[s]),
           Keeps(srv[s], srv'[s])
    PROVE  IInv'
<1> USE ConstantsAssumption
<1>1. srv \in [Servers -> Server] /\ call \in [Callers -> Call]
  BY DEF IInv, TypeOK
<1>2. \A t \in Servers : t # s => srv'[t] = srv[t]
  BY <1>1
<1>3. TypeOK'
  BY <1>1 DEF TypeOK
<1>4. \A t \in Servers : Shape(srv'[t])
  BY <1>2 DEF IInv
<1>5. ASSUME NEW c \in Callers PROVE CallOK(c)'
  <2>1. CASE call[c].server # s
    BY <1>2, <2>1 DEF IInv, CallOK
  <2>2. CASE call[c].step = "idle"
    BY <2>2 DEF CallOK
  <2>3. CASE call[c].server = s /\ call[c].step # "idle"
    <3>1. Step(c, call[c], srv[s])
      BY <2>3 DEF IInv, CallOK
    <3>2. srv[s].done \in Nat /\ srv'[s].done \in Nat /\ srv[s].target \in Nat
      BY <1>1 DEF Server
    <3>3. Drained(srv[s]) => Drained(srv'[s])
      BY <3>2 DEF Drained, Keeps
    <3>4. Step(c, call[c], srv'[s])
      BY <3>1, <3>3 DEF Step, Holding, Keeps
    <3> QED
      BY <3>4, <2>3 DEF CallOK
  <2> QED
    BY <2>1, <2>2, <2>3
<1>6. \A c, d \in Callers : Apart(c, d)'
  BY DEF IInv, Apart
<1>7. SlotsExclude'
  BY <1>2 DEF IInv, SlotsExclude, Keeps
<1> QED
  BY <1>3, <1>4, <1>5, <1>6, <1>7 DEF IInv

\* What the other threads inside s must see after a step of c.
OthersOK(c, s) ==
    \A d \in Callers \ {c} :
        call[d].step # "idle" /\ call[d].server = s =>
            /\ Step(d, call[d], srv'[s])
            /\ call'[c].step # "idle" =>
                 /\ call'[c].attempt = 0 /\ call'[c].step \notin Building
                 /\ call[d].attempt = 0 /\ call[d].step \notin Building

\* A step of the thread c, inside s before or after it.
LEMMA CallStep ==
    ASSUME IInv, NEW c \in Callers, NEW s \in Servers,
           srv' = [srv EXCEPT ![s] = srv'[s]],
           srv'[s] \in Server, Shape(srv'[s]),
           call' = [call EXCEPT ![c] = call'[c]], call'[c] \in Call,
           call'[c].step # "idle" =>
               call'[c].server = s /\ Step(c, call'[c], srv'[s]),
           OthersOK(c, s),
           srv'[s].slot => srv[s].slot \/ SlotFree(s)
    PROVE  IInv'
<1> USE ConstantsAssumption
<1>1. srv \in [Servers -> Server] /\ call \in [Callers -> Call]
  BY DEF IInv, TypeOK
<1>2. \A t \in Servers : t # s => srv'[t] = srv[t]
  BY <1>1
<1>3. \A d \in Callers : d # c => call'[d] = call[d]
  BY <1>1
<1>4. TypeOK'
  BY <1>1 DEF TypeOK
<1>5. \A t \in Servers : Shape(srv'[t])
  BY <1>2 DEF IInv
<1>6. ASSUME NEW d \in Callers PROVE CallOK(d)'
  <2>1. CASE d = c
    BY <2>1 DEF CallOK
  <2>2. CASE d # c /\ call[d].server # s
    BY <1>2, <1>3, <2>2 DEF IInv, CallOK
  <2>3. CASE d # c /\ call[d].server = s
    BY <1>3, <2>3 DEF CallOK, OthersOK
  <2> QED
    BY <2>1, <2>2, <2>3
<1>7. ASSUME NEW d \in Callers, NEW e \in Callers PROVE Apart(d, e)'
  <2>1. CASE d # c /\ e # c
    BY <1>3, <2>1 DEF IInv, Apart
  <2>2. CASE d = c
    BY <1>3, <2>2 DEF Apart, OthersOK
  <2>3. CASE e = c
    BY <1>3, <2>3 DEF Apart, OthersOK
  <2> QED
    BY <2>1, <2>2, <2>3
<1>8. SlotsExclude'
  <2> SUFFICES ASSUME NEW t \in Servers, NEW u \in Servers, t # u,
                      CoreOf[t] = CoreOf[u], srv'[t].slot
               PROVE  ~srv'[u].slot
    BY DEF SlotsExclude
  <2>1. CASE t # s /\ u # s
    BY <1>2, <2>1 DEF IInv, SlotsExclude
  <2>2. CASE t = s
    BY <1>2, <2>2 DEF IInv, SlotsExclude, SlotFree, SameCore
  <2>3. CASE u = s
    BY <1>2, <2>3 DEF IInv, SlotsExclude, SlotFree, SameCore
  <2> QED
    BY <2>1, <2>2, <2>3
<1> QED
  BY <1>4, <1>5, <1>6, <1>7, <1>8 DEF IInv

\* While c is inside s, another thread inside s only waits for the mutex,
\* unless it holds the mutex itself.
LEMMA OthersWait ==
    ASSUME IInv, NEW c \in Callers, NEW d \in Callers, NEW s \in Servers,
           call[c].step # "idle", call[c].server = s,
           call[d].step # "idle", call[d].server = s, c # d,
           srv[s].mutex # d
    PROVE  /\ call[d].step \in {"lock", "force"}
           /\ ~call[d].forced
           /\ call[d].attempt = 0
           /\ call[c].step \notin Building
           /\ call[c].attempt = 0
<1>1. Step(d, call[d], srv[s])
  BY DEF IInv, CallOK
<1>2. call[d].step \in CallSteps /\ call[d].forced \in BOOLEAN
  BY DEF IInv, TypeOK, Call
<1>3. Apart(c, d) /\ Apart(d, c)
  BY DEF IInv
<1> QED
  BY <1>1, <1>2, <1>3 DEF Apart, Step, CallSteps, Holding, Building

(* A call that waits for the lifecycle mutex may find any life of a        *)
(* Server.                                                                 *)
LEMMA WaitingStep ==
    ASSUME NEW d, NEW k, NEW r, k.step \in {"lock", "force"}, ~k.forced,
           r.life \in {"Ready", "Closing", "Quarantined", "Closed"}
    PROVE  Step(d, k, r)
BY DEF Step, Holding

----------------------------------------------------------------------------
(* The kernel and the worker.                                              *)

(* The kernel's PUTs, requests, commits and end keep the invariant.        *)
LEMMA KernelStep ==
    ASSUME IInv, NEW s \in Servers,
           IssuePut(s) \/ PostRequest(s) \/ Commit(s) \/ KernelStops(s)
    PROVE  IInv'
<1> DEFINE Fine == /\ srv' = [srv EXCEPT ![s] = srv'[s]]
                   /\ srv'[s] \in Server
                   /\ Shape(srv'[s])
                   /\ Keeps(srv[s], srv'[s])
<1>a. UNCHANGED call
  BY DEF IssuePut, PostRequest, Commit, KernelStops
<1>b. SUFFICES Fine
  BY <1>a, LocalStep
<1>1. srv \in [Servers -> Server] /\ srv[s] \in Server /\ Shape(srv[s])
  BY DEF IInv, TypeOK
<1>2. CASE IssuePut(s)
  <2>1. /\ srv' = [srv EXCEPT ![s] = srv'[s]]
        /\ srv'[s] = [srv[s] EXCEPT !.issued = @ + 1]
    BY <1>1, <1>2 DEF IssuePut
  <2>2. srv'[s] \in Server
    BY <1>1, <1>2, <2>1, ConstantsAssumption DEF IssuePut, Server
  <2>3. Shape(srv'[s])
    BY <1>1, <1>2, <2>1, ConstantsAssumption DEF IssuePut, Shape, Drained,
       Server, Live
  <2>4. Keeps(srv[s], srv'[s])
    BY <1>1, <1>2, <2>1, ConstantsAssumption DEF IssuePut, Keeps, Server
  <2> QED
    BY <2>1, <2>2, <2>3, <2>4
<1>3. CASE PostRequest(s)
  <2>1. PICK kind \in {"write", "remove", "serve"} :
          /\ srv' = [srv EXCEPT ![s] = srv'[s]]
          /\ srv'[s] = [srv[s] EXCEPT !.request = kind]
          /\ kind = "write" => srv[s].done < srv[s].issued
    BY <1>1, <1>3 DEF PostRequest
  <2>2. srv'[s] \in Server
    BY <1>1, <2>1 DEF Server, Requests
  <2>3. Shape(srv'[s])
    BY <1>1, <2>1 DEF Shape, Drained, Server, Live, Requests
  <2>4. Keeps(srv[s], srv'[s])
    BY <1>1, <2>1 DEF Keeps, Server
  <2> QED
    BY <2>1, <2>2, <2>3, <2>4
<1>4. CASE Commit(s)
  <2>1. /\ srv' = [srv EXCEPT ![s] = srv'[s]]
        /\ srv'[s] = [srv[s] EXCEPT !.request = "none", !.done = @ + 1]
    BY <1>1, <1>4 DEF Commit
  <2>2. srv'[s] \in Server
    BY <1>1, <1>4, <2>1, ConstantsAssumption DEF Commit, Server, Requests
  <2>3. Shape(srv'[s])
    BY <1>1, <1>4, <2>1, ConstantsAssumption DEF Commit, Shape, Drained,
       Server, Live, Requests
  <2>4. Keeps(srv[s], srv'[s])
    BY <1>1, <1>4, <2>1, ConstantsAssumption DEF Commit, Keeps, Server
  <2> QED
    BY <2>1, <2>2, <2>3, <2>4
<1>5. CASE KernelStops(s)
  <2>1. /\ srv' = [srv EXCEPT ![s] = srv'[s]]
        /\ srv'[s] = [srv[s] EXCEPT !.kernel = "stopped"]
    BY <1>1, <1>5 DEF KernelStops
  <2>2. srv'[s] \in Server
    BY <1>1, <1>5, <2>1 DEF KernelStops, Serving, Server
  <2>3. Shape(srv'[s])
    BY <1>1, <1>5, <2>1 DEF KernelStops, Serving, Shape, Drained, Server, Live
  <2>4. Keeps(srv[s], srv'[s])
    BY <1>1, <1>5, <2>1 DEF KernelStops, Serving, Keeps, Server
  <2> QED
    BY <2>1, <2>2, <2>3, <2>4
<1> QED
  BY <1>2, <1>3, <1>4, <1>5

(* So do the worker's steps and its failure.                               *)
LEMMA WorkerStep ==
    ASSUME IInv, NEW s \in Servers,
           WorkerNext(s) \/ WorkerAnswered(s) \/ WorkerFails(s)
    PROVE  IInv'
<1> DEFINE Fine == /\ srv' = [srv EXCEPT ![s] = srv'[s]]
                   /\ srv'[s] \in Server
                   /\ Shape(srv'[s])
                   /\ Keeps(srv[s], srv'[s])
<1>a. UNCHANGED call
  BY DEF WorkerNext, WorkerAnswered, WorkerFails, WorkerPolls, WorkerLeaves,
         WorkerBegins, WorkerCancelled, WorkerCompletes, WorkerExits, Worker
<1>b. SUFFICES Fine
  BY <1>a, LocalStep
<1>1. srv \in [Servers -> Server] /\ srv[s] \in Server /\ Shape(srv[s])
  BY DEF IInv, TypeOK
<1>2. ASSUME NEW from \in {"poll", "begin", "wait", "complete"},
             NEW to \in {"begin", "raised", "exited"}, Worker(s, from, to)
      PROVE  Fine
  <2>1. /\ srv' = [srv EXCEPT ![s] = srv'[s]]
        /\ srv'[s] = [srv[s] EXCEPT !.worker = to]
    BY <1>1, <1>2 DEF Worker
  <2>2. srv'[s] \in Server
    BY <1>1, <1>2, <2>1 DEF Worker, Server, WorkerSteps
  <2>3. Shape(srv'[s])
    BY <1>1, <1>2, <2>1 DEF Worker, Shape, Drained, Server, Live, WorkerSteps
  <2>4. Keeps(srv[s], srv'[s])
    BY <1>1, <1>2, <2>1 DEF Worker, Keeps, Server
  <2> QED
    BY <2>1, <2>2, <2>3, <2>4
<1>3. CASE WorkerPolls(s) \/ WorkerLeaves(s) \/ WorkerCancelled(s) \/ WorkerFails(s)
  BY <1>2, <1>3 DEF WorkerPolls, WorkerLeaves, WorkerCancelled, WorkerFails
<1>4. CASE WorkerBegins(s)
  <2>1. PICK left \in 0..MaxPuts, to \in {"wait", "complete", "raised"} :
          /\ srv' = [srv EXCEPT ![s] = srv'[s]]
          /\ srv'[s] = [srv[s] EXCEPT !.leases = left, !.worker = to]
    BY ZenonT(60), <1>1, <1>4 DEF WorkerBegins, Server
  <2>2. srv'[s] \in Server
    BY <1>1, <1>4, <2>1 DEF WorkerBegins, Server, WorkerSteps
  <2>3. Shape(srv'[s])
    BY <1>1, <1>4, <2>1 DEF WorkerBegins, Shape, Drained, Server, Live,
       WorkerSteps
  <2>4. Keeps(srv[s], srv'[s])
    BY <1>1, <1>4, <2>1 DEF WorkerBegins, Keeps, Server
  <2> QED
    BY <2>1, <2>2, <2>3, <2>4
<1>5. CASE WorkerAnswered(s)
  <2> DEFINE n == srv[s].leases + IF srv[s].request = "write" THEN 1 ELSE 0
  <2>1. /\ srv' = [srv EXCEPT ![s] = srv'[s]]
        /\ srv'[s] = [srv[s] EXCEPT !.leases = n, !.worker = "complete"]
    BY <1>1, <1>5 DEF WorkerAnswered
  <2>2. n \in 0..MaxPuts
    BY <1>1, <1>5, ConstantsAssumption DEF WorkerAnswered, Server
  <2> HIDE DEF n
  <2>3. srv'[s] \in Server
    BY ZenonT(60), <1>1, <2>1, <2>2 DEF Server, WorkerSteps
  <2>4. Shape(srv'[s])
    BY <1>1, <1>5, <2>1 DEF WorkerAnswered, Shape, Drained, Server, Live,
       WorkerSteps
  <2>5. Keeps(srv[s], srv'[s])
    BY <1>1, <1>5, <2>1 DEF WorkerAnswered, Keeps, Server
  <2> QED
    BY <2>1, <2>3, <2>4, <2>5
<1>6. CASE WorkerCompletes(s)
  <2>1. PICK to \in {"poll", "raised"}, request \in Requests :
          /\ srv' = [srv EXCEPT ![s] = srv'[s]]
          /\ srv'[s] = [srv[s] EXCEPT !.worker = to, !.request = request]
          /\ request \in {"write", "stored"} => srv[s].request \in {"write", "stored"}
    BY ZenonT(60), <1>1, <1>6 DEF WorkerCompletes, Server, Requests
  <2>2. srv'[s] \in Server
    BY <1>1, <1>6, <2>1 DEF WorkerCompletes, Server, WorkerSteps
  <2>3. Shape(srv'[s])
    BY <1>1, <1>6, <2>1 DEF WorkerCompletes, Shape, Drained, Server, Live,
       WorkerSteps
  <2>4. Keeps(srv[s], srv'[s])
    BY <1>1, <1>6, <2>1 DEF WorkerCompletes, Keeps, Server
  <2> QED
    BY <2>1, <2>2, <2>3, <2>4
<1>7. CASE WorkerExits(s)
  <2>1. /\ srv' = [srv EXCEPT ![s] = srv'[s]]
        /\ srv'[s] = [srv[s] EXCEPT !.worker = "exited",
                                    !.failed = @ \/ ~srv[s].stop]
    BY <1>1, <1>7 DEF WorkerExits
  <2>2. srv'[s] \in Server
    BY <1>1, <1>7, <2>1 DEF WorkerExits, Server, WorkerSteps
  <2>3. Shape(srv'[s])
    BY <1>1, <1>7, <2>1 DEF WorkerExits, Shape, Drained, Server, Live,
       WorkerSteps
  <2>4. Keeps(srv[s], srv'[s])
    BY <1>1, <1>7, <2>1 DEF WorkerExits, Keeps, Server
  <2> QED
    BY <2>1, <2>2, <2>3, <2>4
<1> QED
  BY <1>3, <1>4, <1>5, <1>6, <1>7 DEF WorkerNext

----------------------------------------------------------------------------
(* The constructor.                                                        *)

\* The names the steps below give to the fields they set.
LEMMA Names ==
    /\ "Constructing" \in Lives /\ "Failed" \in Lives /\ "Ready" \in Lives
    /\ "Closing" \in Lives /\ "Quarantined" \in Lives /\ "Closed" \in Lives
    /\ "Destroyed" \in Lives
    /\ "none" \in Runtimes /\ "Prepared" \in Runtimes
    /\ "Running" \in Runtimes /\ "Closing" \in Runtimes
    /\ "Terminated" \in Runtimes /\ "Quarantined" \in Runtimes
    /\ "Constructing" \in RuntimeCores /\ "Ready" \in RuntimeCores
    /\ "Closing" \in RuntimeCores /\ "Quarantined" \in RuntimeCores
    /\ "Closed" \in RuntimeCores
    /\ "none" \in WorkerSteps /\ "gated" \in WorkerSteps
    /\ "poll" \in WorkerSteps /\ "exited" \in WorkerSteps
    /\ 0 \in 0..MaxPuts
BY ConstantsAssumption DEF Lives, Runtimes, RuntimeCores, WorkerSteps

(* The steps of construction and close are steps of a call.                *)
LEMMA StepNames ==
    {"idle", "launch", "unwind", "lock", "drain", "check", "terminate",
     "finish", "stop", "force", "join", "reset"} \subseteq CallSteps
BY DEF CallSteps

\* Whatever ~ServerDeviceRuntime does, it claims no slot.
LEMMA ResetType ==
    ASSUME NEW r \in Server
    PROVE  Reset(r) \in Server /\ (Reset(r).slot => r.slot)
<1>1. CASE r.runtime \in {"none", "Quarantined"}
  <2>1. Reset(r) = [r EXCEPT !.runtime = "none"]
    BY <1>1 DEF Reset, Server
  <2> QED
    BY <2>1, Names DEF Server
<1>2. CASE /\ r.runtime \in {"Prepared", "Terminated"}
           /\ Releasable(r)
  <2>1. Reset(r) = [r EXCEPT !.memory = "freed", !.slot = FALSE,
                             !.core = "Closed", !.runtime = "none"]
    BY <1>2 DEF Reset, Released, Server
  <2> QED
    BY ZenonT(120), <2>1, Names DEF Server
<1>3. CASE /\ r.runtime \notin {"none", "Quarantined"}
           /\ ~(r.runtime \in {"Prepared", "Terminated"} /\ Releasable(r))
  <2>1. Reset(r) = [r EXCEPT !.cancelled = TRUE, !.workload = FALSE,
                             !.leases = 0, !.core = "Quarantined",
                             !.memory = "kept", !.runtime = "none"]
    BY <1>3 DEF Reset, Quarantined, Server
  <2> DEFINE q == [r EXCEPT !.cancelled = TRUE, !.workload = FALSE, !.leases = 0]
  <2>2. q \in Server
    BY ZenonT(60), Names DEF Server
  <2>3. Reset(r) = [q EXCEPT !.core = "Quarantined", !.memory = "kept",
                             !.runtime = "none"]
    BY <2>1 DEF Server
  <2>4. q.slot = r.slot
    BY DEF Server
  <2> HIDE DEF q
  <2>5. Reset(r) \in Server
    BY ZenonT(60), <2>2, <2>3, Names DEF Server
  <2>6. Reset(r).slot = q.slot
    BY <2>2, <2>3 DEF Server
  <2> QED
    BY <2>4, <2>5, <2>6
<1> QED
  BY <1>1, <1>2, <1>3

\* A constructor is alone with its Server.
LEMMA BuilderStep ==
    ASSUME IInv, NEW c \in Callers, NEW s \in Servers,
           call[c].step \in Building, call[c].server = s,
           srv' = [srv EXCEPT ![s] = srv'[s]],
           srv'[s] \in Server, Shape(srv'[s]),
           call' = [call EXCEPT ![c] = call'[c]], call'[c] \in Call,
           call'[c].step # "idle" =>
               call'[c].server = s /\ Step(c, call'[c], srv'[s]),
           srv'[s].slot => srv[s].slot \/ SlotFree(s)
    PROVE  IInv'
<1>1. \A d \in Callers \ {c} : ~(call[d].step # "idle" /\ call[d].server = s)
  BY DEF IInv, Apart, Building
<1>2. OthersOK(c, s)
  BY <1>1 DEF OthersOK
<1> QED
  BY <1>2, CallStep

(* Construction, its failures and its unwinding keep the invariant.        *)
LEMMA ConstructorStep ==
    ASSUME IInv, NEW c \in Callers,
           \/ CreateRuntime(c) \/ CreateFails(c) \/ ThreadFails(c) \/ Launch(c)
           \/ LaunchFails(c) \/ LaunchOutcomeUnknown(c) \/ Unwind(c)
    PROVE  IInv'
<1> DEFINE s == call[c].server
<1> DEFINE Fine == /\ srv' = [srv EXCEPT ![s] = srv'[s]]
                   /\ srv'[s] \in Server
                   /\ Shape(srv'[s])
                   /\ call'[c].step # "idle" =>
                        call'[c].server = s /\ Step(c, call'[c], srv'[s])
                   /\ srv'[s].slot => srv[s].slot \/ SlotFree(s)
<1>1. /\ srv \in [Servers -> Server] /\ call \in [Callers -> Call]
      /\ call[c] \in Call
  BY DEF IInv, TypeOK
<1>2. call[c].step \in Building
  BY DEF CreateRuntime, CreateFails, ThreadFails, Launch, LaunchFails,
         LaunchOutcomeUnknown, Unwind, At, Building
<1>3. s \in Servers /\ Step(c, call[c], srv[s])
  BY <1>2 DEF IInv, CallOK, Building
<1>4. srv[s] \in Server /\ Shape(srv[s])
  BY <1>1, <1>3 DEF IInv
<1>5. call' = [call EXCEPT ![c] = call'[c]] /\ call'[c] \in Call
  <2>1. PICK to \in {"launch", "unwind"} : Goto(c, to) \/ Leave(c)
    BY DEF CreateRuntime, CreateFails, ThreadFails, Launch, LaunchFails,
           LaunchOutcomeUnknown, Unwind
  <2>2. CASE Leave(c)
    BY <1>1, <2>2, StepNames DEF Leave, Idle, Call
  <2>3. CASE Goto(c, to)
    BY <1>1, <2>3, StepNames DEF Goto, Call
  <2> QED
    BY <2>1, <2>2, <2>3
<1>6. SUFFICES Fine
  BY <1>2, <1>3, <1>5, BuilderStep
<1>7. CASE CreateRuntime(c)
  <2>1. /\ srv' = [srv EXCEPT ![s] = srv'[s]]
        /\ srv'[s] = [srv[s] EXCEPT !.slot = TRUE, !.memory = "held",
                        !.core = "Constructing", !.runtime = "Prepared",
                        !.worker = "gated"]
        /\ call'[c] = [call[c] EXCEPT !.step = "launch"]
        /\ call[c].step = "create"
        /\ SlotFree(s)
    BY <1>1, <1>3, <1>7 DEF CreateRuntime, At, Goto
  <2>2. srv'[s] \in Server
    <3> DEFINE q == [srv[s] EXCEPT !.slot = TRUE, !.memory = "held"]
    <3>1. q \in Server
      BY ZenonT(60), <1>4, Names DEF Server
    <3>2. srv'[s] = [q EXCEPT !.core = "Constructing", !.runtime = "Prepared",
                              !.worker = "gated"]
      BY <2>1
    <3> HIDE DEF q
    <3> QED
      BY ZenonT(60), <3>1, <3>2, Names DEF Server
  <2>3. Shape(srv'[s])
    BY SMTT(30), <1>3, <1>4, <2>1 DEF Shape, Drained, Step, Server, Live
  <2>4. call'[c].step # "idle" => call'[c].server = s /\ Step(c, call'[c], srv'[s])
    BY <1>1, <1>3, <1>4, <2>1 DEF Step, Holding, Call, Server, Idle
  <2> QED
    BY <1>4, <2>1, <2>2, <2>3, <2>4 DEF Shape
<1>8. CASE CreateFails(c)
  <2>1. /\ srv' = [srv EXCEPT ![s] = srv'[s]]
        /\ srv'[s] = [srv[s] EXCEPT !.registered = FALSE, !.life = "Failed"]
        /\ call'[c] = [call[c] EXCEPT !.step = "unwind"]
        /\ call[c].step = "create"
    BY <1>1, <1>3, <1>8 DEF CreateFails, At, Goto, Abandoned
  <2>2. srv'[s] \in Server
    BY ZenonT(60), <1>4, <2>1, Names DEF Server
  <2>3. Shape(srv'[s])
    BY SMTT(30), <1>3, <1>4, <2>1 DEF Shape, Drained, Step, Server, Live
  <2>4. call'[c].step # "idle" => call'[c].server = s /\ Step(c, call'[c], srv'[s])
    BY <1>1, <1>3, <1>4, <2>1 DEF Step, Holding, Call, Server, Idle
  <2> QED
    BY SMTT(30), <1>4, <2>1, <2>2, <2>3, <2>4 DEF Shape
<1>9. CASE ThreadFails(c)
  <2>1. /\ srv' = [srv EXCEPT ![s] = srv'[s]]
        /\ srv'[s] = [srv[s] EXCEPT !.registered = FALSE, !.life = "Failed",
                        !.slot = TRUE, !.memory = "held",
                        !.core = "Constructing", !.runtime = "Prepared"]
        /\ call'[c] = [call[c] EXCEPT !.step = "unwind"]
        /\ call[c].step = "create"
        /\ SlotFree(s)
    BY <1>1, <1>3, <1>9 DEF ThreadFails, At, Goto, Abandoned
  <2>2. srv'[s] \in Server
    <3> DEFINE q == [srv[s] EXCEPT !.registered = FALSE, !.life = "Failed",
                                   !.slot = TRUE]
    <3>1. q \in Server
      BY ZenonT(60), <1>4, Names DEF Server
    <3>2. srv'[s] = [q EXCEPT !.memory = "held", !.core = "Constructing",
                              !.runtime = "Prepared"]
      BY <2>1
    <3> HIDE DEF q
    <3> QED
      BY ZenonT(60), <3>1, <3>2, Names DEF Server
  <2>3. Shape(srv'[s])
    BY SMTT(30), <1>3, <1>4, <2>1 DEF Shape, Drained, Step, Server, Live
  <2>4. call'[c].step # "idle" => call'[c].server = s /\ Step(c, call'[c], srv'[s])
    BY <1>1, <1>3, <1>4, <2>1 DEF Step, Holding, Call, Server, Idle
  <2> QED
    BY <1>4, <2>1, <2>2, <2>3, <2>4 DEF Shape
<1>10. CASE Launch(c)
  <2>1. /\ srv' = [srv EXCEPT ![s] = srv'[s]]
        /\ srv'[s] = [srv[s] EXCEPT !.kernel = "running", !.workload = TRUE,
                        !.core = "Ready", !.runtime = "Running",
                        !.worker = "poll", !.life = "Ready"]
        /\ call'[c] = Idle
        /\ call[c].step = "launch"
    BY <1>1, <1>3, <1>10 DEF Launch, At, Leave
  <2>2. srv'[s] \in Server
    <3> DEFINE q == [srv[s] EXCEPT !.kernel = "running", !.workload = TRUE,
                                   !.core = "Ready"]
    <3>1. q \in Server
      BY ZenonT(60), <1>4, Names DEF Server
    <3>2. srv'[s] = [q EXCEPT !.runtime = "Running", !.worker = "poll",
                              !.life = "Ready"]
      BY <2>1
    <3> HIDE DEF q
    <3> QED
      BY ZenonT(60), <3>1, <3>2, Names DEF Server
  <2>3. Shape(srv'[s])
    BY SMTT(30), <1>3, <1>4, <2>1 DEF Shape, Drained, Step, Server, Live
  <2>4. call'[c].step # "idle" => call'[c].server = s /\ Step(c, call'[c], srv'[s])
    BY <1>1, <1>3, <1>4, <2>1 DEF Step, Holding, Call, Server, Idle
  <2> QED
    BY <1>4, <2>1, <2>2, <2>3, <2>4 DEF Shape
<1>11. CASE LaunchFails(c)
  <2>1. /\ srv' = [srv EXCEPT ![s] = srv'[s]]
        /\ srv'[s] = [srv[s] EXCEPT !.registered = FALSE, !.life = "Failed",
                        !.worker = "exited"]
        /\ call'[c] = [call[c] EXCEPT !.step = "unwind"]
        /\ call[c].step = "launch"
    BY <1>1, <1>3, <1>11 DEF LaunchFails, At, Goto, Abandoned
  <2>2. srv'[s] \in Server
    BY ZenonT(60), <1>4, <2>1, Names DEF Server
  <2>3. Shape(srv'[s])
    BY SMTT(30), <1>3, <1>4, <2>1 DEF Shape, Drained, Step, Server, Live
  <2>4. call'[c].step # "idle" => call'[c].server = s /\ Step(c, call'[c], srv'[s])
    BY <1>1, <1>3, <1>4, <2>1 DEF Step, Holding, Call, Server, Idle
  <2> QED
    BY SMTT(30), <1>4, <2>1, <2>2, <2>3, <2>4 DEF Shape
<1>12. CASE LaunchOutcomeUnknown(c)
  <2>1. PICK kernel \in {"off", "running"} :
        /\ srv' = [srv EXCEPT ![s] = srv'[s]]
        /\ srv'[s] = [srv[s] EXCEPT !.registered = FALSE, !.life = "Failed",
                        !.worker = "exited", !.kernel = kernel,
                        !.runtime = "Quarantined", !.core = "Quarantined",
                        !.memory = "kept"]
        /\ call'[c] = [call[c] EXCEPT !.step = "unwind"]
        /\ call[c].step = "launch"
    BY <1>1, <1>3, <1>12 DEF LaunchOutcomeUnknown, At, Goto, Abandoned
  <2>2. srv'[s] \in Server
    <3> DEFINE q == [srv[s] EXCEPT !.registered = FALSE, !.life = "Failed",
                                   !.worker = "exited"]
    <3>1. q \in Server
      BY ZenonT(60), <1>4, Names DEF Server
    <3>2. srv'[s] = [q EXCEPT !.kernel = kernel, !.runtime = "Quarantined",
                              !.core = "Quarantined", !.memory = "kept"]
      BY <2>1
    <3> HIDE DEF q
    <3> QED
      BY ZenonT(60), <3>1, <3>2, Names DEF Server
  <2>3. Shape(srv'[s])
    BY SMTT(30), <1>3, <1>4, <2>1 DEF Shape, Drained, Step, Server, Live
  <2>4. call'[c].step # "idle" => call'[c].server = s /\ Step(c, call'[c], srv'[s])
    BY <1>1, <1>3, <1>4, <2>1 DEF Step, Holding, Call, Server, Idle
  <2> QED
    BY SMTT(30), <1>4, <2>1, <2>2, <2>3, <2>4 DEF Shape
<1>13. CASE Unwind(c)
  <2>1. /\ srv' = [srv EXCEPT ![s] = srv'[s]]
        /\ srv'[s] = Reset(srv[s])
        /\ call'[c] = Idle
        /\ call[c].step = "unwind"
    BY <1>1, <1>3, <1>13 DEF Unwind, At, Leave
  <2>2. srv[s].life = "Failed"
    BY <1>3, <2>1 DEF Step
  <2>3. srv'[s] \in Server
    BY <1>4, <2>1, ResetType
  <2>4. Shape(srv'[s])
    <3>1. CASE srv[s].runtime = "Prepared"
      <4>1. srv'[s] = [srv[s] EXCEPT !.memory = "freed", !.slot = FALSE,
                                     !.core = "Closed", !.runtime = "none"]
        BY <1>4, <2>1, <2>2, <3>1 DEF Reset, Releasable, Released, Shape
      <4> QED
        BY <1>4, <2>2, <3>1, <4>1 DEF Shape, Drained, Server
    <3>2. CASE srv[s].runtime \in {"none", "Quarantined"}
      <4>1. srv'[s] = [srv[s] EXCEPT !.runtime = "none"]
        BY <1>4, <2>1, <2>2, <3>2 DEF Reset
      <4> QED
        BY <1>4, <2>2, <3>2, <4>1 DEF Shape, Drained, Server
    <3> QED
      BY <1>4, <2>2, <3>1, <3>2 DEF Shape
  <2>5. srv'[s].slot => srv[s].slot
    BY <1>4, <2>1, ResetType
  <2> QED
    BY <2>1, <2>3, <2>4, <2>5 DEF Idle
<1> QED
  BY <1>7, <1>8, <1>9, <1>10, <1>11, <1>12, <1>13

----------------------------------------------------------------------------
(* close() and the destructor.                                             *)

Shared == {"Ready", "Closing", "Quarantined", "Closed"}

\* Inside s the thread c holds the mutex or finds it free.  The threads that
\* wait need a Server that is still there, or c is the destructor and alone.
LEMMA CloserStep ==
    ASSUME IInv, NEW c \in Callers, NEW s \in Servers,
           call[c].step # "idle", call[c].server = s,
           srv[s].mutex \in {c, None},
           srv' = [srv EXCEPT ![s] = srv'[s]],
           srv'[s] \in Server, Shape(srv'[s]),
           call' = [call EXCEPT ![c] = call'[c]], call'[c] \in Call,
           call'[c].step # "idle" =>
               /\ call'[c].server = s /\ Step(c, call'[c], srv'[s])
               /\ call'[c].step \notin Building
               /\ call[c].attempt = 0 => call'[c].attempt = 0,
           srv'[s].life \in Shared \/ call[c].attempt # 0,
           srv'[s].slot => srv[s].slot
    PROVE  IInv'
<1>1. ASSUME NEW d \in Callers \ {c}, call[d].step # "idle", call[d].server = s
      PROVE  /\ call[d].step \in {"lock", "force"} /\ ~call[d].forced
             /\ call[d].attempt = 0 /\ call[c].attempt = 0
  <2>1. srv[s].mutex # d
    BY ConstantsAssumption
  <2> QED
    BY <1>1, <2>1, OthersWait
<1>2. ASSUME NEW d \in Callers \ {c}, call[d].step # "idle", call[d].server = s
      PROVE  Step(d, call[d], srv'[s])
  BY <1>1, <1>2, WaitingStep DEF Shared
<1>3. OthersOK(c, s)
  BY <1>1, <1>2 DEF OthersOK, Building
<1> QED
  BY <1>3, CallStep

(* A Server whose call lets go of the lifecycle mutex.                     *)
LEMMA UnlockedType ==
    ASSUME NEW c \in Callers, NEW r \in Server
    PROVE  /\ Unlocked(c, r) \in Server
           /\ Unlocked(c, r) = [r EXCEPT !.mutex = Unlocked(c, r).mutex]
           /\ Unlocked(c, r).mutex = IF r.mutex = c THEN None ELSE r.mutex
<1>1. CASE r.mutex = c
  BY <1>1 DEF Unlocked, Server
<1>2. CASE r.mutex # c
  BY <1>2 DEF Unlocked, Server
<1> QED
  BY <1>1, <1>2

(* A call that throws leaves the Server in a shape its next call can       *)
(* meet.                                                                   *)
LEMMA ThrowsStep ==
    ASSUME IInv, NEW c \in Callers, NEW r \in Server,
           call[c].step # "idle", srv[call[c].server].mutex \in {c, None},
           Throws(c, r), Shape(Unlocked(c, r)), r.life \in Shared,
           r.slot => srv[call[c].server].slot
    PROVE  IInv'
<1> DEFINE s == call[c].server
<1>1. /\ srv \in [Servers -> Server] /\ call \in [Callers -> Call]
      /\ call[c] \in Call /\ s \in Servers
  BY DEF IInv, TypeOK, CallOK
<1>2. srv' = [srv EXCEPT ![s] = srv'[s]] /\ srv'[s] = Unlocked(c, r)
  BY <1>1 DEF Throws
<1>3. /\ srv'[s] \in Server /\ srv'[s].life = r.life /\ srv'[s].slot = r.slot
  BY <1>2, UnlockedType DEF Server
<1>4. call' = [call EXCEPT ![c] = call'[c]]
  BY <1>1 DEF Throws, Leave, Enter
<1>5. \/ call'[c] = Idle
      \/ /\ call[c].attempt = 1
         /\ call'[c] = [step |-> "lock", server |-> s, attempt |-> 2, forced |-> FALSE]
      \/ /\ call[c].attempt = 2
         /\ call'[c] = [step |-> "force", server |-> s, attempt |-> 3, forced |-> FALSE]
  BY <1>1 DEF Throws, Leave, Enter
<1>6. CASE call'[c] = Idle
  <2>1. call'[c] \in Call /\ call'[c].step = "idle"
    BY <1>6, StepNames DEF Idle, Call
  <2> QED
    BY <1>1, <1>2, <1>3, <1>4, <2>1, CloserStep
<1>7. ASSUME NEW n \in {2, 3}, NEW step \in {"lock", "force"}, call[c].attempt # 0,
             call'[c] = [step |-> step, server |-> s, attempt |-> n, forced |-> FALSE]
      PROVE  IInv'
  <2>1. call'[c] \in Call /\ call'[c].server = s
    BY <1>1, <1>7, StepNames DEF Call
  <2>2. call'[c].step \notin Building
    BY <1>7 DEF Building
  <2>3. Step(c, call'[c], srv'[s])
    BY <1>3, <1>7, WaitingStep DEF Shared
  <2> QED
    BY <1>1, <1>2, <1>3, <1>4, <1>7, <2>1, <2>2, <2>3, CloserStep
<1> QED
  BY <1>5, <1>6, <1>7

(* A call that returns leaves it Closed or Quarantined.                    *)
LEMMA ReturnsStep ==
    ASSUME IInv, NEW c \in Callers, NEW r \in Server,
           call[c].step # "idle", srv[call[c].server].mutex \in {c, None},
           Returns(c, r), r.life \in {"Closed", "Quarantined"},
           Shape(Unlocked(c, r)),
           r.slot => srv[call[c].server].slot
    PROVE  IInv'
<1> DEFINE s == call[c].server
<1>1. /\ srv \in [Servers -> Server] /\ call \in [Callers -> Call]
      /\ call[c] \in Call /\ s \in Servers
  BY DEF IInv, TypeOK, CallOK
<1>2. call' = [call EXCEPT ![c] = call'[c]] /\ call'[c] = Idle
  BY <1>1 DEF Returns, Leave
<1>3. call'[c] \in Call /\ call'[c].step = "idle"
  BY <1>2, StepNames DEF Idle, Call
<1>4. Unlocked(c, r) \in Server /\ Unlocked(c, r).life = r.life
      /\ Unlocked(c, r).slot = r.slot
  BY UnlockedType DEF Server
<1>5. CASE call[c].attempt = 0
  <2>1. srv' = [srv EXCEPT ![s] = srv'[s]] /\ srv'[s] = Unlocked(c, r)
    BY <1>1, <1>5 DEF Returns
  <2> QED
    BY <1>1, <1>2, <1>3, <1>4, <2>1, CloserStep DEF Shared
<1>6. CASE call[c].attempt # 0
  <2>1. /\ srv' = [srv EXCEPT ![s] = srv'[s]]
        /\ srv'[s] = [Unlocked(c, r) EXCEPT !.life = "Destroyed"]
    BY <1>1, <1>6 DEF Returns
  <2>2. srv'[s] \in Server /\ srv'[s].slot = r.slot
    BY <1>4, <2>1, Names DEF Server
  <2>3. Shape(srv'[s])
    BY <1>4, <2>1 DEF Shape, Server, Drained
  <2> QED
    BY <1>1, <1>2, <1>3, <1>6, <2>1, <2>2, <2>3, CloserStep
<1> QED
  BY <1>5, <1>6

(* The entries of close and of the forced quarantine keep the invariant.   *)
LEMMA LockingStep ==
    ASSUME IInv, NEW c \in Callers,
           \/ CloseReturnsAtOnce(c) \/ CloseStarts(c)
           \/ ForceReturns(c) \/ ForceQuarantine(c)
    PROVE  IInv'
<1> DEFINE s == call[c].server
<1>1. /\ srv \in [Servers -> Server] /\ call \in [Callers -> Call]
      /\ call[c] \in Call
  BY DEF IInv, TypeOK
<1>2. call[c].step \in {"lock", "force"} /\ srv[s].mutex = None
  BY DEF CloseReturnsAtOnce, CloseStarts, ForceReturns, ForceQuarantine, At,
     Unheld
<1>3. s \in Servers /\ Step(c, call[c], srv[s])
  BY <1>2 DEF IInv, CallOK
<1>4. srv[s] \in Server /\ Shape(srv[s])
  BY <1>1, <1>3 DEF IInv
<1>5. srv[s].life \in Shared /\ ~call[c].forced
  BY <1>1, <1>2, <1>3 DEF Step, Shared, Call
<1>6. Unlocked(c, srv[s]) = srv[s]
  BY <1>2, ConstantsAssumption DEF Unlocked
<1>7. CASE CloseReturnsAtOnce(c) \/ ForceReturns(c)
  <2>1. srv[s].life \in {"Closed", "Quarantined"}
    BY <1>7 DEF CloseReturnsAtOnce, ForceReturns, Over
  <2>2. Returns(c, srv[s]) \/ Throws(c, srv[s])
    BY <1>7 DEF CloseReturnsAtOnce, ForceReturns
  <2>3. CASE Returns(c, srv[s])
    BY <1>2, <1>4, <1>6, <2>1, <2>3, ReturnsStep
  <2>4. CASE Throws(c, srv[s])
    BY <1>2, <1>4, <1>5, <1>6, <2>4, ThrowsStep
  <2> QED
    BY <2>2, <2>3, <2>4
<1>8. CASE CloseStarts(c)
  <2> DEFINE drains == srv[s].life = "Ready" /\ ~srv[s].failed
             target == IF drains THEN srv[s].issued ELSE srv[s].target
             step == IF drains THEN "drain" ELSE "check"
  <2>1. /\ srv' = [srv EXCEPT ![s] = srv'[s]]
        /\ srv'[s] = [srv[s] EXCEPT !.mutex = c, !.life = "Closing", !.target = target]
        /\ call' = [call EXCEPT ![c] = call'[c]]
        /\ call'[c] = [call[c] EXCEPT !.step = step]
    BY <1>1, <1>3, <1>8 DEF CloseStarts, Goto
  <2>2. srv[s].life \in {"Ready", "Closing"}
    BY <1>8 DEF CloseStarts
  <2>3. target \in 0..MaxPuts
    BY <1>4 DEF Server
  <2>4. /\ step \in {"drain", "check"}
        /\ step = "drain" => srv[s].runtime = "Running"
        /\ step = "check" => /\ srv[s].runtime \in {"Running", "Closing"}
                             /\ (target = srv[s].target /\ Drained(srv[s])) \/ srv[s].failed
    BY <1>2, <1>4, <2>2 DEF Shape
  <2> HIDE DEF target, step
  <2>5. srv'[s] \in Server
    BY ZenonT(60), <1>4, <2>1, <2>3, Names DEF Server
  <2>6. Shape(srv'[s])
    BY SMTT(30), <1>2, <1>4, <2>1, <2>2, ConstantsAssumption DEF Shape,
       Drained, Server
  <2>7. call'[c] \in Call
    BY <1>1, <2>1, <2>4, StepNames DEF Call
  <2>8. /\ call'[c].step = step /\ call'[c].server = s
        /\ call'[c].attempt = call[c].attempt /\ ~call'[c].forced
    BY <1>1, <1>5, <2>1 DEF Call
  <2>9. Step(c, call'[c], srv'[s])
    BY <1>4, <2>1, <2>4, <2>8 DEF Step, Holding, Drained, Server
  <2>10. srv'[s].slot = srv[s].slot /\ srv'[s].life = "Closing"
    BY <1>4, <2>1 DEF Server
  <2> QED
    BY <1>2, <1>3, <2>1, <2>4, <2>5, <2>6, <2>7, <2>8, <2>9, <2>10, CloserStep
    DEF Shared, Building
<1>9. CASE ForceQuarantine(c)
  <2>1. /\ srv' = [srv EXCEPT ![s] = srv'[s]]
        /\ srv'[s] = [srv[s] EXCEPT !.mutex = c, !.stop = TRUE, !.cancelled = TRUE]
        /\ call' = [call EXCEPT ![c] = call'[c]]
        /\ call'[c] = [call[c] EXCEPT !.step = "join", !.forced = TRUE]
    BY <1>1, <1>3, <1>9 DEF ForceQuarantine
  <2>2. srv[s].life \in {"Ready", "Closing"}
    BY <1>5, <1>9 DEF ForceQuarantine, Over, Shared
  <2>3. srv[s].runtime \in {"Running", "Closing"}
    BY <1>2, <1>4, <2>2 DEF Shape
  <2>4. srv'[s] \in Server
    BY ZenonT(60), <1>4, <2>1 DEF Server
  <2>5. Shape(srv'[s])
    BY SMTT(30), <1>2, <1>4, <2>1, <2>2, <2>3 DEF Shape, Drained, Server
  <2>6. /\ call'[c] \in Call /\ call'[c].step = "join" /\ call'[c].server = s
        /\ call'[c].attempt = call[c].attempt /\ call'[c].forced
    BY <1>1, <2>1, StepNames DEF Call
  <2>7. /\ srv'[s].life = srv[s].life /\ srv'[s].runtime = srv[s].runtime
        /\ srv'[s].slot = srv[s].slot /\ srv'[s].mutex = c
    BY <1>4, <2>1 DEF Server
  <2>8. Step(c, call'[c], srv'[s])
    BY <2>2, <2>3, <2>6, <2>7 DEF Step, Holding
  <2> QED
    BY <1>2, <1>3, <1>5, <2>1, <2>4, <2>5, <2>6, <2>7, <2>8, CloserStep
       DEF Building
<1> QED
  BY <1>7, <1>8, <1>9

\* What the moves of a thread that holds the mutex have in common.
LEMMA HolderMoves ==
    ASSUME IInv, NEW c \in Callers, NEW s \in Servers, NEW to,
           to \in Holding \cup {"force"},
           call[c].step \in Holding, call[c].server = s, srv[s].mutex = c,
           srv' = [srv EXCEPT ![s] = srv'[s]],
           srv'[s] \in Server, Shape(srv'[s]),
           Goto(c, to),
           Step(c, [call[c] EXCEPT !.step = to], srv'[s]),
           srv'[s].life \in Shared,
           srv'[s].slot => srv[s].slot
    PROVE  IInv'
<1>1. call \in [Callers -> Call] /\ call[c] \in Call
  BY DEF IInv, TypeOK
<1>2. /\ call' = [call EXCEPT ![c] = call'[c]]
      /\ call'[c] = [call[c] EXCEPT !.step = to]
  BY <1>1 DEF Goto
<1>3. to \in CallSteps /\ to \notin Building
  BY DEF Holding, Building, CallSteps
<1>4. /\ call'[c] \in Call /\ call'[c].step = to
      /\ call'[c].server = s /\ call'[c].attempt = call[c].attempt
  BY <1>1, <1>2, <1>3 DEF Call
<1>5. call[c].step # "idle"
  BY DEF Holding
<1> QED
  BY <1>2, <1>3, <1>4, <1>5, CloserStep

(* The PUT drain of close keeps it, whether it completes or throws.        *)
LEMMA DrainStep ==
    ASSUME IInv, NEW c \in Callers,
           DrainCompletes(c) \/ DrainThrows(c) \/ CloseChecksWorker(c)
    PROVE  IInv'
<1> DEFINE s == call[c].server
<1>1. /\ srv \in [Servers -> Server] /\ call \in [Callers -> Call]
      /\ call[c] \in Call
  BY DEF IInv, TypeOK
<1>2. call[c].step \in Holding
  BY DEF DrainCompletes, DrainThrows, CloseChecksWorker, At, Holding
<1>3. s \in Servers /\ Step(c, call[c], srv[s])
  BY <1>2 DEF IInv, CallOK, Holding
<1>4. /\ srv[s] \in Server /\ Shape(srv[s])
      /\ srv[s].mutex = c /\ call[c].step # "idle"
  BY <1>1, <1>2, <1>3 DEF IInv, Step, Holding
<1>5. CASE DrainCompletes(c)
  <2>1. /\ srv' = srv /\ Drained(srv[s]) /\ Goto(c, "check")
        /\ call[c].step = "drain"
    BY <1>5 DEF DrainCompletes, Drained, At
  <2>2. srv[s].life = "Closing" /\ srv[s].runtime = "Running"
    BY <1>3, <2>1 DEF Step
  <2>3. Step(c, [call[c] EXCEPT !.step = "check"], srv[s])
    BY <1>1, <1>3, <1>4, <2>1, <2>2 DEF Step, Holding, Call
  <2> QED
    BY <1>1, <1>2, <1>3, <1>4, <2>1, <2>2, <2>3, HolderMoves DEF Holding, Shared
<1>6. CASE DrainThrows(c)
  <2> DEFINE r == ReadyAgain(srv[s])
  <2>1. srv[s].life = "Closing" /\ srv[s].runtime = "Running"
    BY <1>3, <1>6 DEF DrainThrows, At, Step
  <2>2. r \in Server /\ r.life \in Shared /\ r.slot = srv[s].slot
    BY <1>4, <2>1, Names DEF ReadyAgain, Server, Shared
  <2>3. Unlocked(c, r) = [r EXCEPT !.mutex = None]
    BY <1>4 DEF Unlocked, ReadyAgain, Server
  <2>4. CASE srv[s].failed
    <3>1. Unlocked(c, r) = [srv[s] EXCEPT !.mutex = None]
      BY <2>3, <2>4 DEF ReadyAgain
    <3> QED
      BY SMTT(30), <1>2, <1>4, <1>6, <2>1, <2>2, <2>4, <3>1, ThrowsStep
      DEF DrainThrows, Shape, Drained, Server
  <2>5. CASE ~srv[s].failed
    <3>1. Unlocked(c, r) = [srv[s] EXCEPT !.mutex = None, !.life = "Ready"]
      BY <1>4, <2>3, <2>5 DEF ReadyAgain, Server
    <3>2. Shape(Unlocked(c, r))
      BY <1>4, <2>1, <3>1 DEF Shape, Drained, Server
    <3> QED
      BY <1>2, <1>4, <1>6, <2>2, <3>2, ThrowsStep DEF DrainThrows
  <2> QED
    BY <2>4, <2>5
<1>7. CASE CloseChecksWorker(c)
  <2>1. /\ srv[s].life = "Closing" /\ srv[s].runtime \in {"Running", "Closing"}
        /\ Drained(srv[s]) \/ srv[s].failed
        /\ ~call[c].forced
    BY <1>1, <1>3, <1>7 DEF CloseChecksWorker, At, Step, Call
  <2>2. CASE srv[s].failed
    <3>1. /\ srv' = [srv EXCEPT ![s] = srv'[s]]
          /\ srv'[s] = [srv[s] EXCEPT !.mutex = None]
          /\ Goto(c, "force")
      BY <1>1, <1>3, <1>7, <2>2 DEF CloseChecksWorker
    <3>2. srv'[s] \in Server
      BY <1>4, <3>1 DEF Server
    <3>3. Shape(srv'[s])
      BY SMTT(30), <1>4, <2>1, <2>2, <3>1 DEF Shape, Drained, Server
    <3>4. srv'[s].life = "Closing" /\ srv'[s].slot = srv[s].slot
      BY <1>4, <2>1, <3>1 DEF Server
    <3>5. Step(c, [call[c] EXCEPT !.step = "force"], srv'[s])
      BY <1>1, <2>1, <3>4 DEF Step, Holding, Call
    <3> QED
      BY <1>2, <1>3, <1>4, <3>1, <3>2, <3>3, <3>4, <3>5, HolderMoves DEF Shared
  <2>3. CASE ~srv[s].failed
    <3>1. srv' = srv /\ Goto(c, "terminate")
      BY <1>7, <2>3 DEF CloseChecksWorker
    <3>2. Step(c, [call[c] EXCEPT !.step = "terminate"], srv[s])
      BY <1>1, <1>4, <2>1, <2>3 DEF Step, Holding, Call
    <3> QED
      BY <1>1, <1>2, <1>3, <1>4, <2>1, <3>1, <3>2, HolderMoves DEF Holding,
         Shared
  <2> QED
    BY <2>2, <2>3
<1> QED
  BY <1>5, <1>6, <1>7

(* The termination of the kernel and of the worker keeps it.               *)
LEMMA TerminationStep ==
    ASSUME IInv, NEW c \in Callers,
           Terminate(c) \/ Finishes(c) \/ FinishThrows(c) \/ StopWorker(c)
    PROVE  IInv'
<1> DEFINE s == call[c].server
<1>1. /\ srv \in [Servers -> Server] /\ call \in [Callers -> Call]
      /\ call[c] \in Call
  BY DEF IInv, TypeOK
<1>2. call[c].step \in Holding
  BY DEF Terminate, Finishes, FinishThrows, StopWorker, At, Holding
<1>3. s \in Servers /\ Step(c, call[c], srv[s])
  BY <1>2 DEF IInv, CallOK, Holding
<1>4. /\ srv[s] \in Server /\ Shape(srv[s])
      /\ srv[s].mutex = c /\ call[c].step # "idle"
  BY <1>1, <1>2, <1>3 DEF IInv, Step, Holding
<1>5. /\ srv[s].life = "Closing" /\ Drained(srv[s]) /\ ~call[c].forced
      /\ call[c].step \in {"terminate", "finish", "stop"}
  BY <1>1, <1>3 DEF Terminate, Finishes, FinishThrows, StopWorker, At, Step,
     Call
<1>6. CASE Terminate(c)
  <2>1. PICK signalled \in BOOLEAN :
        /\ srv' = [srv EXCEPT ![s] = srv'[s]]
        /\ srv'[s] = [srv[s] EXCEPT !.runtime = "Closing", !.core = "Closing",
                                    !.signalled = signalled]
        /\ Goto(c, "finish") /\ call[c].step = "terminate"
    <3>1. PICK written \in BOOLEAN :
            srv' = [srv EXCEPT ![s].runtime = "Closing", ![s].core = "Closing",
                               ![s].signalled = @ \/ written]
      BY <1>6 DEF Terminate
    <3> DEFINE signalled == srv[s].signalled \/ written
    <3>2. signalled \in BOOLEAN
      OBVIOUS
    <3>3. /\ srv' = [srv EXCEPT ![s] = srv'[s]]
          /\ srv'[s] = [srv[s] EXCEPT !.runtime = "Closing", !.core = "Closing",
                                      !.signalled = signalled]
      BY <1>1, <1>3, <3>1
    <3>4. Goto(c, "finish") /\ call[c].step = "terminate"
      BY <1>6 DEF Terminate, At
    <3> HIDE DEF signalled
    <3> QED
      BY <3>2, <3>3, <3>4
  <2>2. srv'[s] \in Server
    BY ZenonT(60), <1>4, <2>1, Names DEF Server
  <2>3. Shape(srv'[s])
    BY SMTT(30), <1>4, <1>5, <2>1 DEF Shape, Drained, Server
  <2>4. /\ srv'[s].life = "Closing" /\ srv'[s].slot = srv[s].slot
        /\ srv'[s].mutex = c /\ Drained(srv'[s])
        /\ srv'[s].runtime = "Closing" /\ srv'[s].core = "Closing"
    BY <1>4, <1>5, <2>1 DEF Server, Drained
  <2>5. Step(c, [call[c] EXCEPT !.step = "finish"], srv'[s])
    BY <1>1, <1>5, <2>4 DEF Step, Holding, Call
  <2> QED
    BY <1>2, <1>3, <1>4, <2>1, <2>2, <2>3, <2>4, <2>5, HolderMoves
       DEF Holding, Shared
<1>7. CASE Finishes(c)
  <2>1. /\ srv' = [srv EXCEPT ![s] = srv'[s]]
        /\ srv'[s] = [srv[s] EXCEPT !.workload = FALSE, !.cancelled = TRUE,
                                    !.runtime = "Terminated"]
        /\ Goto(c, "stop") /\ call[c].step = "finish"
        /\ srv[s].kernel = "stopped"
    BY <1>1, <1>3, <1>7 DEF Finishes, At, KernelStopped
  <2>2. srv'[s] \in Server
    BY ZenonT(60), <1>4, <2>1, Names DEF Server
  <2>3. srv[s].core = "Closing"
    BY <1>3, <2>1 DEF Step
  <2>4. Shape(srv'[s])
    BY SMTT(30), <1>4, <1>5, <2>1, <2>3, ConstantsAssumption DEF Shape,
       Drained, Server
  <2>5. /\ srv'[s].life = "Closing" /\ srv'[s].slot = srv[s].slot
        /\ srv'[s].mutex = c /\ Drained(srv'[s])
        /\ srv'[s].runtime = "Terminated"
    BY <1>4, <1>5, <2>1 DEF Server, Drained
  <2>6. Step(c, [call[c] EXCEPT !.step = "stop"], srv'[s])
    BY <1>1, <1>5, <2>5 DEF Step, Holding, Call
  <2> QED
    BY <1>2, <1>3, <1>4, <2>1, <2>2, <2>4, <2>5, <2>6, HolderMoves
       DEF Holding, Shared
<1>8. CASE FinishThrows(c)
  <2>1. PICK running \in BOOLEAN :
          Throws(c, [srv[s] EXCEPT !.workload = @ /\ running])
    BY <1>8 DEF FinishThrows, KernelStopped
  <2> DEFINE r == [srv[s] EXCEPT !.workload = @ /\ running]
  <2>2. r \in Server /\ r.life = "Closing" /\ r.slot = srv[s].slot
    BY <1>4, <1>5 DEF Server
  <2>3. Unlocked(c, r) = [srv[s] EXCEPT !.workload = @ /\ running, !.mutex = None]
    BY <1>4 DEF Unlocked, Server
  <2>4. srv[s].runtime = "Closing"
    BY <1>3, <1>8 DEF FinishThrows, At, Step
  <2>5. Shape(Unlocked(c, r))
    BY ZenonT(120), <1>4, <1>5, <2>3, <2>4 DEF Shape, Drained, Server
  <2> QED
    BY <1>4, <2>1, <2>2, <2>5, ThrowsStep DEF Shared
<1>9. CASE StopWorker(c)
  <2>1. /\ srv' = [srv EXCEPT ![s] = srv'[s]]
        /\ srv'[s] = [srv[s] EXCEPT !.stop = TRUE, !.cancelled = TRUE]
        /\ Goto(c, "join") /\ call[c].step = "stop"
    BY <1>1, <1>3, <1>9 DEF StopWorker, At
  <2>2. srv'[s] \in Server
    BY ZenonT(60), <1>4, <2>1 DEF Server
  <2>3. Shape(srv'[s])
    BY SMTT(30), <1>4, <1>5, <2>1 DEF Shape, Drained, Server
  <2>4. srv[s].runtime = "Terminated"
    BY <1>3, <2>1 DEF Step
  <2>5. /\ srv'[s].life = "Closing" /\ srv'[s].slot = srv[s].slot
        /\ srv'[s].mutex = c /\ Drained(srv'[s])
        /\ srv'[s].runtime = "Terminated"
    BY <1>4, <1>5, <2>1, <2>4 DEF Server, Drained
  <2>6. Step(c, [call[c] EXCEPT !.step = "join"], srv'[s])
    BY <1>1, <1>5, <2>5 DEF Step, Holding, Call
  <2> QED
    BY <1>2, <1>3, <1>4, <2>1, <2>2, <2>3, <2>5, <2>6, HolderMoves
       DEF Holding, Shared
<1> QED
  BY <1>6, <1>7, <1>8, <1>9

\* What ~ServerDeviceRuntime leaves of a Server whose worker is joined and
\* whose values are cleared: everything freed after a termination, everything
\* kept otherwise.
LEMMA EndedShape ==
    ASSUME NEW c \in Callers, NEW r \in Server, Shape(r), r.mutex = c,
           NEW life \in {"Closed", "Quarantined"},
           r.worker = "exited", r.leases = 0, r.life \in {"Ready", "Closing"},
           IF life = "Closed"
             THEN r.runtime = "Terminated" /\ r.life = "Closing" /\ Drained(r)
             ELSE r.runtime \in {"Running", "Closing"}
    PROVE  /\ Ended(r, life) \in Server
           /\ Ended(r, life).life = life
           /\ Ended(r, life).slot => r.slot
           /\ Shape(Unlocked(c, Ended(r, life)))
<1>1. Reset(r) \in Server /\ (Reset(r).slot => r.slot)
  BY ResetType
<1>2. Ended(r, life) = [Reset(r) EXCEPT !.life = life, !.registered = FALSE]
  BY DEF Ended
<1>3. /\ Ended(r, life) \in Server /\ Ended(r, life).life = life
      /\ Ended(r, life).slot = Reset(r).slot
  <2> DEFINE q == Reset(r)
  <2>1. q \in Server
    BY <1>1
  <2>2. Ended(r, life) = [q EXCEPT !.life = life, !.registered = FALSE]
    BY <1>2
  <2>3. life \in Lives
    BY DEF Lives
  <2> HIDE DEF q
  <2>4. [q EXCEPT !.life = life, !.registered = FALSE] \in Server
    BY ZenonT(120), <2>1, <2>3 DEF Server
  <2>5. /\ [q EXCEPT !.life = life, !.registered = FALSE].life = life
        /\ [q EXCEPT !.life = life, !.registered = FALSE].slot = q.slot
    BY <2>1 DEF Server
  <2> QED
    BY <2>2, <2>4, <2>5 DEF q
<1>4. CASE life = "Closed"
  <2>1. Releasable(r)
    BY <1>4 DEF Shape, Releasable
  <2>2. Ended(r, life) = [r EXCEPT !.memory = "freed", !.slot = FALSE,
                            !.core = "Closed", !.runtime = "none",
                            !.life = "Closed", !.registered = FALSE]
    BY <1>2, <1>4, <2>1 DEF Reset, Released, Server
  <2>3. Unlocked(c, Ended(r, life)) =
          [r EXCEPT !.memory = "freed", !.slot = FALSE,
                    !.core = "Closed", !.runtime = "none", !.life = "Closed",
                    !.registered = FALSE, !.mutex = None]
    BY <2>2 DEF Unlocked, Server
  <2>4. /\ r.worker = "exited" /\ r.leases = 0 /\ r.kernel = "stopped"
        /\ r.done >= r.target
        /\ r.request \in {"write", "stored"} => r.done < r.issued
    BY <1>4 DEF Shape, Drained
  <2> DEFINE q == Unlocked(c, Ended(r, life))
  <2>5. /\ q.worker = r.worker /\ q.leases = r.leases /\ q.kernel = r.kernel
        /\ q.done = r.done /\ q.target = r.target /\ q.issued = r.issued
        /\ q.request = r.request
    BY <2>3 DEF Server
  <2>6. /\ q.life = "Closed" /\ q.slot = FALSE /\ q.memory = "freed"
        /\ q.registered = FALSE /\ q.runtime = "none"
    BY <2>3 DEF Server
  <2> HIDE DEF q
  <2>7. Shape(q)
    BY <2>4, <2>5, <2>6 DEF Shape, Drained
  <2>8. Shape(Unlocked(c, Ended(r, life)))
    BY <2>7 DEF q
  <2> QED
    BY <1>1, <1>3, <2>8
<1>5. CASE life = "Quarantined"
  <2>1. Ended(r, life) = [r EXCEPT !.cancelled = TRUE, !.workload = FALSE,
                            !.leases = 0, !.core = "Quarantined",
                            !.memory = "kept", !.runtime = "none",
                            !.life = "Quarantined", !.registered = FALSE]
    BY <1>2, <1>5 DEF Reset, Quarantined, Server
  <2>2. Unlocked(c, Ended(r, life)) =
          [r EXCEPT !.cancelled = TRUE, !.workload = FALSE,
                    !.leases = 0, !.core = "Quarantined",
                    !.memory = "kept", !.runtime = "none",
                    !.life = "Quarantined", !.registered = FALSE, !.mutex = None]
    BY <2>1 DEF Unlocked, Server
  <2>3. /\ r.worker = "exited" /\ r.memory = "held" /\ r.slot
        /\ r.request \in {"write", "stored"} => r.done < r.issued
    BY <1>5 DEF Shape
  <2> DEFINE q == Unlocked(c, Ended(r, life))
  <2>4. /\ q.worker = r.worker /\ q.done = r.done /\ q.issued = r.issued
        /\ q.request = r.request /\ q.slot = r.slot
    BY <2>2 DEF Server
  <2>5. /\ q.life = "Quarantined" /\ q.memory = "kept" /\ q.leases = 0
        /\ q.runtime = "none"
    BY <2>2 DEF Server
  <2> HIDE DEF q
  <2>6. Shape(q)
    BY <2>3, <2>4, <2>5 DEF Shape
  <2>7. Shape(Unlocked(c, Ended(r, life)))
    BY <2>6 DEF q
  <2> QED
    BY <1>1, <1>3, <2>7
<1> QED
  BY <1>4, <1>5

(* The join and the reset of the runtime keep it.                          *)
LEMMA EndStep ==
    ASSUME IInv, NEW c \in Callers, JoinAndClear(c) \/ ResetRuntime(c)
    PROVE  IInv'
<1> DEFINE s == call[c].server
<1>1. /\ srv \in [Servers -> Server] /\ call \in [Callers -> Call]
      /\ call[c] \in Call
  BY DEF IInv, TypeOK
<1>2. call[c].step \in {"join", "reset"}
  BY DEF JoinAndClear, ResetRuntime, At
<1>3. s \in Servers /\ Step(c, call[c], srv[s])
  BY <1>2 DEF IInv, CallOK, Holding
<1>4. /\ srv[s] \in Server /\ Shape(srv[s])
      /\ srv[s].mutex = c /\ call[c].step # "idle"
  BY <1>1, <1>2, <1>3 DEF IInv, Step, Holding
<1>5. \/ /\ ~call[c].forced /\ srv[s].life = "Closing"
         /\ srv[s].runtime = "Terminated" /\ Drained(srv[s])
      \/ /\ call[c].forced /\ srv[s].life \in {"Ready", "Closing"}
         /\ srv[s].runtime \in {"Running", "Closing"}
  BY <1>2, <1>3 DEF Step
<1>6. CASE JoinAndClear(c)
  <2>1. /\ srv' = [srv EXCEPT ![s] = srv'[s]]
        /\ srv'[s] = [srv[s] EXCEPT !.leases = 0]
        /\ Goto(c, "reset")
        /\ srv[s].worker = "exited"
    BY <1>1, <1>3, <1>6 DEF JoinAndClear, Joinable
  <2>2. srv'[s] \in Server
    BY <1>4, <2>1, Names DEF Server
  <2>3. Shape(srv'[s])
    BY SMTT(30), <1>4, <2>1 DEF Shape, Drained, Server
  <2>4. /\ srv'[s].life = srv[s].life /\ srv'[s].slot = srv[s].slot
        /\ srv'[s].mutex = c /\ srv'[s].runtime = srv[s].runtime
        /\ Drained(srv[s]) => Drained(srv'[s])
        /\ srv'[s].worker = "exited" /\ srv'[s].leases = 0
    BY <1>4, <2>1, Names DEF Server, Drained
  <2>5. Step(c, [call[c] EXCEPT !.step = "reset"], srv'[s])
    BY <1>1, <1>5, <2>4 DEF Step, Holding, Call
  <2> QED
    BY <1>2, <1>3, <1>4, <1>5, <2>1, <2>2, <2>3, <2>4, <2>5, HolderMoves
    DEF Holding, Shared
<1>7. CASE ResetRuntime(c)
  <2>1. srv[s].worker = "exited" /\ srv[s].leases = 0
    BY <1>3, <1>7 DEF ResetRuntime, At, Step
  <2>2. CASE ~call[c].forced
    <3>1. Returns(c, Ended(srv[s], "Closed"))
      BY <1>7, <2>2 DEF ResetRuntime
    <3> QED
      BY <1>4, <1>5, <2>1, <2>2, <3>1, EndedShape, ReturnsStep
  <2>3. CASE call[c].forced
    <3> DEFINE r == Ended(srv[s], "Quarantined")
    <3>1. Returns(c, r) \/ Throws(c, r)
      BY <1>7, <2>3 DEF ResetRuntime
    <3>2. /\ r \in Server /\ r.life = "Quarantined" /\ (r.slot => srv[s].slot)
          /\ Shape(Unlocked(c, r))
      BY <1>4, <1>5, <2>1, <2>3, EndedShape
    <3> HIDE DEF r
    <3>3. CASE Returns(c, r)
      BY <1>4, <3>2, <3>3, ReturnsStep
    <3>4. CASE Throws(c, r)
      BY <1>4, <3>2, <3>4, ThrowsStep DEF Shared
    <3> QED
      BY <3>1, <3>3, <3>4
  <2> QED
    BY <2>2, <2>3
<1> QED
  BY <1>6, <1>7

\* A thread comes to a Server: to construct, to close or to destroy it.
LEMMA ArrivalStep ==
    ASSUME IInv, NEW c \in Callers, NEW s \in Servers,
           Register(c, s) \/ Close(c, s) \/ Destroy(c, s)
    PROVE  IInv'
<1>1. /\ srv \in [Servers -> Server] /\ call \in [Callers -> Call]
      /\ call[c] \in Call /\ srv[s] \in Server /\ Shape(srv[s])
  BY DEF IInv, TypeOK
<1>2. ASSUME NEW d \in Callers, call[d].step # "idle", call[d].server = s
      PROVE  /\ Step(d, call[d], srv[s]) /\ call[d] \in Call /\ d \in Inside(s)
  BY <1>2 DEF IInv, TypeOK, CallOK, Inside
<1>3. ASSUME NEW step \in {"create", "lock"}, NEW n \in {0, 1}, Enter(c, s, step, n)
      PROVE  /\ call' = [call EXCEPT ![c] = call'[c]] /\ call'[c] \in Call
             /\ call'[c].step = step /\ call'[c].server = s
             /\ call'[c].attempt = n /\ ~call'[c].forced
  BY <1>1, <1>3 DEF Enter, Call, CallSteps
<1>4. CASE Register(c, s)
  <2>1. /\ srv' = [srv EXCEPT ![s] = srv'[s]]
        /\ srv'[s] = [srv[s] EXCEPT !.life = "Constructing", !.registered = TRUE]
        /\ srv[s].life = "Unborn"
        /\ Enter(c, s, "create", 0)
    BY <1>1, <1>4 DEF Register
  <2>2. srv'[s] \in Server
    BY ZenonT(60), <1>1, <2>1, Names DEF Server
  <2>3. Shape(srv'[s])
    BY <1>1, <2>1 DEF Shape, Drained, Server
  <2>4. /\ srv'[s].life = "Constructing" /\ srv'[s].runtime = "none"
        /\ srv'[s].slot = srv[s].slot
    BY <1>1, <2>1 DEF Shape, Server
  <2>5. Step(c, call'[c], srv'[s])
    BY <1>3, <2>1, <2>4 DEF Step, Holding
  <2>6. ASSUME NEW d \in Callers, call[d].step # "idle" PROVE call[d].server # s
    BY <1>2, <2>1, <2>6 DEF Step, Holding, CallSteps, Call
  <2>7. OthersOK(c, s)
    BY <2>6 DEF OthersOK
  <2> QED
    BY <1>3, <2>1, <2>2, <2>3, <2>4, <2>5, <2>7, CallStep
<1>5. CASE Close(c, s) \/ Destroy(c, s)
  <2>1. PICK n \in {0, 1}, closes \in 0..MaxCloses :
        /\ srv' = [srv EXCEPT ![s] = srv'[s]]
        /\ srv'[s] = [srv[s] EXCEPT !.closes = closes]
        /\ srv[s].life \in Shared
        /\ Enter(c, s, "lock", n)
        /\ n = 1 => Inside(s) = {}
        /\ \A d \in Inside(s) : call[d].attempt = 0
    <3>1. CASE Close(c, s)
      <4>1. srv[s].closes + 1 \in 0..MaxCloses
        BY <1>1, <3>1, ConstantsAssumption DEF Close, Server
      <4>2. /\ srv' = [srv EXCEPT ![s] = srv'[s]]
            /\ srv'[s] = [srv[s] EXCEPT !.closes = srv[s].closes + 1]
        BY <1>1, <3>1 DEF Close
      <4> QED
        BY <3>1, <4>1, <4>2 DEF Close, Closable, Shared
    <3>2. CASE Destroy(c, s)
      <4>1. srv' = [srv EXCEPT ![s] = srv'[s]] /\ srv'[s] = srv[s]
        BY <1>1, <3>2 DEF Destroy
      <4>2. srv[s] = [srv[s] EXCEPT !.closes = srv[s].closes]
            /\ srv[s].closes \in 0..MaxCloses
        BY <1>1 DEF Server
      <4> QED
        BY <3>2, <4>1, <4>2 DEF Destroy, Closable, Shared
    <3> QED
      BY <1>5, <3>1, <3>2
  <2>2. srv'[s] \in Server
    BY <1>1, <2>1 DEF Server
  <2>3. Shape(srv'[s])
    BY <1>1, <2>1 DEF Shape, Drained, Server
  <2>4. ASSUME NEW d \in Callers, NEW k, Step(d, k, srv[s])
        PROVE  Step(d, k, srv'[s])
    BY <1>1, <2>1, <2>4 DEF Step, Drained, Server
  <2>5. srv'[s].slot = srv[s].slot /\ srv'[s].life = srv[s].life
    BY <1>1, <2>1 DEF Server
  <2>6. Step(c, call'[c], srv'[s])
    <3> DEFINE k == call'[c]
               r == srv'[s]
    <3>1. k.step \in {"lock", "force"} /\ ~k.forced
      BY <1>3, <2>1
    <3>2. r.life \in {"Ready", "Closing", "Quarantined", "Closed"}
      BY <2>1, <2>5 DEF Shared
    <3> HIDE DEF k, r
    <3>3. Step(c, k, r)
      BY <3>1, <3>2, WaitingStep
    <3> QED
      BY <3>3 DEF k, r
  <2>7. OthersOK(c, s)
    <3> SUFFICES ASSUME NEW d \in Callers \ {c}, call[d].step # "idle",
                        call[d].server = s
                 PROVE  /\ Step(d, call[d], srv'[s])
                        /\ call'[c].attempt = 0 /\ call'[c].step \notin Building
                        /\ call[d].attempt = 0 /\ call[d].step \notin Building
      BY DEF OthersOK
    <3>1. d \in Inside(s) /\ Step(d, call[d], srv[s])
      BY <1>2
    <3>2. n = 0 /\ call[d].attempt = 0
      BY <2>1, <3>1
    <3>3. call[d].step \notin Building
      BY <2>1, <3>1 DEF Step, Building, Shared
    <3> QED
      BY <1>3, <2>1, <2>4, <3>1, <3>2, <3>3 DEF Building
  <2> QED
    BY <1>3, <2>1, <2>2, <2>3, <2>5, <2>6, <2>7, CallStep
<1> QED
  BY <1>4, <1>5

----------------------------------------------------------------------------
(* The theorems.                                                           *)

(* No Server is constructed at first.                                      *)
LEMMA InitIInv == Init => IInv
<1> SUFFICES ASSUME Init PROVE IInv
  OBVIOUS
<1>1. Unborn \in Server /\ Shape(Unborn)
  BY ConstantsAssumption
  DEF Unborn, Server, Shape, Drained, Lives, Runtimes, RuntimeCores, WorkerSteps, Requests
<1>2. Idle \in Call /\ Idle.step = "idle"
  BY StepNames DEF Idle, Call
<1>3. \A s \in Servers : srv[s] = Unborn
  BY DEF Init
<1>4. \A c \in Callers : call[c].step = "idle"
  BY <1>2 DEF Init
<1>5. TypeOK
  BY <1>1, <1>2 DEF Init, TypeOK
<1>6. Unborn.slot = FALSE
  BY DEF Unborn
<1> QED
  BY <1>1, <1>3, <1>4, <1>5, <1>6 DEF IInv, CallOK, Apart, SlotsExclude

(* Every step keeps the invariant.                                         *)
LEMMA NextIInv == IInv /\ [Next]_vars => IInv'
<1> SUFFICES ASSUME IInv, [Next]_vars PROVE IInv'
  OBVIOUS
<1>1. CASE UNCHANGED vars
  BY <1>1 DEF IInv, vars, TypeOK, CallOK, Apart, SlotsExclude
<1>2. ASSUME NEW c \in Callers, Progress(c) PROVE IInv'
  BY <1>2, ConstructorStep, LockingStep, DrainStep, TerminationStep, EndStep
  DEF Progress
<1>3. ASSUME NEW c \in Callers, NEW s \in Servers,
             Register(c, s) \/ Close(c, s) \/ Destroy(c, s)
      PROVE  IInv'
  BY <1>3, ArrivalStep
<1>4. ASSUME NEW s \in Servers,
             \/ IssuePut(s) \/ PostRequest(s) \/ Commit(s) \/ KernelStops(s)
             \/ WorkerNext(s) \/ WorkerAnswered(s) \/ WorkerFails(s)
      PROVE  IInv'
  BY <1>4, KernelStep, WorkerStep
<1> QED
  BY <1>1, <1>2, <1>3, <1>4 DEF Next

\* The inductive invariant holds in every reachable state.
THEOREM LifecycleInvariant == Spec => []IInv
BY InitIInv, NextIInv, PTL DEF Spec

\* Every field stays within its type, for any number of Servers and threads.
THEOREM TypeCorrect == Spec => []TypeOK
<1>1. IInv => TypeOK
  BY DEF IInv
<1> QED
  BY <1>1, LifecycleInvariant, PTL

\* No order of failures and retries of the constructor, close() and the
\* destructor frees memory that the kernel, the worker or a lease still reaches.
THEOREM FreedIsUnreachable == Spec => []FreedMeansUnreachable
<1>1. IInv => FreedMeansUnreachable
  <2> SUFFICES ASSUME IInv, NEW s \in Servers, srv[s].memory = "freed"
               PROVE  /\ srv[s].kernel # "running"
                      /\ srv[s].worker \in {"none", "exited"}
                      /\ srv[s].leases = 0
    BY DEF FreedMeansUnreachable
  <2>1. srv[s] \in Server /\ Shape(srv[s])
    BY DEF IInv, TypeOK
  <2> QED
    BY <2>1 DEF Shape, Server, Lives
<1> QED
  BY <1>1, LifecycleInvariant, PTL

\* A core never carries the memory of two Servers, quarantined ones included.
THEOREM CoresHaveOneTenant == Spec => []OneTenantPerCore
<1>1. IInv => OneTenantPerCore
  BY DEF IInv, Shape, SlotsExclude, OneTenantPerCore
<1> QED
  BY <1>1, LifecycleInvariant, PTL

\* The worker has left its loop before the runtime it uses is destroyed.
THEOREM WorkerOutlivedByRuntime == Spec => []WorkerHasRuntime
<1>1. IInv => WorkerHasRuntime
  <2> SUFFICES ASSUME IInv, NEW s \in Servers, srv[s].worker \in Live
               PROVE  srv[s].runtime # "none" /\ srv[s].memory = "held"
    BY DEF WorkerHasRuntime, Live
  <2>1. srv[s] \in Server /\ Shape(srv[s])
    BY DEF IInv, TypeOK
  <2> QED
    BY <2>1 DEF Shape, Server, Lives, Live
<1> QED
  BY <1>1, LifecycleInvariant, PTL

\* A Server that close() reports as closed has committed the PUTs its drain
\* waited for and has given its core back to both registries.
THEOREM ClosedIsDrainedAndFree == Spec => []ClosedMeansDrainedAndFree
<1>1. IInv => ClosedMeansDrainedAndFree
  BY DEF IInv, Shape, Drained, ClosedMeansDrainedAndFree
<1> QED
  BY <1>1, LifecycleInvariant, PTL

\* The one function that releases memory releases none that was kept.
LEMMA ResetKeeps ==
    ASSUME NEW r \in Server, r.memory = "kept",
           r.runtime \notin {"Prepared", "Terminated"}
    PROVE  Reset(r).memory = "kept"
<1>1. CASE r.runtime = "none" \/ r.runtime = "Quarantined"
  <2>1. Reset(r) = [r EXCEPT !.runtime = "none"]
    BY <1>1 DEF Reset
  <2> QED
    BY <2>1 DEF Server
<1>2. CASE r.runtime \in {"Running", "Closing"}
  <2>1. Reset(r) = [Quarantined(r) EXCEPT !.runtime = "none"]
    BY <1>2 DEF Reset
  <2> QED
    BY <2>1 DEF Quarantined, Server
<1> QED
  BY <1>1, <1>2 DEF Server, Runtimes

\* A call at work on a Server whose memory is kept leaves it kept.
LEMMA ProgressKeeps ==
    ASSUME IInv, NEW c \in Callers, Progress(c), NEW s \in Servers,
           srv[s].memory = "kept"
    PROVE  srv'[s].memory = "kept"
<1> DEFINE t == call[c].server
<1>1. /\ srv \in [Servers -> Server] /\ srv[s] \in Server /\ Shape(srv[s])
      /\ call[c].step \in CallSteps /\ call[c] \in Call
  BY DEF IInv, TypeOK, Call
<1>2. srv[s].runtime \in {"none", "Quarantined"}
      /\ srv[s].life \in {"Failed", "Quarantined", "Destroyed"}
  BY <1>1 DEF Shape, Server, Lives
<1>3. call[c].step # "idle" => t \in Servers /\ Step(c, call[c], srv[t])
  BY DEF IInv, CallOK
<1>4. CASE CreateRuntime(c) \/ CreateFails(c) \/ ThreadFails(c)
           \/ Launch(c) \/ LaunchFails(c) \/ LaunchOutcomeUnknown(c)
  <2>1. t \in Servers /\ srv[t].life = "Constructing"
    BY <1>3, <1>4 DEF CreateRuntime, CreateFails, ThreadFails, Launch,
                      LaunchFails, LaunchOutcomeUnknown, At, Step
  <2>2. s # t
    BY <1>2, <2>1
  <2>3. srv'[s] = srv[s]
    BY <1>1, <1>4, <2>2 DEF CreateRuntime, CreateFails, ThreadFails, Launch,
                            LaunchFails, LaunchOutcomeUnknown
  <2> QED
    BY <2>3
<1>5. CASE Unwind(c)
  <2>1. srv'[s] = srv[s] \/ srv'[s] = Reset(srv[s])
    BY <1>1, <1>5 DEF Unwind
  <2> QED
    BY <1>1, <1>2, <2>1, ResetKeeps
<1>6. CASE CloseReturnsAtOnce(c) \/ ForceReturns(c)
  <2>1. Returns(c, srv[t]) \/ Throws(c, srv[t])
    BY <1>6 DEF CloseReturnsAtOnce, ForceReturns
  <2> QED
    BY <1>1, <2>1 DEF Returns, Throws, Unlocked, Server
<1>7. CASE ResetRuntime(c) \/ JoinAndClear(c)
  <2>1. t \in Servers /\ srv[t].life \in {"Ready", "Closing"}
    BY <1>3, <1>7 DEF ResetRuntime, JoinAndClear, At, Step
  <2>2. s # t
    BY <1>2, <2>1
  <2>3. srv'[s] = srv[s]
    BY <1>1, <1>7, <2>2 DEF ResetRuntime, JoinAndClear, Returns, Throws
  <2> QED
    BY <2>3
<1>8. CASE DrainThrows(c) \/ FinishThrows(c)
  <2>1. t \in Servers /\ srv[t].life = "Closing"
    BY <1>3, <1>8 DEF DrainThrows, FinishThrows, At, Step
  <2>2. s # t
    BY <1>2, <2>1
  <2>3. srv'[s] = srv[s]
    BY <1>1, <1>8, <2>2 DEF DrainThrows, FinishThrows, Throws
  <2> QED
    BY <2>3
<1>9. CASE CloseStarts(c) \/ DrainCompletes(c) \/ CloseChecksWorker(c)
           \/ Terminate(c) \/ Finishes(c) \/ StopWorker(c) \/ ForceQuarantine(c)
  <2>1. CASE CloseStarts(c)
    BY <1>1, <2>1 DEF CloseStarts, Server
  <2>2. CASE DrainCompletes(c) \/ CloseChecksWorker(c)
    BY <1>1, <2>2 DEF DrainCompletes, CloseChecksWorker, Server
  <2>3. CASE Terminate(c)
    BY <1>1, <2>3 DEF Terminate, Server
  <2>4. CASE Finishes(c)
    BY <1>1, <2>4 DEF Finishes, Server
  <2>5. CASE StopWorker(c) \/ ForceQuarantine(c)
    BY SMTT(30), <1>1, <2>5 DEF StopWorker, ForceQuarantine, Server
  <2> QED
    BY <1>9, <2>1, <2>2, <2>3, <2>4, <2>5
<1> QED
  BY <1>4, <1>5, <1>6, <1>7, <1>8, <1>9 DEF Progress

(* Memory that is kept stays kept.                                         *)
LEMMA NextKeeps ==
    ASSUME IInv, Next, NEW s \in Servers, srv[s].memory = "kept"
    PROVE  srv'[s].memory = "kept"
<1>1. srv \in [Servers -> Server] /\ srv[s] \in Server
  BY DEF IInv, TypeOK
<1>2. ASSUME NEW c \in Callers, Progress(c) PROVE srv'[s].memory = "kept"
  BY <1>2, ProgressKeeps
<1>3. ASSUME NEW c \in Callers, NEW t \in Servers,
             Register(c, t) \/ Close(c, t) \/ Destroy(c, t)
      PROVE  srv'[s].memory = "kept"
  BY <1>1, <1>3 DEF Register, Close, Destroy, Server
<1>4. ASSUME NEW t \in Servers,
             IssuePut(t) \/ PostRequest(t) \/ Commit(t) \/ KernelStops(t)
      PROVE  srv'[s].memory = "kept"
  BY <1>1, <1>4 DEF IssuePut, PostRequest, Commit, KernelStops, Server
<1>5. ASSUME NEW t \in Servers, WorkerNext(t) \/ WorkerAnswered(t) \/ WorkerFails(t)
      PROVE  srv'[s].memory = "kept"
  <2>1. CASE WorkerBegins(t)
    BY <1>1, <2>1 DEF WorkerBegins, Server
  <2>2. CASE WorkerAnswered(t) \/ WorkerExits(t)
    BY <1>1, <2>2 DEF WorkerAnswered, WorkerExits, Server
  <2>3. CASE WorkerCompletes(t)
    BY <1>1, <2>3 DEF WorkerCompletes, Server
  <2>4. CASE WorkerPolls(t) \/ WorkerLeaves(t) \/ WorkerCancelled(t) \/ WorkerFails(t)
    BY <1>1, <2>4
    DEF WorkerPolls, WorkerLeaves, WorkerCancelled, WorkerFails, Worker, Server
  <2> QED
    BY <1>5, <2>1, <2>2, <2>3, <2>4 DEF WorkerNext
<1> QED
  BY <1>2, <1>3, <1>4, <1>5 DEF Next

\* What a quarantine keeps, and the inner slot with it, is never given back: no
\* later close(), constructor or destructor of any Server reaches it.
THEOREM QuarantineLasts == Spec => QuarantineIsForever
<1>1. ASSUME IInv, [Next]_vars
      PROVE  [\A s \in Servers : srv[s].memory = "kept" =>
                /\ srv'[s].memory = "kept"
                /\ srv'[s].slot]_vars
  <2> SUFFICES ASSUME Next, NEW s \in Servers, srv[s].memory = "kept"
               PROVE  srv'[s].memory = "kept" /\ srv'[s].slot
    BY <1>1
  <2>1. srv'[s].memory = "kept"
    BY <1>1, NextKeeps
  <2>2. IInv'
    BY <1>1, NextIInv
  <2>3. Shape(srv'[s])
    BY <2>2 DEF IInv
  <2> QED
    BY <2>1, <2>3 DEF Shape
<1> QED
  BY <1>1, LifecycleInvariant, PTL DEF Spec, QuarantineIsForever

=============================================================================
