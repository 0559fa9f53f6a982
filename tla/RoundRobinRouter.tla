------------------------- MODULE RoundRobinRouter -------------------------
(***************************************************************************)
(* The router of one model (src/sllm/routers/roundrobin_router.py): a Ray  *)
(* actor that queues the calls for the model, balances them over the ready *)
(* instances and scales the instances with the demand.                     *)
(*                                                                         *)
(* One asyncio event loop runs the calls, the load balancer, the auto      *)
(* scaler and one task per instance that starts or stops.  None of the     *)
(* locks is held across a wait, so none is ever contended and a coroutine  *)
(* keeps the event loop until it sleeps, awaits a future or a queue that   *)
(* is empty, or awaits another actor: an action is what happens between    *)
(* two such points.  The length of the sleeps is not modelled.             *)
(***************************************************************************)
EXTENDS Integers, FiniteSets, SequencesExt

CONSTANTS
    Inferences,   \* the calls of inference()
    FineTunings,  \* the calls of fine_tuning()
    Adapters,     \* the names of LoRA adapters
    AdapterOf,    \* the adapter an inference call asks for, or NoAdapter
    NoAdapter,
    Instances,    \* instance ids; an id no one holds any more stands for a
                  \* new uuid, so this bounds the instances alive at a time
    Configs,      \* the auto-scaling configs of start() and update()
    Period,       \* bound: round_robin_index is kept modulo Period
    Faults,       \* what may fail: a subset of {"start", "backend"}
    NoCall,       \* the load balancer holds no call
    NoInstance    \* the future of a call is not done

Calls == Inferences \cup FineTunings

\* min_instances, max_instances, target and keep_alive are entries of the
\* config; concurrency says that its metric is "concurrency".
Config == [min_instances : Nat, max_instances : Nat, target : Nat \ {0},
           keep_alive : Nat, concurrency : BOOLEAN]

ASSUME CallsAssumption ==
    /\ IsFiniteSet(Calls)
    /\ Inferences \cap FineTunings = {}
    /\ AdapterOf \in [Calls -> Adapters \cup {NoAdapter}]
    /\ \A c \in FineTunings : AdapterOf[c] = NoAdapter
    /\ NoAdapter \notin Adapters
    /\ NoCall \notin Calls
ASSUME InstancesAssumption ==
    /\ IsFiniteSet(Instances)
    /\ NoInstance \notin Instances
    /\ Period \in Nat \ {0}
    /\ \A k \in 1 .. Cardinality(Instances) : Period % k = 0
ASSUME ConfigsAssumption == Configs \subseteq Config

VARIABLES
    started,             \* start() was called: both loops run
    running,             \* self.running
    auto_scaling_config,
    loaded_lora_adapters,
    request_queue,       \* the calls whose future is in the queue
    lb_request,          \* the call the load balancer holds
    round_robin_index,
    starting_instances,  \* the keys of the three dicts of instances; those
    ready_instances,     \* of ready_instances in dict order
    deleting_instances,
    condemned,           \* _shutdown_instance tasks that have not begun
    task,                \* where the task that starts or stops an instance is
    max_queue_length,    \* per instance handle
    concurrency,         \* per instance handle
    request_count,
    fine_tuning_count,
    idle_time,
    scaler,              \* "stopping": it waits in _stop_instance
    call,                \* where each call is
    allocation           \* the instance the future of a call was set to

configVars   == <<started, running, auto_scaling_config, loaded_lora_adapters>>
balancerVars == <<request_queue, lb_request, round_robin_index>>
instanceVars == <<starting_instances, ready_instances, deleting_instances,
                  condemned, task, max_queue_length>>
countVars    == <<request_count, fine_tuning_count>>
callVars     == <<call, allocation>>
vars == <<configVars, balancerVars, instanceVars, concurrency, countVars,
          idle_time, scaler, callVars>>

(***************************************************************************)
(* Helpers                                                                 *)
(***************************************************************************)

Ready == ToSet(ready_instances)

\* The call was given instance i and has not returned.
On(c, i) == allocation[c] = i /\ call[c] \in {"assigned", "executing"}

\* Mutant of Desired: the fine-tuning calls are not counted.
DesiredInferenceOnly ==
    LET cfg == auto_scaling_config
    IN  Min({cfg.max_instances,
             Max({cfg.min_instances,
                  (request_count + cfg.target - 1) \div cfg.target})})

\* auto_scaler(): one instance per target calls, rounded up, within limits.
Desired ==
    LET cfg == auto_scaling_config
        count == request_count + fine_tuning_count
    IN  Min({cfg.max_instances,
             Max({cfg.min_instances,
                  (count + cfg.target - 1) \div cfg.target})})

NumRunning == Cardinality(starting_instances) + Len(ready_instances)

\* The round-robin choice among the ready instances.
Choice == ready_instances[(round_robin_index % Len(ready_instances)) + 1]

\* An id nothing refers to: it can stand for a new one.
Fresh(i) == /\ task[i] = "none"
            /\ i \notin condemned
            /\ \A c \in Calls : ~On(c, i)

----------------------------------------------------------------------------
Init ==
    /\ started = FALSE
    /\ running = FALSE
    /\ auto_scaling_config \in Configs
    /\ loaded_lora_adapters \in SUBSET Adapters
    /\ request_queue = <<>>
    /\ lb_request = NoCall
    /\ round_robin_index = 0
    /\ starting_instances = {}
    /\ ready_instances = <<>>
    /\ deleting_instances = {}
    /\ condemned = {}
    /\ task = [i \in Instances |-> "none"]
    /\ max_queue_length = [i \in Instances |-> 0]
    /\ concurrency = [i \in Instances |-> 0]
    /\ request_count = 0
    /\ fine_tuning_count = 0
    /\ idle_time = 0
    /\ scaler = "deciding"
    /\ call = [c \in Calls |-> "new"]
    /\ allocation = [c \in Calls |-> NoInstance]

----------------------------------------------------------------------------
(***************************************************************************)
(* start, update, delete_adapters and shutdown                             *)
(***************************************************************************)

\* start(): the controller calls it once, when it has created the router.
Start ==
    /\ ~started
    /\ started' = TRUE
    /\ running' = TRUE
    /\ UNCHANGED <<auto_scaling_config, loaded_lora_adapters, balancerVars,
                   instanceVars, concurrency, countVars, idle_time, scaler,
                   callVars>>

UpdateConfig(cfg) ==
    /\ started
    /\ cfg # auto_scaling_config
    /\ auto_scaling_config' = cfg
    /\ UNCHANGED <<started, running, loaded_lora_adapters, balancerVars,
                   instanceVars, concurrency, countVars, idle_time, scaler,
                   callVars>>

\* update() with new adapters, and delete_adapters().
UpdateAdapters(adapters) ==
    /\ started
    /\ adapters # loaded_lora_adapters
    /\ loaded_lora_adapters' = adapters
    /\ UNCHANGED <<started, running, auto_scaling_config, balancerVars,
                   instanceVars, concurrency, countVars, idle_time, scaler,
                   callVars>>

\* shutdown() with calls in the queue: line 245 unpacks a future that is not
\* done, which raises.  The future it took is never set; nothing is stopped.
ShutdownRaises ==
    /\ started
    /\ request_queue # <<>>
    /\ running' = FALSE
    /\ request_queue' = Tail(request_queue)
    /\ call' = [call EXCEPT ![Head(request_queue)] = "lost"]
    /\ UNCHANGED <<started, auto_scaling_config, loaded_lora_adapters,
                   lb_request, round_robin_index, instanceVars, concurrency,
                   countVars, idle_time, scaler, allocation>>

\* shutdown(): one _shutdown_instance task per instance that is ready now.
\* Neither loop is cancelled.
Shutdown ==
    /\ started
    /\ request_queue = <<>>
    /\ running' = FALSE
    /\ condemned' = condemned \cup Ready
    /\ UNCHANGED <<started, auto_scaling_config, loaded_lora_adapters,
                   balancerVars, starting_instances, ready_instances,
                   deleting_instances, task, max_queue_length, concurrency,
                   countVars, idle_time, scaler, callVars>>

\* Mutant of ShutdownInstance: the instance stays in ready_instances.
ShutdownInstanceKeepsReady(i) ==
    /\ i \in condemned
    /\ condemned' = condemned \ {i}
    /\ task' = [task EXCEPT ![i] = IF i \in Ready THEN "stopping" ELSE @]
    /\ UNCHANGED <<configVars, balancerVars, starting_instances,
                   ready_instances, deleting_instances, max_queue_length,
                   concurrency, countVars, idle_time, scaler, callVars>>

\* _shutdown_instance() up to the call of the backend's shutdown; it gives up
\* when the auto scaler has taken the instance in the meantime.
ShutdownInstance(i) ==
    /\ i \in condemned
    /\ condemned' = condemned \ {i}
    /\ \/ /\ i \notin Ready
          /\ UNCHANGED <<ready_instances, task>>
       \/ /\ \E k \in DOMAIN ready_instances :
                 /\ ready_instances[k] = i
                 /\ ready_instances' = RemoveAt(ready_instances, k)
          /\ task' = [task EXCEPT ![i] = "stopping"]
    /\ UNCHANGED <<configVars, balancerVars, starting_instances,
                   deleting_instances, max_queue_length, concurrency,
                   countVars, idle_time, scaler, callVars>>

----------------------------------------------------------------------------
(***************************************************************************)
(* Calls.  One that is refused at once, because the router is stopped or a *)
(* call of the other kind is in progress, changes nothing.                 *)
(***************************************************************************)

Enqueue(c) ==
    /\ call[c] = "new"
    /\ running
    /\ request_queue' = Append(request_queue, c)
    /\ call' = [call EXCEPT ![c] = "waiting"]

\* Mutant of Inference: the call is counted when it is assigned.
InferenceUncounted(c) ==
    /\ Enqueue(c)
    /\ fine_tuning_count = 0
    /\ idle_time' = 0
    /\ UNCHANGED <<configVars, lb_request, round_robin_index, instanceVars,
                   concurrency, countVars, scaler, allocation>>

\* inference() up to the await of its future.
Inference(c) ==
    /\ Enqueue(c)
    /\ fine_tuning_count = 0
    /\ request_count' = request_count + 1
    /\ idle_time' = 0
    /\ UNCHANGED <<configVars, lb_request, round_robin_index, instanceVars,
                   concurrency, fine_tuning_count, scaler, allocation>>

\* Mutant of FineTuning: it starts while inference calls are in progress.
FineTuningAnyTime(c) ==
    /\ Enqueue(c)
    /\ fine_tuning_count' = fine_tuning_count + 1
    /\ UNCHANGED <<configVars, lb_request, round_robin_index, instanceVars,
                   concurrency, request_count, idle_time, scaler, allocation>>

\* Mutant of FineTuning: the count is a flag.
FineTuningFlag(c) ==
    /\ Enqueue(c)
    /\ request_count = 0
    /\ fine_tuning_count' = 1
    /\ UNCHANGED <<configVars, lb_request, round_robin_index, instanceVars,
                   concurrency, request_count, idle_time, scaler, allocation>>

\* fine_tuning() up to the await of its future.
FineTuning(c) ==
    /\ Enqueue(c)
    /\ request_count = 0
    /\ fine_tuning_count' = fine_tuning_count + 1
    /\ UNCHANGED <<configVars, lb_request, round_robin_index, instanceVars,
                   concurrency, request_count, idle_time, scaler, allocation>>

\* The lookups of lines 159 and 165-167 succeed.
InstanceFound(c) == allocation[c] \in Ready
AdapterFound(c) == AdapterOf[c] \in loaded_lora_adapters \cup {NoAdapter}

\* The call resumes with an instance and sends the request to its backend.  A
\* fine-tuning call overwrites the concurrency of the instance.
Resume(c) ==
    /\ call[c] = "assigned"
    /\ InstanceFound(c)
    /\ AdapterFound(c)
    /\ call' = [call EXCEPT ![c] = "executing"]
    /\ concurrency' = IF c \in FineTunings
                      THEN [concurrency EXCEPT ![allocation[c]] = 1]
                      ELSE concurrency
    /\ UNCHANGED <<configVars, balancerVars, instanceVars, countVars,
                   idle_time, scaler, allocation>>

\* Mutant of ResumeNotFound: the call is queued again.
ResumeNotFoundRetries(c) ==
    /\ call[c] = "assigned"
    /\ ~ (InstanceFound(c) /\ AdapterFound(c))
    /\ call' = [call EXCEPT ![c] = "waiting"]
    /\ request_queue' = Append(request_queue, c)
    /\ UNCHANGED <<configVars, lb_request, round_robin_index, instanceVars,
                   concurrency, countVars, idle_time, scaler, allocation>>

\* Mutant of ResumeNotFound: it gives back a count, but always the same one.
ResumeNotFoundGivesBack(c) ==
    /\ call[c] = "assigned"
    /\ ~ (InstanceFound(c) /\ AdapterFound(c))
    /\ call' = [call EXCEPT ![c] = "lost"]
    /\ request_count' = request_count - 1
    /\ UNCHANGED <<configVars, balancerVars, instanceVars, concurrency,
                   fine_tuning_count, idle_time, scaler, allocation>>

\* The instance was stopped in between, or the adapter is not loaded: the
\* call returns an error and neither count is given back.
ResumeNotFound(c) ==
    /\ call[c] = "assigned"
    /\ ~ (InstanceFound(c) /\ AdapterFound(c))
    /\ call' = [call EXCEPT ![c] = "lost"]
    /\ UNCHANGED <<configVars, balancerVars, instanceVars, concurrency,
                   countVars, idle_time, scaler, allocation>>

\* The actor of the instance exists and can answer.
Alive(i) == task[i] \in {"serving", "deleting", "stopping"}

\* Mutant of AddRequests: no lower bound.
AddRequestsUnbounded(i, n) ==
    [concurrency EXCEPT ![i] = IF @ + n > max_queue_length[i] THEN @
                               ELSE @ + n]

\* InstanceHandle.add_requests(n): concurrency after it.  ready is set before
\* an instance gets into ready_instances and never reset.
AddRequests(i, n) ==
    [concurrency EXCEPT ![i] =
        IF @ + n > max_queue_length[i] \/ @ + n < 0 THEN @ ELSE @ + n]

\* Mutant of Finish: only inference calls are given back.
FinishForgets(c) ==
    /\ call[c] = "executing"
    /\ Alive(allocation[c])
    /\ call' = [call EXCEPT ![c] = "done"]
    /\ concurrency' = AddRequests(allocation[c], -1)
    /\ request_count' = request_count - (IF c \in Inferences THEN 1 ELSE 0)
    /\ UNCHANGED <<configVars, balancerVars, instanceVars, fine_tuning_count,
                   idle_time, scaler, allocation>>

\* The backend answers, if only with an error.
Finish(c) ==
    /\ call[c] = "executing"
    /\ Alive(allocation[c])
    /\ call' = [call EXCEPT ![c] = "done"]
    /\ concurrency' = AddRequests(allocation[c], -1)
    /\ IF c \in Inferences
       THEN /\ request_count' = request_count - 1
            /\ UNCHANGED fine_tuning_count
       ELSE /\ fine_tuning_count' = fine_tuning_count - 1
            /\ UNCHANGED request_count
    /\ UNCHANGED <<configVars, balancerVars, instanceVars, idle_time, scaler,
                   allocation>>

\* The call of the backend raises: its actor was killed, or it failed.  The
\* exception leaves the concurrency and the counts as they are.
Fail(c) ==
    /\ call[c] = "executing"
    /\ ~Alive(allocation[c]) \/ "backend" \in Faults
    /\ call' = [call EXCEPT ![c] = "lost"]
    /\ UNCHANGED <<configVars, balancerVars, instanceVars, concurrency,
                   countVars, idle_time, scaler, allocation>>

----------------------------------------------------------------------------
(***************************************************************************)
(* _load_balancer_loop                                                     *)
(***************************************************************************)

NextIndex == (round_robin_index + 1) % Period

\* request_queue.get()
LbTake ==
    /\ started
    /\ lb_request = NoCall
    /\ request_queue # <<>>
    /\ lb_request' = Head(request_queue)
    /\ request_queue' = Tail(request_queue)
    /\ UNCHANGED <<configVars, round_robin_index, instanceVars, concurrency,
                   countVars, idle_time, scaler, callVars>>

\* Mutant of HasRoom: off by one.
HasRoomForOneMore(i) == concurrency[i] <= max_queue_length[i]

\* InstanceHandle.check_request_queue()
HasRoom(i) == concurrency[i] + 1 <= max_queue_length[i]

\* Mutant of LbAssign: the call it takes next stays in the queue.
LbAssignKeepsQueue ==
    /\ lb_request # NoCall
    /\ ready_instances # <<>>
    /\ HasRoom(Choice)
    /\ concurrency' = [concurrency EXCEPT ![Choice] = @ + 1]
    /\ call' = [call EXCEPT ![lb_request] = "assigned"]
    /\ allocation' = [allocation EXCEPT ![lb_request] = Choice]
    /\ round_robin_index' = NextIndex
    /\ lb_request' = IF request_queue = <<>> THEN NoCall
                     ELSE Head(request_queue)
    /\ UNCHANGED <<configVars, request_queue, instanceVars, countVars,
                   idle_time, scaler>>

\* The sleep ends, an instance is ready and has room: the future is set, and
\* the next get() returns at once if a call is queued.
LbAssign ==
    /\ lb_request # NoCall
    /\ ready_instances # <<>>
    /\ HasRoom(Choice)
    /\ concurrency' = [concurrency EXCEPT ![Choice] = @ + 1]
    /\ call' = [call EXCEPT ![lb_request] = "assigned"]
    /\ allocation' = [allocation EXCEPT ![lb_request] = Choice]
    /\ round_robin_index' = NextIndex
    /\ IF request_queue = <<>>
       THEN /\ lb_request' = NoCall
            /\ UNCHANGED request_queue
       ELSE /\ lb_request' = Head(request_queue)
            /\ request_queue' = Tail(request_queue)
    /\ UNCHANGED <<configVars, instanceVars, countVars, idle_time, scaler>>

\* The chosen instance is full: sleep, then try the next one.
LbFull ==
    /\ lb_request # NoCall
    /\ ready_instances # <<>>
    /\ ~HasRoom(Choice)
    /\ round_robin_index' = NextIndex
    /\ UNCHANGED <<configVars, request_queue, lb_request, instanceVars,
                   concurrency, countVars, idle_time, scaler, callVars>>

----------------------------------------------------------------------------
(***************************************************************************)
(* _auto_scaler_loop: one iteration creates at most one instance or stops  *)
(* at most one                                                             *)
(***************************************************************************)

Deciding == started /\ scaler = "deciding"

TooMany == Desired < NumRunning

\* Mutant of ScaleUp: the instance is not entered in starting_instances.
ScaleUpUnrecorded(i) ==
    /\ Deciding
    /\ Desired > NumRunning
    /\ Fresh(i)
    /\ task' = [task EXCEPT ![i] = "allocating"]
    /\ concurrency' = [concurrency EXCEPT ![i] = 0]
    /\ max_queue_length' =
           [max_queue_length EXCEPT ![i] =
               IF auto_scaling_config.concurrency
               THEN auto_scaling_config.target ELSE 1]
    /\ UNCHANGED <<configVars, balancerVars, starting_instances,
                   ready_instances, deleting_instances, condemned, countVars,
                   idle_time, scaler, callVars>>

\* _create_instance(), and its _start_instance task up to the call of the
\* scheduler's allocate_resource.
ScaleUp(i) ==
    /\ Deciding
    /\ Desired > NumRunning
    /\ Fresh(i)
    /\ starting_instances' = starting_instances \cup {i}
    /\ task' = [task EXCEPT ![i] = "allocating"]
    /\ concurrency' = [concurrency EXCEPT ![i] = 0]
    /\ max_queue_length' =
           [max_queue_length EXCEPT ![i] =
               IF auto_scaling_config.concurrency
               THEN auto_scaling_config.target ELSE 1]
    /\ UNCHANGED <<configVars, balancerVars, ready_instances,
                   deleting_instances, condemned, countVars, idle_time,
                   scaler, callVars>>

\* There are too many instances, but not for long enough.
IdleTick ==
    /\ Deciding
    /\ TooMany
    /\ idle_time < auto_scaling_config.keep_alive
    /\ idle_time' = idle_time + 1
    /\ UNCHANGED <<configVars, balancerVars, instanceVars, concurrency,
                   countVars, scaler, callVars>>

\* _stop_instance() finds no ready instance: it waits for one, and the loop
\* decides nothing else until then.
AwaitReady ==
    /\ Deciding
    /\ TooMany
    /\ idle_time >= auto_scaling_config.keep_alive
    /\ ready_instances = <<>>
    /\ scaler' = "stopping"
    /\ UNCHANGED <<configVars, balancerVars, instanceVars, concurrency,
                   countVars, idle_time, callVars>>

\* _stop_instance() takes the instance that became ready last.
StopInstance ==
    /\ \/ scaler = "stopping"
       \/ Deciding /\ TooMany /\ idle_time >= auto_scaling_config.keep_alive
    /\ ready_instances # <<>>
    /\ ready_instances' = Front(ready_instances)
    /\ deleting_instances' = deleting_instances \cup {Last(ready_instances)}
    /\ task' = [task EXCEPT ![Last(ready_instances)] = "deleting"]
    /\ idle_time' = 0
    /\ scaler' = "deciding"
    /\ UNCHANGED <<configVars, balancerVars, starting_instances, condemned,
                   max_queue_length, concurrency, countVars, callVars>>

----------------------------------------------------------------------------
(***************************************************************************)
(* The tasks that start and stop an instance                               *)
(***************************************************************************)

\* The scheduler answers allocate_resource: the instance holds its GPUs, and
\* start_instance creates its actor.
Allocated(i) ==
    /\ task[i] = "allocating"
    /\ task' = [task EXCEPT ![i] = "loading"]
    /\ UNCHANGED <<configVars, balancerVars, starting_instances,
                   ready_instances, deleting_instances, condemned,
                   max_queue_length, concurrency, countVars, idle_time,
                   scaler, callVars>>

\* init_backend returns.
Loaded(i) ==
    /\ task[i] = "loading"
    /\ task' = [task EXCEPT ![i] = "serving"]
    /\ ready_instances' = Append(ready_instances, i)
    /\ starting_instances' = starting_instances \ {i}
    /\ UNCHANGED <<configVars, balancerVars, deleting_instances, condemned,
                   max_queue_length, concurrency, countVars, idle_time,
                   scaler, callVars>>

\* start_instance or init_backend raises, and so does the task: nobody takes
\* the instance out of starting_instances or gives its GPUs back.
LoadFails(i) ==
    /\ "start" \in Faults
    /\ task[i] = "loading"
    /\ task' = [task EXCEPT ![i] = "failed"]
    /\ UNCHANGED <<configVars, balancerVars, starting_instances,
                   ready_instances, deleting_instances, condemned,
                   max_queue_length, concurrency, countVars, idle_time,
                   scaler, callVars>>

\* _finish_instance() up to the call of the backend's stop.
FinishInstance(i) ==
    /\ i \in deleting_instances
    /\ deleting_instances' = deleting_instances \ {i}
    /\ task' = [task EXCEPT ![i] = "stopping"]
    /\ UNCHANGED <<configVars, balancerVars, starting_instances,
                   ready_instances, condemned, max_queue_length, concurrency,
                   countVars, idle_time, scaler, callVars>>

\* Mutant of Kill: deallocate_resource is not called.
KillLeaks(i) ==
    /\ task[i] = "stopping"
    /\ task' = [task EXCEPT ![i] = "failed"]
    /\ UNCHANGED <<configVars, balancerVars, starting_instances,
                   ready_instances, deleting_instances, condemned,
                   max_queue_length, concurrency, countVars, idle_time,
                   scaler, callVars>>

\* The backend has stopped or shut down and the actor is killed; stop() waits
\* for the requests it knows, but a call may not have reached it yet.
Kill(i) ==
    /\ task[i] = "stopping"
    /\ task' = [task EXCEPT ![i] = "killed"]
    /\ UNCHANGED <<configVars, balancerVars, starting_instances,
                   ready_instances, deleting_instances, condemned,
                   max_queue_length, concurrency, countVars, idle_time,
                   scaler, callVars>>

\* The scheduler answers deallocate_resource.
Deallocated(i) ==
    /\ task[i] = "killed"
    /\ task' = [task EXCEPT ![i] = "none"]
    /\ UNCHANGED <<configVars, balancerVars, starting_instances,
                   ready_instances, deleting_instances, condemned,
                   max_queue_length, concurrency, countVars, idle_time,
                   scaler, callVars>>

----------------------------------------------------------------------------
Scale == (\E i \in Instances : ScaleUp(i)) \/ IdleTick \/ AwaitReady
             \/ StopInstance

Next ==
    \/ Start
    \/ \E cfg \in Configs : UpdateConfig(cfg)
    \/ \E adapters \in SUBSET Adapters : UpdateAdapters(adapters)
    \/ ShutdownRaises
    \/ Shutdown
    \/ \E c \in Inferences : Inference(c)
    \/ \E c \in FineTunings : FineTuning(c)
    \/ \E c \in Calls : \/ Resume(c)
                        \/ ResumeNotFound(c)
                        \/ Finish(c)
                        \/ Fail(c)
    \/ LbTake
    \/ LbAssign
    \/ LbFull
    \/ IdleTick
    \/ AwaitReady
    \/ StopInstance
    \/ \E i \in Instances : \/ ScaleUp(i)
                            \/ Allocated(i)
                            \/ Loaded(i)
                            \/ LoadFails(i)
                            \/ FinishInstance(i)
                            \/ ShutdownInstance(i)
                            \/ Kill(i)
                            \/ Deallocated(i)

Spec == Init /\ [][Next]_vars

(***************************************************************************)
(* Fairness.  The loops wake up every second; asyncio runs every coroutine *)
(* whose await is over; the scheduler grants a request some node is large  *)
(* enough for (EventuallyServed of FcfsScheduler); backends load, answer   *)
(* and stop in the end.  Nothing makes anybody call the router.            *)
(***************************************************************************)
Fairness ==
    /\ WF_vars(LbTake)
    /\ WF_vars(LbAssign \/ LbFull)
    /\ WF_vars(Scale)
    /\ \A c \in Calls : /\ WF_vars(Resume(c) \/ ResumeNotFound(c))
                        /\ WF_vars(Finish(c) \/ Fail(c))
    /\ \A i \in Instances : /\ WF_vars(Allocated(i))
                            /\ WF_vars(Loaded(i) \/ LoadFails(i))
                            /\ WF_vars(FinishInstance(i))
                            /\ WF_vars(ShutdownInstance(i))
                            /\ WF_vars(Kill(i))
                            /\ WF_vars(Deallocated(i))

FairSpec == Spec /\ Fairness

----------------------------------------------------------------------------
(***************************************************************************)
(* Properties                                                              *)
(***************************************************************************)

\* The type of every variable.
TypeOK ==
    /\ started \in BOOLEAN
    /\ running \in BOOLEAN
    /\ auto_scaling_config \in Configs
    /\ loaded_lora_adapters \in SUBSET Adapters
    /\ request_queue \in Seq(Calls)
    /\ lb_request \in Calls \cup {NoCall}
    /\ round_robin_index \in 0 .. Period - 1
    /\ starting_instances \in SUBSET Instances
    /\ ready_instances \in Seq(Instances)
    /\ deleting_instances \in SUBSET Instances
    /\ condemned \in SUBSET Instances
    /\ task \in [Instances -> {"none", "allocating", "loading", "failed",
                               "serving", "deleting", "stopping", "killed"}]
    /\ max_queue_length \in [Instances -> Nat]
    /\ concurrency \in [Instances -> Nat]
    /\ request_count \in Nat
    /\ fine_tuning_count \in Nat
    /\ idle_time \in Nat
    /\ scaler \in {"deciding", "stopping"}
    /\ call \in [Calls -> {"new", "waiting", "assigned", "executing", "done",
                           "lost"}]
    /\ allocation \in [Calls -> Instances \cup {NoInstance}]

InFlight(c) == call[c] \in {"waiting", "assigned", "executing"}

\* The calls that ended without giving their counts back.
Lost == {c \in Calls : call[c] = "lost"}

\* Inference and fine-tuning exclude each other: lines 141 and 199 each look
\* at the count of the other kind before any wait, so no interleaving of
\* calls, answers and losses brings the two kinds in flight together.
Exclusive ==
    ~ \E c \in Inferences, d \in FineTunings : InFlight(c) /\ InFlight(d)

\* What the auto scaler reads never underestimates the demand: each count
\* covers the calls of its kind that are in flight, whatever was lost.
DemandCovered ==
    /\ Cardinality({c \in Inferences : InFlight(c)}) <= request_count
    /\ Cardinality({c \in FineTunings : InFlight(c)}) <= fine_tuning_count

\* No instance is sent more inference calls than its max_queue_length, though
\* calls resume, end and fail, and fine-tuning overwrites concurrency (218).
NoOverload ==
    \A i \in Instances :
        Cardinality({c \in Inferences : On(c, i)}) <= max_queue_length[i]

\* Starting and ready instances together never exceed the largest
\* max_instances that was configured, while creations, loads and stops overlap.
InstanceBudget ==
    \E cfg \in Configs : NumRunning <= cfg.max_instances

\* Also when fine-tuning overwrites a count none is negative, the demand is not
\* underestimated, and no instance too many is created.
CountsAreRight == TypeOK /\ DemandCovered /\ InstanceBudget

\* Every instance that was created is in the one dict its task says, or in
\* the hands of its stop task: none is in two of them, ready twice, or holds
\* GPUs where nobody would ever stop it.
NoOrphan ==
    /\ IsInjective(ready_instances)
    /\ Ready = {i \in Instances : task[i] = "serving"}
    /\ starting_instances =
           {i \in Instances : task[i] \in {"allocating", "loading", "failed"}}
    /\ deleting_instances = {i \in Instances : task[i] = "deleting"}

\* The futures that will be set, in order.
Pending == (IF lb_request = NoCall THEN <<>> ELSE <<lb_request>>)
               \o request_queue

\* Every call that waits is in the queue or held by the load balancer exactly
\* once, and no other is: each future is set once and none is forgotten.
WaitingIsPending ==
    /\ IsInjective(Pending)
    /\ ToSet(Pending) = {c \in Calls : call[c] = "waiting"}

\* The counts, the queue, the dicts of instances and their tasks agree, however
\* calls, the loops, shutdown and failures interleave.
RouterIsConsistent ==
    TypeOK /\ Exclusive /\ DemandCovered /\ NoOverload /\ NoOrphan /\ WaitingIsPending

\* The router implements ModelService: a call is sent once, to an instance
\* that is ready and has room, and calls of the two kinds never overlap.
Service == INSTANCE ModelService
    WITH up <- Ready,
         capacity <- max_queue_length,
         phase <- [c \in Calls |->
                      CASE call[c] \in {"assigned", "executing"} -> "sent"
                        [] call[c] \in {"done", "lost"} -> "ended"
                        [] OTHER -> call[c]],
         where <- allocation

ImplementsService == Service!Spec

\* A call that waits is given an instance in the end, unless the router is
\* shut down or a lost call still occupies its place.
EventuallyAssigned ==
    \A c \in Calls :
        call[c] = "waiting" /\ running
            ~> call[c] # "waiting" \/ ~running \/ Lost # {}

Quiet == \A c \in Calls : ~InFlight(c)

\* With min_instances 0 a model no one calls is scaled to zero, unless a lost
\* call keeps its count up.
ScalesToZero ==
    Quiet /\ auto_scaling_config.min_instances = 0
        ~> NumRunning = 0 \/ ~Quiet \/ Lost # {}

\* An instance the auto scaler stops gives its GPUs back to the scheduler.
GivesGpusBack ==
    \A i \in Instances : task[i] = "deleting" ~> task[i] = "none"

\* "How long a model instance stays alive after inference ends"
\* (docs/api/cli.md, keep_alive): the auto scaler stops no instance that a
\* call is still being processed on.
StopsOnlyIdle ==
    [][\A i \in deleting_instances' \ deleting_instances :
           \A c \in Calls : ~On(c, i)]_vars

\* "Maximum number of model instances" (docs/api/cli.md, max_instances):
\* the instances of a running router, from the request for GPUs to their
\* return.
MaxInstances ==
    running => Cardinality({i \in Instances : task[i] # "none"})
                   <= auto_scaling_config.max_instances

\* "check if the request queue reaches max length" (line 282): no instance
\* has more calls, of either kind, than its max_queue_length.
QueueLimit ==
    \A i \in Instances :
        Cardinality({c \in Calls : On(c, i)}) <= max_queue_length[i]

\* "How long a model instance stays alive after inference ends"
\* (docs/api/cli.md, keep_alive): a finite time while the router runs.
InstancesExpire ==
    Quiet /\ running /\ auto_scaling_config.min_instances = 0
        ~> NumRunning = 0 \/ ~Quiet \/ ~running

=============================================================================
