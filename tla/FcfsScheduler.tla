--------------------------- MODULE FcfsScheduler ---------------------------
(***************************************************************************)
(* The first-come-first-served scheduler: the Ray actor that hands the     *)
(* GPUs of the worker nodes to the model instances the routers start.      *)
(*                                                                         *)
(* The actor runs on one asyncio event loop.  None of its locks is ever    *)
(* contended, so a coroutine keeps the event loop until it awaits          *)
(* something that is really pending.  allocate_resource does so once, on   *)
(* the future it put in the queue; deallocate_resource never does; the     *)
(* control loop does so only in its sleep, so one iteration of it is a     *)
(* critical section.  It is written here one request at a time: while      *)
(* loading_requests is not empty the control loop holds the event loop.    *)
(***************************************************************************)
EXTENDS Integers, FiniteSets, SequencesExt

CONSTANTS
    Models,     \* the model names
    Requests,   \* the instance ids: each is allocated for once
    ModelOf,    \* the model an instance id is an instance of
    NumGpus,    \* resources["num_gpus"] of the request for an instance
    Nodes,      \* the worker nodes that may join the cluster
    TotalGpus,  \* the "GPU" resource a node announces
    NoNode,     \* a future that is not done, an instance with no node
    MaxStarts   \* bound: the number of successful calls of start()

ASSUME RequestsAssumption ==
    /\ IsFiniteSet(Requests)
    /\ ModelOf \in [Requests -> Models]
    /\ NumGpus \in [Requests -> Nat]
ASSUME NodesAssumption ==
    /\ IsFiniteSet(Nodes)
    /\ TotalGpus \in [Nodes -> Nat]
    /\ NoNode \notin Nodes
ASSUME BoundAssumption == MaxStarts \in Nat

VARIABLES
    running,              \* self.running
    loops,                \* control loop tasks that have not returned
    starts,               \* successful calls of start()
    model_order,          \* the keys of model_loading_queues, in dict order
    model_loading_queues, \* per model, the requests not yet served
    request_time,         \* when each request was queued, 0 before
    clock,                \* time.time()
    allocation_result,    \* the node each request's future was set to
    model_instance,       \* the node recorded for each instance
    caller,               \* where the caller of each request is
    worker_nodes,         \* the keys of self.worker_nodes, in dict order
    free_gpu,             \* worker_nodes[node]["free_gpu"]
    ray_nodes,            \* the worker nodes ray.nodes() lists now
    loading_requests      \* what is left of the control loop's pass

vars == <<running, loops, starts, model_order, model_loading_queues,
          request_time, clock, allocation_result, model_instance, caller,
          worker_nodes, free_gpu, ray_nodes, loading_requests>>

(***************************************************************************)
(* Helpers                                                                 *)
(***************************************************************************)

\* The control loop is in the middle of a pass and holds the event loop.
Busy == loading_requests # {}

Known == ToSet(worker_nodes)

Queued(r) == \E i \in DOMAIN model_loading_queues[ModelOf[r]] :
                 model_loading_queues[ModelOf[r]][i] = r

QueueEntry == [req : Requests, idx : Nat \ {0}]

\* Mutant of Snapshot: the indices start at 0.
SnapshotFromZero ==
    UNION {{[req |-> model_loading_queues[m][i], idx |-> i - 1] :
               i \in DOMAIN model_loading_queues[m]} : m \in Models}

\* loading_requests as lines 113-132 collect it: every queued request with
\* its index in the queue of its model.
Snapshot ==
    UNION {{[req |-> model_loading_queues[m][i], idx |-> i] :
               i \in DOMAIN model_loading_queues[m]} : m \in Models}

ModelRank(m) == CHOOSE i \in DOMAIN model_order : model_order[i] = m

\* Mutant of Before: the newest request of a model first.
BeforeNewestFirst(d, e) ==
    \/ d.idx > e.idx
    \/ d.idx = e.idx /\ ModelRank(ModelOf[d.req]) < ModelRank(ModelOf[e.req])

\* The stable sort by x[1]: by index, then in the dict order of the models.
Before(d, e) ==
    \/ d.idx < e.idx
    \/ d.idx = e.idx /\ ModelRank(ModelOf[d.req]) < ModelRank(ModelOf[e.req])

\* The entry the loop of line 139 looks at next.
IsNext(e) == /\ e \in loading_requests
             /\ \A d \in loading_requests \ {e} : ~Before(d, e)

Fits(r, n) == free_gpu[n] >= NumGpus[r]

\* The first worker node, in dict order, with enough free GPUs.
FirstFit(r, n) ==
    \E i \in DOMAIN worker_nodes :
        /\ worker_nodes[i] = n
        /\ Fits(r, n)
        /\ \A j \in 1 .. i - 1 : ~Fits(r, worker_nodes[j])

\* allocation_result is not done and the request is still queued: what lines
\* 151 and 156-166 find out before they set the future.
StillWaiting(r) == allocation_result[r] = NoNode /\ Queued(r)

----------------------------------------------------------------------------
Init ==
    /\ running = FALSE
    /\ loops = 0
    /\ starts = 0
    /\ model_order = <<>>
    /\ model_loading_queues = [m \in Models |-> <<>>]
    /\ request_time = [r \in Requests |-> 0]
    /\ clock = 1
    /\ allocation_result = [r \in Requests |-> NoNode]
    /\ model_instance = [r \in Requests |-> NoNode]
    /\ caller = [r \in Requests |-> "new"]
    /\ worker_nodes = <<>>
    /\ free_gpu = [n \in Nodes |-> 0]
    /\ ray_nodes \in SUBSET Nodes
    /\ loading_requests = {}

----------------------------------------------------------------------------
(***************************************************************************)
(* start, shutdown and the end of the control loop                         *)
(***************************************************************************)

\* start(): a second call while running only logs an error.
Start ==
    /\ ~Busy
    /\ ~running
    /\ starts < MaxStarts
    /\ running' = TRUE
    /\ loops' = loops + 1
    /\ starts' = starts + 1
    /\ UNCHANGED <<model_order, model_loading_queues, request_time, clock,
                   allocation_result, model_instance, caller, worker_nodes,
                   free_gpu, ray_nodes, loading_requests>>

\* shutdown(): drops every queue; the futures in them are never resolved.
\* It then awaits the control loop task.
Shutdown ==
    /\ ~Busy
    /\ running
    /\ running' = FALSE
    /\ model_order' = <<>>
    /\ model_loading_queues' = [m \in Models |-> <<>>]
    /\ UNCHANGED <<loops, starts, request_time, clock, allocation_result,
                   model_instance, caller, worker_nodes, free_gpu, ray_nodes,
                   loading_requests>>

\* A control loop task wakes up, finds running false and returns.
LoopExit ==
    /\ ~Busy
    /\ ~running
    /\ loops > 0
    /\ loops' = loops - 1
    /\ UNCHANGED <<running, starts, model_order, model_loading_queues,
                   request_time, clock, allocation_result, model_instance,
                   caller, worker_nodes, free_gpu, ray_nodes,
                   loading_requests>>

----------------------------------------------------------------------------
(***************************************************************************)
(* allocate_resource and deallocate_resource                               *)
(***************************************************************************)

\* allocate_resource up to its await: the request joins its model's queue.
Allocate(r) ==
    /\ ~Busy
    /\ caller[r] = "new"
    /\ caller' = [caller EXCEPT ![r] = "waiting"]
    /\ model_order' = IF ModelOf[r] \in ToSet(model_order)
                      THEN model_order
                      ELSE Append(model_order, ModelOf[r])
    /\ model_loading_queues' =
           [model_loading_queues EXCEPT ![ModelOf[r]] = Append(@, r)]
    /\ request_time' = [request_time EXCEPT ![r] = clock]
    /\ clock' = clock + 1
    /\ UNCHANGED <<running, loops, starts, allocation_result, model_instance,
                   worker_nodes, free_gpu, ray_nodes, loading_requests>>

\* allocate_resource after its await: the instance's node is recorded.
RecordInstance(r) ==
    /\ ~Busy
    /\ caller[r] = "waiting"
    /\ allocation_result[r] # NoNode
    /\ model_instance' = [model_instance EXCEPT ![r] = allocation_result[r]]
    /\ caller' = [caller EXCEPT ![r] = "holding"]
    /\ UNCHANGED <<running, loops, starts, model_order, model_loading_queues,
                   request_time, clock, allocation_result, worker_nodes,
                   free_gpu, ray_nodes, loading_requests>>

\* Mutant of Deallocate: the instance stays recorded.
DeallocateKeepsInstance(r) ==
    /\ ~Busy
    /\ model_instance[r] # NoNode
    /\ free_gpu' = [free_gpu EXCEPT ![model_instance[r]] = @ + NumGpus[r]]
    /\ caller' = [caller EXCEPT ![r] = "released"]
    /\ UNCHANGED <<running, loops, starts, model_order, model_loading_queues,
                   request_time, clock, allocation_result, model_instance,
                   worker_nodes, ray_nodes, loading_requests>>

\* Mutant of Deallocate: the GPUs are not given back.
DeallocateLeaks(r) ==
    /\ ~Busy
    /\ model_instance[r] # NoNode
    /\ model_instance' = [model_instance EXCEPT ![r] = NoNode]
    /\ caller' = [caller EXCEPT ![r] = "released"]
    /\ UNCHANGED <<running, loops, starts, model_order, model_loading_queues,
                   request_time, clock, allocation_result, worker_nodes,
                   free_gpu, ray_nodes, loading_requests>>

\* deallocate_resource of an instance that holds GPUs.
Deallocate(r) ==
    /\ ~Busy
    /\ model_instance[r] # NoNode
    /\ LET node_id == model_instance[r]
       IN  free_gpu' = IF node_id \in Known
                       THEN [free_gpu EXCEPT ![node_id] = @ + NumGpus[r]]
                       ELSE free_gpu
    /\ model_instance' = [model_instance EXCEPT ![r] = NoNode]
    /\ caller' = [caller EXCEPT ![r] = "released"]
    /\ UNCHANGED <<running, loops, starts, model_order, model_loading_queues,
                   request_time, clock, allocation_result, worker_nodes,
                   ray_nodes, loading_requests>>

\* deallocate_resource of an instance that is not recorded, or not any more:
\* the early returns of lines 96-101.
DeallocateUnknown(r) ==
    /\ ~Busy
    /\ model_instance[r] = NoNode
    /\ UNCHANGED vars

----------------------------------------------------------------------------
(***************************************************************************)
(* One pass of the control loop                                            *)
(***************************************************************************)

\* _get_worker_nodes(): the nodes that joined are added to worker_nodes; a
\* node that left ray stays.  The dict the pass works on is the one
\* self.worker_nodes now refers to, so free_gpu is shared.
GetWorkerNodes ==
    /\ \E joined \in SetToSeqs(ray_nodes \ Known) :
           worker_nodes' = worker_nodes \o joined
    /\ free_gpu' = [n \in Nodes |-> IF n \in ray_nodes \ Known
                                    THEN TotalGpus[n] ELSE free_gpu[n]]

\* Mutant of BeginPass: what ray reports replaces what the scheduler knows.
BeginPassResets ==
    /\ ~Busy
    /\ running
    /\ loops > 0
    /\ Snapshot # {}
    /\ loading_requests' = Snapshot
    /\ worker_nodes' \in SetToSeqs(ray_nodes)
    /\ free_gpu' = [n \in Nodes |-> IF n \in ray_nodes
                                    THEN TotalGpus[n] ELSE free_gpu[n]]
    /\ UNCHANGED <<running, loops, starts, model_order, model_loading_queues,
                   request_time, clock, allocation_result, model_instance,
                   caller, ray_nodes>>

\* Lines 113-138: collect the queued requests and update the worker nodes.
BeginPass ==
    /\ ~Busy
    /\ running
    /\ loops > 0
    /\ Snapshot # {}
    /\ loading_requests' = Snapshot
    /\ GetWorkerNodes
    /\ UNCHANGED <<running, loops, starts, model_order, model_loading_queues,
                   request_time, clock, allocation_result, model_instance,
                   caller, ray_nodes>>

\* Mutant of Place: the request stays in its queue.
PlaceStaysQueued(e, n) ==
    /\ IsNext(e)
    /\ FirstFit(e.req, n)
    /\ StillWaiting(e.req)
    /\ allocation_result' = [allocation_result EXCEPT ![e.req] = n]
    /\ free_gpu' = [free_gpu EXCEPT ![n] = @ - NumGpus[e.req]]
    /\ loading_requests' = loading_requests \ {e}
    /\ UNCHANGED <<running, loops, starts, model_order, model_loading_queues,
                   request_time, clock, model_instance, caller, worker_nodes,
                   ray_nodes>>

\* Lines 147-173: the next request is given the first node it fits.
Place(e, n) ==
    /\ IsNext(e)
    /\ FirstFit(e.req, n)
    /\ StillWaiting(e.req)
    /\ \E i \in DOMAIN model_loading_queues[ModelOf[e.req]] :
          /\ model_loading_queues[ModelOf[e.req]][i] = e.req
          /\ model_loading_queues' =
                 [model_loading_queues EXCEPT ![ModelOf[e.req]] =
                     RemoveAt(@, i)]
    /\ allocation_result' = [allocation_result EXCEPT ![e.req] = n]
    /\ free_gpu' = [free_gpu EXCEPT ![n] = @ - NumGpus[e.req]]
    /\ loading_requests' = loading_requests \ {e}
    /\ UNCHANGED <<running, loops, starts, model_order, request_time, clock,
                   model_instance, caller, worker_nodes, ray_nodes>>

\* Mutant of Skip: the pass ends at the first request that does not fit.
SkipEndsPass(e) ==
    /\ IsNext(e)
    /\ ~ (StillWaiting(e.req) /\ \E n \in Known : Fits(e.req, n))
    /\ loading_requests' = {}
    /\ UNCHANGED <<running, loops, starts, model_order, model_loading_queues,
                   request_time, clock, allocation_result, model_instance,
                   caller, worker_nodes, free_gpu, ray_nodes>>

\* The next request fits no node, or was served already: it stays queued.
Skip(e) ==
    /\ IsNext(e)
    /\ ~ (StillWaiting(e.req) /\ \E n \in Known : Fits(e.req, n))
    /\ loading_requests' = loading_requests \ {e}
    /\ UNCHANGED <<running, loops, starts, model_order, model_loading_queues,
                   request_time, clock, allocation_result, model_instance,
                   caller, worker_nodes, free_gpu, ray_nodes>>

----------------------------------------------------------------------------
(***************************************************************************)
(* The cluster: nodes join and leave Ray                                   *)
(***************************************************************************)
NodeJoins(n) ==
    /\ n \notin ray_nodes
    /\ ray_nodes' = ray_nodes \cup {n}
    /\ UNCHANGED <<running, loops, starts, model_order, model_loading_queues,
                   request_time, clock, allocation_result, model_instance,
                   caller, worker_nodes, free_gpu, loading_requests>>

NodeLeaves(n) ==
    /\ n \in ray_nodes
    /\ ray_nodes' = ray_nodes \ {n}
    /\ UNCHANGED <<running, loops, starts, model_order, model_loading_queues,
                   request_time, clock, allocation_result, model_instance,
                   caller, worker_nodes, free_gpu, loading_requests>>

----------------------------------------------------------------------------
ServeNext(e) == Skip(e) \/ \E n \in Nodes : Place(e, n)

ServeSome == \E e \in loading_requests : ServeNext(e)

Next ==
    \/ Start
    \/ Shutdown
    \/ LoopExit
    \/ \E r \in Requests : \/ Allocate(r)
                           \/ RecordInstance(r)
                           \/ Deallocate(r)
                           \/ DeallocateUnknown(r)
    \/ BeginPass
    \/ \E e \in loading_requests : \/ Skip(e)
                                   \/ \E n \in Nodes : Place(e, n)
    \/ \E n \in Nodes : NodeJoins(n) \/ NodeLeaves(n)

Spec == Init /\ [][Next]_vars

(***************************************************************************)
(* Fairness.  The control loop wakes up every second and runs to its next  *)
(* sleep; asyncio resumes ready coroutines in FIFO order, so one whose     *)
(* future is done runs although passes keep interrupting it (SF); and      *)
(* every holder of GPUs gives them back in the end, as the routers do with *)
(* idle instances.                                                         *)
(***************************************************************************)
Fairness ==
    /\ WF_vars(BeginPass)
    /\ WF_vars(ServeSome)
    /\ \A r \in Requests : /\ SF_vars(RecordInstance(r))
                           /\ SF_vars(Deallocate(r))

FairSpec == Spec /\ Fairness

----------------------------------------------------------------------------
(***************************************************************************)
(* Properties                                                              *)
(***************************************************************************)

\* The type of every variable; a node is a key of the dict at most once.
TypeOK ==
    /\ running \in BOOLEAN
    /\ loops \in Nat
    /\ starts \in Nat
    /\ model_order \in Seq(Models)
    /\ model_loading_queues \in [Models -> Seq(Requests)]
    /\ request_time \in [Requests -> Nat]
    /\ clock \in Nat
    /\ allocation_result \in [Requests -> Nodes \cup {NoNode}]
    /\ model_instance \in [Requests -> Nodes \cup {NoNode}]
    /\ caller \in [Requests -> {"new", "waiting", "holding", "released"}]
    /\ worker_nodes \in Seq(Nodes)
    /\ free_gpu \in [Nodes -> Int]
    /\ ray_nodes \in SUBSET Nodes
    /\ loading_requests \in SUBSET QueueEntry

\* The request has been given a node and has not given it back.
Holds(r, n) == allocation_result[r] = n /\ caller[r] # "released"

\* The requests that hold GPUs of n, and the number of GPUs they hold: one
\* <<request, index>> pair per GPU.
Holders(n) == {r \in Requests : Holds(r, n)}
GpusOf(S) == UNION {{r} \X (1 .. NumGpus[r]) : r \in S}
GpusInUse(n) == Cardinality(GpusOf(Holders(n)))

\* Conservation of GPUs: on every node the scheduler knows, the free GPUs and
\* those of the requests that were given the node, recorded yet or not, add
\* up to the node's GPUs.  Allocation (172), the merge of new nodes (184-188),
\* the write-back (200-202) and deallocate_resource (107) all touch free_gpu.
GpuConservation ==
    \A n \in Known : free_gpu[n] + GpusInUse(n) = TotalGpus[n]

\* No node is overcommitted: first-fit never takes more than is free, in any
\* order of passes, completions and restarts of the control loop.
NoOvercommit ==
    \A n \in Nodes : GpusInUse(n) <= TotalGpus[n]

\* The scheduler implements GpuAllocator: a step of the control loop is a
\* grant the node has room for, a deallocation that finds the instance a
\* release, and everything else is invisible.
Allocator == INSTANCE GpuAllocator
    WITH owner <- [r \in Requests |-> IF caller[r] = "released" THEN NoNode
                                      ELSE allocation_result[r]],
         released <- {r \in Requests : caller[r] = "released"}

ImplementsAllocator == Allocator!Spec

\* A request waits in its queue exactly once and only until its future is
\* set: set_result is never called twice and no served request is queued.
QueuedOnceAndPending ==
    \A m \in Models :
        LET queue == model_loading_queues[m]
        IN  /\ \A i, j \in DOMAIN queue : queue[i] = queue[j] => i = j
            /\ \A i \in DOMAIN queue : /\ allocation_result[queue[i]] = NoNode
                                       /\ caller[queue[i]] = "waiting"

\* The step sets the future of r.
Grants(r) == allocation_result[r] = NoNode /\ allocation_result'[r] # NoNode

\* Within a model requests are served in order: when r is given a node, no
\* request of the same model that was queued before it and needs no more GPUs
\* is left behind in the queue.
FifoPerModel ==
    [][\A r, q \in Requests :
           /\ Grants(r)
           /\ ModelOf[q] = ModelOf[r]
           /\ request_time[q] < request_time[r]
           /\ NumGpus[q] <= NumGpus[r]
           => ~Queued(q)]_vars

\* No request of a queue fits any node of worker_nodes.
NoQueuedFits ==
    \A r \in Requests : Queued(r) => \A n \in Known : ~Fits(r, n)

\* A pass leaves no GPUs idle that a queued request could use: when the
\* control loop goes to sleep no request of a queue fits any known node.
WorkConserving == [][Busy /\ ~Busy' => NoQueuedFits']_vars

\* "first come first serve" (the comment on line 134): when r is given a node
\* no request, of any model, that was queued before it and needs no more GPUs
\* is left behind.
FirstComeFirstServed ==
    [][\A r, q \in Requests :
           /\ Grants(r)
           /\ request_time[q] < request_time[r]
           /\ NumGpus[q] <= NumGpus[r]
           => ~Queued(q)]_vars

\* The request fits some node the scheduler knows or ray lists.
Feasible(r) == \E n \in Known \cup ray_nodes : TotalGpus[n] >= NumGpus[r]

\* Every queued request that some node is large enough for is given a node in
\* the end, unless the scheduler is shut down or that node is gone before the
\* control loop saw it.
EventuallyServed ==
    \A r \in Requests :
        (Queued(r) /\ running) ~> (~Queued(r) \/ ~running \/ ~Feasible(r))

=============================================================================
