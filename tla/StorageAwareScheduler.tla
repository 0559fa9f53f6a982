----------------------- MODULE StorageAwareScheduler -----------------------
(***************************************************************************)
(* The storage-aware scheduler (storage_aware_scheduler.py): a subclass of *)
(* the FCFS scheduler with a control loop of its own, which asks the store *)
(* manager where the checkpoints are and places an instance on the node    *)
(* that loads it fastest; with migration it makes room by moving running   *)
(* instances to other nodes.                                               *)
(*                                                                         *)
(* The operations other actors call are inherited, and so are the actions  *)
(* for them; those of the FCFS control loop do not occur and               *)
(* loading_requests stays empty.  This loop awaits other actors within a   *)
(* pass: the inherited operations run while it is Suspended, those that    *)
(* take metadata_lock while it does not hold it either.                    *)
(*                                                                         *)
(* A second start() is not modelled: no one shuts the scheduler down to    *)
(* start it again.                                                         *)
(***************************************************************************)
EXTENDS FcfsScheduler

CONSTANTS
    DiskTime,    \* time to load a model on a node from its disk
    PcieTime,    \* time to load a model on a node from its host memory
    NodeId,      \* the order of the node ids
    StoreInfos,  \* what the store manager may answer
    MoveTimes,   \* what a migration plan may take
    Flaky        \* bound: the nodes that may join or leave

\* disk and pool: the models a node stores, and has in host memory; wait:
\* the time its I/O queue needs; measured: the nodes get_hardware_info lists,
\* which are those initialize_cluster found.
StoreInfo == [disk : [Nodes -> SUBSET Models], pool : [Nodes -> SUBSET Models],
              wait : [Nodes -> Nat], measured : SUBSET Nodes]

ASSUME TimesAssumption ==
    /\ DiskTime \in [Models -> [Nodes -> Nat]]
    /\ PcieTime \in [Models -> [Nodes -> Nat]]
    /\ MoveTimes \subseteq Nat
ASSUME NodeIdAssumption ==
    /\ NodeId \in [Nodes -> Nat]
    /\ \A n, o \in Nodes : NodeId[n] = NodeId[o] => n = o
ASSUME StoreInfosAssumption == StoreInfos \subseteq StoreInfo
ASSUME FlakyAssumption == Flaky \subseteq Nodes

VARIABLES
    enable_migration,
    info,    \* model_info, store_info and hardware_info of the pass
    loop     \* the control loop.  at: where it is, todo: the requests left,
             \* nodes: the nodes left for the first of them, options: its
             \* scheduling_options, plan: what is left of the migration
             \* plans, node: the node it gets, inst: the instance that is
             \* being started by migration, seen: free_gpu as it was copied
             \* last, contended: others wait for metadata_lock

saVars == <<vars, enable_migration, info, loop>>

Asleep == [at |-> "asleep", todo |-> <<>>, nodes |-> <<>>, options |-> {},
           plan |-> <<>>, node |-> NoNode, inst |-> NoNode,
           seen |-> [n \in Nodes |-> 0], contended |-> FALSE]

(***************************************************************************)
(* Helpers                                                                 *)
(***************************************************************************)

\* The request and the node the loop looks at.
Current == Head(loop.todo).req
Model   == ModelOf[Current]
Node    == Head(loop.nodes)

\* The loop awaits something that is pending: it waits for metadata_lock at
\* "update" only if others do.
Suspended == \/ loop.at \in {"none", "asleep", "info", "lock", "status",
                             "migrate", "moved", "load", "write", "dead"}
             \/ loop.at = "update" /\ loop.contended

\* get_migration_plans() holds metadata_lock while it asks for the status of
\* the instances.
Unlocked == Suspended /\ loop.at # "status"

Stored(m, n) == m \in info.disk[n]

\* _get_model_loading_time()
Latency(m, n) == IF m \in info.pool[n] THEN PcieTime[m][n]
                 ELSE info.wait[n] + DiskTime[m][n]

\* The instances on n that are not of model m.
Movable(m, n) == {r \in Requests : model_instance[r] = n /\ ModelOf[r] # m}

Faster(o, p) == \/ o.latency < p.latency
                \/ o.latency = p.latency /\ NodeId[o.node] < NodeId[p.node]

\* The loop has nothing more to check on the current node.
NextNode == [loop EXCEPT !.at = "schedule", !.nodes = Tail(@),
                         !.seen = Asleep.seen]

\* The loop has dealt with the current request.
NextRequest ==
    IF Len(loop.todo) = 1
    THEN [Asleep EXCEPT !.at = "update", !.contended = loop.contended]
    ELSE [Asleep EXCEPT !.at = "schedule", !.contended = loop.contended,
                        !.todo = Tail(loop.todo), !.nodes = worker_nodes]

\* An exception ends the control loop task; running stays TRUE.
Dies ==
    /\ loop' = [Asleep EXCEPT !.at = "dead"]
    /\ loops' = loops - 1

----------------------------------------------------------------------------
SAInit ==
    /\ Init
    /\ Nodes \ Flaky \subseteq ray_nodes
    /\ enable_migration \in BOOLEAN
    /\ info \in StoreInfos
    /\ loop = [Asleep EXCEPT !.at = "none"]

----------------------------------------------------------------------------
(***************************************************************************)
(* The inherited operations                                                *)
(***************************************************************************)
SAStart ==
    /\ Start /\ starts = 0
    /\ loop' = Asleep
    /\ UNCHANGED <<enable_migration, info>>

SALoopExit ==
    /\ loop.at = "asleep"
    /\ LoopExit
    /\ loop' = [Asleep EXCEPT !.at = "none"]
    /\ UNCHANGED <<enable_migration, info>>

SAShutdown ==
    /\ Suspended
    /\ Shutdown
    /\ UNCHANGED <<enable_migration, info, loop>>

SAAllocate(r) ==
    /\ Suspended
    /\ Allocate(r)
    /\ UNCHANGED <<enable_migration, info, loop>>

SARecordInstance(r) ==
    /\ Unlocked
    /\ RecordInstance(r)
    /\ UNCHANGED <<enable_migration, info, loop>>

\* A router gives the GPUs of an instance it runs back.
SADeallocate(r) ==
    /\ Unlocked
    /\ caller[r] = "holding"
    /\ Deallocate(r)
    /\ UNCHANGED <<enable_migration, info, loop>>

SANodeJoins(n) == NodeJoins(n) /\ UNCHANGED <<enable_migration, info, loop>>
SANodeLeaves(n) == NodeLeaves(n) /\ UNCHANGED <<enable_migration, info, loop>>

----------------------------------------------------------------------------
(***************************************************************************)
(* A pass of the control loop                                              *)
(***************************************************************************)

\* What the loop leaves alone unless an action says otherwise.
queueVars == <<model_order, model_loading_queues>>
nodeVars  == <<worker_nodes, free_gpu>>
otherVars == <<running, starts, request_time, clock, ray_nodes,
               loading_requests, enable_migration>>
instVars  == <<allocation_result, model_instance, caller>>

\* Lines 79-113: the requests are collected and sorted, the worker nodes
\* updated, and the store manager is asked.
SABeginPass ==
    /\ loop.at = "asleep"
    /\ running
    /\ Snapshot # {}
    /\ \E todo \in SetToSeqs(Snapshot) :
          /\ \A i, j \in DOMAIN todo : i < j => Before(todo[i], todo[j])
          /\ loop' = [loop EXCEPT !.at = "info", !.todo = todo]
    /\ GetWorkerNodes
    /\ UNCHANGED <<otherVars, instVars, queueVars, loops, info>>

\* Lines 113-121: its answers.
ReceiveInfo ==
    /\ loop.at = "info"
    /\ info' \in StoreInfos
    /\ loop' = [loop EXCEPT !.at = "schedule", !.nodes = worker_nodes,
                            !.options = {}]
    /\ UNCHANGED <<otherVars, instVars, queueVars, nodeVars, loops>>

\* schedule() looks at the next node of the current request.
Checks == loop.at = "schedule" /\ loop.nodes # <<>>

\* A node that does not store the model, or is too short of GPUs to place the
\* instance without migration.
SkipNode ==
    /\ Checks
    /\ \/ ~Stored(Model, Node)
       \/ /\ Node \in info.measured
          /\ ~enable_migration
          /\ ~Fits(Current, Node)
    /\ loop' = NextNode
    /\ UNCHANGED <<otherVars, instVars, queueVars, nodeVars, loops, info>>

\* hardware_info has no entry for a node that joined later (line 242).
NodeNotMeasured ==
    /\ Checks
    /\ Stored(Model, Node)
    /\ Node \notin info.measured
    /\ Dies
    /\ UNCHANGED <<otherVars, instVars, queueVars, nodeVars, info>>

\* Mutant of OfferNode: the GPUs are not compared.
OfferAnyNode ==
    /\ Checks
    /\ Stored(Model, Node)
    /\ Node \in info.measured
    /\ loop' = [NextNode EXCEPT !.options = @ \cup
                   {[node |-> Node, latency |-> Latency(Model, Node),
                     plan |-> <<>>]}]
    /\ UNCHANGED <<otherVars, instVars, queueVars, nodeVars, loops, info>>

OfferNode ==
    /\ Checks
    /\ Stored(Model, Node)
    /\ Node \in info.measured
    /\ Fits(Current, Node)
    /\ loop' = [NextNode EXCEPT !.options = @ \cup
                   {[node |-> Node, latency |-> Latency(Model, Node),
                     plan |-> <<>>]}]
    /\ UNCHANGED <<otherVars, instVars, queueVars, nodeVars, loops, info>>

\* get_migration_plans() with the lock asks the instances for their status, if
\* there are any.
LockTaken(seen) ==
    IF Movable(Model, Node) = {} THEN NextNode
    ELSE [loop EXCEPT !.at = "status", !.contended = TRUE, !.seen = seen]

\* Lines 248-261: the arguments are copied before the lock is taken.
TryMigration ==
    /\ Checks
    /\ enable_migration
    /\ Stored(Model, Node)
    /\ Node \in info.measured
    /\ ~Fits(Current, Node)
    /\ loop' = IF loop.contended
               THEN [loop EXCEPT !.at = "lock", !.seen = free_gpu]
               ELSE LockTaken(free_gpu)
    /\ UNCHANGED <<otherVars, instVars, queueVars, nodeVars, loops, info>>

\* Those that waited for metadata_lock have had it.
TakeLock ==
    /\ loop.at = "lock"
    /\ loop' = LockTaken(loop.seen)
    /\ UNCHANGED <<otherVars, instVars, queueVars, nodeVars, loops, info>>

Shortage == NumGpus[Current] - loop.seen[Node]

\* _get_migration_target(): the other nodes with room for the instance.  It
\* takes the fastest of them, given what the earlier plans add to the I/O
\* queues: one of them.
Targets(i) == {t \in Known \ {Node} : loop.seen[t] >= NumGpus[i]}

\* The plans that free exactly the GPUs that are missing, by moving some of
\* the instances in A: the dynamic program has no others.
Plans(A) ==
    {plan \in UNION {[1 .. k -> [source : A, target : Known]] :
                        k \in 1 .. Cardinality(A)} :
        /\ \A k \in DOMAIN plan : /\ plan[k].target \in Targets(plan[k].source)
                                  /\ NumGpus[plan[k].source] > 0
        /\ \A k, l \in DOMAIN plan : plan[k].source = plan[l].source => k = l
        /\ Cardinality(GpusOf({plan[k].source : k \in DOMAIN plan}))
               = Shortage}

\* Planning raises, which get_migration_plans() catches, if an instance it
\* considers can go nowhere or to a node without hardware_info.
PlanningRaises(A) ==
    \E i \in A : /\ NumGpus[i] <= Shortage
                 /\ \/ Targets(i) = {}
                    \/ ~ (Targets(i) \subseteq info.measured)

\* The instances in A are still ready and answer: their plans are computed.
\* How long a plan takes depends on the tokens they have generated.
PlanMigration(A) ==
    /\ loop.at = "status"
    /\ A \subseteq {r \in Movable(Model, Node) : caller[r] = "holding"}
    /\ IF PlanningRaises(A) \/ Plans(A) = {} THEN loop' = NextNode
       ELSE \E plan \in Plans(A), time \in MoveTimes :
              loop' = [NextNode EXCEPT !.options = @ \cup
                  {[node |-> Node, latency |-> Latency(Model, Node) + time,
                    plan |-> plan]}]
    /\ UNCHANGED <<otherVars, instVars, queueVars, nodeVars, loops, info>>

\* The router of one of the instances is gone since its model was deleted, and
\* get_actor raises.
RouterGone ==
    /\ loop.at = "status"
    /\ Dies
    /\ UNCHANGED <<otherVars, instVars, queueVars, nodeVars, info>>

\* Mutant of Decide: the slowest option.
DecideSlowest ==
    /\ loop.at = "schedule"
    /\ loop.nodes = <<>>
    /\ loop.options # {}
    /\ \E o \in loop.options :
          /\ \A p \in loop.options \ {o} : Faster(p, o)
          /\ loop' = [loop EXCEPT !.at = "evict", !.node = o.node,
                                  !.plan = o.plan, !.options = {}]
    /\ UNCHANGED <<otherVars, instVars, queueVars, nodeVars, loops, info>>

\* Lines 140-148: the fastest option is taken.
Decide ==
    /\ loop.at = "schedule"
    /\ loop.nodes = <<>>
    /\ loop.options # {}
    /\ \E o \in loop.options :
          /\ \A p \in loop.options \ {o} : Faster(o, p)
          /\ loop' = [loop EXCEPT !.at = "evict", !.node = o.node,
                                  !.plan = o.plan, !.options = {}]
    /\ UNCHANGED <<otherVars, instVars, queueVars, nodeVars, loops, info>>

NoOption ==
    /\ loop.at = "schedule"
    /\ loop.nodes = <<>>
    /\ loop.options = {}
    /\ loop' = NextRequest
    /\ UNCHANGED <<otherVars, instVars, queueVars, nodeVars, loops, info>>

----------------------------------------------------------------------------
(***************************************************************************)
(* Migration, as the routers carry it out (execute_migration_plan)         *)
(***************************************************************************)
Move == Head(loop.plan)

\* Mutant of StartMigration: the GPUs of the target are not taken.
StartMigrationNoDebit(r) ==
    /\ loop.at = "evict"
    /\ loop.plan # <<>>
    /\ caller[r] = "new"
    /\ ModelOf[r] = ModelOf[Move.source]
    /\ NumGpus[r] = NumGpus[Move.source]
    /\ caller' = [caller EXCEPT ![r] = "migrating"]
    /\ allocation_result' = [allocation_result EXCEPT ![r] = Move.target]
    /\ loop' = [loop EXCEPT !.at = "migrate", !.inst = r,
                            !.contended = FALSE]
    /\ UNCHANGED <<otherVars, queueVars, model_instance, nodeVars, loops,
                   info>>

\* Lines 150-172: the GPUs of the target are taken, as many as the request
\* needs that waits; the router starts an instance there with a new id.
StartMigration(r) ==
    /\ loop.at = "evict"
    /\ loop.plan # <<>>
    /\ caller[r] = "new"
    /\ ModelOf[r] = ModelOf[Move.source]
    /\ NumGpus[r] = NumGpus[Move.source]
    /\ caller' = [caller EXCEPT ![r] = "migrating"]
    /\ allocation_result' = [allocation_result EXCEPT ![r] = Move.target]
    /\ free_gpu' = [free_gpu EXCEPT ![Move.target] = @ - NumGpus[Current]]
    /\ loop' = [loop EXCEPT !.at = "migrate", !.inst = r,
                            !.contended = FALSE]
    /\ UNCHANGED <<otherVars, queueVars, model_instance, worker_nodes, loops,
                   info>>

\* mark_resource()
MarkResource ==
    /\ loop.at = "migrate"
    /\ model_instance[loop.inst] = NoNode
    /\ model_instance' = [model_instance EXCEPT ![loop.inst] = Move.target]
    /\ UNCHANGED <<otherVars, queueVars, nodeVars, allocation_result, caller,
                   loops, info, loop>>

\* The new instance replaces the old one, whose GPUs are given back.
MoveInstance ==
    /\ loop.at = "migrate"
    /\ model_instance[loop.inst] # NoNode
    /\ caller[Move.source] = "holding"
    /\ LET src == Move.source
       IN  /\ free_gpu' = [free_gpu EXCEPT ![model_instance[src]] =
                               @ + NumGpus[src]]
           /\ model_instance' = [model_instance EXCEPT ![src] = NoNode]
           /\ caller' = [caller EXCEPT ![src] = "released",
                                       ![loop.inst] = "holding"]
    /\ loop' = [loop EXCEPT !.at = "moved"]
    /\ UNCHANGED <<otherVars, queueVars, allocation_result, worker_nodes,
                   loops, info>>

\* The router stops the old instance first, or the new one does not start:
\* lines 175-186.  The mark of the new instance stays.
MigrationFails ==
    /\ loop.at = "migrate"
    /\ caller' = [caller EXCEPT ![loop.inst] = "released"]
    /\ free_gpu' = [free_gpu EXCEPT ![Move.target] = @ + NumGpus[Current]]
    /\ loop' = [loop EXCEPT !.at = "evict", !.plan = Tail(@), !.inst = NoNode]
    /\ UNCHANGED <<otherVars, queueVars, allocation_result, model_instance,
                   worker_nodes, loops, info>>

MigrationReturns ==
    /\ loop.at = "moved"
    /\ loop' = [loop EXCEPT !.at = "evict", !.plan = Tail(@), !.inst = NoNode]
    /\ UNCHANGED <<otherVars, instVars, queueVars, nodeVars, loops, info>>

----------------------------------------------------------------------------
(***************************************************************************)
(* The end of a request and of a pass                                      *)
(***************************************************************************)

\* Mutant of Index: it counts from one more.
IndexOffByOne == Head(loop.todo).idx + 1

\* The index the request had when the pass began.
Index == Head(loop.todo).idx

Granting == loop.at = "evict" /\ loop.plan = <<>>

Popped == [model_loading_queues EXCEPT ![Model] = RemoveAt(@, Index)]

\* Mutant of Grant: the GPUs are not taken.
GrantNoDebit ==
    /\ Granting
    /\ Model \in ToSet(model_order)
    /\ Index <= Len(model_loading_queues[Model])
    /\ allocation_result[Current] = NoNode
    /\ model_loading_queues' = Popped
    /\ allocation_result' = [allocation_result EXCEPT ![Current] = loop.node]
    /\ loop' = [loop EXCEPT !.at = "load", !.contended = FALSE]
    /\ UNCHANGED <<otherVars, model_order, free_gpu, model_instance, caller,
                   worker_nodes, loops, info>>

\* Lines 192-201: the entry at the index is removed, be it the request or one
\* that has moved up, and the future of the request is set.
Grant ==
    /\ Granting
    /\ Model \in ToSet(model_order)
    /\ Index <= Len(model_loading_queues[Model])
    /\ allocation_result[Current] = NoNode
    /\ model_loading_queues' = Popped
    /\ allocation_result' = [allocation_result EXCEPT ![Current] = loop.node]
    /\ free_gpu' = [free_gpu EXCEPT ![loop.node] = @ - NumGpus[Current]]
    /\ loop' = [loop EXCEPT !.at = "load", !.contended = FALSE]
    /\ UNCHANGED <<otherVars, model_order, model_instance, caller,
                   worker_nodes, loops, info>>

\* There is no such entry any more (IndexError), or no queue (KeyError).
GrantNoEntry ==
    /\ Granting
    /\ \/ Model \notin ToSet(model_order)
       \/ Index > Len(model_loading_queues[Model])
    /\ Dies
    /\ UNCHANGED <<otherVars, instVars, queueVars, nodeVars, info>>

\* The future is set already (InvalidStateError): the entry is removed.
GrantTwice ==
    /\ Granting
    /\ Model \in ToSet(model_order)
    /\ Index <= Len(model_loading_queues[Model])
    /\ allocation_result[Current] # NoNode
    /\ model_loading_queues' = Popped
    /\ Dies
    /\ UNCHANGED <<otherVars, instVars, model_order, nodeVars, info>>

\* load_to_host() of the store manager returns.
LoadReturns ==
    /\ loop.at = "load"
    /\ loop' = NextRequest
    /\ UNCHANGED <<otherVars, instVars, queueVars, nodeVars, loops, info>>

\* _update_worker_nodes() copies the dict, which is also the one the pass
\* worked on, and writes the copy back; it loses the event loop in between
\* only if others wait for metadata_lock.
UpdateNodes ==
    /\ loop.at = "update"
    /\ \/ loop' = Asleep
       \/ /\ loop.contended
          /\ loop' = [loop EXCEPT !.at = "write", !.seen = free_gpu]
    /\ UNCHANGED <<otherVars, instVars, queueVars, nodeVars, loops, info>>

WriteNodes ==
    /\ loop.at = "write"
    /\ free_gpu' = [n \in Nodes |-> IF n \in Known THEN loop.seen[n]
                                    ELSE free_gpu[n]]
    /\ loop' = Asleep
    /\ UNCHANGED <<otherVars, instVars, queueVars, worker_nodes, loops, info>>

----------------------------------------------------------------------------
Prepare == \/ SkipNode \/ NodeNotMeasured \/ OfferNode \/ TryMigration
           \/ TakeLock \/ RouterGone \/ Decide \/ NoOption
           \/ \E A \in SUBSET Requests : PlanMigration(A)

Migrate == \/ \E r \in Requests : StartMigration(r)
           \/ MarkResource \/ MoveInstance \/ MigrationFails
           \/ MigrationReturns

Conclude == \/ Grant \/ GrantNoEntry \/ GrantTwice \/ LoadReturns
            \/ UpdateNodes \/ WriteNodes

LoopStep == SABeginPass \/ ReceiveInfo \/ Prepare \/ Migrate \/ Conclude

SANext ==
    \/ SAStart \/ SAShutdown \/ SALoopExit
    \/ \E r \in Requests : \/ SAAllocate(r)
                           \/ SARecordInstance(r)
                           \/ SADeallocate(r)
    \/ \E n \in Flaky : SANodeJoins(n) \/ SANodeLeaves(n)
    \/ LoopStep

SASpec == SAInit /\ [][SANext]_saVars

(***************************************************************************)
(* Fairness, as in FcfsScheduler; the store manager and the routers answer *)
(* the control loop.                                                       *)
(***************************************************************************)
SAFairSpec ==
    /\ SASpec
    /\ WF_saVars(LoopStep)
    /\ \A r \in Requests : /\ SF_saVars(SARecordInstance(r))
                           /\ SF_saVars(SADeallocate(r))

----------------------------------------------------------------------------
(***************************************************************************)
(* Properties                                                              *)
(***************************************************************************)
Option == [node : Nodes, latency : Nat,
           plan : Seq([source : Requests, target : Nodes])]

LoopRecords ==
    [at : {"none", "asleep", "info", "schedule", "lock", "status", "evict",
           "migrate", "moved", "load", "update", "write", "dead"},
     todo : Seq(QueueEntry), nodes : Seq(Nodes), options : SUBSET Option,
     plan : Seq([source : Requests, target : Nodes]),
     node : Nodes \cup {NoNode}, inst : Requests \cup {NoNode},
     seen : [Nodes -> Int], contended : BOOLEAN]

\* The type of every variable.
SATypeOK ==
    /\ running \in BOOLEAN
    /\ loops \in 0 .. 1 /\ starts \in 0 .. 1
    /\ model_order \in Seq(Models)
    /\ model_loading_queues \in [Models -> Seq(Requests)]
    /\ request_time \in [Requests -> Nat]
    /\ clock \in Nat
    /\ allocation_result \in [Requests -> Nodes \cup {NoNode}]
    /\ model_instance \in [Requests -> Nodes \cup {NoNode}]
    /\ caller \in [Requests -> {"new", "waiting", "migrating", "holding",
                                "released"}]
    /\ worker_nodes \in Seq(Nodes)
    /\ free_gpu \in [Nodes -> Int]
    /\ ray_nodes \in SUBSET Nodes
    /\ loading_requests = {}
    /\ enable_migration \in BOOLEAN
    /\ info \in StoreInfos
    /\ loop \in LoopRecords

\* Without migration the GPUs are conserved, although a pass now waits for
\* other actors in its middle, instances are recorded and deallocated there,
\* and at its end the worker nodes are replaced by a copy (line 206).
ConservedWithoutMigration ==
    ~enable_migration => GpuConservation /\ NoOvercommit

\* With migration as well, the scheduler never counts a GPU as free that an
\* instance holds, if all instances are of one size: what a plan takes from
\* the target it credits at the source, whichever of the two fails first.
FreeIsFree ==
    (\A r, q \in Requests : NumGpus[r] = NumGpus[q]) =>
        \A n \in Known : free_gpu[n] + GpusInUse(n) <= TotalGpus[n]

\* The scheduler's books: no GPU is given out twice or counted free while an
\* instance has it, with every await of the pass in between.
BooksBalance == SATypeOK /\ ConservedWithoutMigration /\ FreeIsFree

\* Without migration the scheduler implements GpuAllocator, even when it
\* removes the wrong entry from a queue or its control loop dies.
ImplementsUnlessMigrating ==
    [][enable_migration \/ Allocator!Next]_(Allocator!vars)

\* Without migration a request gets the node that loads its model fastest,
\* by what the store manager said in this pass, among those that have room
\* when the GPUs are taken.
FastestNode ==
    [][\A r \in Requests :
           Grants(r) /\ ~enable_migration =>
               LET m == ModelOf[r]
               IN  /\ Stored(m, allocation_result'[r])
                   /\ \A n \in Known :
                          Stored(m, n) /\ Fits(r, n) =>
                              Latency(m, allocation_result'[r])
                                  <= Latency(m, n)]_saVars

\* The removal by index (line 194) fails only if another request of the same
\* model came since, or the scheduler was shut down: a pass with one request
\* per model finds each where it was, whatever joins the queues meanwhile.
SingleRequestsAreSafe ==
    [][GrantNoEntry \/ GrantTwice =>
           \/ ~running
           \/ \E r \in Requests : /\ r # Current
                                  /\ ModelOf[r] = Model
                                  /\ request_time[r] > 0]_saVars

\* Some node the scheduler knows stores the model of r in every answer of the
\* store manager and is large enough.
Placeable(r) ==
    \E n \in Known : /\ TotalGpus[n] >= NumGpus[r]
                     /\ \A i \in StoreInfos : ModelOf[r] \in i.disk[n]

\* "issues a resource allocation request to the storage-aware scheduler, which
\* selects an optimal server" (the blog on the architecture): every request
\* that some node can take is given one in the end, unless the scheduler is
\* shut down.
EventuallyPlaced ==
    \A r \in Requests :
        Queued(r) /\ Placeable(r) /\ running /\ ~enable_migration
            ~> allocation_result[r] # NoNode \/ ~running

\* "Node {node_id} deallocated {num_gpus} GPUs" (fcfs_scheduler.py, line
\* 103): a GPU that no instance holds is free again.
FreedGpusReturn ==
    \A n \in Known : free_gpu[n] + GpusInUse(n) = TotalGpus[n]

=============================================================================
