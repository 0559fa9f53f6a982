---------------------------- MODULE StoreManager ----------------------------
(***************************************************************************)
(* The store manager and its local stores (sllm/store_manager.py): one     *)
(* actor whose calls are coroutines of one event loop.  A SllmLocalStore   *)
(* keeps the books of one node's checkpoint store: the models on its disk, *)
(* those in its memory pool and the queue its loading_loop works off.      *)
(*                                                                         *)
(* A coroutine runs until it waits for a lock, a sleep or a remote call;   *)
(* what lies between is one action.  asyncio.Lock is first come, first     *)
(* served: waiters[n] is the line at a local store's lock, metadata the    *)
(* one at metadata_lock.  The calls of a store's client block the loop and *)
(* are part of the action that makes them.                                 *)
(***************************************************************************)
EXTENDS Integers, FiniteSets, SequencesExt

CONSTANTS
    Nodes,          \* the worker nodes
    Models,
    Size,           \* Size[m]: bytes of a model
    Placements,     \* placement_configs: [local_disk, memory_pool], a sequence and a set of nodes
    Pretrained,     \* Pretrained[m]: pretrained_model_name_or_path
    ChunkSize,
    MemPoolSize,    \* mem_pool_size of a node's server
    Calls,          \* the calls that are made at the same time
    Loop,           \* the task of a loading_loop
    None, Absent,
    MaxFaults       \* bound on the calls to other processes that fail

ASSUME SizeAssumption == Size \in [Models -> Nat] /\ ChunkSize \in Nat \ {0} /\ MemPoolSize \in Nat
ASSUME NodesAssumption == IsFiniteSet(Nodes)
ASSUME CallAssumption == Loop \notin Calls
ASSUME PlacementsAssumption == \A p \in Placements :
          p.local_disk \in Seq(Nodes) /\ p.local_disk # <<>> /\ p.memory_pool \subseteq Nodes
ASSUME ValueAssumption == None \notin Int \cup Calls /\ Absent \notin Int \cup {None}

VARIABLES
    connecting,     \* uninitialized_nodes of initialize_cluster
    local_servers,  \* the nodes with a local store
    pool_chunks,    \* pinned_memory_pool_chunks of each
    disk_models,    \* disk_models[n][m]: the size, None if m is not there
    queued_models, io_queue,
    pool,           \* pinned_memory_pool in the order of its times
    usage,          \* pinned_memory_pool_usage
    loop,           \* where each loading_loop is
    waiters,
    metadata, reader,       \* the line at metadata_lock; the call that holds it
    model_info,             \* model_info[m]: a size, None (see Register), or Absent
    model_storage_info,     \* the nodes of each model
    call,           \* the state of each call
    faults

stores == <<pool_chunks, disk_models, queued_models, io_queue, pool, usage, loop>>
manager == <<connecting, local_servers, model_info, model_storage_info>>
locks == <<waiters, metadata, reader>>
vars == <<stores, manager, locks, call, faults>>

Idle == [kind |-> None, pc |-> "idle", model |-> None, node |-> None,
         todo |-> <<>>, preload |-> {}, size |-> None]

\* Mutant of Needed: a chunk that is not full is not counted.
NeededFloor(size) == size \div ChunkSize
\* A model of which the server said nothing has size -1 and needs no chunk.
Needed(size) == (size + ChunkSize - 1) \div ChunkSize

Init ==
    /\ connecting \in SUBSET Nodes \ {{}} /\ local_servers = {}
    /\ pool_chunks = [n \in Nodes |-> 0]
    /\ disk_models = [n \in Nodes |-> [m \in Models |-> None]]
    /\ queued_models = [n \in Nodes |-> {}] /\ io_queue = [n \in Nodes |-> <<>>]
    /\ pool = [n \in Nodes |-> <<>>] /\ usage = [n \in Nodes |-> 0]
    /\ loop = [n \in Nodes |-> "none"] /\ waiters = [n \in Nodes |-> <<>>]
    /\ metadata = <<>> /\ reader = None
    /\ model_info = [m \in Models |-> Absent]
    /\ model_storage_info = [m \in Models |-> {}]
    /\ call = [c \in Calls |-> Idle] /\ faults = 0

\* A new local store starts its loading_loop.
NewStores(ns, chunks) ==
    /\ local_servers' = local_servers \cup ns
    /\ pool_chunks' = [n \in Nodes |-> IF n \in ns THEN chunks ELSE pool_chunks[n]]
    /\ loop' = [n \in Nodes |-> IF n \in ns THEN "head" ELSE loop[n]]
    /\ waiters' = [n \in Nodes |-> IF n \in ns THEN <<Loop>> ELSE waiters[n]]

\* initialize_cluster reaches the server of one more node.  Nodes whose
\* hardware information could not be collected are not in connecting.
Connect(n) ==
    /\ n \in connecting
    /\ connecting' = connecting \ {n}
    /\ NewStores({n}, MemPoolSize \div ChunkSize)
    /\ UNCHANGED <<disk_models, queued_models, io_queue, pool, usage, metadata, reader,
                   model_info, model_storage_info, call, faults>>

-----------------------------------------------------------------------------
(* loading_loop *)

\* The lock of n is free and it is t's turn.
Turn(n, t) == loop[n] # "sleep" /\ waiters[n] # <<>> /\ Head(waiters[n]) = t
Leave(n) == waiters' = [waiters EXCEPT ![n] = Tail(@)]
Requeue(n) == waiters' = [waiters EXCEPT ![n] = Append(Tail(@), Loop)]

\* The loop looks at the head of its queue.  If there is none it sleeps a
\* second with the lock in its hand.
TakeHead(n) ==
    /\ loop[n] = "head" /\ Turn(n, Loop)
    /\ IF io_queue[n] = <<>>
       THEN loop' = [loop EXCEPT ![n] = "sleep"] /\ Leave(n)
       ELSE loop' = [loop EXCEPT ![n] = "evict"] /\ Requeue(n)
    /\ UNCHANGED <<pool_chunks, disk_models, queued_models, io_queue, pool, usage,
                   manager, metadata, reader, call, faults>>

\* Mutant of Wake: the loop goes on without the others at the lock.
WakeFirst(n) ==
    /\ loop[n] \in {"sleep", "retry"}
    /\ loop' = [loop EXCEPT ![n] = "head"]
    /\ waiters' = [waiters EXCEPT ![n] = <<Loop>> \o @]
    /\ UNCHANGED <<pool_chunks, disk_models, queued_models, io_queue, pool, usage,
                   manager, metadata, reader, call, faults>>
\* The second is over, and the loop joins the line again.
Wake(n) ==
    /\ loop[n] \in {"sleep", "retry"}
    /\ loop' = [loop EXCEPT ![n] = "head"]
    /\ waiters' = [waiters EXCEPT ![n] = Append(@, Loop)]
    /\ UNCHANGED <<pool_chunks, disk_models, queued_models, io_queue, pool, usage,
                   manager, metadata, reader, call, faults>>

Fits(n, used, size) == used + Needed(size) <= pool_chunks[n]

\* Mutant of Evicted: the memory of a victim is not given back in the books.
EvictedKept(n, size) ==
    LET after[i \in 0 .. Len(pool[n])] ==
          IF i = 0 THEN [pool |-> <<>>, usage |-> usage[n]]
          ELSE LET r == after[i - 1] IN
               IF Fits(n, r.usage, size) \/ pool[n][i] \in queued_models[n]
               THEN [r EXCEPT !.pool = Append(@, pool[n][i])] ELSE r
    IN after[Len(pool[n])]
\* _lru_eviction: the oldest models leave until the new one fits.  after[i] is
\* what is left of the first i, and the usage that is counted then.
Evicted(n, size) ==
    LET after[i \in 0 .. Len(pool[n])] ==
          IF i = 0 THEN [pool |-> <<>>, usage |-> usage[n]]
          ELSE LET r == after[i - 1]
                   m == pool[n][i]
               IN  IF Fits(n, r.usage, size) \/ m \in queued_models[n]
                   THEN [r EXCEPT !.pool = Append(@, m)]
                   ELSE [r EXCEPT !.usage = @ - Needed(disk_models[n][m])]
    IN after[Len(pool[n])]

\* The head is loaded, or dropped when the server fails to (ok is FALSE).  A
\* head that does not fit stays, and what was evicted for it is gone.
EvictAndLoad(n, ok) ==
    LET m == Head(io_queue[n])
        size == disk_models[n][m]
        left == Evicted(n, size)
        fits == Fits(n, left.usage, size)
    IN
    /\ loop[n] = "evict" /\ Turn(n, Loop)
    /\ ok \/ (fits /\ (faults < MaxFaults \/ size = -1))
    /\ ok => ~(fits /\ size = -1)
    /\ faults' = IF ok \/ size = -1 THEN faults ELSE faults + 1
    /\ IF fits
       THEN /\ io_queue' = [io_queue EXCEPT ![n] = Tail(@)]
            /\ queued_models' = [queued_models EXCEPT ![n] = @ \ {m}]
            /\ pool' = [pool EXCEPT ![n] = IF ok THEN Append(left.pool, m) ELSE left.pool]
            /\ usage' = [usage EXCEPT ![n] = IF ok THEN left.usage + Needed(size) ELSE left.usage]
            /\ loop' = [loop EXCEPT ![n] = "head"] /\ Requeue(n)
       ELSE /\ pool' = [pool EXCEPT ![n] = left.pool]
            /\ usage' = [usage EXCEPT ![n] = left.usage]
            /\ loop' = [loop EXCEPT ![n] = "retry"] /\ Leave(n)
            /\ UNCHANGED <<io_queue, queued_models>>
    /\ UNCHANGED <<pool_chunks, disk_models, manager, metadata, reader, call>>

-----------------------------------------------------------------------------
(* Calls *)

MetadataTurn(c) == reader = None /\ metadata # <<>> /\ Head(metadata) = c
Join(n, c) == waiters' = [waiters EXCEPT ![n] = Append(@, c)]

StartLoad(c, n, m) ==
    /\ connecting = {} /\ call[c].pc = "idle"
    /\ call' = [call EXCEPT ![c] = [Idle EXCEPT !.kind = "load", !.pc = "load", !.model = m, !.node = n]]
    /\ metadata' = Append(metadata, c)
    /\ UNCHANGED <<stores, manager, waiters, reader, faults>>

\* StoreManager.load_to_host: the node's store is looked up under the lock.
LookUp(c) ==
    /\ call[c].pc = "load" /\ MetadataTurn(c)
    /\ metadata' = Tail(metadata)
    /\ IF call[c].node \in local_servers
       THEN call' = [call EXCEPT ![c].pc = "local"] /\ Join(call[c].node, c)
       ELSE call' = [call EXCEPT ![c] = Idle] /\ UNCHANGED waiters
    /\ UNCHANGED <<stores, manager, reader, faults>>

\* The next node of a registration, or its end: the size recorded is the one
\* the last register_model returned.
NextNode(c, r) ==
    IF Tail(r.todo) # <<>>
    THEN /\ call' = [call EXCEPT ![c] = [r EXCEPT !.pc = "download", !.todo = Tail(@)]]
         /\ UNCHANGED model_info
    ELSE /\ call' = [call EXCEPT ![c] = Idle]
         /\ model_info' = [model_info EXCEPT ![r.model] = r.size]

\* What a call asks to load: a registration preloads by the pretrained name.
Wanted(c) == IF call[c].kind = "register" THEN Pretrained[call[c].model] ELSE call[c].model

\* Mutant of Queued: a model that is in the queue is queued again.
QueuedTwice(n, m) == m \in Range(pool[n])
Queued(n, m) == m \in Range(pool[n]) \/ m \in queued_models[n]

\* Mutant of LoadToHost: a name that no model has is queued as well.
LoadToHostUnchecked(c) ==
    LET n == call[c].node
        m == Wanted(c)
    IN
    /\ call[c].pc = "local" /\ Turn(n, c) /\ Leave(n)
    /\ IF (m \in Models /\ disk_models[n][m] = None) \/ Queued(n, m)
       THEN UNCHANGED <<io_queue, queued_models>>
       ELSE /\ io_queue' = [io_queue EXCEPT ![n] = Append(@, m)]
            /\ queued_models' = [queued_models EXCEPT ![n] = @ \cup {m}]
    /\ IF call[c].kind = "register" THEN NextNode(c, call[c])
       ELSE call' = [call EXCEPT ![c] = Idle] /\ UNCHANGED model_info
    /\ UNCHANGED <<pool_chunks, disk_models, pool, usage, loop, connecting, local_servers,
                   model_storage_info, metadata, reader, faults>>
\* SllmLocalStore.load_to_host: a model on disk that is neither loaded nor
\* queued joins the queue.
LoadToHost(c) ==
    LET n == call[c].node
        m == Wanted(c)
    IN
    /\ call[c].pc = "local" /\ Turn(n, c) /\ Leave(n)
    /\ IF m \notin Models \/ disk_models[n][m] = None \/ Queued(n, m)
       THEN UNCHANGED <<io_queue, queued_models>>
       ELSE /\ io_queue' = [io_queue EXCEPT ![n] = Append(@, m)]
            /\ queued_models' = [queued_models EXCEPT ![n] = @ \cup {m}]
    /\ IF call[c].kind = "register" THEN NextNode(c, call[c])
       ELSE call' = [call EXCEPT ![c] = Idle] /\ UNCHANGED model_info
    /\ UNCHANGED <<pool_chunks, disk_models, pool, usage, loop, connecting, local_servers,
                   model_storage_info, metadata, reader, faults>>

StartInfo(c) ==
    /\ connecting = {} /\ call[c].pc = "idle"
    /\ call' = [call EXCEPT ![c] = [Idle EXCEPT !.kind = "info", !.pc = "info"]]
    /\ metadata' = Append(metadata, c)
    /\ UNCHANGED <<stores, manager, waiters, reader, faults>>

\* StoreManager.get_store_info takes metadata_lock and waits for the stores
\* one after the other with it.
LockInfo(c) ==
    LET ns == SetToSeq(local_servers) IN
    /\ call[c].pc = "info" /\ MetadataTurn(c)
    /\ metadata' = Tail(metadata)
    /\ IF ns = <<>> THEN call' = [call EXCEPT ![c] = Idle] /\ UNCHANGED <<reader, waiters>>
       ELSE /\ call' = [call EXCEPT ![c].pc = "read", ![c].todo = ns]
            /\ reader' = c /\ Join(ns[1], c)
    /\ UNCHANGED <<stores, manager, faults>>

\* Mutant of ReadInfo: metadata_lock is not given back.
ReadInfoLocked(c) ==
    LET n == call[c].todo[1]
        rest == Tail(call[c].todo)
    IN
    /\ call[c].pc = "read" /\ Turn(n, c)
    /\ IF rest = <<>>
       THEN Leave(n) /\ call' = [call EXCEPT ![c] = Idle] /\ UNCHANGED reader
       ELSE /\ waiters' = [[waiters EXCEPT ![n] = Tail(@)] EXCEPT ![rest[1]] = Append(@, c)]
            /\ call' = [call EXCEPT ![c].todo = rest] /\ UNCHANGED reader
    /\ UNCHANGED <<stores, manager, metadata, faults>>
\* SllmLocalStore.get_store_info returns.
ReadInfo(c) ==
    LET n == call[c].todo[1]
        rest == Tail(call[c].todo)
    IN
    /\ call[c].pc = "read" /\ Turn(n, c)
    /\ IF rest = <<>>
       THEN Leave(n) /\ call' = [call EXCEPT ![c] = Idle] /\ reader' = None
       ELSE /\ waiters' = [[waiters EXCEPT ![n] = Tail(@)] EXCEPT ![rest[1]] = Append(@, c)]
            /\ call' = [call EXCEPT ![c].todo = rest] /\ UNCHANGED reader
    /\ UNCHANGED <<stores, manager, metadata, faults>>

\* register begins.  A worker without a local store gets one with a pool of a
\* single byte; without any store it raises.  The storage information starts
\* from nothing, whoever else registers the model.
StartRegister(c, m, ns, preload) ==
    /\ connecting = {} /\ call[c].pc = "idle"
    /\ model_info[m] = Absent /\ local_servers # {}
    /\ model_storage_info' = [model_storage_info EXCEPT ![m] = {}]
    /\ NewStores(Nodes \ local_servers, 1 \div ChunkSize)
    /\ call' = [call EXCEPT ![c] = [Idle EXCEPT !.kind = "register", !.pc = "download", !.model = m,
                                    !.todo = ns, !.preload = preload]]
    /\ UNCHANGED <<disk_models, queued_models, io_queue, pool, usage, connecting, model_info,
                   metadata, reader, faults>>

\* A target that is no worker, or a backend that is not supported: register
\* ends after it reset the storage information.
RefuseRegister(m) ==
    /\ connecting = {} /\ model_info[m] = Absent /\ model_storage_info[m] # {}
    /\ local_servers = Nodes
    /\ model_storage_info' = [model_storage_info EXCEPT ![m] = {}]
    /\ UNCHANGED <<stores, connecting, local_servers, model_info, locks, call, faults>>

\* Mutant of Downloaded: the storage information is recorded when the download ends.
DownloadedRecorded(c, ok) ==
    LET n == call[c].todo[1] IN
    /\ call[c].pc = "download"
    /\ ok \/ faults < MaxFaults
    /\ faults' = IF ok THEN faults ELSE faults + 1
    /\ IF ok THEN call' = [call EXCEPT ![c].pc = "register"] /\ Join(n, c)
             ELSE call' = [call EXCEPT ![c] = Idle] /\ UNCHANGED waiters
    /\ model_storage_info' = [model_storage_info EXCEPT ![call[c].model] = IF ok THEN @ \cup {n} ELSE @]
    /\ UNCHANGED <<stores, connecting, local_servers, model_info, metadata, reader>>
\* The download on a worker ends; one that fails ends the registration.
Downloaded(c, ok) ==
    LET n == call[c].todo[1] IN
    /\ call[c].pc = "download"
    /\ ok \/ faults < MaxFaults
    /\ faults' = IF ok THEN faults ELSE faults + 1
    /\ IF ok THEN call' = [call EXCEPT ![c].pc = "register"] /\ Join(n, c)
             ELSE call' = [call EXCEPT ![c] = Idle] /\ UNCHANGED waiters
    /\ UNCHANGED <<stores, manager, metadata, reader>>

\* SllmLocalStore.register_model: a model that is there gives no size (None),
\* a server that does not answer (ok is FALSE) the size -1.  Then register
\* goes on: the storage information, and the preload if one was asked for.
RegisterModel(c, ok) ==
    LET n == call[c].todo[1]
        m == call[c].model
        there == disk_models[n][m] # None
        r == [call[c] EXCEPT !.size = IF there THEN None ELSE IF ok THEN Size[m] ELSE -1]
    IN
    /\ call[c].pc = "register" /\ Turn(n, c) /\ Leave(n)
    /\ ok \/ (~there /\ faults < MaxFaults)
    /\ faults' = IF ok THEN faults ELSE faults + 1
    /\ disk_models' = IF there THEN disk_models ELSE [disk_models EXCEPT ![n][m] = r.size]
    /\ model_storage_info' = [model_storage_info EXCEPT ![m] = @ \cup {n}]
    /\ IF n \in call[c].preload
       THEN /\ call' = [call EXCEPT ![c] = [r EXCEPT !.pc = "load", !.node = n]]
            /\ metadata' = Append(metadata, c) /\ UNCHANGED model_info
       ELSE NextNode(c, r) /\ UNCHANGED metadata
    /\ UNCHANGED <<pool_chunks, queued_models, io_queue, pool, usage, loop, connecting,
                   local_servers, reader>>

\* What one call does next.
Step(c) ==
    \/ LookUp(c) \/ LoadToHost(c) \/ LockInfo(c) \/ ReadInfo(c)
    \/ \E ok \in BOOLEAN : Downloaded(c, ok) \/ RegisterModel(c, ok)
LoopStep(n) == TakeHead(n) \/ Wake(n) \/ \E ok \in BOOLEAN : EvictAndLoad(n, ok)

Next ==
    \/ \E n \in Nodes : Connect(n) \/ TakeHead(n) \/ Wake(n)
                        \/ \E ok \in BOOLEAN : EvictAndLoad(n, ok)
    \/ \E c \in Calls :
          \/ LookUp(c) \/ LoadToHost(c) \/ LockInfo(c) \/ ReadInfo(c) \/ StartInfo(c)
          \/ \E ok \in BOOLEAN : Downloaded(c, ok) \/ RegisterModel(c, ok)
          \/ \E n \in Nodes, m \in Models : StartLoad(c, n, m)
          \/ \E m \in Models, p \in Placements : StartRegister(c, m, p.local_disk, p.memory_pool)
    \/ \E m \in Models : RefuseRegister(m)

\* The event loop runs every task that can run; downloads end.
Fairness == /\ \A n \in Nodes : WF_vars(Connect(n)) /\ WF_vars(LoopStep(n))
            /\ \A c \in Calls : WF_vars(Step(c))
Spec == Init /\ [][Next]_vars /\ Fairness

-----------------------------------------------------------------------------
(* Properties *)

TypeOK ==
    /\ connecting \subseteq Nodes /\ local_servers \subseteq Nodes
    /\ \A n \in Nodes :
          /\ loop[n] \in {"none", "head", "evict", "sleep", "retry"}
          /\ queued_models[n] \subseteq Models /\ Range(pool[n]) \subseteq Models
          /\ Range(waiters[n]) \subseteq Calls \cup {Loop}
          /\ \A m \in Models : disk_models[n][m] \in {None, -1, Size[m]}
    /\ reader \in Calls \cup {None} /\ Range(metadata) \subseteq Calls
    /\ \A m \in Models : model_info[m] \in {Absent, None, -1, Size[m]}
    /\ \A m \in Models : model_storage_info[m] \subseteq Nodes
    /\ \A c \in Calls : call[c].pc \in {"idle", "load", "local", "info", "read", "download", "register"}

\* What the models of s have of w together.
Total(w, s) ==
    LET sum[i \in 0 .. Len(s)] == IF i = 0 THEN 0 ELSE sum[i - 1] + w[s[i]]
    IN sum[Len(s)]
PoolSize(n) == Total([m \in Models |-> Needed(disk_models[n][m])], pool[n])
\* The books of a store are right: what the loaded models need is what is
\* counted as used, within the pool that the server has, whatever was loaded,
\* evicted and dropped.
UsageIsPool ==
    \A n \in Nodes :
        /\ usage[n] = PoolSize(n) /\ usage[n] <= pool_chunks[n]
        /\ Total(Size, pool[n]) <= pool_chunks[n] * ChunkSize

\* A model is in the queue once, exactly when it is among the queued models,
\* and then not loaded: no coroutine sees the two apart.
QueueIsQueued ==
    \A n \in Nodes : /\ queued_models[n] = Range(io_queue[n])
                     /\ IsInjective(io_queue[n]) /\ IsInjective(pool[n])
                     /\ queued_models[n] \cap Range(pool[n]) = {}

\* A model that was registered is on the disk of some node, with the size that
\* store plans with, and the storage information names only nodes that have it,
\* with registrations of one model at the same time and failed ones before.
StoredIsOnDisk ==
    \A m \in Models :
        /\ model_info[m] # Absent => \E n \in Nodes : disk_models[n][m] # None
        /\ \A n \in model_storage_info[m] : disk_models[n][m] # None
        /\ \A n \in Nodes : m \in Range(pool[n]) => disk_models[n][m] = Size[m]

\* The lock is held by at most one task and every task stands in one line: no
\* call is forgotten at a lock.
EveryWaiterWaits ==
    \A c \in Calls :
        /\ call[c].pc \in {"local", "read", "register"} <=>
              \E n \in Nodes : c \in Range(waiters[n])
        /\ call[c].pc \in {"load", "info"} <=> c \in Range(metadata)
        /\ reader = c <=> call[c].pc = "read"

\* The books of the local stores agree with each other, with the disks and with
\* the lines at the locks.
BooksAgree == TypeOK /\ UsageIsPool /\ QueueIsQueued /\ StoredIsOnDisk /\ EveryWaiterWaits

Roomy(n) == \A m \in Models : Needed(Size[m]) <= pool_chunks[n]
\* On a node whose pool can hold every model a queued model is loaded, or
\* dropped after an error.
QueueIsServed ==
    \A n \in Nodes, m \in Models :
        (m \in queued_models[n] /\ Roomy(n)) ~> m \notin queued_models[n]

\* Every call returns, although a loading_loop sleeps with the lock in its
\* hand and get_store_info keeps metadata_lock while it waits for that one.
EveryCallReturns == \A c \in Calls : (call[c].pc # "idle") ~> (call[c].pc = "idle")

\* Every queued model is loaded or dropped, also where the pool is too small
\* for the head of the queue.
EveryQueueIsServed == \A n \in Nodes, m \in Models :
    (m \in queued_models[n]) ~> m \notin queued_models[n]
=============================================================================
