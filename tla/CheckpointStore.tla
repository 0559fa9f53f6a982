-------------------------- MODULE CheckpointStore --------------------------
(***************************************************************************)
(* The checkpoint store of a node (sllm_store/csrc/sllm_store and          *)
(* sllm_store/server.py): a gRPC server that reads models from disk into a *)
(* pool of pinned host buffers and copies them from there to GPU replicas. *)
(*                                                                         *)
(* The calls of the clients run on one asyncio event loop; a call into the *)
(* C++ store holds the interpreter, so a call that blocks in the store     *)
(* blocks the whole server.  Each load runs on a thread of its own: a disk *)
(* task per load_into_cpu and a replica task per load_into_gpu, with one   *)
(* thread that copies to the device.  A critical section of                *)
(* model_info_mutex_ or of a model's mutex_ is one action; an eviction,    *)
(* which takes the mutexes of its victims one by one, is one as well,      *)
(* since it commutes with what the other threads do in between.            *)
(***************************************************************************)
EXTENDS Integers, FiniteSets, SequencesExt

CONSTANTS
    Paths,      \* model paths
    Size,       \* Size[p]: chunks of the model at path p
    Generations,\* bound: the Model objects made for a path
    Buffers,    \* the buffers of PinnedMemoryPool, a chunk each
    NumThreads, \* num_thread_: threads that read a model
    Clients,    \* clients of the server; each loads one model
    GpuClients, \* those that load it to the GPU as well; the others are
                \* load_to_host of a store manager
    Server,     \* the event loop, as a thread
    Faults,     \* what may go wrong, a subset of AllFaults
    Unloads,    \* bound: the UnloadModel requests for a path
    Clears,     \* bound: the ClearMem requests
    Null        \* a null pointer

\* "open" and "read" are errors of the disk, "device" one of the GPU, "early"
\* a load_into_gpu that overtakes the disk task of the same client.
AllFaults == {"open", "read", "device", "early"}

ASSUME SizeAssumption ==
    /\ Size \in [Paths -> Nat \ {0}]
    /\ NumThreads \in Nat \ {0} /\ Generations \in Nat \ {0}
    /\ IsFiniteSet(Buffers)
ASSUME ClientsAssumption ==
    /\ GpuClients \subseteq Clients /\ Server \notin Clients
    /\ Faults \subseteq AllFaults
    /\ Unloads \in Nat /\ Clears \in Nat
ASSUME NullAssumption ==
    /\ Null \notin Seq(Nat) /\ \A bufs \in SUBSET Buffers : bufs # Null
    /\ \A m \in Paths \X (1 .. Generations) : m # Null /\ m[1] # Null

Models    == Paths \X (1 .. Generations)
Chunks(m) == 1 .. Size[m[1]]
Threads   == Clients \cup {Server}
MaxTries  == 5
End       == 0  \* GpuBatch{}, the end of a loading queue

VARIABLES
    model_map_,        \* the Model of a path, or Null
    access_order,      \* the keys of model_last_access_time_, oldest first
    free_list_,        \* the free buffers of the pool
    \* of each Model
    state_, pinned_mem_,
    host_ptr_vector_,  \* the chunks read, in order of arrival
    content,           \* the chunks of the model that its buffers hold
    \* of each client
    client,            \* next: its next call, path: the model it loads,
                       \* tries: what ConfirmModel has left
    load,              \* its disk task.  at: what it does next, model: its
                       \* Model, unread: what its threads have to read,
                       \* error: one failed, target: where they write
    replica,           \* its replica and the task that loads it.  at, model,
                       \* state, listed: it is in gpu_replicas_, sent: chunks
                       \* dispatched, queue: gpu_loading_queue_, device: what
                       \* the device thread does, dangling: its host_buffers
                       \* are freed, garbage: it copied other bytes
    \* of the server
    server,            \* up: FALSE once it crashed or its behaviour is
                       \* undefined, op: the call the loop is in, of: what
                       \* the call is about, retries: tries of an UnloadModel
                       \* left, unloads, clears: requests still to come
    frame              \* where each thread is in FreeHost, in ToHost's error
                       \* path or in WaitInGpu: at, the model, visit: the
                       \* replicas still to visit, on: the one it waits for,
                       \* notified: its condition variable was notified

store  == <<model_map_, access_order>>
memory == <<state_, pinned_mem_, host_ptr_vector_, content, free_list_>>
vars   == <<store, memory, client, load, replica, server, frame>>
-----------------------------------------------------------------------------
Ended == {"LOADED", "INTERRUPTED"}
Vacant == {"UNINITIALIZED", "UNALLOCATED"}

Registered(p) == model_map_[p] # Null
Replicas(m)   == {c \in Clients : replica[c].listed /\ replica[c].model = m}
Loading(m)    == {c \in Replicas(m) : replica[c].state = "LOADING"}
Held(m)       == IF pinned_mem_[m] = Null THEN {} ELSE pinned_mem_[m]
Touched(p)    == LET at == {i \in DOMAIN access_order : access_order[i] = p}
                 IN Append(IF at = {} THEN access_order
                           ELSE RemoveAt(access_order, CHOOSE i \in at : TRUE),
                           p)
\* ClearMem holds model_info_mutex_ while it waits in FreeHost.
InfoUnlocked  == server.op # "clear"
\* Where the event loop and the threads of a client are, while the server is
\* up: nothing is said of what follows a crash.
Serving(op)   == server.up /\ server.op = op
Disk(c, at)   == server.up /\ load[c].at = at
Gpu(c, at)    == server.up /\ replica[c].at = at
Device(c, at) == server.up /\ replica[c].device = at
In(t, at)     == server.up /\ frame[t].at = at
Calling(op, of) == server' = [server EXCEPT !.op = op, !.of = of]

NoFrame == [at |-> "none", model |-> Null, visit |-> {}, on |-> Null,
            notified |-> FALSE]
Frame(at, m, visit, on) == [NoFrame EXCEPT !.at = at, !.model = m,
                                           !.visit = visit, !.on = on]
Enter(t, m) == frame' = [frame EXCEPT ![t] = Frame("enter", m, {}, Null)]

\* The replicas once the Models in S have lost their buffers: a device thread
\* that copies from them is left with a reference to freed memory.
Dangling(S) == [c \in Clients |->
    IF replica[c].model \in S /\ replica[c].device = "copying"
    THEN [replica[c] EXCEPT !.dangling = TRUE] ELSE replica[c]]

\* Mutant of Reallocate: the buffers of S are not given back to the pool.
ReallocateLeaks(S, m, bufs) ==
    /\ pinned_mem_' = [n \in Models |-> IF n = m THEN bufs ELSE
                                        IF n \in S THEN Null
                                        ELSE pinned_mem_[n]]
    /\ content' = [n \in Models |-> IF n \in S THEN {} ELSE content[n]]
    /\ free_list_' = free_list_ \ (IF bufs = Null THEN {} ELSE bufs)
    /\ replica' = Dangling(S)
    /\ UNCHANGED host_ptr_vector_

\* The Models in S lose their memory and m, if it is one, gets bufs.
Reallocate(S, m, bufs) ==
    /\ pinned_mem_' = [n \in Models |-> IF n = m THEN bufs ELSE
                                        IF n \in S THEN Null
                                        ELSE pinned_mem_[n]]
    /\ content' = [n \in Models |-> IF n \in S THEN {} ELSE content[n]]
    /\ free_list_' = (free_list_ \cup UNION {Held(n) : n \in S})
                       \ (IF bufs = Null THEN {} ELSE bufs)
    /\ replica' = Dangling(S)
    /\ UNCHANGED host_ptr_vector_

Crash == /\ server' = [server EXCEPT !.up = FALSE]
         /\ UNCHANGED <<store, memory, client, load, replica, frame>>

Init ==
    /\ model_map_ = [p \in Paths |-> Null]
    /\ access_order = << >>
    /\ free_list_ = Buffers
    /\ state_ = [m \in Models |-> "UNINITIALIZED"]
    /\ pinned_mem_ = [m \in Models |-> Null]
    /\ host_ptr_vector_ = [m \in Models |-> Null]
    /\ content = [m \in Models |-> {}]
    /\ client = [c \in Clients |->
          [next |-> "cpu", path |-> Null, tries |-> MaxTries]]
    /\ load = [c \in Clients |->
          [at |-> "none", model |-> Null, unread |-> {}, error |-> FALSE,
           target |-> {}]]
    /\ replica = [c \in Clients |->
          [at |-> "none", model |-> Null, state |-> "UNINITIALIZED",
           listed |-> FALSE, sent |-> 0, queue |-> << >>,
           device |-> "none", dangling |-> FALSE, garbage |-> FALSE]]
    /\ server = [up |-> TRUE, op |-> "idle", of |-> Null,
                 retries |-> [p \in Paths |-> 0],
                 unloads |-> [p \in Paths |-> Unloads], clears |-> Clears]
    /\ frame = [t \in Threads |-> NoFrame]
-----------------------------------------------------------------------------
(* The requests of the clients, on the event loop of the server            *)

\* RegisterModelInfo: a path gets a Model when it is seen for the first time,
\* or for the first time since ClearMem.
Register(p) ==
    IF Registered(p) THEN UNCHANGED <<model_map_, state_>>
    ELSE \E m \in Models :
           /\ m[1] = p /\ state_[m] = "UNINITIALIZED"
           /\ \A k \in 1 .. (m[2] - 1) : state_[<<p, k>>] # "UNINITIALIZED"
           /\ model_map_' = [model_map_ EXCEPT ![p] = m]
           /\ state_' = [state_ EXCEPT ![m] = "UNALLOCATED"]

\* LoadModelAsync to the CPU registers the model and starts a disk task.
LoadIntoCpu(c, p) ==
    /\ Serving("idle") /\ client[c].next = "cpu"
    /\ Register(p)
    /\ load' = [load EXCEPT ![c].at = "begin"]
    /\ client' = [client EXCEPT ![c].path = p, ![c].next =
                    IF c \in GpuClients THEN "gpu" ELSE "end"]
    /\ UNCHANGED <<access_order, pinned_mem_, host_ptr_vector_, content,
                   free_list_, replica, server, frame>>

\* LoadModelAsync to the GPU.  The client has built the model and allocated
\* the GPU memory since its load_into_cpu, while its disk task went for the
\* host memory.
LoadIntoGpu(c) ==
    /\ Serving("idle") /\ client[c].next = "gpu"
    /\ load[c].at \in {"begin", "allocate", "toHost"} => "early" \in Faults
    /\ Register(client[c].path)
    /\ replica' = [replica EXCEPT ![c].at = "begin"]
    /\ client' = [client EXCEPT ![c].next = "confirm"]
    /\ UNCHANGED <<access_order, pinned_mem_, host_ptr_vector_, content,
                   free_list_, load, server, frame>>

\* Mutant of Confirm: the number of tries is not bounded.
ConfirmAgain(c) ==
    LET p == client[c].path IN
    /\ Serving("idle") /\ client[c].next = "confirm"
    /\ IF Registered(p)
       THEN /\ Calling("confirm", c)
            /\ frame' = [frame EXCEPT ![Server] =
                           Frame("appear", model_map_[p], {}, c)]
            /\ UNCHANGED client
       ELSE /\ client' = [client EXCEPT ![c].tries = @ - 1]
            /\ UNCHANGED <<server, frame>>
    /\ UNCHANGED <<store, memory, load, replica>>

\* A try of ConfirmModel waits in WaitModelInGpu, for the replica to appear.
Confirm(c) ==
    LET p == client[c].path IN
    /\ Serving("idle") /\ client[c].next = "confirm" /\ client[c].tries > 0
    /\ IF Registered(p)
       THEN /\ Calling("confirm", c)
            /\ frame' = [frame EXCEPT ![Server] =
                           Frame("appear", model_map_[p], {}, c)]
            /\ UNCHANGED client
       ELSE /\ client' = [client EXCEPT ![c].tries = @ - 1]
            /\ UNCHANGED <<server, frame>>
    /\ UNCHANGED <<store, memory, load, replica>>

ConfirmFails(c) ==
    /\ Serving("idle") /\ client[c].next = "confirm" /\ client[c].tries = 0
    /\ client' = [client EXCEPT ![c].next = "unconfirmed"]
    /\ UNCHANGED <<store, memory, load, replica, server, frame>>

\* WaitInGpu finds the replica while it is loading, and waits on its cv_.
ReplicaFound ==
    LET f == frame[Server] IN
    /\ In(Server, "appear") /\ f.on \in Loading(f.model)
    /\ frame' = [frame EXCEPT ![Server].at = "replica"]
    /\ UNCHANGED <<store, memory, client, load, replica, server>>

\* What WaitInGpu does with the state of the replica it has seen.
Answer(f) ==
    /\ Calling("idle", Null)
    /\ frame' = [frame EXCEPT ![Server] = NoFrame]
    /\ client' = IF replica[f.on].state = "INTERRUPTED"
                 THEN [client EXCEPT ![f.on].tries = @ - 1]
                 ELSE [client EXCEPT ![f.on].next = "confirmed"]
    /\ UNCHANGED <<store, memory, load, replica>>

\* Mutant of ConfirmReturns: the wait is not in a loop on its predicate.
ConfirmReturnsEarly ==
    LET f == frame[Server] IN
    /\ \/ In(Server, "appear") /\ f.on \in Replicas(f.model) \ Loading(f.model)
       \/ In(Server, "replica")
    /\ Answer(f)

\* Mutant of ConfirmReturns: nothing notifies the replica's cv_.
ConfirmReturnsNever ==
    LET f == frame[Server] IN
    /\ In(Server, "appear") /\ f.on \in Replicas(f.model) \ Loading(f.model)
    /\ Answer(f)

\* WaitInGpu returns: an error if the replica was interrupted, 0 otherwise.
ConfirmReturns ==
    LET f == frame[Server] IN
    /\ \/ In(Server, "appear") /\ f.on \in Replicas(f.model) \ Loading(f.model)
       \/ In(Server, "replica") /\ replica[f.on].state \in Ended
    /\ Answer(f)

RequestUnload(p) ==
    /\ server.up /\ server.unloads[p] > 0 /\ server.retries[p] = 0
    /\ server' = [server EXCEPT !.unloads[p] = @ - 1, !.retries[p] = MaxTries]
    /\ UNCHANGED <<store, memory, client, load, replica, frame>>

\* A try of UnloadModel calls FreeHost.
Unload(p) ==
    /\ Serving("idle") /\ server.retries[p] > 0
    /\ IF Registered(p)
       THEN Calling("unload", p) /\ Enter(Server, model_map_[p])
       ELSE /\ server' = [server EXCEPT !.retries[p] = @ - 1]
            /\ UNCHANGED frame
    /\ UNCHANGED <<store, memory, client, load, replica>>

\* ClearMem calls FreeHost for the models, one after the other, and empties
\* model_map_; it leaves model_last_access_time_ as it is.
ClearMem ==
    /\ Serving("idle") /\ server.clears > 0
    /\ server' = [server EXCEPT !.clears = @ - 1, !.op = "clear",
                                !.of = {p \in Paths : Registered(p)}]
    /\ UNCHANGED <<store, memory, client, load, replica, frame>>

ClearNext(p) ==
    /\ Serving("clear") /\ frame[Server] = NoFrame /\ p \in server.of
    /\ server' = [server EXCEPT !.of = @ \ {p}]
    /\ Enter(Server, model_map_[p])
    /\ UNCHANGED <<store, memory, client, load, replica>>

Cleared ==
    /\ Serving("clear") /\ frame[Server] = NoFrame /\ server.of = {}
    /\ Calling("idle", Null)
    /\ model_map_' = [p \in Paths |-> Null]
    /\ UNCHANGED <<access_order, memory, client, load, replica, frame>>
-----------------------------------------------------------------------------
(* FreeHost, on the event loop or by a disk task that failed               *)

\* The thread returns from FreeHost.  A disk task ignores the result.
Return(t, freed) ==
    /\ frame' = [frame EXCEPT ![t] = NoFrame]
    /\ IF t \in Clients
       THEN load' = [load EXCEPT ![t].at = "failed"] /\ UNCHANGED server
       ELSE /\ server' = IF server.op = "clear" THEN server
                         ELSE [server EXCEPT !.op = "idle", !.of = Null,
                                 !.retries[server.of] = IF freed THEN 0
                                                        ELSE @ - 1]
            /\ UNCHANGED load

\* The loop over gpu_replicas_: those of visit are still to be visited, and
\* one added since the loop began may be visited or not.  Either it comes to
\* one that is loading and waits for it, or it comes to its end and frees the
\* memory, which is a null pointer by then if another thread freed it.
ScanReplicas(t, m, visit) ==
    \/ \E r \in Loading(m) :
         /\ frame' = [frame EXCEPT ![t] = Frame("replicas", m, visit \ {r}, r)]
         /\ UNCHANGED <<store, memory, client, load, replica, server>>
    \/ /\ visit \cap Loading(m) = {}
       /\ IF pinned_mem_[m] = Null THEN Crash
          ELSE /\ Reallocate({m}, m, Null)
               /\ state_' = [state_ EXCEPT ![m] = "UNALLOCATED"]
               /\ Return(t, TRUE)
               /\ UNCHANGED <<store, client>>

FreeHost(t) ==
    LET m == frame[t].model IN
    /\ In(t, "enter")
    /\ \/ /\ state_[m] \in Vacant
          /\ Return(t, FALSE)
          /\ UNCHANGED <<store, memory, client, replica>>
       \/ /\ state_[m] = "LOADING"
          /\ frame' = [frame EXCEPT ![t].at = "host"]
          /\ UNCHANGED <<store, memory, client, load, replica, server>>
       \/ /\ state_[m] \notin Vacant \cup {"LOADING"}
          /\ ScanReplicas(t, m, Replicas(m))

\* A wait on cv_ ends once the predicate holds; it may wake up without having
\* been notified, so that notified matters to the fairness alone.
HostEnded(t) ==
    LET m == frame[t].model IN
    /\ In(t, "host") /\ state_[m] \in Ended
    /\ ScanReplicas(t, m, Replicas(m))

HostSleepsOn(t) ==
    /\ In(t, "host") /\ frame[t].notified
    /\ state_[frame[t].model] \notin Ended
    /\ frame' = [frame EXCEPT ![t].notified = FALSE]
    /\ UNCHANGED <<store, memory, client, load, replica, server>>

ReplicaEnded(t) ==
    /\ In(t, "replicas") /\ replica[frame[t].on].state \in Ended
    /\ ScanReplicas(t, frame[t].model, frame[t].visit)
-----------------------------------------------------------------------------
(* LoadModelFromDisk                                                       *)

DiskBegin(c) ==
    LET p == client[c].path IN
    /\ Disk(c, "begin") /\ InfoUnlocked
    /\ load' = IF Registered(p)
               THEN [load EXCEPT ![c].model = model_map_[p],
                                 ![c].at = "allocate"]
               ELSE [load EXCEPT ![c].at = "failed"]
    /\ UNCHANGED <<store, memory, client, replica, server, frame>>

\* Mutant of Needs: every model that is not read yet gets memory.
NeedsUnlessLoaded(m) == state_[m] # "LOADED"

\* AllocatePinnedMemory does nothing for a model that is not UNALLOCATED.
Needs(m) == state_[m] = "UNALLOCATED"

KeepMemory(c) ==
    /\ Disk(c, "allocate") /\ InfoUnlocked
    /\ ~Needs(load[c].model)
    /\ access_order' = Touched(client[c].path)
    /\ load' = [load EXCEPT ![c].at = "toHost"]
    /\ UNCHANGED <<model_map_, memory, client, replica, server, frame>>

\* Mutant of Evictable: TryFreeHost frees a model that is being read.
EvictableAnyTime(m) == state_[m] \notin Vacant /\ Loading(m) = {}

\* TryFreeHost frees the memory of the model.
Evictable(m) == state_[m] \notin Vacant \cup {"LOADING"} /\ Loading(m) = {}

\* Mutant of Oldest: the times are sorted the other way round.
Newest(k) == {model_map_[Reverse(access_order)[i]] : i \in 1 .. k}

\* What can be freed of the models of the k least recently used paths.
Oldest(k)     == {model_map_[access_order[i]] : i \in 1 .. k}
Victims(k)    == {m \in Oldest(k) \ {Null} : Evictable(m)}
Available(k)  == free_list_ \cup UNION {Held(m) : m \in Victims(k)}
Enough(m, k)  == Cardinality(Available(k)) >= Size[m[1]]

\* An eviction for m goes through the paths until enough chunks are freed.
Visited(m) ==
    LET all == 0 .. Len(access_order) IN
    IF \E k \in all : Enough(m, k)
    THEN CHOOSE k \in all : Enough(m, k) /\ \A j \in 0 .. (k - 1) : ~Enough(m, j)
    ELSE Len(access_order)

\* AllocatePinnedMemory, with the eviction of the least recently used models
\* if the pool is short.  In vain, the victims are evicted all the same and
\* the model is left with a PinnedMemory of no buffers.  model_map_[path] of a
\* path that ClearMem removed from model_map_ alone is a null Model.
Allocate(c) ==
    LET m == load[c].model
        k == Visited(m)
    IN /\ Disk(c, "allocate") /\ InfoUnlocked
       /\ Needs(m)
       /\ IF Null \in Oldest(k) THEN Crash
          ELSE /\ \E bufs \in SUBSET Available(k) :
                    /\ Cardinality(bufs) = IF Enough(m, k) THEN Size[m[1]]
                                           ELSE 0
                    /\ Reallocate(Victims(k), m, bufs)
               /\ state_' = [n \in Models |->
                     IF n = m /\ Enough(m, k) THEN "ALLOCATED" ELSE
                     IF n \in Victims(k) THEN "UNALLOCATED" ELSE state_[n]]
               /\ access_order' = IF Enough(m, k) THEN Touched(client[c].path)
                                  ELSE access_order
               /\ load' = [load EXCEPT ![c].at = IF Enough(m, k) THEN "toHost"
                                                 ELSE "failed"]
               /\ UNCHANGED <<model_map_, client, server, frame>>

\* LoadModelFromDisk calls FreeHost when ToHost has failed.
CallFreeHost(c) ==
    /\ load' = [load EXCEPT ![c].at = "free"]
    /\ Enter(c, load[c].model)

\* Mutant of AlreadyRead: a model that is LOADED by now is overlooked.
AlreadyReading(c) ==
    /\ Disk(c, "toHost") /\ state_[load[c].model] = "LOADING"
    /\ load' = [load EXCEPT ![c].at = "loaded"]
    /\ UNCHANGED <<store, memory, client, replica, server, frame>>

\* ToHost has nothing to do for a model that another task reads or has read.
AlreadyRead(c) ==
    /\ Disk(c, "toHost") /\ state_[load[c].model] \in {"LOADING", "LOADED"}
    /\ load' = [load EXCEPT ![c].at = "loaded"]
    /\ UNCHANGED <<store, memory, client, replica, server, frame>>

ToHostFails(c) ==
    LET m == load[c].model IN
    /\ Disk(c, "toHost") /\ state_[m] \notin {"LOADING", "LOADED"}
    /\ state_[m] = "ALLOCATED" => "open" \in Faults \/ Held(m) = {}
    /\ CallFreeHost(c)
    /\ UNCHANGED <<store, memory, client, replica, server>>

\* Mutant of ToHost: a model that another task reads is read again.
ToHostAgain(c) ==
    LET m == load[c].model IN
    /\ Disk(c, "toHost") /\ state_[m] \in {"ALLOCATED", "LOADING"}
    /\ Held(m) # {}
    /\ state_' = [state_ EXCEPT ![m] = "LOADING"]
    /\ host_ptr_vector_' = [host_ptr_vector_ EXCEPT ![m] = << >>]
    /\ load' = [load EXCEPT ![c].at = "reading", ![c].unread = Chunks(m),
                            ![c].error = FALSE, ![c].target = pinned_mem_[m]]
    /\ UNCHANGED <<store, pinned_mem_, content, free_list_, client, replica,
                   server, frame>>

\* A dispatcher may be waiting for the next chunk of the vector of m.
Awaited(m) ==
    /\ host_ptr_vector_[m] # Null
    /\ \E r \in Clients : /\ Gpu(r, "dispatch") /\ replica[r].model = m
                          /\ replica[r].sent + 1 \in
                               Chunks(m) \ DOMAIN host_ptr_vector_[m]

\* A model that has its memory is read into it, by num_thread_ threads, and
\* its vector is replaced; a dispatcher that waits in the old one is left
\* with a destroyed condition variable.
ToHost(c) ==
    LET m == load[c].model IN
    /\ Disk(c, "toHost") /\ state_[m] = "ALLOCATED" /\ Held(m) # {}
    /\ \/ Awaited(m) /\ Crash
       \/ /\ state_' = [state_ EXCEPT ![m] = "LOADING"]
          /\ host_ptr_vector_' = [host_ptr_vector_ EXCEPT ![m] = << >>]
          /\ load' = [load EXCEPT ![c].at = "reading", ![c].unread = Chunks(m),
                         ![c].error = FALSE, ![c].target = pinned_mem_[m]]
          /\ UNCHANGED <<store, pinned_mem_, content, free_list_, client,
                         replica, server, frame>>

\* Thread t reads the chunks t * chunk_per_thread + 1 onwards, in order.
ChunkPerThread(m) == (Size[m[1]] + NumThreads - 1) \div NumThreads
SameThread(m, i)  == {j \in Chunks(m) : (j - 1) \div ChunkPerThread(m)
                                        = (i - 1) \div ChunkPerThread(m)}
NextChunk(c, i) ==
    /\ Disk(c, "reading") /\ i \in load[c].unread
    /\ \A j \in load[c].unread \cap SameThread(load[c].model, i) : i <= j

\* pread into buffers that are no longer the model's corrupts memory.
ReadChunk(c, i) ==
    LET m == load[c].model IN
    /\ NextChunk(c, i)
    /\ IF load[c].target # pinned_mem_[m] THEN Crash
       ELSE /\ content' = [content EXCEPT ![m] = @ \cup {i}]
            /\ host_ptr_vector_' = [host_ptr_vector_ EXCEPT ![m] =
                 IF i \in ToSet(@) THEN @ ELSE Append(@, i)]
            /\ load' = [load EXCEPT ![c].unread = @ \ {i}]
            /\ UNCHANGED <<store, state_, pinned_mem_, free_list_, client,
                           replica, server, frame>>

\* A thread that cannot read a chunk returns; the others go on.
ReadFails(c, i) ==
    /\ "read" \in Faults /\ NextChunk(c, i)
    /\ load' = [load EXCEPT ![c].error = TRUE,
                            ![c].unread = @ \ SameThread(load[c].model, i)]
    /\ UNCHANGED <<store, memory, client, replica, server, frame>>

\* The loop over gpu_replicas_ in the error path of ToHost: each is cancelled
\* if it is loading, and waited for; then the memory is released.
CancelReplicas(c, m, visit, state) ==
    \/ \E r \in Replicas(m) :
         /\ replica[r].state \notin Ended
         /\ replica' = [replica EXCEPT ![r].state =
                          IF @ = "LOADING" THEN "CANCELLED" ELSE @]
         /\ frame' = [frame EXCEPT ![c] = Frame("cancel", m, visit \ {r}, r)]
         /\ state_' = state
         /\ load' = [load EXCEPT ![c].at = "cancel"]
         /\ UNCHANGED <<pinned_mem_, content, free_list_, host_ptr_vector_>>
    \/ /\ \A r \in visit \cap Replicas(m) : replica[r].state \in Ended
       /\ Reallocate({m}, m, Null)
       /\ state_' = [state EXCEPT ![m] = "UNALLOCATED"]
       /\ CallFreeHost(c)

\* Mutant of ReadersDone: the error of a thread is not looked at.
ReadersDoneUnchecked(c) ==
    LET m == load[c].model IN
    /\ Disk(c, "reading") /\ load[c].unread = {}
    /\ state_' = [state_ EXCEPT ![m] = "LOADED"]
    /\ load' = [load EXCEPT ![c].at = "loaded"]
    /\ UNCHANGED <<pinned_mem_, content, free_list_, host_ptr_vector_,
                   replica, frame>>
    /\ UNCHANGED <<store, client, server>>

\* The join of the threads.  Nothing notifies cv_ that the model is LOADED.
ReadersDone(c) ==
    LET m == load[c].model IN
    /\ Disk(c, "reading") /\ load[c].unread = {}
    /\ IF load[c].error
       THEN CancelReplicas(c, m, Replicas(m),
                           [state_ EXCEPT ![m] = "INTERRUPTED"])
       ELSE /\ state_' = [state_ EXCEPT ![m] = "LOADED"]
            /\ load' = [load EXCEPT ![c].at = "loaded"]
            /\ UNCHANGED <<pinned_mem_, content, free_list_, host_ptr_vector_,
                           replica, frame>>
    /\ UNCHANGED <<store, client, server>>

CancelledEnded(c) ==
    /\ In(c, "cancel") /\ replica[frame[c].on].state \in Ended
    /\ CancelReplicas(c, frame[c].model, frame[c].visit, state_)
    /\ UNCHANGED <<store, client, server>>
-----------------------------------------------------------------------------
(* LoadModelFromMem                                                        *)

ReplicaBegin(c) ==
    LET p == client[c].path IN
    /\ Gpu(c, "begin") /\ InfoUnlocked
    /\ IF Registered(p)
       THEN /\ replica' = [replica EXCEPT ![c].model = model_map_[p],
                                          ![c].at = "toGpu"]
            /\ access_order' = Touched(p)
       ELSE /\ replica' = [replica EXCEPT ![c].at = "failed"]
            /\ UNCHANGED access_order
    /\ UNCHANGED <<model_map_, memory, client, load, server, frame>>

\* ToGpu adds the replica, notifies cv_ and starts the dispatcher and the
\* device thread.  The uuid of a replica is new.
ToGpu(c) ==
    /\ Gpu(c, "toGpu")
    /\ replica' = [replica EXCEPT ![c].listed = TRUE, ![c].state = "LOADING",
                                  ![c].at = "plan", ![c].device = "start"]
    /\ frame' = [t \in Threads |->
         IF frame[t].at = "host" /\ frame[t].model = replica[c].model
         THEN [frame[t] EXCEPT !.notified = TRUE] ELSE frame[t]]
    /\ UNCHANGED <<store, memory, client, load, server>>

\* DispatchToGpu sizes its table by the chunks the model has: a null pointer
\* or, with no chunks, a write past the end of the table.
Plan(c) ==
    /\ Gpu(c, "plan")
    /\ IF Held(replica[c].model) = {} THEN Crash
       ELSE /\ replica' = [replica EXCEPT ![c].at = "dispatch"]
            /\ UNCHANGED <<store, memory, client, load, server, frame>>

\* It sends the next chunk to the device as soon as it is in the vector the
\* model has now, and the end mark after the last.
Dispatch(c) ==
    LET vector == host_ptr_vector_[replica[c].model]
        next   == replica[c].sent + 1
        Send(item) == [replica EXCEPT ![c].queue = Append(@, item)]
    IN /\ Gpu(c, "dispatch")
       /\ IF vector = Null THEN Crash
          ELSE /\ \/ /\ next \in DOMAIN vector
                     /\ replica' = [Send(vector[next]) EXCEPT ![c].sent = next]
                  \/ /\ next \notin Chunks(replica[c].model)
                     /\ replica' = [Send(End) EXCEPT ![c].at = "join"]
               /\ UNCHANGED <<store, memory, client, load, server, frame>>

\* The device thread takes a reference to the buffers.
DeviceStart(c) ==
    /\ Device(c, "start")
    /\ \E result \in {"copying", "error"} :
         /\ result = "copying" => Held(replica[c].model) # {}
         /\ result = "error" => \/ Held(replica[c].model) = {}
                                \/ "device" \in Faults
         /\ replica' = [replica EXCEPT ![c].device = result]
    /\ UNCHANGED <<store, memory, client, load, server, frame>>

\* It takes the next item of its queue and copies the chunk.
Copy(c) ==
    LET item == Head(replica[c].queue)
        Result(device) == [replica EXCEPT ![c].queue = Tail(@),
                                          ![c].device = device]
    IN /\ Device(c, "copying") /\ replica[c].queue # << >>
       /\ IF item = End \/ replica[c].state = "CANCELLED"
          THEN /\ replica' = Result("done")
               /\ UNCHANGED <<store, memory, client, load, server, frame>>
          ELSE IF replica[c].dangling THEN Crash
          ELSE /\ \/ replica' = [Result("copying") EXCEPT ![c].garbage =
                       @ \/ item \notin content[replica[c].model]]
                  \/ "device" \in Faults /\ replica' = Result("error")
               /\ UNCHANGED <<store, memory, client, load, server, frame>>

\* Mutant of ReplicaDone: the device thread is not joined.
ReplicaDoneUnjoined(c) ==
    LET failed == replica[c].device = "error" IN
    /\ Gpu(c, "join")
    /\ replica' = [replica EXCEPT
         ![c].state = IF failed THEN "INTERRUPTED" ELSE "LOADED",
         ![c].at    = IF failed THEN "freeGpu" ELSE "loaded"]
    /\ UNCHANGED <<store, memory, client, load, server, frame>>

\* The join of the two threads, which notifies the replica's cv_.
ReplicaDone(c) ==
    LET failed == replica[c].device = "error" IN
    /\ Gpu(c, "join") /\ replica[c].device \in {"done", "error"}
    /\ replica' = [replica EXCEPT
         ![c].state = IF failed THEN "INTERRUPTED" ELSE "LOADED",
         ![c].at    = IF failed THEN "freeGpu" ELSE "loaded"]
    /\ UNCHANGED <<store, memory, client, load, server, frame>>

\* FreeGpu destroys a failed replica, with its condition variable and the
\* reference to it that a thread still uses when it wakes up.
FreeGpu(c) ==
    /\ Gpu(c, "freeGpu")
    /\ IF \E t \in Threads : frame[t].on = c /\ frame[t].at # "appear"
       THEN Crash
       ELSE /\ replica' = [replica EXCEPT ![c].listed = FALSE,
                                          ![c].at = "failed"]
            /\ UNCHANGED <<store, memory, client, load, server, frame>>
-----------------------------------------------------------------------------
Request ==
    \/ \E c \in Clients, p \in Paths : LoadIntoCpu(c, p)
    \/ \E c \in Clients : LoadIntoGpu(c)
    \/ \E p \in Paths : RequestUnload(p)
    \/ ClearMem
ServerStep ==
    \/ \E c \in Clients : Confirm(c) \/ ConfirmFails(c)
    \/ \E p \in Paths : Unload(p) \/ ClearNext(p)
    \/ ReplicaFound \/ ConfirmReturns \/ Cleared
FreeStep(t) == FreeHost(t) \/ HostEnded(t) \/ HostSleepsOn(t) \/ ReplicaEnded(t)
DiskStep(c) ==
    \/ DiskBegin(c) \/ KeepMemory(c) \/ Allocate(c) \/ AlreadyRead(c)
    \/ ToHostFails(c) \/ ToHost(c) \/ ReadersDone(c) \/ CancelledEnded(c)
ReadStep(c) == \E i \in load[c].unread : ReadChunk(c, i) \/ ReadFails(c, i)
ReplicaStep(c) ==
    \/ ReplicaBegin(c) \/ ToGpu(c) \/ Plan(c) \/ Dispatch(c)
    \/ ReplicaDone(c) \/ FreeGpu(c)
DeviceStep(c) == DeviceStart(c) \/ Copy(c)

Next ==
    \/ Request \/ ServerStep
    \/ \E t \in Threads : FreeStep(t)
    \/ \E c \in Clients :
         DiskStep(c) \/ ReadStep(c) \/ ReplicaStep(c) \/ DeviceStep(c)

Spec == Init /\ [][Next]_vars
-----------------------------------------------------------------------------
States == {"UNINITIALIZED", "UNALLOCATED", "ALLOCATED", "LOADING", "LOADED",
           "CANCELLED", "INTERRUPTED"}
FramePoints == {"none", "enter", "host", "replicas", "cancel", "appear",
                "replica"}

ClientRecords ==
    [next : {"cpu", "gpu", "end", "confirm", "confirmed", "unconfirmed"},
     path : Paths \cup {Null}, tries : 0 .. MaxTries]
LoadRecords ==
    [at : {"none", "begin", "allocate", "toHost", "reading", "cancel",
           "free", "loaded", "failed"},
     model : {Null} \cup Models, unread : SUBSET Nat, error : BOOLEAN,
     target : SUBSET Buffers]
ReplicaRecords ==
    [at : {"none", "begin", "toGpu", "plan", "dispatch", "join", "loaded",
           "freeGpu", "failed"},
     model : {Null} \cup Models, state : States, listed : BOOLEAN,
     sent : Nat, queue : Seq(Nat),
     device : {"none", "start", "copying", "done", "error"},
     dangling : BOOLEAN, garbage : BOOLEAN]
ServerRecords ==
    [up : BOOLEAN, op : {"idle", "confirm", "unload", "clear"},
     of : {Null} \cup Clients \cup Paths \cup SUBSET Paths,
     retries : [Paths -> 0 .. MaxTries],
     unloads : [Paths -> 0 .. Unloads], clears : 0 .. Clears]
FrameRecords ==
    [at : FramePoints, model : {Null} \cup Models, visit : SUBSET Clients,
     on : Clients \cup {Null}, notified : BOOLEAN]

MemoryType ==
    /\ free_list_ \subseteq Buffers
    /\ state_ \in [Models -> States]
    /\ pinned_mem_ \in [Models -> {Null} \cup SUBSET Buffers]
    /\ content \in [Models -> SUBSET Nat]
    /\ host_ptr_vector_ \in [Models -> {Null} \cup Seq(Nat)]
    /\ \A m \in Models : /\ content[m] \subseteq Chunks(m)
                         /\ \/ host_ptr_vector_[m] = Null
                            \/ host_ptr_vector_[m] \in Seq(Chunks(m))

\* The variables hold the values they are meant to hold.
TypeOK ==
    /\ model_map_ \in [Paths -> {Null} \cup Models]
    /\ access_order \in Seq(Paths)
    /\ MemoryType
    /\ client \in [Clients -> ClientRecords]
    /\ load \in [Clients -> LoadRecords]
    /\ replica \in [Clients -> ReplicaRecords]
    /\ server \in ServerRecords
    /\ frame \in [Threads -> FrameRecords]

\* Every buffer of the pool is free or belongs to one model, never to two
\* and never to none (PinnedMemoryPool::Allocate, Deallocate).
PoolConservation ==
    /\ Buffers = free_list_ \cup UNION {Held(m) : m \in Models}
    /\ \A m \in Models : Held(m) \cap free_list_ = {}
    /\ \A m, n \in Models : m # n => Held(m) \cap Held(n) = {}

\* Whatever fails, is unloaded or cleared, no buffer is lost or has two owners.
NothingIsLost == TypeOK /\ PoolConservation

\* A model has the memory for all its chunks in the states that say so, and
\* no memory in the others, whoever freed it and whenever.
MemoryMatchesState ==
    \A m \in Models :
        Cardinality(Held(m)) = IF state_[m] \in Vacant THEN 0 ELSE Size[m[1]]

\* A model is LOADING while one task reads it, into the buffers the model
\* has: no second reader starts and the buffers are not freed under it.
OneReader ==
    \A m \in Models :
        LET readers == {c \in Clients : load[c].at = "reading"
                                        /\ load[c].model = m}
        IN /\ Cardinality(readers) = IF state_[m] = "LOADING" THEN 1 ELSE 0
           /\ \A c \in readers : load[c].target = pinned_mem_[m]

\* A model that is LOADED has all its chunks in its buffers, and a replica
\* can be sent each of them.
LoadedIsComplete ==
    \A m \in Models : state_[m] = "LOADED" =>
        /\ content[m] = Chunks(m)
        /\ ToSet(host_ptr_vector_[m]) = Chunks(m)

\* Evictions, failing reads and shared loads keep the pool, the states of the
\* models and the bytes in their buffers consistent.
MemoryIsConsistent == PoolConservation /\ MemoryMatchesState /\ OneReader /\ LoadedIsComplete

\* The store neither crashes nor runs into undefined behaviour.
NoCrash == server.up

\* A replica that ToGpu declares loaded holds the bytes of the model.
ReplicasAreComplete ==
    \A c \in Clients : replica[c].state = "LOADED" =>
        /\ replica[c].device = "done" /\ replica[c].queue = << >>
        /\ replica[c].sent = Size[replica[c].model[1]] /\ ~replica[c].garbage

\* A replica the client was told is loaded is loaded.
ConfirmedIsLoaded ==
    \A c \in Clients : client[c].next = "confirmed" =>
        replica[c].state = "LOADED"

\* Replicas that are copied while the disk is still read end up with all the
\* bytes before anyone is told that they are loaded.
ReplicasAreRight == NoCrash /\ ConfirmedIsLoaded /\ ReplicasAreComplete

\* The memory of a model is not taken away while a replica copies from it.
InUseKept ==
    [][\A m \in Models : Loading(m) # {} /\ Held(m) # {} =>
          pinned_mem_'[m] = pinned_mem_[m]]_vars

\* Where the path of a model is in the order, and who loses memory in a step.
Place(m) == CHOOSE i \in DOMAIN access_order : access_order[i] = m[1]
Losers   == {m \in Models : Held(m) # {} /\ state_'[m] = "UNALLOCATED"}
EvictsOldest(c) ==
    \A v \in Losers :
        /\ \A m \in Models \ Losers :
             (state_[m] \in {"ALLOCATED", "LOADED"} /\ Evictable(m)
               /\ m[1] \in ToSet(access_order)) => Place(v) < Place(m)
        /\ (\A m \in Losers : Place(m) <= Place(v)) =>
             Cardinality(free_list_ \cup UNION {Held(m) : m \in Losers \ {v}})
               < Size[load[c].model[1]]

\* An eviction frees the least recently used of the models that can be freed,
\* and no more of them than the new model needs.
LeastRecentlyUsed ==
    [][\A c \in Clients :
         (load[c].at = "allocate" /\ load'[c].at = "toHost") => EvictsOldest(c)]_vars

\* The host memory of the store is a cache of models (ModelCache): in the
\* store a model is ALLOCATED before it is LOADING and LOADED after it.
Phase(m) == CASE state_[m] = "ALLOCATED" -> "reserved"
              [] state_[m] \in {"LOADING", "INTERRUPTED"} -> "filling"
              [] state_[m] = "LOADED"    -> "full"
              [] OTHER                   -> "absent"
Cache == INSTANCE ModelCache WITH
    Need  <- [m \in Models |-> Size[m[1]]],
    free  <- free_list_,
    held  <- [m \in Models |-> Held(m)],
    phase <- [m \in Models |-> Phase(m)]
ImplementsCache == Cache!Spec
-----------------------------------------------------------------------------
(* Fairness: the threads run, the event loop takes the calls that wait and *)
(* a condition variable wakes the threads it notifies; a wake-up without a *)
(* notification is not promised.                                           *)
Fairness ==
    /\ WF_vars(ServerStep)
    /\ \A c \in Clients :
         /\ WF_vars(LoadIntoGpu(c))
         /\ WF_vars(DiskStep(c))
         /\ WF_vars(ReadStep(c))
         /\ WF_vars(ReplicaStep(c))
         /\ WF_vars(DeviceStep(c))
    /\ \A t \in Threads :
         /\ WF_vars(FreeHost(t) \/ ReplicaEnded(t))
         /\ WF_vars(frame[t].notified /\ (HostEnded(t) \/ HostSleepsOn(t)))
FairSpec == Spec /\ Fairness

\* Every disk task ends.
EveryLoadEnds ==
    \A c \in Clients :
        load[c].at = "begin" ~> load[c].at \in {"loaded", "failed"}

\* Every ConfirmModel is answered.
EveryConfirmEnds ==
    \A c \in Clients :
        client[c].next = "confirm"
            ~> client[c].next \in {"confirmed", "unconfirmed"}

\* Every disk task ends and every ConfirmModel, which blocks the server, is
\* answered.
EveryRequestEnds == EveryLoadEnds /\ EveryConfirmEnds

\* The error path of ToHost gets past the replicas it waits for.
EveryCancelEnds ==
    \A c \in Clients : load[c].at = "cancel" ~> load[c].at = "failed"

\* Every UnloadModel is answered.
EveryUnloadEnds ==
    \A p \in Paths : server.retries[p] > 0 ~> server.retries[p] = 0
=============================================================================
