----------------------- MODULE CheckpointStoreProofs -----------------------
(***************************************************************************)
(* Theorems about CheckpointStore, for every set of paths, buffers and     *)
(* clients, every size of the models and whatever fails, is unloaded or    *)
(* cleared: no buffer of the pool is ever lost or owned twice.  For a      *)
(* store nothing copies from to a GPU, as a store manager uses it: the     *)
(* states of the models agree with their memory, a model is read by one    *)
(* task and LOADED when all of it is there, the store is a cache of models *)
(* (ModelCache), and evictions go by last use.  For a store that copies to *)
(* GPUs, with room for all models and nothing that goes wrong: replicas    *)
(* have all bytes before a client is told that they are loaded, and the    *)
(* store does not crash.  At the end, about CheckpointWriter: what is      *)
(* saved can be read back by its index, for every state dict and all sizes *)
(* of records, buffer and partitions, when no write fails.                 *)
(***************************************************************************)
EXTENDS CheckpointStore, CheckpointWriter, SequenceLemmas

-----------------------------------------------------------------------------
(* The inductive invariant                                                 *)

\* A model that is not allocated has no buffers: otherwise they would be lost
\* when it is given new ones.
VacantHoldsNothing == \A m \in Models : state_[m] \in Vacant => Held(m) = {}

\* A client's tasks are about the path of its load_into_cpu.
ClientsInv ==
    \A c \in Clients :
        /\ load[c].at # "none" \/ replica[c].at # "none"
             => client[c].next # "cpu"
        /\ client[c].next # "cpu" => client[c].path \in Paths

\* A disk task that has found its model keeps it; one that reads has a vector
\* for the chunks.
LoadsInv ==
    \A c \in Clients :
        /\ load[c].at \in {"allocate", "toHost", "reading", "cancel", "free"}
             => load[c].model \in Models
        /\ load[c].at = "reading" =>
             /\ load[c].unread \subseteq Chunks(load[c].model)
             /\ host_ptr_vector_[load[c].model] \in Seq(Chunks(load[c].model))

\* A replica is of a model once its task has found it.
ReplicasInv ==
    \A c \in Clients :
        replica[c].at \in {"toGpu", "plan", "dispatch", "join", "loaded",
                           "freeGpu"} => replica[c].model \in Models

\* Who is in which of the waits: FreeHost and the error path of ToHost belong
\* to disk tasks that failed, WaitInGpu to the event loop.
FramesInv ==
    /\ \A t \in Threads :
         /\ frame[t].at # "none" => frame[t].model \in Models
         /\ frame[t].at \in {"replicas", "cancel", "appear", "replica"}
              => frame[t].on \in Clients
    /\ \A c \in Clients :
         /\ frame[c].at \in {"none", "enter", "host", "replicas", "cancel"}
         /\ frame[c].at # "none" => load[c].at \in {"free", "cancel"}

\* The call the event loop is in is the one its frame belongs to.
ServerInv ==
    LET at == frame[Server].at
        on == frame[Server].on
    IN /\ at # "cancel"
       /\ at \in {"enter", "host", "replicas"} =>
            server.op \in {"unload", "clear"}
       /\ at \in {"appear", "replica"} =>
            /\ server.op = "confirm"
            /\ client[on].next = "confirm" /\ client[on].tries > 0
       /\ server.op = "unload" => /\ server.of \in Paths
                                  /\ server.retries[server.of] > 0
       /\ server.op = "clear" => /\ server.of \subseteq Paths
                                 /\ \A p \in server.of : Registered(p)

IndInv ==
    /\ TypeOK /\ PoolConservation /\ VacantHoldsNothing
    /\ ClientsInv /\ LoadsInv /\ ReplicasInv /\ FramesInv /\ ServerInv
-----------------------------------------------------------------------------
(* Types                                                                   *)

\* A model has a path and a number of chunks.
LEMMA ModelFacts ==
    \A m \in Models : /\ m[1] \in Paths /\ m # Null
                      /\ Size[m[1]] \in Nat /\ Size[m[1]] > 0
                      /\ Chunks(m) \subseteq Nat
BY SizeAssumption, NullAssumption DEF Models, Chunks

\* What a model holds are buffers of the pool.
LEMMA HeldType ==
    ASSUME TypeOK
    PROVE  \A m \in Models : Held(m) \subseteq Buffers /\ IsFiniteSet(Held(m))
BY SizeAssumption, FS_Subset DEF TypeOK, MemoryType, Held

\* A path that is used moves to the end of the order.
LEMMA TouchedType ==
    ASSUME access_order \in Seq(Paths), NEW p \in Paths
    PROVE  Touched(p) \in Seq(Paths)
<1> DEFINE at == {i \in DOMAIN access_order : access_order[i] = p}
           k  == CHOOSE i \in at : TRUE
           s  == IF at = {} THEN access_order ELSE RemoveAt(access_order, k)
<1>1. s \in Seq(Paths)
  <2>1. CASE at = {}
    BY <2>1
  <2>2. CASE at # {}
    <3>1. k \in at
      BY <2>2
    <3>2. k \in 1 .. Len(access_order)
      BY <3>1
    <3> HIDE DEF k, at
    <3>. QED
      BY <2>2, <3>2, RemoveAtProperties
  <2>. QED
    BY <2>1, <2>2
<1>2. Touched(p) = Append(s, p)
  BY DEF Touched
<1> HIDE DEF s
<1>. QED
  BY <1>1, <1>2, AppendProperties

\* Taking memory away changes nothing of the replicas but that they dangle.
LEMMA DanglingType ==
    ASSUME replica \in [Clients -> ReplicaRecords], NEW S
    PROVE  /\ Dangling(S) \in [Clients -> ReplicaRecords]
           /\ \A c \in Clients :
                /\ Dangling(S)[c].at = replica[c].at
                /\ Dangling(S)[c].model = replica[c].model
                /\ Dangling(S)[c].state = replica[c].state
                /\ Dangling(S)[c].listed = replica[c].listed
BY ZenonT(40) DEF Dangling, ReplicaRecords

\* The types survive that the models in S lose their memory and m gets bufs.
LEMMA ReallocateType ==
    ASSUME TypeOK, NEW S \in SUBSET Models, NEW m \in Models,
           NEW bufs \in {Null} \cup SUBSET Buffers, Reallocate(S, m, bufs)
    PROVE  /\ pinned_mem_' \in [Models -> {Null} \cup SUBSET Buffers]
           /\ content' \in [Models -> SUBSET Nat]
           /\ \A n \in Models : content'[n] \subseteq Chunks(n)
           /\ free_list_' \subseteq Buffers
           /\ replica' \in [Clients -> ReplicaRecords]
           /\ host_ptr_vector_' = host_ptr_vector_
<1>1. pinned_mem_' \in [Models -> {Null} \cup SUBSET Buffers]
  BY DEF Reallocate, TypeOK, MemoryType
<1>2. content' \in [Models -> SUBSET Nat]
  BY DEF Reallocate, TypeOK, MemoryType
<1>3. \A n \in Models : content'[n] \subseteq Chunks(n)
  BY DEF Reallocate, TypeOK, MemoryType
<1>4. free_list_' \subseteq Buffers
  BY HeldType DEF Reallocate, TypeOK, MemoryType
<1>5. replica' \in [Clients -> ReplicaRecords]
  BY DanglingType DEF Reallocate, TypeOK
<1>. QED
  BY <1>1, <1>2, <1>3, <1>4, <1>5 DEF Reallocate

\* Where a thread can be is a record of its frame.
LEMMA FrameType ==
    ASSUME NEW at \in FramePoints, NEW m \in {Null} \cup Models,
           NEW visit \in SUBSET Clients, NEW on \in Clients \cup {Null}
    PROVE  /\ Frame(at, m, visit, on) \in FrameRecords
           /\ Frame(at, m, visit, on).at = at
           /\ Frame(at, m, visit, on).model = m
           /\ Frame(at, m, visit, on).on = on
<1>1. NoFrame \in FrameRecords
  BY DEF NoFrame, FrameRecords, FramePoints
<1> DEFINE f == [NoFrame EXCEPT !.at = at, !.model = m, !.visit = visit, !.on = on]
<1>2. f \in FrameRecords /\ f.at = at /\ f.model = m /\ f.on = on
  BY <1>1 DEF FrameRecords
<1>. QED
  BY <1>2 DEF Frame

\* A server that is down keeps everything else as it was.
LEMMA CrashType ==
    ASSUME TypeOK, Crash
    PROVE  TypeOK'
<1>1. server' \in ServerRecords
  BY DEF Crash, TypeOK, ServerRecords
<1>. QED
  BY <1>1 DEF Crash, TypeOK, MemoryType, store, memory

\* RegisterModelInfo gives a path a Model that has not been used.
LEMMA RegisterType ==
    ASSUME TypeOK, NEW p \in Paths, Register(p)
    PROVE  /\ model_map_' \in [Paths -> {Null} \cup Models]
           /\ state_' \in [Models -> States]
           /\ Registered(p)'
           /\ \A q \in Paths : Registered(q) => Registered(q)'
<1>1. CASE Registered(p)
  BY <1>1 DEF Register, Registered, TypeOK, MemoryType
<1>2. CASE ~Registered(p)
  <2>1. PICK m \in Models :
            /\ model_map_' = [model_map_ EXCEPT ![p] = m]
            /\ state_' = [state_ EXCEPT ![m] = "UNALLOCATED"]
    BY <1>2 DEF Register
  <2>2. model_map_' \in [Paths -> {Null} \cup Models]
    BY <2>1 DEF TypeOK
  <2>3. state_' \in [Models -> States]
    BY <2>1 DEF TypeOK, MemoryType, States
  <2>4. m # Null
    BY ModelFacts
  <2>. QED
    BY <2>1, <2>2, <2>3, <2>4 DEF Registered, TypeOK
<1>. QED
  BY <1>1, <1>2

\* The calls of the event loop keep the types.
LEMMA RequestType ==
    ASSUME TypeOK, ClientsInv, FramesInv, ServerInv, Request \/ ServerStep
    PROVE  TypeOK'
<1>1. ASSUME NEW c \in Clients, NEW p \in Paths, LoadIntoCpu(c, p)
      PROVE  TypeOK'
  <2>1. load' \in [Clients -> LoadRecords]
    BY <1>1, ZenonT(40) DEF LoadIntoCpu, TypeOK, LoadRecords
  <2>2. client' \in [Clients -> ClientRecords]
    BY <1>1 DEF LoadIntoCpu, TypeOK, ClientRecords
  <2>. QED
    BY <1>1, <2>1, <2>2, RegisterType DEF LoadIntoCpu, TypeOK, MemoryType
<1>2. ASSUME NEW c \in Clients, LoadIntoGpu(c)
      PROVE  TypeOK'
  <2>0. /\ replica \in [Clients -> ReplicaRecords]
        /\ replica' = [replica EXCEPT ![c].at = "begin"]
    BY <1>2 DEF LoadIntoGpu, TypeOK
  <2>1. replica' \in [Clients -> ReplicaRecords]
    BY <2>0, ZenonT(40) DEF ReplicaRecords
  <2>2. client' \in [Clients -> ClientRecords]
    BY <1>2 DEF LoadIntoGpu, TypeOK, ClientRecords
  <2>3. client[c].path \in Paths
    BY <1>2 DEF LoadIntoGpu, ClientsInv
  <2>. QED
    BY <1>2, <2>1, <2>2, <2>3, RegisterType DEF LoadIntoGpu, TypeOK, MemoryType
<1>3. ASSUME NEW p \in Paths, RequestUnload(p)
      PROVE  TypeOK'
  <2>1. server.unloads[p] \in 1 .. Unloads
    BY <1>3 DEF RequestUnload, TypeOK, ServerRecords
  <2>2. server.unloads[p] - 1 \in 0 .. Unloads
    BY <2>1, ClientsAssumption
  <2> DEFINE unloads == [server.unloads EXCEPT ![p] = @ - 1]
             retries == [server.retries EXCEPT ![p] = MaxTries]
  <2>3. /\ unloads \in [Paths -> 0 .. Unloads]
        /\ retries \in [Paths -> 0 .. MaxTries]
    BY <2>2 DEF TypeOK, ServerRecords, MaxTries
  <2>4. server' = [server EXCEPT !.unloads = unloads, !.retries = retries]
    BY <1>3 DEF RequestUnload
  <2> HIDE DEF unloads, retries
  <2>5. server' \in ServerRecords
    BY <2>3, <2>4 DEF TypeOK, ServerRecords
  <2>. QED
    BY <1>3, <2>5 DEF RequestUnload, TypeOK, MemoryType, store, memory
<1>4. ASSUME ClearMem
      PROVE  TypeOK'
  <2>1. server.clears - 1 \in 0 .. Clears
    BY <1>4, ClientsAssumption DEF ClearMem, TypeOK, ServerRecords
  <2>2. server' \in ServerRecords
    BY <1>4, <2>1 DEF ClearMem, TypeOK, ServerRecords
  <2>. QED
    BY <1>4, <2>2 DEF ClearMem, TypeOK, MemoryType, store, memory
<1>5. ASSUME NEW c \in Clients, Confirm(c)
      PROVE  TypeOK'
  <2>1. CASE Registered(client[c].path)
    <3>1. client[c].path \in Paths
      BY <1>5 DEF Confirm, ClientsInv
    <3>2. server' \in ServerRecords
      BY <1>5, <2>1 DEF Confirm, Calling, TypeOK, ServerRecords
    <3>3. model_map_[client[c].path] \in Models
      BY <2>1, <3>1 DEF Registered, TypeOK
    <3>4. frame' \in [Threads -> FrameRecords]
      BY <1>5, <2>1, <3>3, FrameType DEF Confirm, TypeOK, FramePoints
    <3>. QED
      BY <1>5, <2>1, <3>2, <3>4
         DEF Confirm, TypeOK, MemoryType, store, memory
  <2>2. CASE ~Registered(client[c].path)
    <3>1. client[c].tries - 1 \in 0 .. MaxTries
      BY <1>5 DEF Confirm, TypeOK, ClientRecords, MaxTries
    <3>2. client' \in [Clients -> ClientRecords]
      BY <1>5, <2>2, <3>1, ZenonT(40) DEF Confirm, TypeOK, ClientRecords
    <3>. QED
      BY <1>5, <2>2, <3>2 DEF Confirm, TypeOK, MemoryType, store, memory
  <2>. QED
    BY <2>1, <2>2
<1>6. ASSUME NEW c \in Clients, ConfirmFails(c)
      PROVE  TypeOK'
  <2>1. client' \in [Clients -> ClientRecords]
    BY <1>6 DEF ConfirmFails, TypeOK, ClientRecords
  <2>. QED
    BY <1>6, <2>1 DEF ConfirmFails, TypeOK, MemoryType, store, memory
<1>7. ASSUME NEW p \in Paths, Unload(p)
      PROVE  TypeOK'
  <2>1. CASE Registered(p)
    <3>1. server' \in ServerRecords
      BY <1>7, <2>1 DEF Unload, Calling, TypeOK, ServerRecords
    <3>2. frame' \in [Threads -> FrameRecords]
      BY <1>7, <2>1, FrameType DEF Unload, Enter, TypeOK, FramePoints, Registered
    <3>. QED
      BY <1>7, <2>1, <3>1, <3>2 DEF Unload, TypeOK, MemoryType, store, memory
  <2>2. CASE ~Registered(p)
    <3>1. server.retries[p] - 1 \in 0 .. MaxTries
      BY <1>7 DEF Unload, TypeOK, ServerRecords, MaxTries
    <3> DEFINE retries == [server.retries EXCEPT ![p] = @ - 1]
    <3>2. retries \in [Paths -> 0 .. MaxTries]
      BY <3>1 DEF TypeOK, ServerRecords
    <3>3. server' = [server EXCEPT !.retries = retries]
      BY <1>7, <2>2 DEF Unload
    <3> HIDE DEF retries
    <3>4. server' \in ServerRecords
      BY <3>2, <3>3 DEF TypeOK, ServerRecords
    <3>. QED
      BY <1>7, <2>2, <3>4 DEF Unload, TypeOK, MemoryType, store, memory
  <2>. QED
    BY <2>1, <2>2
<1>8. ASSUME NEW p \in Paths, ClearNext(p)
      PROVE  TypeOK'
  <2>1. server.of \subseteq Paths
    BY <1>8 DEF ClearNext, Serving, ServerInv
  <2>2. server' \in ServerRecords
    BY <1>8, <2>1 DEF ClearNext, TypeOK, ServerRecords
  <2> DEFINE f == Frame("enter", model_map_[p], {}, Null)
  <2>3. f \in FrameRecords
    BY FrameType DEF TypeOK, FramePoints
  <2>4. frame' = [frame EXCEPT ![Server] = f]
    BY <1>8 DEF ClearNext, Enter
  <2> HIDE DEF f
  <2>5. frame' \in [Threads -> FrameRecords]
    BY <2>3, <2>4 DEF TypeOK
  <2>. QED
    BY <1>8, <2>2, <2>5 DEF ClearNext, TypeOK, MemoryType, store, memory
<1>9. ASSUME ReplicaFound
      PROVE  TypeOK'
  <2>1. frame' \in [Threads -> FrameRecords]
    BY <1>9, ZenonT(40) DEF ReplicaFound, TypeOK, FrameRecords, FramePoints
  <2>. QED
    BY <1>9, <2>1 DEF ReplicaFound, TypeOK, MemoryType, store, memory
<1>10. ASSUME ConfirmReturns
       PROVE  TypeOK'
  <2> DEFINE on == frame[Server].on
  <2>1. on \in Clients /\ client[on].tries > 0
    BY <1>10 DEF ConfirmReturns, In, FramesInv, ServerInv, Threads
  <2>2. Answer(frame[Server])
    BY <1>10 DEF ConfirmReturns
  <2>3. server' \in ServerRecords
    BY <2>2 DEF Answer, Calling, TypeOK, ServerRecords
  <2>4. frame' \in [Threads -> FrameRecords]
    BY <2>2 DEF Answer, TypeOK, FrameRecords, FramePoints, NoFrame
  <2>5. client[on].tries - 1 \in 0 .. MaxTries
    BY <2>1 DEF TypeOK, ClientRecords, MaxTries
  <2>6. client' \in [Clients -> ClientRecords]
    BY <2>1, <2>2, <2>5, ZenonT(40) DEF Answer, TypeOK, ClientRecords
  <2>. QED
    BY <2>2, <2>3, <2>4, <2>6 DEF Answer, TypeOK, MemoryType, store, memory
<1>11. ASSUME Cleared
       PROVE  TypeOK'
  <2>1. server' \in ServerRecords
    BY <1>11 DEF Cleared, Calling, TypeOK, ServerRecords
  <2>. QED
    BY <1>11, <2>1 DEF Cleared, TypeOK, MemoryType, memory
<1>. QED
  BY <1>1, <1>2, <1>3, <1>4, <1>5, <1>6, <1>7, <1>8, <1>9, <1>10, <1>11
     DEF Request, ServerStep

\* The thread that returns from FreeHost leaves its records in order.
LEMMA ReturnType ==
    ASSUME TypeOK, FramesInv, ServerInv, NEW t \in Threads,
           frame[t].at \in {"enter", "host", "replicas"},
           NEW freed \in BOOLEAN, Return(t, freed)
    PROVE  /\ frame' \in [Threads -> FrameRecords]
           /\ load' \in [Clients -> LoadRecords]
           /\ server' \in ServerRecords
<1>1. frame' \in [Threads -> FrameRecords]
  BY DEF Return, TypeOK, FrameRecords, FramePoints, NoFrame
<1>2. CASE t \in Clients
  <2>1. /\ load \in [Clients -> LoadRecords]
        /\ load' = [load EXCEPT ![t].at = "failed"]
        /\ server' = server /\ server \in ServerRecords
    BY <1>2 DEF Return, TypeOK
  <2>2. load' \in [Clients -> LoadRecords]
    BY <1>2, <2>1 DEF LoadRecords
  <2>. QED
    BY <1>1, <2>1, <2>2
<1>3. CASE t \notin Clients
  <2>1. t = Server /\ UNCHANGED load
    BY <1>3 DEF Threads, Return
  <2>2. CASE server.op = "clear"
    BY <1>1, <1>3, <2>1, <2>2 DEF Return, TypeOK
  <2>3. CASE server.op # "clear"
    <3>1. server.of \in Paths /\ server.retries[server.of] > 0
      BY <2>1, <2>3 DEF ServerInv
    <3>2. server.retries[server.of] - 1 \in 0 .. MaxTries /\ 0 \in 0 .. MaxTries
      BY <3>1 DEF TypeOK, ServerRecords, MaxTries
    <3> DEFINE retries == [server.retries EXCEPT ![server.of] =
                             IF freed THEN 0 ELSE @ - 1]
    <3>3. retries \in [Paths -> 0 .. MaxTries]
      BY <3>1, <3>2 DEF TypeOK, ServerRecords
    <3>4. server' = [server EXCEPT !.op = "idle", !.of = Null,
                                   !.retries = retries]
      BY <1>3, <2>3 DEF Return
    <3> HIDE DEF retries
    <3>5. server' \in ServerRecords
      BY <3>3, <3>4 DEF TypeOK, ServerRecords
    <3>. QED
      BY <1>1, <2>1, <3>5 DEF TypeOK
  <2>. QED
    BY <2>2, <2>3
<1>. QED
  BY <1>2, <1>3

\* FreeHost keeps the types.
LEMMA ScanType ==
    ASSUME TypeOK, FramesInv, ServerInv, NEW t \in Threads,
           frame[t].at \in {"enter", "host", "replicas"},
           NEW visit \in SUBSET Clients,
           ScanReplicas(t, frame[t].model, visit)
    PROVE  TypeOK'
<1> DEFINE m == frame[t].model
<1>1. m \in Models
  BY DEF FramesInv
<1>2. ASSUME NEW r \in Loading(m),
             frame' = [frame EXCEPT ![t] = Frame("replicas", m, visit \ {r}, r)],
             UNCHANGED <<store, memory, client, load, replica, server>>
      PROVE  TypeOK'
  <2>1. r \in Clients
    BY DEF Loading, Replicas
  <2>2. frame' \in [Threads -> FrameRecords]
    BY <1>1, <1>2, <2>1 DEF TypeOK, FrameRecords, FramePoints, Frame, NoFrame
  <2>. QED
    BY <1>2, <2>2 DEF TypeOK, MemoryType, store, memory
<1>3. ASSUME Reallocate({m}, m, Null),
             state_' = [state_ EXCEPT ![m] = "UNALLOCATED"],
             Return(t, TRUE), UNCHANGED <<store, client>>
      PROVE  TypeOK'
  <2>1. state_' \in [Models -> States]
    BY <1>3 DEF TypeOK, MemoryType, States
  <2>2. /\ frame' \in [Threads -> FrameRecords]
        /\ load' \in [Clients -> LoadRecords]
        /\ server' \in ServerRecords
    BY <1>3, ReturnType
  <2>3. /\ pinned_mem_' \in [Models -> {Null} \cup SUBSET Buffers]
        /\ content' \in [Models -> SUBSET Nat]
        /\ \A n \in Models : content'[n] \subseteq Chunks(n)
        /\ free_list_' \subseteq Buffers
        /\ replica' \in [Clients -> ReplicaRecords]
        /\ host_ptr_vector_' = host_ptr_vector_
    BY <1>1, <1>3, ReallocateType
  <2>. QED
    BY <1>3, <2>1, <2>2, <2>3 DEF TypeOK, MemoryType, store
<1>. QED
  BY <1>2, <1>3, CrashType DEF ScanReplicas

\* FreeHost and the waits in it keep the types.
LEMMA FreeType ==
    ASSUME TypeOK, FramesInv, ServerInv, NEW t \in Threads, FreeStep(t)
    PROVE  TypeOK'
<1> DEFINE m == frame[t].model
<1>1. Replicas(m) \subseteq Clients
  BY DEF Replicas
<1>2. ASSUME FreeHost(t)
      PROVE  TypeOK'
  <2>1. frame[t].at = "enter"
    BY <1>2 DEF FreeHost, In
  <2>2. ASSUME Return(t, FALSE), UNCHANGED <<store, memory, client, replica>>
        PROVE  TypeOK'
    <3>1. /\ frame' \in [Threads -> FrameRecords]
          /\ load' \in [Clients -> LoadRecords]
          /\ server' \in ServerRecords
      BY <2>1, <2>2, ReturnType
    <3>. QED
      BY <2>2, <3>1 DEF TypeOK, MemoryType, store, memory
  <2>3. ASSUME frame' = [frame EXCEPT ![t].at = "host"],
               UNCHANGED <<store, memory, client, load, replica, server>>
        PROVE  TypeOK'
    <3>1. frame' \in [Threads -> FrameRecords]
      BY <2>3, ZenonT(40) DEF TypeOK, FrameRecords, FramePoints
    <3>. QED
      BY <2>3, <3>1 DEF TypeOK, MemoryType, store, memory
  <2>4. ASSUME ScanReplicas(t, m, Replicas(m))
        PROVE  TypeOK'
    BY <1>1, <2>1, <2>4, ScanType
  <2>. QED
    BY <1>2, <2>2, <2>3, <2>4 DEF FreeHost
<1>3. ASSUME HostEnded(t)
      PROVE  TypeOK'
  BY <1>1, <1>3, ScanType DEF HostEnded, In
<1>4. ASSUME HostSleepsOn(t)
      PROVE  TypeOK'
  <2>1. frame' \in [Threads -> FrameRecords]
    BY <1>4 DEF HostSleepsOn, TypeOK, FrameRecords
  <2>. QED
    BY <1>4, <2>1 DEF HostSleepsOn, TypeOK, MemoryType, store, memory
<1>5. ASSUME ReplicaEnded(t)
      PROVE  TypeOK'
  <2>1. frame[t].visit \subseteq Clients
    BY DEF TypeOK, FrameRecords
  <2>. QED
    BY <1>5, <2>1, ScanType DEF ReplicaEnded, In
<1>. QED
  BY <1>2, <1>3, <1>4, <1>5 DEF FreeStep

\* A disk task that frees its model has a frame to do it in.
LEMMA CallFreeHostType ==
    ASSUME TypeOK, NEW c \in Clients, load[c].model \in Models,
           CallFreeHost(c)
    PROVE  /\ load' \in [Clients -> LoadRecords]
           /\ frame' \in [Threads -> FrameRecords]
<1> DEFINE f == Frame("enter", load[c].model, {}, Null)
<1>1. load' = [load EXCEPT ![c].at = "free"] /\ frame' = [frame EXCEPT ![c] = f]
  BY DEF CallFreeHost, Enter
<1>2. f \in FrameRecords
  BY FrameType DEF FramePoints
<1> HIDE DEF f
<1>3. load' \in [Clients -> LoadRecords]
  BY <1>1, ZenonT(40) DEF TypeOK, LoadRecords
<1>4. frame' \in [Threads -> FrameRecords]
  BY <1>1, <1>2 DEF TypeOK
<1>. QED
  BY <1>3, <1>4

\* The models that an eviction goes through are models, and it has their
\* buffers at its disposal.
LEMMA VictimsType ==
    ASSUME TypeOK, NEW k \in 0 .. Len(access_order)
    PROVE  /\ Victims(k) \subseteq Models
           /\ \A v \in Victims(k) : state_[v] \notin Vacant \cup {"LOADING"}
           /\ Available(k) \subseteq Buffers
<1>1. \A i \in 1 .. k : model_map_[access_order[i]] \in {Null} \cup Models
  <2>1. \A i \in 1 .. k : i \in 1 .. Len(access_order)
    BY DEF TypeOK
  <2>2. \A i \in 1 .. Len(access_order) : access_order[i] \in Paths
    BY DEF TypeOK
  <2>. QED
    BY <2>1, <2>2 DEF TypeOK
<1>2. Victims(k) \subseteq Models
  BY <1>1 DEF Victims, Oldest
<1>3. Available(k) \subseteq Buffers
  BY <1>2, HeldType DEF Available, TypeOK, MemoryType
<1>. QED
  BY <1>2, <1>3 DEF Victims, Evictable

\* An eviction goes through the paths from the oldest on, and no further than
\* it needs to; it goes through all of them only in vain.
LEMMA VisitedProperties ==
    ASSUME TypeOK, NEW m \in Models
    PROVE  /\ Visited(m) \in 0 .. Len(access_order)
           /\ Enough(m, Visited(m)) =>
                \A j \in 0 .. Visited(m) - 1 : ~Enough(m, j)
<1> DEFINE all == 0 .. Len(access_order)
           T   == {k \in all : Enough(m, k)}
           First(k) == Enough(m, k) /\ \A j \in 0 .. (k - 1) : ~Enough(m, j)
<1>0. Len(access_order) \in Nat
  BY DEF TypeOK
<1>1. CASE T = {}
  <2>1. ~ \E k \in all : Enough(m, k)
    BY <1>1
  <2>2. Visited(m) = Len(access_order)
    BY <2>1 DEF Visited
  <2>. QED
    BY <1>0, <2>1, <2>2
<1>2. CASE T # {}
  <2>0. T \subseteq Nat /\ T # {}
    BY <1>0, <1>2
  <2>1. PICK x \in T : \A y \in T : x <= y
    <3> HIDE DEF T
    <3>. QED
      BY <2>0, NatLeast
  <2>2. x \in all /\ Enough(m, x)
    OBVIOUS
  <2>3. \A j \in 0 .. (x - 1) : j \in all /\ ~ (x <= j)
    BY <1>0, <2>2
  <2>4. First(x)
    BY <2>1, <2>2, <2>3
  <2>5. Visited(m) = CHOOSE k \in all : First(k)
    BY <2>2 DEF Visited
  <2> HIDE DEF First
  <2>6. Visited(m) \in all /\ First(Visited(m))
    BY <2>2, <2>4, <2>5
  <2>. QED
    BY <2>6 DEF First
<1>. QED
  BY <1>1, <1>2

\* LoadModelFromDisk up to ToHost keeps the types.
LEMMA AllocateType ==
    ASSUME TypeOK, ClientsInv, LoadsInv, NEW c \in Clients, Allocate(c)
    PROVE  TypeOK'
<1> DEFINE m == load[c].model
           k == Visited(m)
           up == Enough(m, k)
<1>1. load[c].at = "allocate" /\ Needs(m)
  BY DEF Allocate, Disk
<1>2. m \in Models /\ client[c].path \in Paths
  BY <1>1 DEF LoadsInv, ClientsInv
<1>3. k \in 0 .. Len(access_order)
  BY <1>2, VisitedProperties
<1>4. Victims(k) \subseteq Models /\ Available(k) \subseteq Buffers
  BY <1>3, VictimsType
<1>5. CASE Null \in Oldest(k)
  BY <1>5, CrashType DEF Allocate
<1>6. CASE Null \notin Oldest(k)
  <2>1. PICK bufs \in SUBSET Available(k) : Reallocate(Victims(k), m, bufs)
    BY <1>6 DEF Allocate
  <2>2. /\ state_' = [n \in Models |->
                        IF n = m /\ up THEN "ALLOCATED" ELSE
                        IF n \in Victims(k) THEN "UNALLOCATED" ELSE state_[n]]
        /\ access_order' = IF up THEN Touched(client[c].path) ELSE access_order
        /\ load' = [load EXCEPT ![c].at = IF up THEN "toHost" ELSE "failed"]
        /\ UNCHANGED <<model_map_, client, server, frame>>
    BY <1>6 DEF Allocate
  <2>3. /\ pinned_mem_' \in [Models -> {Null} \cup SUBSET Buffers]
        /\ content' \in [Models -> SUBSET Nat]
        /\ \A n \in Models : content'[n] \subseteq Chunks(n)
        /\ free_list_' \subseteq Buffers
        /\ replica' \in [Clients -> ReplicaRecords]
        /\ host_ptr_vector_' = host_ptr_vector_
    BY <1>2, <1>4, <2>1, ReallocateType
  <2> HIDE DEF up, k
  <2>4. state_' \in [Models -> States]
    BY <2>2 DEF TypeOK, MemoryType, States
  <2>5. access_order' \in Seq(Paths)
    BY <1>2, <2>2, TouchedType DEF TypeOK
  <2> DEFINE at == IF up THEN "toHost" ELSE "failed"
  <2>6. load' \in [Clients -> LoadRecords]
    <3>1. load' = [load EXCEPT ![c].at = at] /\ at \in {"toHost", "failed"}
      BY <2>2
    <3> HIDE DEF at
    <3>. QED
      BY <3>1, ZenonT(40) DEF TypeOK, LoadRecords
  <2>. QED
    BY <2>2, <2>3, <2>4, <2>5, <2>6 DEF TypeOK, MemoryType
<1>. QED
  BY <1>5, <1>6

\* The error path of ToHost keeps the types.
LEMMA CancelType ==
    ASSUME TypeOK, NEW c \in Clients, load[c].model \in Models,
           NEW m \in Models, NEW visit \in SUBSET Clients,
           NEW state \in [Models -> States],
           CancelReplicas(c, m, visit, state), UNCHANGED <<store, client, server>>
    PROVE  TypeOK'
<1>1. ASSUME NEW r \in Replicas(m),
             replica' = [replica EXCEPT ![r].state =
                           IF @ = "LOADING" THEN "CANCELLED" ELSE @],
             frame' = [frame EXCEPT ![c] = Frame("cancel", m, visit \ {r}, r)],
             state_' = state,
             load' = [load EXCEPT ![c].at = "cancel"],
             UNCHANGED <<pinned_mem_, content, free_list_, host_ptr_vector_>>
      PROVE  TypeOK'
  <2>1. r \in Clients
    BY DEF Replicas
  <2> DEFINE f == Frame("cancel", m, visit \ {r}, r)
             s == IF replica[r].state = "LOADING" THEN "CANCELLED"
                  ELSE replica[r].state
  <2>2. f \in FrameRecords
    BY <2>1, FrameType DEF FramePoints
  <2>3. frame' = [frame EXCEPT ![c] = f]
    BY <1>1
  <2>4. replica[r].state \in States
    BY <2>1 DEF TypeOK, ReplicaRecords
  <2>5. s \in States
    BY <2>4 DEF States
  <2>6. replica' = [replica EXCEPT ![r].state = s]
    BY <1>1
  <2> HIDE DEF f, s
  <2>7. frame' \in [Threads -> FrameRecords]
    BY <2>2, <2>3 DEF TypeOK
  <2>8. replica \in [Clients -> ReplicaRecords]
    BY DEF TypeOK
  <2> DEFINE rec == [replica[r] EXCEPT !.state = s]
  <2>9. replica' \in [Clients -> ReplicaRecords]
    <3>1. rec \in ReplicaRecords
      BY <2>1, <2>5, <2>8 DEF ReplicaRecords
    <3>2. replica' = [replica EXCEPT ![r] = rec]
      BY <2>6
    <3> HIDE DEF rec
    <3>. QED
      BY <2>8, <3>1, <3>2
  <2>10. load' \in [Clients -> LoadRecords]
    BY <1>1, ZenonT(40) DEF TypeOK, LoadRecords
  <2>. QED
    BY <1>1, <2>7, <2>9, <2>10 DEF TypeOK, MemoryType, store
<1>2. ASSUME Reallocate({m}, m, Null),
             state_' = [state EXCEPT ![m] = "UNALLOCATED"], CallFreeHost(c)
      PROVE  TypeOK'
  <2>1. state_' \in [Models -> States]
    BY <1>2 DEF States
  <2>2. /\ pinned_mem_' \in [Models -> {Null} \cup SUBSET Buffers]
        /\ content' \in [Models -> SUBSET Nat]
        /\ \A n \in Models : content'[n] \subseteq Chunks(n)
        /\ free_list_' \subseteq Buffers
        /\ replica' \in [Clients -> ReplicaRecords]
        /\ host_ptr_vector_' = host_ptr_vector_
    BY <1>2, ReallocateType
  <2>3. load' \in [Clients -> LoadRecords] /\ frame' \in [Threads -> FrameRecords]
    BY <1>2, CallFreeHostType
  <2>. QED
    BY <2>1, <2>2, <2>3 DEF TypeOK, MemoryType, store
<1>. QED
  BY <1>1, <1>2 DEF CancelReplicas

\* The other steps of a disk task keep the types.
LEMMA DiskType ==
    ASSUME TypeOK, ClientsInv, LoadsInv, FramesInv, ServerInv,
           NEW c \in Clients, DiskStep(c) \/ ReadStep(c)
    PROVE  TypeOK'
<1> DEFINE m == load[c].model
<1>1. ASSUME DiskBegin(c)
      PROVE  TypeOK'
  <2>1. client[c].path \in Paths
    BY <1>1 DEF DiskBegin, Disk, ClientsInv
  <2>2. model_map_[client[c].path] \in {Null} \cup Models
    BY <2>1 DEF TypeOK
  <2>3. load' \in [Clients -> LoadRecords]
    <3>1. CASE Registered(client[c].path)
      BY <1>1, <2>2, <3>1, ZenonT(40) DEF DiskBegin, TypeOK, LoadRecords
    <3>2. CASE ~Registered(client[c].path)
      BY <1>1, <3>2, ZenonT(40) DEF DiskBegin, TypeOK, LoadRecords
    <3>. QED
      BY <3>1, <3>2
  <2>. QED
    BY <1>1, <2>3 DEF DiskBegin, TypeOK, MemoryType, store, memory
<1>2. ASSUME KeepMemory(c)
      PROVE  TypeOK'
  <2>1. client[c].path \in Paths
    BY <1>2 DEF KeepMemory, Disk, ClientsInv
  <2>2. access_order' \in Seq(Paths)
    BY <1>2, <2>1, TouchedType DEF KeepMemory, TypeOK
  <2>3. load' \in [Clients -> LoadRecords]
    BY <1>2, SMTT(30) DEF KeepMemory, TypeOK, LoadRecords
  <2>. QED
    BY <1>2, <2>2, <2>3 DEF KeepMemory, TypeOK, MemoryType, memory
<1>3. ASSUME AlreadyRead(c)
      PROVE  TypeOK'
  <2>1. load' \in [Clients -> LoadRecords]
    BY <1>3 DEF AlreadyRead, TypeOK, LoadRecords
  <2>. QED
    BY <1>3, <2>1 DEF AlreadyRead, TypeOK, MemoryType, store, memory
<1>4. ASSUME ToHostFails(c)
      PROVE  TypeOK'
  <2>1. m \in Models
    BY <1>4 DEF ToHostFails, Disk, LoadsInv
  <2>2. load' \in [Clients -> LoadRecords] /\ frame' \in [Threads -> FrameRecords]
    BY <1>4, <2>1, CallFreeHostType DEF ToHostFails
  <2>. QED
    BY <1>4, <2>2 DEF ToHostFails, TypeOK, MemoryType, store, memory
<1>5. ASSUME ToHost(c), ~Crash
      PROVE  TypeOK'
  <2>1. m \in Models
    BY <1>5 DEF ToHost, Disk, LoadsInv
  <2>2. pinned_mem_[m] \in SUBSET Buffers
    BY <1>5, <2>1 DEF ToHost, Held, TypeOK, MemoryType
  <2>3. load' = [load EXCEPT ![c].at = "reading", ![c].unread = Chunks(m),
                             ![c].error = FALSE, ![c].target = pinned_mem_[m]]
    BY <1>5 DEF ToHost
  <2>4. load' \in [Clients -> LoadRecords]
    <3> DEFINE chunks == Chunks(m)
               bufs   == pinned_mem_[m]
    <3>1. /\ load' = [load EXCEPT ![c].at = "reading", ![c].unread = chunks,
                                  ![c].error = FALSE, ![c].target = bufs]
          /\ chunks \in SUBSET Nat /\ bufs \in SUBSET Buffers
      BY <2>1, <2>2, <2>3, ModelFacts
    <3> HIDE DEF chunks, bufs
    <3> DEFINE r == [load[c] EXCEPT !.at = "reading", !.unread = chunks,
                                    !.error = FALSE, !.target = bufs]
    <3>2. load[c] \in LoadRecords
      BY DEF TypeOK
    <3>3. r \in LoadRecords
      BY <3>1, <3>2 DEF LoadRecords
    <3>4. load' = [load EXCEPT ![c] = r]
      BY <3>1
    <3> HIDE DEF r
    <3>. QED
      BY <3>3, <3>4 DEF TypeOK
  <2>5. /\ state_' = [state_ EXCEPT ![m] = "LOADING"]
        /\ host_ptr_vector_' = [host_ptr_vector_ EXCEPT ![m] = << >>]
        /\ UNCHANGED <<store, pinned_mem_, content, free_list_, client,
                       replica, server, frame>>
    BY <1>5 DEF ToHost
  <2>6. state_' \in [Models -> States]
    BY <2>5 DEF TypeOK, MemoryType, States
  <2>7. /\ host_ptr_vector_' \in [Models -> {Null} \cup Seq(Nat)]
        /\ \A n \in Models : \/ host_ptr_vector_'[n] = Null
                             \/ host_ptr_vector_'[n] \in Seq(Chunks(n))
    <3>1. \A S : << >> \in Seq(S)
      OBVIOUS
    <3>. QED
      BY <2>5, <3>1 DEF TypeOK, MemoryType
  <2>. QED
    BY <2>4, <2>5, <2>6, <2>7 DEF TypeOK, MemoryType, store
<1>6. ASSUME NEW i \in load[c].unread, ReadChunk(c, i), ~Crash
      PROVE  TypeOK'
  <2>1. load[c].at = "reading"
    BY <1>6 DEF ReadChunk, NextChunk, Disk
  <2>2. m \in Models /\ i \in Chunks(m) /\ host_ptr_vector_[m] \in Seq(Chunks(m))
    BY <2>1 DEF LoadsInv
  <2>3. /\ content' = [content EXCEPT ![m] = @ \cup {i}]
        /\ host_ptr_vector_' = [host_ptr_vector_ EXCEPT ![m] =
             IF i \in ToSet(@) THEN @ ELSE Append(@, i)]
        /\ load' = [load EXCEPT ![c].unread = @ \ {i}]
        /\ UNCHANGED <<store, state_, pinned_mem_, free_list_, client,
                       replica, server, frame>>
    BY <1>6 DEF ReadChunk
  <2>4. i \in Nat /\ Chunks(m) \subseteq Nat
    BY <2>2, ModelFacts
  <2>5. /\ content' \in [Models -> SUBSET Nat]
        /\ \A n \in Models : content'[n] \subseteq Chunks(n)
    BY <2>2, <2>3, <2>4 DEF TypeOK, MemoryType
  <2> DEFINE v == IF i \in ToSet(host_ptr_vector_[m]) THEN host_ptr_vector_[m]
                  ELSE Append(host_ptr_vector_[m], i)
  <2>6. v \in Seq(Chunks(m)) /\ v \in Seq(Nat)
    <3>1. host_ptr_vector_[m] \in Seq(Nat)
      BY <2>2, <2>4
    <3>2. /\ Append(host_ptr_vector_[m], i) \in Seq(Chunks(m))
          /\ Append(host_ptr_vector_[m], i) \in Seq(Nat)
      BY <2>2, <2>4, <3>1, AppendProperties
    <3>. QED
      BY <2>2, <3>1, <3>2
  <2>7. host_ptr_vector_' = [host_ptr_vector_ EXCEPT ![m] = v]
    BY <2>3
  <2> HIDE DEF v
  <2>8. /\ host_ptr_vector_' \in [Models -> {Null} \cup Seq(Nat)]
        /\ \A n \in Models : \/ host_ptr_vector_'[n] = Null
                             \/ host_ptr_vector_'[n] \in Seq(Chunks(n))
    BY <2>6, <2>7 DEF TypeOK, MemoryType
  <2>9. load' \in [Clients -> LoadRecords]
    BY <2>3, ZenonT(40) DEF TypeOK, LoadRecords
  <2>. QED
    BY <2>3, <2>5, <2>8, <2>9 DEF TypeOK, MemoryType, store
<1>7. ASSUME NEW i \in load[c].unread, ReadFails(c, i)
      PROVE  TypeOK'
  <2>1. load' \in [Clients -> LoadRecords]
    BY <1>7, ZenonT(40) DEF ReadFails, TypeOK, LoadRecords
  <2>. QED
    BY <1>7, <2>1 DEF ReadFails, TypeOK, MemoryType, store, memory
<1>8. ASSUME ReadersDone(c)
      PROVE  TypeOK'
  <2>1. m \in Models
    BY <1>8 DEF ReadersDone, Disk, LoadsInv
  <2>2. CASE load[c].error
    <3> DEFINE state == [state_ EXCEPT ![m] = "INTERRUPTED"]
    <3>1. state \in [Models -> States]
      BY DEF TypeOK, MemoryType, States
    <3>2. CancelReplicas(c, m, Replicas(m), state) /\ UNCHANGED <<store, client, server>>
      BY <1>8, <2>2 DEF ReadersDone
    <3>3. Replicas(m) \subseteq Clients
      BY DEF Replicas
    <3> HIDE DEF state
    <3>. QED
      BY <2>1, <3>1, <3>2, <3>3, CancelType
  <2>3. CASE ~load[c].error
    <3>1. state_' \in [Models -> States]
      BY <1>8, <2>3 DEF ReadersDone, TypeOK, MemoryType, States
    <3>2. load' = [load EXCEPT ![c].at = "loaded"] /\ load \in [Clients -> LoadRecords]
      BY <1>8, <2>3 DEF ReadersDone, TypeOK
    <3>3. load' \in [Clients -> LoadRecords]
      BY <3>2 DEF LoadRecords
    <3>. QED
      BY <1>8, <2>3, <3>1, <3>3 DEF ReadersDone, TypeOK, MemoryType, store
  <2>. QED
    BY <2>2, <2>3
<1>9. ASSUME CancelledEnded(c)
      PROVE  TypeOK'
  <2>1. frame[c].at = "cancel"
    BY <1>9 DEF CancelledEnded, In
  <2>2. frame[c].model \in Models /\ load[c].model \in Models
    BY <2>1 DEF FramesInv, LoadsInv, Threads
  <2>3. frame[c].visit \subseteq Clients /\ state_ \in [Models -> States]
    BY DEF TypeOK, FrameRecords, MemoryType, Threads
  <2>4. /\ CancelReplicas(c, frame[c].model, frame[c].visit, state_)
        /\ UNCHANGED <<store, client, server>>
    BY <1>9 DEF CancelledEnded
  <2>. QED
    BY <2>2, <2>3, <2>4, CancelType
<1>. QED
  BY <1>1, <1>2, <1>3, <1>4, <1>5, <1>6, <1>7, <1>8, <1>9, AllocateType, CrashType
     DEF DiskStep, ReadStep

\* The steps of a replica and of the device keep the types.
LEMMA ReplicaType ==
    ASSUME TypeOK, ClientsInv, ReplicasInv, NEW c \in Clients,
           ReplicaStep(c) \/ DeviceStep(c)
    PROVE  TypeOK'
<1>0. replica \in [Clients -> ReplicaRecords]
  BY DEF TypeOK
<1>1. ASSUME ReplicaBegin(c)
      PROVE  TypeOK'
  <2>1. client[c].path \in Paths
    BY <1>1 DEF ReplicaBegin, Gpu, ClientsInv
  <2>2. CASE Registered(client[c].path)
    <3> DEFINE m == model_map_[client[c].path]
    <3>1. replica' = [replica EXCEPT ![c].model = m, ![c].at = "toGpu"]
      BY <1>1, <2>2 DEF ReplicaBegin
    <3>2. m \in {Null} \cup Models
      BY <2>1 DEF TypeOK
    <3> HIDE DEF m
    <3> DEFINE rec == [replica[c] EXCEPT !.model = m, !.at = "toGpu"]
    <3>3. replica' \in [Clients -> ReplicaRecords]
      <4>1. rec \in ReplicaRecords
        BY <1>0, <3>2 DEF ReplicaRecords
      <4>2. replica' = [replica EXCEPT ![c] = rec]
        BY <3>1
      <4> HIDE DEF rec
      <4>. QED
        BY <1>0, <4>1, <4>2
    <3>4. access_order' \in Seq(Paths)
      BY <1>1, <2>1, <2>2, TouchedType DEF ReplicaBegin, TypeOK
    <3>. QED
      BY <1>1, <3>3, <3>4 DEF ReplicaBegin, TypeOK, MemoryType, memory
  <2>3. CASE ~Registered(client[c].path)
    <3>1. replica' = [replica EXCEPT ![c].at = "failed"]
      BY <1>1, <2>3 DEF ReplicaBegin
    <3>2. replica' \in [Clients -> ReplicaRecords]
      BY <1>0, <3>1, ZenonT(40) DEF ReplicaRecords
    <3>. QED
      BY <1>1, <2>3, <3>2 DEF ReplicaBegin, TypeOK, MemoryType, memory
  <2>. QED
    BY <2>2, <2>3
<1>2. ASSUME ToGpu(c)
      PROVE  TypeOK'
  <2>1. replica' = [replica EXCEPT ![c].listed = TRUE, ![c].state = "LOADING",
                                   ![c].at = "plan", ![c].device = "start"]
    BY <1>2 DEF ToGpu
  <2> DEFINE rec == [replica[c] EXCEPT !.listed = TRUE, !.state = "LOADING",
                                       !.at = "plan", !.device = "start"]
  <2>2. replica' \in [Clients -> ReplicaRecords]
    <3>1. rec \in ReplicaRecords
      BY <1>0, ZenonT(40) DEF ReplicaRecords, States
    <3>2. replica' = [replica EXCEPT ![c] = rec]
      BY <2>1
    <3> HIDE DEF rec
    <3>. QED
      BY <1>0, <3>1, <3>2
  <2>3. frame' = [t \in Threads |->
          IF frame[t].at = "host" /\ frame[t].model = replica[c].model
          THEN [frame[t] EXCEPT !.notified = TRUE] ELSE frame[t]]
    BY <1>2 DEF ToGpu
  <2>4. frame' \in [Threads -> FrameRecords]
    BY <2>3 DEF TypeOK, FrameRecords
  <2>. QED
    BY <1>2, <2>2, <2>4 DEF ToGpu, TypeOK, MemoryType, store, memory
<1>3. ASSUME Plan(c), ~Crash
      PROVE  TypeOK'
  <2>1. replica' = [replica EXCEPT ![c].at = "dispatch"]
    BY <1>3 DEF Plan
  <2>2. replica' \in [Clients -> ReplicaRecords]
    BY <1>0, <2>1, ZenonT(40) DEF ReplicaRecords
  <2>. QED
    BY <1>3, <2>2 DEF Plan, TypeOK, MemoryType, store, memory
<1>4. ASSUME Dispatch(c), ~Crash
      PROVE  TypeOK'
  <2> DEFINE m      == replica[c].model
             vector == host_ptr_vector_[m]
             next   == replica[c].sent + 1
  <2>1. /\ next \in Nat /\ End \in Nat
        /\ replica[c] \in ReplicaRecords /\ replica[c].queue \in Seq(Nat)
        /\ m \in Models
    BY <1>0, <1>4 DEF ReplicaRecords, End, Dispatch, Gpu, ReplicasInv
  <2>2. replica' \in [Clients -> ReplicaRecords]
    <3>1. ASSUME next \in DOMAIN vector,
                 replica' = [[replica EXCEPT ![c].queue = Append(@, vector[next])]
                               EXCEPT ![c].sent = next]
          PROVE  replica' \in [Clients -> ReplicaRecords]
      <4>1. vector \in Seq(Nat)
        BY <1>4, <2>1 DEF Dispatch, TypeOK, MemoryType
      <4>2. vector[next] \in Nat
        BY <3>1, <4>1
      <4> DEFINE q   == Append(replica[c].queue, vector[next])
                 rec == [replica[c] EXCEPT !.queue = q, !.sent = next]
      <4>3. q \in Seq(Nat)
        BY <2>1, <4>2, AppendProperties
      <4>4. replica' = [replica EXCEPT ![c] = rec]
        BY <3>1, <1>0
      <4> HIDE DEF q, next
      <4>5. rec \in ReplicaRecords
        BY <2>1, <4>3 DEF ReplicaRecords
      <4> HIDE DEF rec
      <4>. QED
        BY <1>0, <4>4, <4>5
    <3>2. ASSUME replica' = [[replica EXCEPT ![c].queue = Append(@, End)]
                               EXCEPT ![c].at = "join"]
          PROVE  replica' \in [Clients -> ReplicaRecords]
      <4> DEFINE q   == Append(replica[c].queue, End)
                 rec == [replica[c] EXCEPT !.queue = q, !.at = "join"]
      <4>1. q \in Seq(Nat)
        BY <2>1, AppendProperties
      <4>2. replica' = [replica EXCEPT ![c] = rec]
        BY <3>2, <1>0
      <4> HIDE DEF q
      <4>3. rec \in ReplicaRecords
        BY <2>1, <4>1 DEF ReplicaRecords
      <4> HIDE DEF rec
      <4>. QED
        BY <1>0, <4>2, <4>3
    <3>. QED
      BY <1>4, <3>1, <3>2 DEF Dispatch
  <2>. QED
    BY <1>4, <2>2 DEF Dispatch, TypeOK, MemoryType, store, memory
<1>5. ASSUME ReplicaDone(c)
      PROVE  TypeOK'
  <2> DEFINE failed == replica[c].device = "error"
             state  == IF failed THEN "INTERRUPTED" ELSE "LOADED"
             at     == IF failed THEN "freeGpu" ELSE "loaded"
             rec    == [replica[c] EXCEPT !.state = state, !.at = at]
  <2>1. state \in States /\ at \in {"freeGpu", "loaded"}
    BY DEF States
  <2>2. replica' = [replica EXCEPT ![c] = rec]
    BY <1>5 DEF ReplicaDone
  <2> HIDE DEF state, at
  <2>3. rec \in ReplicaRecords
    BY <1>0, <2>1 DEF ReplicaRecords
  <2> HIDE DEF rec
  <2>4. replica' \in [Clients -> ReplicaRecords]
    BY <1>0, <2>2, <2>3
  <2>. QED
    BY <1>5, <2>4 DEF ReplicaDone, TypeOK, MemoryType, store, memory
<1>6. ASSUME FreeGpu(c), ~Crash
      PROVE  TypeOK'
  <2> DEFINE rec == [replica[c] EXCEPT !.listed = FALSE, !.at = "failed"]
  <2>1. replica' = [replica EXCEPT ![c] = rec]
    BY <1>6 DEF FreeGpu
  <2>2. replica' \in [Clients -> ReplicaRecords]
    <3>1. rec \in ReplicaRecords
      BY <1>0 DEF ReplicaRecords
    <3> HIDE DEF rec
    <3>. QED
      BY <1>0, <2>1, <3>1
  <2>. QED
    BY <1>6, <2>2 DEF FreeGpu, TypeOK, MemoryType, store, memory
<1>7. ASSUME DeviceStart(c)
      PROVE  TypeOK'
  <2>1. PICK result \in {"copying", "error"} :
            replica' = [replica EXCEPT ![c].device = result]
    BY <1>7 DEF DeviceStart
  <2>2. replica' \in [Clients -> ReplicaRecords]
    BY <1>0, <2>1, ZenonT(40) DEF ReplicaRecords
  <2>. QED
    BY <1>7, <2>2 DEF DeviceStart, TypeOK, MemoryType, store, memory
<1>8. ASSUME Copy(c), ~Crash
      PROVE  TypeOK'
  <2>1. /\ replica[c] \in ReplicaRecords /\ replica[c].queue \in Seq(Nat)
        /\ replica[c].queue # << >>
    BY <1>0, <1>8 DEF ReplicaRecords, Copy
  <2> DEFINE rest == Tail(replica[c].queue)
  <2>2. rest \in Seq(Nat)
    BY <2>1, HeadTailProperties
  <2> HIDE DEF rest
  <2>3. ASSUME NEW device \in {"done", "copying", "error"},
               replica' = [replica EXCEPT ![c].queue = rest, ![c].device = device]
        PROVE  replica' \in [Clients -> ReplicaRecords]
    <3> DEFINE rec == [replica[c] EXCEPT !.queue = rest, !.device = device]
    <3>1. rec \in ReplicaRecords
      BY <2>1, <2>2 DEF ReplicaRecords
    <3>2. replica' = [replica EXCEPT ![c] = rec]
      BY <2>3
    <3> HIDE DEF rec
    <3>. QED
      BY <1>0, <3>1, <3>2
  <2>4. ASSUME NEW g,
               replica' = [[replica EXCEPT ![c].queue = rest, ![c].device = "copying"]
                             EXCEPT ![c].garbage = @ \/ g]
        PROVE  replica' \in [Clients -> ReplicaRecords]
    <3> DEFINE new == replica[c].garbage \/ g
               rec == [replica[c] EXCEPT !.queue = rest, !.device = "copying",
                                         !.garbage = new]
    <3>1. new \in BOOLEAN
      OBVIOUS
    <3>2. replica' = [replica EXCEPT ![c] = rec]
      BY <1>0, <2>4
    <3> HIDE DEF new
    <3>3. rec \in ReplicaRecords
      BY <2>1, <2>2, <3>1 DEF ReplicaRecords
    <3> HIDE DEF rec
    <3>. QED
      BY <1>0, <3>2, <3>3
  <2>5. replica' \in [Clients -> ReplicaRecords]
    <3> DEFINE item == Head(replica[c].queue)
               g == item \notin content[replica[c].model]
               Result(device) == [replica EXCEPT ![c].queue = rest,
                                                 ![c].device = device]
    <3>1. \/ replica' = Result("done") \/ replica' = Result("error")
          \/ replica' = [Result("copying") EXCEPT ![c].garbage = @ \/ g]
      BY <1>8 DEF Copy, rest
    <3> HIDE DEF g
    <3>. QED
      BY <2>3, <2>4, <3>1
  <2>. QED
    BY <1>8, <2>5 DEF Copy, TypeOK, MemoryType, store, memory
<1>. QED
  BY <1>1, <1>2, <1>3, <1>4, <1>5, <1>6, <1>7, <1>8, CrashType
     DEF ReplicaStep, DeviceStep

\* Every step keeps the types.
LEMMA NextType ==
    ASSUME IndInv, [Next]_vars
    PROVE  TypeOK'
<1>1. CASE UNCHANGED vars
  BY <1>1 DEF IndInv, TypeOK, MemoryType, vars, store, memory
<1>. QED
  BY <1>1, RequestType, FreeType, DiskType, ReplicaType DEF IndInv, Next
-----------------------------------------------------------------------------
(* The memory                                                              *)

\* What a step can do to the memory of the models: nothing, but for the chunks
\* that are read; or a model is registered, freed, given buffers by an
\* eviction, or goes from one state to another with the buffers it has.
Quiet == UNCHANGED <<state_, pinned_mem_, free_list_>>
Registers(m) == /\ state_[m] = "UNINITIALIZED" /\ model_map_[m[1]] = Null
                /\ state_' = [state_ EXCEPT ![m] = "UNALLOCATED"]
                /\ model_map_' = [model_map_ EXCEPT ![m[1]] = m]
                /\ UNCHANGED <<pinned_mem_, free_list_>>
Frees(m) == /\ Reallocate({m}, m, Null)
            /\ state_' = [state_ EXCEPT ![m] = "UNALLOCATED"]
Evicts(m) ==
    LET k == Visited(m) IN
    /\ state_[m] = "UNALLOCATED"
    /\ \E bufs \in SUBSET Available(k) :
         /\ Cardinality(bufs) = IF Enough(m, k) THEN Size[m[1]] ELSE 0
         /\ Reallocate(Victims(k), m, bufs)
    /\ state_' = [n \in Models |->
                    IF n = m /\ Enough(m, k) THEN "ALLOCATED" ELSE
                    IF n \in Victims(k) THEN "UNALLOCATED" ELSE state_[n]]
Turns(m) == /\ \E s \in {"LOADING", "LOADED", "INTERRUPTED"} :
                 state_' = [state_ EXCEPT ![m] = s]
            /\ UNCHANGED <<pinned_mem_, free_list_>>

\* FreeHost, whoever calls it, does nothing to the memory or frees the model.
LEMMA ScanStep ==
    ASSUME NEW t \in Threads, NEW m \in Models, NEW visit,
           ScanReplicas(t, m, visit)
    PROVE  Quiet \/ Frees(m)
BY DEF ScanReplicas, Crash, Quiet, Frees, memory

\* The error path of ToHost interrupts the model or frees it.
LEMMA CancelStep ==
    ASSUME TypeOK, NEW c \in Clients, NEW m \in Models, NEW visit,
           NEW state, state \in {state_, [state_ EXCEPT ![m] = "INTERRUPTED"]},
           CancelReplicas(c, m, visit, state)
    PROVE  Quiet \/ Turns(m) \/ Frees(m)
<1>1. CASE Reallocate({m}, m, Null)
  <2>1. CASE state_' = [state EXCEPT ![m] = "UNALLOCATED"]
    <3>1. state_' = [state_ EXCEPT ![m] = "UNALLOCATED"]
      BY <2>1 DEF TypeOK, MemoryType
    <3>. QED
      BY <1>1, <3>1 DEF Frees
  <2>2. CASE /\ state_' = state
             /\ UNCHANGED <<pinned_mem_, content, free_list_, host_ptr_vector_>>
    BY <2>2 DEF Quiet, Turns
  <2>. QED
    BY <2>1, <2>2 DEF CancelReplicas
<1>2. CASE ~Reallocate({m}, m, Null)
  <2>1. /\ state_' = state
        /\ UNCHANGED <<pinned_mem_, content, free_list_, host_ptr_vector_>>
    BY <1>2 DEF CancelReplicas
  <2>. QED
    BY <2>1 DEF Quiet, Turns
<1>. QED
  BY <1>1, <1>2

\* Every step is of one of these kinds.
LEMMA MemoryStep ==
    ASSUME IndInv, [Next]_vars
    PROVE  \/ Quiet
           \/ \E m \in Models : Registers(m) \/ Frees(m) \/ Evicts(m) \/ Turns(m)
<1> DEFINE Kind == \/ Quiet
                   \/ \E m \in Models :
                        Registers(m) \/ Frees(m) \/ Evicts(m) \/ Turns(m)
<1>1. CASE UNCHANGED vars
  BY <1>1 DEF vars, memory, Quiet
<1>2. ASSUME Crash PROVE Kind
  BY <1>2 DEF Crash, memory, Quiet
<1>3. ASSUME NEW p \in Paths, Register(p),
             UNCHANGED <<pinned_mem_, free_list_>>
      PROVE  Kind
  BY <1>3 DEF Register, Registered, Quiet, Registers
<1>4. ASSUME Request \/ ServerStep PROVE Kind
  <2>1. ASSUME NEW c \in Clients, NEW p \in Paths, LoadIntoCpu(c, p)
        PROVE  Kind
    BY <2>1, <1>3 DEF LoadIntoCpu
  <2>2. ASSUME NEW c \in Clients, LoadIntoGpu(c)
        PROVE  Kind
    <3>1. client[c].path \in Paths
      BY <2>2 DEF LoadIntoGpu, IndInv, ClientsInv
    <3>. QED
      BY <2>2, <3>1, <1>3 DEF LoadIntoGpu
  <2>3. ASSUME UNCHANGED memory PROVE Kind
    BY <2>3 DEF memory, Quiet
  <2> HIDE DEF Kind
  <2>. QED
    BY <1>4, <2>1, <2>2, <2>3
       DEF Request, ServerStep, RequestUnload, ClearMem, Confirm, ConfirmFails,
           Unload, ClearNext, ReplicaFound, ConfirmReturns, Answer, Cleared
<1>5. ASSUME NEW t \in Threads, FreeStep(t) PROVE Kind
  <2> DEFINE m == frame[t].model
  <2>1. frame[t].at # "none"
    BY <1>5 DEF FreeStep, FreeHost, HostEnded, HostSleepsOn, ReplicaEnded, In
  <2>2. m \in Models
    BY <2>1 DEF IndInv, FramesInv
  <2>3. ASSUME NEW visit, ScanReplicas(t, m, visit)
        PROVE  Kind
    BY <2>2, <2>3, ScanStep
  <2>4. ASSUME UNCHANGED memory PROVE Kind
    BY <2>4 DEF memory, Quiet
  <2> HIDE DEF Kind
  <2>. QED
    BY <1>5, <2>3, <2>4
       DEF FreeStep, FreeHost, HostEnded, HostSleepsOn, ReplicaEnded
<1>6. ASSUME NEW c \in Clients, DiskStep(c) PROVE Kind
  <2> DEFINE m == load[c].model
  <2>1. ASSUME UNCHANGED memory PROVE Kind
    BY <2>1 DEF memory, Quiet
  <2>2. ASSUME Allocate(c) PROVE Kind
    <3>1. m \in Models
      BY <2>2 DEF Allocate, Disk, IndInv, LoadsInv
    <3>2. CASE Null \in Oldest(Visited(m))
      BY <1>2, <2>2, <3>2 DEF Allocate
    <3>3. CASE Null \notin Oldest(Visited(m))
      <4>1. Evicts(m)
        BY <2>2, <3>3 DEF Allocate, Evicts, Needs
      <4>. QED
        BY <3>1, <4>1
    <3>. QED
      BY <3>2, <3>3
  <2>3. ASSUME ToHost(c) PROVE Kind
    <3>1. m \in Models
      BY <2>3 DEF ToHost, Disk, IndInv, LoadsInv
    <3>2. ~Crash => Turns(m)
      BY <2>3 DEF ToHost, Turns
    <3>. QED
      BY <1>2, <3>1, <3>2
  <2>4. ASSUME ReadersDone(c) PROVE Kind
    <3>1. m \in Models
      BY <2>4 DEF ReadersDone, Disk, IndInv, LoadsInv
    <3>2. CASE load[c].error
      <4>1. CancelReplicas(c, m, Replicas(m), [state_ EXCEPT ![m] = "INTERRUPTED"])
        BY <2>4, <3>2 DEF ReadersDone
      <4>. QED
        BY <3>1, <4>1, CancelStep DEF IndInv
    <3>3. CASE ~load[c].error
      <4>1. Turns(m)
        BY <2>4, <3>3 DEF ReadersDone, Turns
      <4>. QED
        BY <3>1, <4>1
    <3>. QED
      BY <3>2, <3>3
  <2>5. ASSUME CancelledEnded(c) PROVE Kind
    <3>1. frame[c].model \in Models
      BY <2>5 DEF CancelledEnded, In, IndInv, FramesInv, Threads
    <3>2. CancelReplicas(c, frame[c].model, frame[c].visit, state_)
      BY <2>5 DEF CancelledEnded
    <3>. QED
      BY <3>1, <3>2, CancelStep DEF IndInv
  <2> HIDE DEF Kind
  <2>. QED
    BY <1>6, <2>1, <2>2, <2>3, <2>4, <2>5
       DEF DiskStep, DiskBegin, KeepMemory, AlreadyRead, ToHostFails
<1>7. ASSUME NEW c \in Clients, ReadStep(c) \/ ReplicaStep(c) \/ DeviceStep(c)
      PROVE  Kind
  <2>1. Quiet
    BY <1>7 DEF ReadStep, ReadChunk, ReadFails, ReplicaStep, DeviceStep, Crash,
                ReplicaBegin, ToGpu, Plan, Dispatch, ReplicaDone, FreeGpu,
                DeviceStart, Copy, memory, Quiet
  <2>. QED
    BY <2>1
<1> HIDE DEF Kind
<1>8. Kind
  BY <1>1, <1>4, <1>5, <1>6, <1>7 DEF Next, Kind
<1>. QED
  BY <1>8 DEF Kind

\* A buffer of the pool is free or held by a model, and what the models hold
\* is what was not taken from them or given to one.
LEMMA ReallocateHeld ==
    ASSUME TypeOK, NEW S \in SUBSET Models, NEW m \in Models,
           NEW bufs \in {Null} \cup SUBSET Buffers, Reallocate(S, m, bufs)
    PROVE  LET given == IF bufs = Null THEN {} ELSE bufs
           IN /\ \A n \in Models : Held(n)' = IF n = m THEN given ELSE
                                              IF n \in S THEN {} ELSE Held(n)
              /\ free_list_' = (free_list_ \cup UNION {Held(n) : n \in S}) \ given
<1>1. \A n \in Models :
        pinned_mem_'[n] = IF n = m THEN bufs ELSE IF n \in S THEN Null
                          ELSE pinned_mem_[n]
  BY DEF Reallocate
<1>. QED
  BY <1>1 DEF Reallocate, Held

\* Models that lose their memory give it to the pool or to the model it is for.
LEMMA ReallocateConserves ==
    ASSUME TypeOK, PoolConservation,
           NEW S \in SUBSET Models, NEW m \in Models,
           NEW bufs \in {Null} \cup SUBSET Buffers, Reallocate(S, m, bufs),
           \/ bufs = Null /\ m \in S
           \/ /\ m \notin S /\ Held(m) = {} /\ bufs # Null
              /\ bufs \subseteq free_list_ \cup UNION {Held(n) : n \in S}
    PROVE  PoolConservation'
<1> DEFINE given == IF bufs = Null THEN {} ELSE bufs
           gain  == free_list_ \cup UNION {Held(n) : n \in S}
<1>1. given \subseteq gain
  OBVIOUS
<1>2. /\ \A n \in Models : Held(n)' = IF n = m THEN given ELSE
                                      IF n \in S THEN {} ELSE Held(n)
      /\ free_list_' = gain \ given
  BY ReallocateHeld
<1>3. \A n \in Models \ (S \cup {m}) : Held(n) \cap gain = {}
  BY DEF PoolConservation
<1>4. \A n \in Models : n = m \/ n \in S \/ Held(n) \cap gain = {}
  BY <1>3
<1>5. gain \subseteq Buffers
  BY HeldType DEF TypeOK, MemoryType
<1>6. Held(m) \subseteq gain
  OBVIOUS
<1> HIDE DEF given, gain
<1>7. \A n \in Models : Held(n)' \cap free_list_' = {}
  BY <1>2, <1>4
<1>8. \A n, o \in Models : n # o => Held(n)' \cap Held(o)' = {}
  <2>1. TAKE n, o \in Models
  <2>2. HAVE n # o
  <2>3. Held(n) \cap Held(o) = {}
    BY <2>2 DEF PoolConservation
  <2>. QED
    BY <1>1, <1>2, <1>4, <2>2, <2>3
<1>9. Buffers = free_list_' \cup UNION {Held(n)' : n \in Models}
  <2>1. \A b \in free_list_' : b \in Buffers
    BY <1>2, <1>5
  <2>2. ASSUME NEW n \in Models, NEW b \in Held(n)'
        PROVE  b \in Buffers
    BY <1>1, <1>2, <1>5, HeldType
  <2>3. ASSUME NEW b \in Buffers, b \notin free_list_'
        PROVE  \E n \in Models : b \in Held(n)'
    <3>1. CASE b \in given
      BY <1>2, <3>1
    <3>2. CASE b \notin given
      <4>1. b \notin gain
        BY <1>2, <2>3, <3>2
      <4>2. PICK n \in Models : b \in Held(n)
        BY <4>1 DEF PoolConservation, gain
      <4>3. n # m /\ n \notin S
        BY <1>6, <4>1, <4>2 DEF gain
      <4>. QED
        BY <1>2, <4>2, <4>3
    <3>. QED
      BY <3>1, <3>2
  <2>4. ASSUME NEW b
        PROVE  b \in Buffers <=> b \in free_list_' \cup UNION {Held(n)' : n \in Models}
    BY <2>1, <2>2, <2>3
  <2>. QED
    BY <2>4
<1>. QED
  BY <1>7, <1>8, <1>9 DEF PoolConservation

\* Nothing of the pool is lost in a step, and what is not allocated has none
\* of it.
LEMMA ConservationStep ==
    ASSUME IndInv, [Next]_vars
    PROVE  PoolConservation' /\ VacantHoldsNothing'
<1>0. /\ TypeOK /\ PoolConservation /\ VacantHoldsNothing
      /\ state_ \in [Models -> States]
  BY DEF IndInv, TypeOK, MemoryType
<1>1. ASSUME UNCHANGED <<pinned_mem_, free_list_>>
      PROVE  PoolConservation' /\ \A n \in Models : Held(n)' = Held(n)
  BY <1>0, <1>1 DEF PoolConservation, Held
<1>2. CASE Quiet
  BY <1>0, <1>1, <1>2 DEF Quiet, VacantHoldsNothing
<1>3. ASSUME NEW m \in Models, Registers(m)
      PROVE  PoolConservation' /\ VacantHoldsNothing'
  <2>1. state_[m] \in Vacant /\ \A n \in Models \ {m} : state_'[n] = state_[n]
    BY <1>0, <1>3 DEF Registers, Vacant
  <2>. QED
    BY <1>0, <1>1, <1>3, <2>1 DEF Registers, VacantHoldsNothing
<1>4. ASSUME NEW m \in Models, Turns(m)
      PROVE  PoolConservation' /\ VacantHoldsNothing'
  <2>1. state_'[m] \notin Vacant /\ \A n \in Models \ {m} : state_'[n] = state_[n]
    BY <1>0, <1>4 DEF Turns, Vacant
  <2>. QED
    BY <1>0, <1>1, <1>4, <2>1 DEF Turns, VacantHoldsNothing
<1>5. ASSUME NEW m \in Models, Frees(m)
      PROVE  PoolConservation' /\ VacantHoldsNothing'
  <2>1. Reallocate({m}, m, Null) /\ state_' = [state_ EXCEPT ![m] = "UNALLOCATED"]
    BY <1>5 DEF Frees
  <2>2. PoolConservation'
    BY <1>0, <2>1, ReallocateConserves
  <2>3. \A n \in Models : Held(n)' = IF n = m THEN {} ELSE Held(n)
    <3> DEFINE bufs == Null
               S    == {m}
    <3>1. bufs \in {Null} \cup SUBSET Buffers /\ bufs = Null /\ S \in SUBSET Models
      OBVIOUS
    <3>2. Reallocate(S, m, bufs)
      BY <2>1
    <3> HIDE DEF bufs, S
    <3>3. \A n \in Models :
            Held(n)' = IF n = m THEN (IF bufs = Null THEN {} ELSE bufs) ELSE
                       IF n \in S THEN {} ELSE Held(n)
      BY <1>0, <3>1, <3>2, ReallocateHeld
    <3>. QED
      BY <3>1, <3>3 DEF S
  <2>4. \A n \in Models \ {m} : state_'[n] = state_[n]
    BY <2>1
  <2>. QED
    BY <1>0, <2>2, <2>3, <2>4 DEF VacantHoldsNothing
<1>6. ASSUME NEW m \in Models, Evicts(m)
      PROVE  PoolConservation' /\ VacantHoldsNothing'
  <2> DEFINE k == Visited(m)
  <2>1. k \in 0 .. Len(access_order)
    BY <1>0, VisitedProperties
  <2>2. /\ Victims(k) \subseteq Models
        /\ \A v \in Victims(k) : state_[v] \notin Vacant \cup {"LOADING"}
        /\ Available(k) \subseteq Buffers
    BY <1>0, <2>1, VictimsType
  <2>3. state_[m] = "UNALLOCATED" /\ m \notin Victims(k) /\ Held(m) = {}
    BY <1>0, <1>6, <2>2 DEF Evicts, Vacant, VacantHoldsNothing
  <2>4. PICK bufs \in SUBSET Available(k) :
            /\ Cardinality(bufs) = IF Enough(m, k) THEN Size[m[1]] ELSE 0
            /\ Reallocate(Victims(k), m, bufs)
    BY <1>6 DEF Evicts
  <2>5. bufs \subseteq Buffers /\ bufs # Null
    BY <2>2, NullAssumption
  <2>6. bufs \subseteq free_list_ \cup UNION {Held(n) : n \in Victims(k)}
    BY DEF Available
  <2>7. state_' = [n \in Models |->
                     IF n = m /\ Enough(m, k) THEN "ALLOCATED" ELSE
                     IF n \in Victims(k) THEN "UNALLOCATED" ELSE state_[n]]
    BY <1>6 DEF Evicts
  <2> HIDE DEF k
  <2>8. PoolConservation'
    BY <1>0, <2>2, <2>3, <2>4, <2>5, <2>6, ReallocateConserves
  <2>9. \A n \in Models : Held(n)' = IF n = m THEN bufs ELSE
                                     IF n \in Victims(k) THEN {} ELSE Held(n)
    BY <1>0, <2>2, <2>4, <2>5, ReallocateHeld
  <2>10. ~Enough(m, k) => bufs = {}
    BY <2>4, <2>5, SizeAssumption, FS_Subset, FS_EmptySet
  <2>11. ASSUME NEW n \in Models, state_'[n] \in Vacant
         PROVE  Held(n)' = {}
    <3>1. CASE n = m
      BY <2>7, <2>9, <2>10, <2>11, <3>1 DEF Vacant
    <3>2. CASE n # m
      BY <1>0, <2>7, <2>9, <2>11, <3>2 DEF VacantHoldsNothing
    <3>. QED
      BY <3>1, <3>2
  <2>. QED
    BY <2>8, <2>11 DEF VacantHoldsNothing
<1>. QED
  BY <1>2, <1>3, <1>4, <1>5, <1>6, MemoryStep
-----------------------------------------------------------------------------
(* Who is where                                                            *)

\* What a step does to where a replica's task is, and to its model.
ReplicaView(c) ==
    \/ /\ replica'[c].at = replica[c].at /\ replica'[c].model = replica[c].model
    \/ replica'[c].at = "begin" /\ client'[c].next # "cpu"
    \/ /\ replica[c].at = "begin" /\ replica'[c].at = "toGpu"
       /\ replica'[c].model \in Models
    \/ replica[c].at # "none" /\ replica'[c].at = "failed"
    \/ /\ replica[c].at \in {"toGpu", "plan", "dispatch", "join", "freeGpu"}
       /\ replica'[c].at # "none"
       /\ replica'[c].model = replica[c].model

\* Models that lose their memory leave the tasks of the replicas alone.
LEMMA ReallocateView ==
    ASSUME TypeOK, NEW S, NEW m, NEW bufs, Reallocate(S, m, bufs)
    PROVE  \A c \in Clients : ReplicaView(c)
BY DanglingType DEF TypeOK, Reallocate, ReplicaView

\* Every step treats every replica in one of these ways.
LEMMA ReplicaViewStep ==
    ASSUME IndInv, [Next]_vars
    PROVE  \A c \in Clients : ReplicaView(c)
<1> DEFINE View == \A c \in Clients : ReplicaView(c)
<1>0. TypeOK /\ replica \in [Clients -> ReplicaRecords]
  BY DEF IndInv, TypeOK
<1>1. ASSUME UNCHANGED replica PROVE View
  BY <1>1 DEF ReplicaView
<1>2. ASSUME Crash PROVE View
  BY <1>1, <1>2 DEF Crash
<1>3. ASSUME Request \/ ServerStep PROVE View
  <2>1. ASSUME NEW c \in Clients, LoadIntoGpu(c)
        PROVE  View
    <3>1. /\ replica' = [replica EXCEPT ![c].at = "begin"]
          /\ client' = [client EXCEPT ![c].next = "confirm"]
      BY <2>1 DEF LoadIntoGpu
    <3>2. replica'[c].at = "begin" /\ client'[c].next # "cpu"
      BY <1>0, <3>1 DEF TypeOK, ClientRecords, ReplicaRecords
    <3>3. \A d \in Clients \ {c} : replica'[d] = replica[d]
      BY <1>0, <3>1
    <3>. QED
      BY <3>2, <3>3 DEF ReplicaView
  <2> HIDE DEF View
  <2>. QED
    BY <1>3, <1>1, <2>1
       DEF Request, ServerStep, LoadIntoCpu, RequestUnload, ClearMem, Confirm,
           ConfirmFails, Unload, ClearNext, ReplicaFound, ConfirmReturns,
           Answer, Cleared
<1>4. ASSUME NEW t \in Threads, FreeStep(t) PROVE View
  <2>1. ASSUME NEW m, NEW visit, ScanReplicas(t, m, visit)
        PROVE  View
    BY <1>0, <1>1, <1>2, <2>1, ReallocateView DEF ScanReplicas
  <2> HIDE DEF View
  <2>. QED
    BY <1>1, <1>4, <2>1
       DEF FreeStep, FreeHost, HostEnded, HostSleepsOn, ReplicaEnded
<1>5. ASSUME NEW c \in Clients, DiskStep(c) \/ ReadStep(c) PROVE View
  <2>1. ASSUME NEW m, NEW visit, NEW state, CancelReplicas(c, m, visit, state)
        PROVE  View
    <3>1. ASSUME NEW r \in Replicas(m),
                 replica' = [replica EXCEPT ![r].state =
                               IF @ = "LOADING" THEN "CANCELLED" ELSE @]
          PROVE  View
      <4>1. \A d \in Clients : /\ replica'[d].at = replica[d].at
                               /\ replica'[d].model = replica[d].model
        BY <1>0, <3>1 DEF ReplicaRecords
      <4>. QED
        BY <4>1 DEF ReplicaView
    <3> HIDE DEF View
    <3>2. ASSUME Reallocate({m}, m, Null) PROVE View
      BY <1>0, <3>2, ReallocateView DEF View
    <3>. QED
      BY <2>1, <3>1, <3>2 DEF CancelReplicas
  <2>2. ASSUME NEW S, NEW m, NEW bufs, Reallocate(S, m, bufs) PROVE View
    BY <1>0, <2>2, ReallocateView
  <2> HIDE DEF View
  <2>3. ASSUME Allocate(c) PROVE View
    BY <1>2, <2>2, <2>3 DEF Allocate
  <2>4. ASSUME ReadersDone(c) \/ CancelledEnded(c) PROVE View
    BY <1>1, <2>1, <2>4 DEF ReadersDone, CancelledEnded
  <2>. QED
    BY <1>1, <1>2, <1>5, <2>3, <2>4
       DEF DiskStep, ReadStep, DiskBegin, KeepMemory, AlreadyRead, ToHostFails,
           ToHost, ReadChunk, ReadFails
<1>6. ASSUME NEW c \in Clients, ReplicaStep(c) \/ DeviceStep(c) PROVE View
  <2>1. ASSUME ReplicaBegin(c) PROVE View
    <3>1. client[c].path \in Paths
      BY <2>1 DEF ReplicaBegin, Gpu, IndInv, ClientsInv
    <3>2. CASE Registered(client[c].path)
      <4>1. replica' = [replica EXCEPT ![c].model = model_map_[client[c].path],
                                       ![c].at = "toGpu"]
        BY <2>1, <3>2 DEF ReplicaBegin
      <4>2. model_map_[client[c].path] \in Models
        BY <1>0, <3>1, <3>2 DEF TypeOK, Registered
      <4>3. replica'[c].at = "toGpu" /\ replica'[c].model \in Models
        BY <1>0, <4>1, <4>2 DEF ReplicaRecords
      <4>4. replica[c].at = "begin" /\ \A d \in Clients \ {c} : replica'[d] = replica[d]
        BY <1>0, <2>1, <4>1 DEF ReplicaBegin, Gpu
      <4>. QED
        BY <4>3, <4>4 DEF ReplicaView
    <3>3. CASE ~Registered(client[c].path)
      <4>1. replica' = [replica EXCEPT ![c].at = "failed"] /\ replica[c].at = "begin"
        BY <2>1, <3>3 DEF ReplicaBegin, Gpu
      <4>. QED
        BY <1>0, <4>1 DEF ReplicaView, ReplicaRecords
    <3>. QED
      BY <3>2, <3>3
  <2>2. ASSUME ToGpu(c) PROVE View
    BY <1>0, <2>2 DEF ToGpu, Gpu, ReplicaView, ReplicaRecords
  <2>3. ASSUME Plan(c), ~Crash PROVE View
    <3>1. replica' = [replica EXCEPT ![c].at = "dispatch"] /\ replica[c].at = "plan"
      BY <2>3 DEF Plan, Gpu
    <3>. QED
      BY <1>0, <3>1 DEF ReplicaView, ReplicaRecords
  <2>4. ASSUME Dispatch(c), ~Crash PROVE View
    <3>1. replica[c].at = "dispatch"
      BY <2>4 DEF Dispatch, Gpu
    <3>2. \A d \in Clients : /\ replica'[d].model = replica[d].model
                             /\ d # c => replica'[d] = replica[d]
                             /\ d = c => replica'[c].at \in {"dispatch", "join"}
      BY <1>0, <2>4, <3>1 DEF Dispatch, ReplicaRecords
    <3>. QED
      BY <3>1, <3>2 DEF ReplicaView
  <2>5. ASSUME ReplicaDone(c) PROVE View
    BY <1>0, <2>5 DEF ReplicaDone, Gpu, ReplicaView, ReplicaRecords
  <2>6. ASSUME FreeGpu(c), ~Crash PROVE View
    <3>1. /\ replica' = [replica EXCEPT ![c].listed = FALSE, ![c].at = "failed"]
          /\ replica[c].at = "freeGpu"
      BY <2>6 DEF FreeGpu, Gpu
    <3>. QED
      BY <1>0, <3>1 DEF ReplicaView, ReplicaRecords
  <2>7. ASSUME DeviceStart(c) PROVE View
    BY <1>0, <2>7 DEF DeviceStart, ReplicaView, ReplicaRecords
  <2>8. ASSUME Copy(c), ~Crash PROVE View
    <3>1. \A d \in Clients : /\ replica'[d].at = replica[d].at
                             /\ replica'[d].model = replica[d].model
      <4> DEFINE rest == Tail(replica[c].queue)
                 g    == Head(replica[c].queue) \notin content[replica[c].model]
                 Result(device) == [replica EXCEPT ![c].queue = rest,
                                                   ![c].device = device]
      <4>1. \/ replica' = Result("done") \/ replica' = Result("error")
            \/ replica' = [Result("copying") EXCEPT ![c].garbage = @ \/ g]
        BY <2>8 DEF Copy
      <4> HIDE DEF rest, g
      <4>2. ASSUME NEW device, replica' = Result(device)
            PROVE  \A d \in Clients : /\ replica'[d].at = replica[d].at
                                      /\ replica'[d].model = replica[d].model
        BY <1>0, <4>2 DEF ReplicaRecords
      <4>3. ASSUME replica' = [Result("copying") EXCEPT ![c].garbage = @ \/ g]
            PROVE  \A d \in Clients : /\ replica'[d].at = replica[d].at
                                      /\ replica'[d].model = replica[d].model
        <5> DEFINE new == replica[c].garbage \/ g
                   rec == [replica[c] EXCEPT !.queue = rest, !.device = "copying",
                                             !.garbage = new]
        <5>1. replica' = [replica EXCEPT ![c] = rec]
          BY <1>0, <4>3
        <5> HIDE DEF new
        <5>2. rec.at = replica[c].at /\ rec.model = replica[c].model
          BY <1>0 DEF ReplicaRecords
        <5> HIDE DEF rec
        <5>. QED
          BY <1>0, <5>1, <5>2
      <4>. QED
        BY <4>1, <4>2, <4>3
    <3>. QED
      BY <3>1 DEF ReplicaView
  <2> HIDE DEF View
  <2>. QED
    BY <1>2, <1>6, <2>1, <2>2, <2>3, <2>4, <2>5, <2>6, <2>7, <2>8
       DEF ReplicaStep, DeviceStep
<1>7. ASSUME UNCHANGED vars PROVE View
  BY <1>1, <1>7 DEF vars
<1> HIDE DEF View
<1>8. ASSUME Next PROVE View
  BY <1>8, <1>3, <1>4, <1>5, <1>6 DEF Next
<1>9. View
  BY <1>7, <1>8
<1>. QED
  BY <1>9 DEF View

\* What a step does to where a client's disk task is, and to what it reads.
LoadView(c) ==
    LET at == load[c].at
        to == load'[c].at
        same == load'[c].model = load[c].model
    IN \/ to = at /\ same /\ load'[c].unread \subseteq load[c].unread
       \/ at = "none" /\ to = "begin" /\ client'[c].next # "cpu"
       \/ at = "begin" /\ to = "failed"
       \/ at = "begin" /\ to = "allocate" /\ load'[c].model \in Models
       \/ /\ at \in {"allocate", "toHost", "reading"}
          /\ to \in {"toHost", "loaded", "failed", "free", "cancel"} /\ same
       \/ /\ at = "toHost" /\ to = "reading" /\ same
          /\ load'[c].unread = Chunks(load[c].model)
          /\ host_ptr_vector_'[load[c].model] = << >>
       \/ at \in {"free", "cancel"} /\ to \in {"free", "cancel"} /\ same
       \/ at \in {"free", "cancel"} /\ to = "failed" /\ frame'[c].at = "none"

\* What it does to where a client's disk task is in FreeHost or ToHost.
FrameView(c) ==
    LET to == frame'[c] IN
    \/ /\ to.at = frame[c].at /\ to.model = frame[c].model
       /\ to.on = frame[c].on
    \/ to.at = "none"
    \/ /\ to.at \in {"enter", "host", "replicas", "cancel"}
       /\ to.model \in Models
       /\ to.at \in {"replicas", "cancel"} => to.on \in Clients
       /\ load'[c].at \in {"free", "cancel"}

TaskViews == \A c \in Clients : LoadView(c) /\ FrameView(c)

\* The requests and the event loop start disk tasks and leave them alone.
LEMMA RequestViews ==
    ASSUME IndInv, Request \/ ServerStep
    PROVE  TaskViews
<1>0. /\ load \in [Clients -> LoadRecords] /\ client \in [Clients -> ClientRecords]
      /\ frame \in [Threads -> FrameRecords] /\ Server \notin Clients
      /\ Clients \subseteq Threads
  BY ClientsAssumption DEF IndInv, TypeOK, Threads
<1>1. ASSUME UNCHANGED load,
             \A c \in Clients : frame'[c] = frame[c]
      PROVE  TaskViews
  BY <1>1 DEF TaskViews, LoadView, FrameView
<1>2. ASSUME NEW c \in Clients, NEW p \in Paths, LoadIntoCpu(c, p)
      PROVE  TaskViews
  <2>1. load' = [load EXCEPT ![c].at = "begin"] /\ UNCHANGED frame
    BY <1>2 DEF LoadIntoCpu
  <2>2. client[c].next = "cpu" /\ load[c].at = "none"
    BY <1>2 DEF LoadIntoCpu, IndInv, ClientsInv
  <2>3. client'[c].next # "cpu"
    BY <1>0, <1>2 DEF LoadIntoCpu, ClientRecords
  <2>4. load'[c].at = "begin" /\ \A d \in Clients \ {c} : load'[d] = load[d]
    BY <1>0, <2>1 DEF LoadRecords
  <2>. QED
    BY <2>1, <2>2, <2>3, <2>4 DEF TaskViews, LoadView, FrameView
<1>3. ASSUME UNCHANGED load,
             \/ UNCHANGED frame
             \/ \E f : frame' = [frame EXCEPT ![Server] = f]
      PROVE  TaskViews
  <2>1. \A c \in Clients : frame'[c] = frame[c]
    BY <1>0, <1>3
  <2>. QED
    BY <1>1, <1>3, <2>1
<1>4. ASSUME ReplicaFound
      PROVE  TaskViews
  <2>1. \A c \in Clients : frame'[c] = frame[c]
    BY <1>0, <1>4 DEF ReplicaFound
  <2>. QED
    BY <1>1, <1>4, <2>1 DEF ReplicaFound
<1>. QED
  BY <1>2, <1>3, <1>4
     DEF Request, ServerStep, LoadIntoGpu, RequestUnload, ClearMem, Confirm,
         ConfirmFails, Unload, ClearNext, Enter, ConfirmReturns, Answer, Cleared

\* FreeHost takes a disk task that failed through its waits to its end.
LEMMA FreeViews ==
    ASSUME IndInv, NEW t \in Threads, FreeStep(t)
    PROVE  TaskViews
<1> DEFINE m == frame[t].model
<1>0. /\ load \in [Clients -> LoadRecords]
      /\ frame \in [Threads -> FrameRecords] /\ Server \notin Clients
      /\ Clients \subseteq Threads /\ (t \in Clients \/ t = Server)
  BY ClientsAssumption DEF IndInv, TypeOK, Threads
<1>1. frame[t].at \in {"enter", "host", "replicas"}
  BY DEF FreeStep, FreeHost, HostEnded, HostSleepsOn, ReplicaEnded, In
<1>2. /\ m \in Models
      /\ t \in Clients => load[t].at \in {"free", "cancel"}
  BY <1>0, <1>1 DEF IndInv, FramesInv
<1>3. ASSUME NEW f, frame' = [frame EXCEPT ![t] = f], UNCHANGED load,
             f.at \in {"host", "replicas"}, f.model \in Models,
             f.at = "replicas" => f.on \in Clients
      PROVE  TaskViews
  <2>1. \A c \in Clients : c # t => frame'[c] = frame[c]
    BY <1>0, <1>3
  <2>2. t \in Clients => frame'[t] = f
    BY <1>0, <1>3
  <2>. QED
    BY <1>2, <1>3, <2>1, <2>2 DEF TaskViews, LoadView, FrameView
<1>4. ASSUME NEW freed, Return(t, freed)
      PROVE  TaskViews
  <2>1. frame' = [frame EXCEPT ![t] = NoFrame]
    BY <1>4 DEF Return
  <2>2. \A c \in Clients : c # t => frame'[c] = frame[c]
    BY <1>0, <2>1
  <2>3. t \in Clients => frame'[t].at = "none"
    BY <1>0, <2>1 DEF NoFrame
  <2>4. CASE t \in Clients
    <3>1. load' = [load EXCEPT ![t].at = "failed"]
      BY <1>4, <2>4 DEF Return
    <3>2. /\ load'[t].at = "failed"
          /\ \A c \in Clients : c # t => load'[c] = load[c]
      BY <1>0, <2>4, <3>1 DEF LoadRecords
    <3>. QED
      BY <1>2, <2>2, <2>3, <2>4, <3>2 DEF TaskViews, LoadView, FrameView
  <2>5. CASE t \notin Clients
    <3>1. UNCHANGED load
      BY <1>4, <2>5 DEF Return
    <3>. QED
      BY <2>2, <2>5, <3>1 DEF TaskViews, LoadView, FrameView
  <2>. QED
    BY <2>4, <2>5
<1>5. ASSUME UNCHANGED <<load, frame>> PROVE TaskViews
  BY <1>5 DEF TaskViews, LoadView, FrameView
<1>6. ASSUME NEW visit \in SUBSET Clients, ScanReplicas(t, m, visit)
      PROVE  TaskViews
  <2>1. ASSUME NEW r \in Loading(m), UNCHANGED load,
               frame' = [frame EXCEPT ![t] = Frame("replicas", m, visit \ {r}, r)]
        PROVE  TaskViews
    <3>1. r \in Clients
      BY DEF Loading, Replicas
    <3> DEFINE f == Frame("replicas", m, visit \ {r}, r)
    <3>2. f.at = "replicas" /\ f.model = m /\ f.on = r
      BY <1>2, <3>1, FrameType DEF FramePoints
    <3> HIDE DEF f
    <3>. QED
      BY <1>2, <1>3, <2>1, <3>1, <3>2 DEF f
  <2>. QED
    BY <1>4, <1>5, <1>6, <2>1 DEF ScanReplicas, Crash
<1>7. ASSUME FreeHost(t)
      PROVE  TaskViews
  <2>1. Replicas(m) \in SUBSET Clients
    BY DEF Replicas
  <2>2. ASSUME frame' = [frame EXCEPT ![t].at = "host"], UNCHANGED load
        PROVE  TaskViews
    <3> DEFINE f == [frame[t] EXCEPT !.at = "host"]
    <3>1. f.at = "host" /\ f.model = m
      BY <1>0 DEF FrameRecords
    <3>2. frame' = [frame EXCEPT ![t] = f]
      BY <2>2
    <3> HIDE DEF f
    <3>. QED
      BY <1>2, <1>3, <2>2, <3>1, <3>2
  <2>. QED
    BY <1>4, <1>6, <1>7, <2>1, <2>2 DEF FreeHost
<1>8. ASSUME HostSleepsOn(t)
      PROVE  TaskViews
  <2>1. frame' = [frame EXCEPT ![t].notified = FALSE] /\ UNCHANGED load
    BY <1>8 DEF HostSleepsOn
  <2>2. \A c \in Clients : /\ frame'[c].at = frame[c].at
                           /\ frame'[c].model = frame[c].model
                           /\ frame'[c].on = frame[c].on
    BY <1>0, <2>1 DEF FrameRecords
  <2>. QED
    BY <2>1, <2>2 DEF TaskViews, LoadView, FrameView
<1>9. ASSUME HostEnded(t) \/ ReplicaEnded(t)
      PROVE  TaskViews
  <2>1. Replicas(m) \in SUBSET Clients /\ frame[t].visit \in SUBSET Clients
    BY <1>0 DEF Replicas, FrameRecords
  <2>. QED
    BY <1>6, <1>9, <2>1 DEF HostEnded, ReplicaEnded
<1>. QED
  BY <1>7, <1>8, <1>9 DEF FreeStep

\* A disk task goes on, and others do not notice.
LEMMA DiskViews ==
    ASSUME IndInv, NEW c \in Clients, DiskStep(c) \/ ReadStep(c)
    PROVE  TaskViews
<1> DEFINE m == load[c].model
<1>0. /\ load \in [Clients -> LoadRecords] /\ TypeOK
      /\ frame \in [Threads -> FrameRecords] /\ Clients \subseteq Threads
  BY DEF IndInv, TypeOK, Threads
<1>1. ASSUME UNCHANGED <<load, frame>> PROVE TaskViews
  BY <1>1 DEF TaskViews, LoadView, FrameView
<1>2. ASSUME Crash PROVE TaskViews
  BY <1>1, <1>2 DEF Crash
<1>3. ASSUME NEW at, load' = [load EXCEPT ![c].at = at], UNCHANGED frame,
             load[c].at \in {"allocate", "toHost", "reading"},
             at \in {"toHost", "loaded", "failed"}
      PROVE  TaskViews
  <2>1. load'[c].at = at /\ load'[c].model = m
    BY <1>0, <1>3 DEF LoadRecords
  <2>2. \A d \in Clients : d # c => load'[d] = load[d]
    BY <1>0, <1>3
  <2>. QED
    BY <1>3, <2>1, <2>2 DEF TaskViews, LoadView, FrameView
<1>4. ASSUME NEW at, load' = [load EXCEPT ![c].at = at],
             NEW f, frame' = [frame EXCEPT ![c] = f],
             load[c].at \in {"allocate", "toHost", "reading", "free", "cancel"},
             at \in {"free", "cancel"}, f.at \in {"enter", "cancel"},
             f.model \in Models, f.at = "cancel" => f.on \in Clients
      PROVE  TaskViews
  <2>1. load'[c].at = at /\ load'[c].model = m /\ frame'[c] = f
    BY <1>0, <1>4 DEF LoadRecords
  <2>2. \A d \in Clients : d # c => load'[d] = load[d] /\ frame'[d] = frame[d]
    BY <1>0, <1>4
  <2>3. LoadView(c) /\ FrameView(c)
    BY <1>4, <2>1 DEF LoadView, FrameView
  <2>4. \A d \in Clients : d # c => LoadView(d) /\ FrameView(d)
    BY <2>2 DEF LoadView, FrameView
  <2>. QED
    BY <2>3, <2>4 DEF TaskViews
<1>5. ASSUME CallFreeHost(c), m \in Models,
             load[c].at \in {"toHost", "reading", "free", "cancel"}
      PROVE  TaskViews
  <2> DEFINE f == Frame("enter", m, {}, Null)
  <2>1. f.at = "enter" /\ f.model = m
    BY <1>5, FrameType DEF FramePoints
  <2>2. load' = [load EXCEPT ![c].at = "free"] /\ frame' = [frame EXCEPT ![c] = f]
    BY <1>5 DEF CallFreeHost, Enter
  <2> HIDE DEF f
  <2>. QED
    BY <1>4, <1>5, <2>1, <2>2
<1>6. ASSUME NEW n \in Models, NEW visit \in SUBSET Clients, NEW state,
             CancelReplicas(c, n, visit, state), m \in Models,
             load[c].at \in {"reading", "free", "cancel"}
      PROVE  TaskViews
  <2>1. ASSUME NEW r \in Replicas(n), load' = [load EXCEPT ![c].at = "cancel"],
               frame' = [frame EXCEPT ![c] = Frame("cancel", n, visit \ {r}, r)]
        PROVE  TaskViews
    <3>1. r \in Clients
      BY DEF Replicas
    <3> DEFINE f == Frame("cancel", n, visit \ {r}, r)
    <3>2. f.at = "cancel" /\ f.model = n /\ f.on = r
      BY <3>1, FrameType DEF FramePoints
    <3> HIDE DEF f
    <3>. QED
      BY <1>4, <1>6, <2>1, <3>1, <3>2 DEF f
  <2>. QED
    BY <1>5, <1>6, <2>1 DEF CancelReplicas
<1>7. ASSUME DiskBegin(c) PROVE TaskViews
  <2>1. client[c].path \in Paths /\ load[c].at = "begin" /\ UNCHANGED frame
    BY <1>7 DEF DiskBegin, Disk, IndInv, ClientsInv
  <2>2. \A d \in Clients : d # c => load'[d] = load[d]
    BY <1>0, <1>7 DEF DiskBegin
  <2>3. CASE Registered(client[c].path)
    <3>1. load' = [load EXCEPT ![c].model = model_map_[client[c].path],
                               ![c].at = "allocate"]
      BY <1>7, <2>3 DEF DiskBegin
    <3>2. model_map_[client[c].path] \in Models
      BY <1>0, <2>1, <2>3 DEF TypeOK, Registered
    <3>3. load'[c].at = "allocate" /\ load'[c].model \in Models
      BY <1>0, <3>1, <3>2 DEF LoadRecords
    <3>. QED
      BY <2>1, <2>2, <3>3 DEF TaskViews, LoadView, FrameView
  <2>4. CASE ~Registered(client[c].path)
    <3>1. load' = [load EXCEPT ![c].at = "failed"]
      BY <1>7, <2>4 DEF DiskBegin
    <3>2. load'[c].at = "failed"
      BY <1>0, <3>1 DEF LoadRecords
    <3>. QED
      BY <2>1, <2>2, <3>2 DEF TaskViews, LoadView, FrameView
  <2>. QED
    BY <2>3, <2>4
<1>8. ASSUME KeepMemory(c) \/ AlreadyRead(c) PROVE TaskViews
  BY <1>3, <1>8 DEF KeepMemory, AlreadyRead, Disk
<1>9. ASSUME Allocate(c) PROVE TaskViews
  <2>1. load[c].at = "allocate"
    BY <1>9 DEF Allocate, Disk
  <2>2. ASSUME ~Crash
        PROVE  /\ \E at \in {"toHost", "failed"} : load' = [load EXCEPT ![c].at = at]
               /\ UNCHANGED frame
    BY <1>9, <2>2 DEF Allocate
  <2>. QED
    BY <1>2, <1>3, <2>1, <2>2
<1>10. ASSUME ToHostFails(c) PROVE TaskViews
  BY <1>5, <1>10 DEF ToHostFails, Disk, IndInv, LoadsInv
<1>11. ASSUME ToHost(c), ~Crash PROVE TaskViews
  <2>1. /\ load' = [load EXCEPT ![c].at = "reading", ![c].unread = Chunks(m),
                        ![c].error = FALSE, ![c].target = pinned_mem_[m]]
        /\ host_ptr_vector_' = [host_ptr_vector_ EXCEPT ![m] = << >>]
        /\ load[c].at = "toHost" /\ UNCHANGED frame
    BY <1>11 DEF ToHost, Disk
  <2>2. \A d \in Clients : d # c => load'[d] = load[d]
    BY <1>0, <2>1
  <2> DEFINE rec == [load[c] EXCEPT !.at = "reading", !.unread = Chunks(m),
                        !.error = FALSE, !.target = pinned_mem_[m]]
  <2>3. rec.at = "reading" /\ rec.model = m /\ rec.unread = Chunks(m)
    BY <1>0 DEF LoadRecords
  <2>4. load' = [load EXCEPT ![c] = rec]
    BY <2>1
  <2> HIDE DEF rec
  <2>5. load'[c] = rec
    BY <1>0, <2>4
  <2>6. m \in Models
    BY <2>1 DEF IndInv, LoadsInv
  <2>7. host_ptr_vector_'[m] = << >>
    BY <1>0, <2>1, <2>6 DEF TypeOK, MemoryType
  <2>. QED
    BY <2>1, <2>2, <2>3, <2>5, <2>7 DEF TaskViews, LoadView, FrameView
<1>12. ASSUME ReadersDone(c) PROVE TaskViews
  <2>1. load[c].at = "reading" /\ m \in Models
    BY <1>12 DEF ReadersDone, Disk, IndInv, LoadsInv
  <2>2. CASE load[c].error
    <3>1. Replicas(m) \in SUBSET Clients
      BY DEF Replicas
    <3>2. CancelReplicas(c, m, Replicas(m), [state_ EXCEPT ![m] = "INTERRUPTED"])
      BY <1>12, <2>2 DEF ReadersDone
    <3>. QED
      BY <1>6, <2>1, <3>1, <3>2
  <2>3. CASE ~load[c].error
    BY <1>3, <1>12, <2>1, <2>3 DEF ReadersDone
  <2>. QED
    BY <2>2, <2>3
<1>13. ASSUME CancelledEnded(c) PROVE TaskViews
  <2>1. /\ frame[c].model \in Models /\ load[c].at \in {"free", "cancel"}
        /\ m \in Models /\ frame[c].visit \in SUBSET Clients
    BY <1>0, <1>13 DEF CancelledEnded, In, IndInv, FramesInv, LoadsInv, FrameRecords
  <2>2. CancelReplicas(c, frame[c].model, frame[c].visit, state_)
    BY <1>13 DEF CancelledEnded
  <2>. QED
    BY <1>6, <2>1, <2>2
<1>14. ASSUME ReadStep(c) PROVE TaskViews
  <2>1. ASSUME NEW new \in SUBSET load[c].unread, UNCHANGED frame,
               \/ load' = [load EXCEPT ![c].unread = new]
               \/ load' = [load EXCEPT ![c].error = TRUE, ![c].unread = new]
        PROVE  TaskViews
    <3>1. /\ load'[c].at = load[c].at /\ load'[c].model = m
          /\ load'[c].unread = new
      BY <1>0, <2>1 DEF LoadRecords
    <3>2. \A d \in Clients : d # c => load'[d] = load[d]
      BY <1>0, <2>1
    <3>. QED
      BY <2>1, <3>1, <3>2 DEF TaskViews, LoadView, FrameView
  <2>2. ASSUME NEW i \in load[c].unread, ReadChunk(c, i)
        PROVE  TaskViews
    <3>1. ~Crash => /\ load' = [load EXCEPT ![c].unread = @ \ {i}]
                    /\ UNCHANGED frame
      BY <2>2 DEF ReadChunk
    <3>. QED
      BY <1>2, <2>1, <3>1
  <2>3. ASSUME NEW i \in load[c].unread, ReadFails(c, i)
        PROVE  TaskViews
    BY <2>1, <2>3 DEF ReadFails
  <2>. QED
    BY <1>14, <2>2, <2>3 DEF ReadStep
<1>. QED
  BY <1>2, <1>7, <1>8, <1>9, <1>10, <1>11, <1>12, <1>13, <1>14 DEF DiskStep

\* A replica's task wakes up a thread that waits for the model.
LEMMA ReplicaViews ==
    ASSUME IndInv, NEW c \in Clients, ReplicaStep(c) \/ DeviceStep(c)
    PROVE  /\ UNCHANGED load
           /\ \A t \in Threads : /\ frame'[t].at = frame[t].at
                                 /\ frame'[t].model = frame[t].model
                                 /\ frame'[t].on = frame[t].on
<1>1. frame \in [Threads -> FrameRecords]
  BY DEF IndInv, TypeOK
<1>2. CASE ToGpu(c)
  BY <1>1, <1>2 DEF ToGpu, FrameRecords
<1>3. CASE ~ToGpu(c)
  <2>1. UNCHANGED <<load, frame>>
    BY <1>3 DEF ReplicaStep, DeviceStep, Crash, ReplicaBegin, Plan, Dispatch,
                ReplicaDone, FreeGpu, DeviceStart, Copy
  <2>. QED
    BY <2>1
<1>. QED
  BY <1>2, <1>3

\* Every step is one of these.
LEMMA TaskViewsStep ==
    ASSUME IndInv, [Next]_vars
    PROVE  TaskViews
<1>1. CASE UNCHANGED vars
  BY <1>1 DEF vars, TaskViews, LoadView, FrameView
<1>2. ASSUME NEW c \in Clients, ReplicaStep(c) \/ DeviceStep(c)
      PROVE  TaskViews
  BY <1>2, ReplicaViews DEF TaskViews, LoadView, FrameView, Threads
<1>. QED
  BY <1>1, <1>2, RequestViews, FreeViews, DiskViews DEF Next

\* What a step does to a client: its path stays once it has one.
ClientView(c) ==
    \/ client'[c].next = client[c].next /\ client'[c].path = client[c].path
    \/ client'[c].next # "cpu" /\ client'[c].path \in Paths

\* Every step treats every client in one of these ways.
LEMMA ClientViewStep ==
    ASSUME IndInv, [Next]_vars
    PROVE  \A c \in Clients : ClientView(c)
<1>0. client \in [Clients -> ClientRecords]
  BY DEF IndInv, TypeOK
<1>1. ASSUME UNCHANGED client
      PROVE  \A d \in Clients : ClientView(d)
  BY <1>1 DEF ClientView
<1>2. ASSUME NEW c \in Clients, NEW p \in Paths, LoadIntoCpu(c, p)
      PROVE  \A d \in Clients : ClientView(d)
  <2> DEFINE next == IF c \in GpuClients THEN "gpu" ELSE "end"
  <2>1. client' = [client EXCEPT ![c].path = p, ![c].next = next]
    BY <1>2 DEF LoadIntoCpu
  <2>2. next # "cpu"
    OBVIOUS
  <2> HIDE DEF next
  <2>3. client'[c].path = p /\ client'[c].next = next
    BY <1>0, <2>1 DEF ClientRecords
  <2>4. \A d \in Clients : d # c => client'[d] = client[d]
    BY <1>0, <2>1
  <2>. QED
    BY <2>2, <2>3, <2>4 DEF ClientView
<1>3. ASSUME NEW c \in Clients, client[c].next # "cpu",
             \/ \E next \in {"confirm", "unconfirmed", "confirmed"} :
                  client' = [client EXCEPT ![c].next = next]
             \/ client' = [client EXCEPT ![c].tries = @ - 1]
      PROVE  \A d \in Clients : ClientView(d)
  <2>1. client[c].path \in Paths
    BY <1>3 DEF IndInv, ClientsInv
  <2>2. /\ client'[c].path = client[c].path
        /\ client'[c].next # "cpu"
    BY <1>0, <1>3 DEF ClientRecords
  <2>3. \A d \in Clients : d # c => client'[d] = client[d]
    BY <1>0, <1>3
  <2>. QED
    BY <2>1, <2>2, <2>3 DEF ClientView
<1>4. ASSUME NEW c \in Clients, LoadIntoGpu(c) \/ Confirm(c) \/ ConfirmFails(c)
      PROVE  \A d \in Clients : ClientView(d)
  BY <1>1, <1>3, <1>4 DEF LoadIntoGpu, Confirm, ConfirmFails
<1>5. ASSUME ConfirmReturns
      PROVE  \A d \in Clients : ClientView(d)
  <2> DEFINE c == frame[Server].on
  <2>1. c \in Clients /\ client[c].next = "confirm"
    BY <1>5 DEF ConfirmReturns, In, IndInv, FramesInv, ServerInv, Threads
  <2>2. \/ client' = [client EXCEPT ![c].next = "confirmed"]
        \/ client' = [client EXCEPT ![c].tries = @ - 1]
    BY <1>5 DEF ConfirmReturns, Answer
  <2> HIDE DEF c
  <2>. QED
    BY <1>3, <2>1, <2>2
<1>6. ASSUME NEW t \in Threads, FreeStep(t)
      PROVE  \A d \in Clients : ClientView(d)
  BY <1>1, <1>6 DEF FreeStep, FreeHost, HostEnded, HostSleepsOn, ReplicaEnded,
                    ScanReplicas, Crash
<1>7. ASSUME NEW c \in Clients,
             DiskStep(c) \/ ReadStep(c) \/ ReplicaStep(c) \/ DeviceStep(c)
      PROVE  \A d \in Clients : ClientView(d)
  BY <1>1, <1>7 DEF DiskStep, ReadStep, DiskBegin, KeepMemory, Allocate, AlreadyRead,
     ToHostFails, ToHost, ReadersDone, CancelledEnded, ReadChunk, ReadFails,
     ReplicaStep, DeviceStep, ReplicaBegin, ToGpu, Plan, Dispatch,
     ReplicaDone, FreeGpu, DeviceStart, Copy, Crash
<1>8. ASSUME UNCHANGED vars
      PROVE  \A d \in Clients : ClientView(d)
  BY <1>1, <1>8 DEF vars
<1>9. ASSUME Request \/ ServerStep
      PROVE  \A d \in Clients : ClientView(d)
  BY <1>1, <1>2, <1>4, <1>5, <1>9
     DEF Request, ServerStep, RequestUnload, ClearMem, Unload, ClearNext,
         ReplicaFound, Cleared
<1>. QED
  BY <1>6, <1>7, <1>8, <1>9 DEF Next

\* The vector of a model is never taken away.
LEMMA VectorStep ==
    ASSUME IndInv, [Next]_vars
    PROVE  \A m \in Models : host_ptr_vector_[m] \in Seq(Chunks(m)) =>
                               host_ptr_vector_'[m] \in Seq(Chunks(m))
<1> DEFINE Kept == UNCHANGED host_ptr_vector_
<1>0. host_ptr_vector_ \in [Models -> {Null} \cup Seq(Nat)]
  BY DEF IndInv, TypeOK, MemoryType
<1>1. ASSUME NEW c \in Clients, ToHost(c), ~Crash
      PROVE  \A m \in Models : host_ptr_vector_[m] \in Seq(Chunks(m)) =>
                               host_ptr_vector_'[m] \in Seq(Chunks(m))
  <2>1. host_ptr_vector_' = [host_ptr_vector_ EXCEPT ![load[c].model] = << >>]
    BY <1>1 DEF ToHost
  <2>2. \A S : << >> \in Seq(S)
    OBVIOUS
  <2>. QED
    BY <1>0, <2>1, <2>2
<1>2. ASSUME NEW c \in Clients, NEW i \in load[c].unread, ReadChunk(c, i), ~Crash
      PROVE  \A m \in Models : host_ptr_vector_[m] \in Seq(Chunks(m)) =>
                               host_ptr_vector_'[m] \in Seq(Chunks(m))
  <2> DEFINE n == load[c].model
  <2>1. n \in Models /\ i \in Chunks(n) /\ host_ptr_vector_[n] \in Seq(Chunks(n))
    BY <1>2 DEF ReadChunk, NextChunk, Disk, IndInv, LoadsInv
  <2>2. Append(host_ptr_vector_[n], i) \in Seq(Chunks(n))
    BY <2>1, AppendProperties
  <2>3. \A m \in Models :
          host_ptr_vector_'[m] = IF m = n /\ i \notin ToSet(host_ptr_vector_[n])
                                 THEN Append(host_ptr_vector_[n], i)
                                 ELSE host_ptr_vector_[m]
    BY <1>0, <1>2, <2>1 DEF ReadChunk
  <2>. QED
    BY <2>2, <2>3
<1>3. ASSUME Crash PROVE Kept
  BY <1>3 DEF Crash, memory
<1>4. ASSUME Request \/ ServerStep PROVE Kept
  BY <1>4 DEF Request, ServerStep, LoadIntoCpu, LoadIntoGpu, RequestUnload,
     ClearMem, Confirm, ConfirmFails, Unload, ClearNext, ReplicaFound,
     ConfirmReturns, Answer, Cleared, memory
<1>5. ASSUME NEW t \in Threads, FreeStep(t) PROVE Kept
  BY <1>5, <1>3 DEF FreeStep, FreeHost, HostEnded, HostSleepsOn, ReplicaEnded,
     ScanReplicas, Reallocate, memory
<1>6. ASSUME NEW c \in Clients, DiskStep(c), ~ToHost(c) PROVE Kept
  BY <1>3, <1>6 DEF DiskStep, DiskBegin, KeepMemory, Allocate, AlreadyRead,
     ToHostFails, ReadersDone, CancelledEnded, CancelReplicas, Reallocate, memory
<1>7. ASSUME NEW c \in Clients, ReplicaStep(c) \/ DeviceStep(c) PROVE Kept
  BY <1>3, <1>7 DEF ReplicaStep, DeviceStep, ReplicaBegin, ToGpu, Plan, Dispatch,
     ReplicaDone, FreeGpu, DeviceStart, Copy, memory
<1>8. ASSUME NEW c \in Clients, NEW i \in load[c].unread, ReadFails(c, i) PROVE Kept
  BY <1>8 DEF ReadFails, memory
<1>9. ASSUME UNCHANGED vars PROVE Kept
  BY <1>9 DEF vars, memory
<1>. QED
  BY <1>1, <1>2, <1>3, <1>4, <1>5, <1>6, <1>7, <1>8, <1>9 DEF Next, ReadStep

\* The disk tasks and the replicas stay about what they are about.
LEMMA TasksStep ==
    ASSUME IndInv, [Next]_vars
    PROVE  ClientsInv' /\ LoadsInv' /\ ReplicasInv'
<1>1. ASSUME NEW c \in Clients
      PROVE  /\ load'[c].at # "none" \/ replica'[c].at # "none"
                  => client'[c].next # "cpu"
             /\ client'[c].next # "cpu" => client'[c].path \in Paths
  <2>1. ClientView(c) /\ LoadView(c) /\ ReplicaView(c)
    BY ClientViewStep, TaskViewsStep, ReplicaViewStep DEF TaskViews
  <2>2. /\ load[c].at # "none" \/ replica[c].at # "none"
             => client[c].next # "cpu"
        /\ client[c].next # "cpu" => client[c].path \in Paths
    BY DEF IndInv, ClientsInv
  <2>3. load'[c].at # "none" => client'[c].next # "cpu"
    BY <2>1, <2>2 DEF ClientView, LoadView
  <2>4. replica'[c].at # "none" => client'[c].next # "cpu"
    BY <2>1, <2>2 DEF ClientView, ReplicaView
  <2>. QED
    BY <2>1, <2>2, <2>3, <2>4 DEF ClientView
<1>2. ASSUME NEW c \in Clients
      PROVE  /\ load'[c].at \in {"allocate", "toHost", "reading", "cancel", "free"}
                  => load'[c].model \in Models
             /\ load'[c].at = "reading" =>
                  /\ load'[c].unread \subseteq Chunks(load'[c].model)
                  /\ host_ptr_vector_'[load'[c].model] \in
                       Seq(Chunks(load'[c].model))
  <2> DEFINE m == load[c].model
  <2>1. LoadView(c)
    BY TaskViewsStep DEF TaskViews
  <2>2. /\ load[c].at \in {"allocate", "toHost", "reading", "cancel", "free"}
             => m \in Models
        /\ load[c].at = "reading" => /\ load[c].unread \subseteq Chunks(m)
                                     /\ host_ptr_vector_[m] \in Seq(Chunks(m))
    BY DEF IndInv, LoadsInv
  <2>3. load'[c].at \in {"allocate", "toHost", "reading", "cancel", "free"}
          => load'[c].model \in Models
    BY <2>1, <2>2 DEF LoadView
  <2>4. ASSUME load'[c].at = "reading"
        PROVE  /\ load'[c].model = m /\ m \in Models
               /\ \/ load[c].at = "reading" /\ load'[c].unread \subseteq load[c].unread
                  \/ load'[c].unread = Chunks(m) /\ host_ptr_vector_'[m] = << >>
    BY <2>1, <2>2, <2>4 DEF LoadView
  <2>5. \A S : << >> \in Seq(S)
    OBVIOUS
  <2> HIDE DEF m
  <2>. QED
    BY <2>2, <2>3, <2>4, <2>5, VectorStep
<1>3. ASSUME NEW c \in Clients
      PROVE  replica'[c].at \in {"toGpu", "plan", "dispatch", "join", "loaded",
                                 "freeGpu"} => replica'[c].model \in Models
  <2>1. ReplicaView(c)
    BY ReplicaViewStep
  <2>. QED
    BY <2>1 DEF ReplicaView, IndInv, ReplicasInv
<1>. QED
  BY <1>1, <1>2, <1>3 DEF ClientsInv, LoadsInv, ReplicasInv

\* The call of the event loop goes on as its frame says.
LEMMA ServerStays ==
    ASSUME IndInv,
           frame'[Server].at = frame[Server].at,
           frame'[Server].model = frame[Server].model,
           frame'[Server].on = frame[Server].on,
           server'.op = server.op, server'.of = server.of,
           server.op = "unload" => server'.retries = server.retries,
           server.op # "idle" => UNCHANGED client,
           \A p \in Paths : Registered(p) => Registered(p)'
    PROVE  /\ ServerInv'
           /\ frame'[Server].at # "none" => frame'[Server].model \in Models
           /\ frame'[Server].at \in {"replicas", "cancel", "appear", "replica"}
                => frame'[Server].on \in Clients
<1>1. ServerInv /\ FramesInv
  BY DEF IndInv
<1>2. /\ frame[Server].at # "none" => frame[Server].model \in Models
      /\ frame[Server].at \in {"replicas", "cancel", "appear", "replica"}
           => frame[Server].on \in Clients
  BY <1>1 DEF FramesInv, Threads
<1>3. frame'[Server].at \in {"appear", "replica"} =>
        /\ server'.op = "confirm"
        /\ client'[frame'[Server].on].next = "confirm"
        /\ client'[frame'[Server].on].tries > 0
  BY <1>1 DEF ServerInv
<1>4. server'.op = "unload" => /\ server'.of \in Paths
                               /\ server'.retries[server'.of] > 0
  BY <1>1 DEF ServerInv
<1>5. server'.op = "clear" => /\ server'.of \subseteq Paths
                              /\ \A p \in server'.of : Registered(p)'
  BY <1>1 DEF ServerInv
<1>6. /\ frame'[Server].at # "cancel"
      /\ frame'[Server].at \in {"enter", "host", "replicas"} =>
           server'.op \in {"unload", "clear"}
  BY <1>1 DEF ServerInv
<1>. QED
  BY <1>2, <1>3, <1>4, <1>5, <1>6 DEF ServerInv

\* The call of the event loop is in one wait of FreeHost after the other.
LEMMA ServerWaits ==
    ASSUME IndInv, NEW f, frame' = [frame EXCEPT ![Server] = f],
           f.at \in {"enter", "host", "replicas"}, f.model \in Models,
           f.at = "replicas" => f.on \in Clients,
           server'.op \in {"unload", "clear"},
           server'.op = "unload" => /\ server'.of \in Paths
                                    /\ server'.retries[server'.of] > 0,
           server'.op = "clear" => /\ server'.of \subseteq Paths
                                   /\ \A p \in server'.of : Registered(p),
           UNCHANGED <<client, model_map_>>
    PROVE  /\ ServerInv'
           /\ frame'[Server].at # "none" => frame'[Server].model \in Models
           /\ frame'[Server].at \in {"replicas", "cancel", "appear", "replica"}
                => frame'[Server].on \in Clients
<1>1. frame'[Server] = f
  BY DEF IndInv, TypeOK, Threads
<1>2. \A p \in Paths : Registered(p)' = Registered(p)
  BY DEF Registered
<1>3. server'.op = "clear" => /\ server'.of \subseteq Paths
                              /\ \A p \in server'.of : Registered(p)'
  BY <1>2
<1>. QED
  BY <1>1, <1>3 DEF ServerInv

\* The call of the event loop is over, or ClearMem is between two models.
LEMMA ServerReturns ==
    ASSUME IndInv, frame'[Server] = NoFrame,
           \/ server'.op = "idle"
           \/ /\ server'.op = "clear" /\ server'.of \subseteq Paths
              /\ \A p \in server'.of : Registered(p)'
    PROVE  /\ ServerInv'
           /\ frame'[Server].at # "none" => frame'[Server].model \in Models
           /\ frame'[Server].at \in {"replicas", "cancel", "appear", "replica"}
                => frame'[Server].on \in Clients
<1>1. frame'[Server].at = "none"
  BY DEF NoFrame
<1>. QED
  BY <1>1 DEF ServerInv

\* The event loop and its frame stay in step.
LEMMA ServerRequests ==
    ASSUME IndInv, Request \/ ServerStep
    PROVE  /\ ServerInv'
           /\ frame'[Server].at # "none" => frame'[Server].model \in Models
           /\ frame'[Server].at \in {"replicas", "cancel", "appear", "replica"}
                => frame'[Server].on \in Clients
<1> DEFINE Good ==
        /\ ServerInv'
        /\ frame'[Server].at # "none" => frame'[Server].model \in Models
        /\ frame'[Server].at \in {"replicas", "cancel", "appear", "replica"}
             => frame'[Server].on \in Clients
<1>0. /\ frame \in [Threads -> FrameRecords] /\ Server \in Threads
      /\ server \in ServerRecords /\ client \in [Clients -> ClientRecords]
      /\ model_map_ \in [Paths -> {Null} \cup Models]
  BY DEF IndInv, TypeOK, Threads
<1>1. \A p \in Paths : Registered(p) => model_map_[p] \in Models
  BY <1>0 DEF Registered
<1>2. ASSUME UNCHANGED <<server, frame>>, server.op = "idle",
             \A p \in Paths : Registered(p) => Registered(p)'
      PROVE  Good
  BY <1>2, ServerStays
<1>3. ASSUME UNCHANGED model_map_
      PROVE  \A p \in Paths : Registered(p)' = Registered(p)
  BY <1>3 DEF Registered
<1>4. ASSUME NEW c \in Clients, NEW p \in Paths, LoadIntoCpu(c, p)
      PROVE  Good
  <2>1. \A q \in Paths : Registered(q) => Registered(q)'
    BY <1>4, RegisterType DEF LoadIntoCpu, IndInv
  <2> HIDE DEF Good
  <2>. QED
    BY <1>2, <1>4, <2>1 DEF LoadIntoCpu, Serving
<1>5. ASSUME NEW c \in Clients, LoadIntoGpu(c)
      PROVE  Good
  <2>1. client[c].path \in Paths
    BY <1>5 DEF LoadIntoGpu, IndInv, ClientsInv
  <2>2. \A q \in Paths : Registered(q) => Registered(q)'
    BY <1>5, <2>1, RegisterType DEF LoadIntoGpu, IndInv
  <2> HIDE DEF Good
  <2>. QED
    BY <1>2, <1>5, <2>2 DEF LoadIntoGpu, Serving
<1>6. ASSUME NEW p \in Paths, RequestUnload(p)
      PROVE  Good
  <2>1. /\ UNCHANGED <<frame, client, model_map_>>
        /\ server' = [server EXCEPT !.unloads[p] = @ - 1, !.retries[p] = MaxTries]
        /\ server.retries[p] = 0
    BY <1>6 DEF RequestUnload, store
  <2>2. server'.op = server.op /\ server'.of = server.of
    BY <1>0, <2>1 DEF ServerRecords
  <2>3. \A q \in Paths : q # p => server'.retries[q] = server.retries[q]
    BY <1>0, <2>1 DEF ServerRecords
  <2>4. ServerInv
    BY DEF IndInv
  <2>5. server.op = "unload" => /\ server.of # p
                                /\ server.of \in Paths
                                /\ server.retries[server.of] > 0
    BY <2>1, <2>4 DEF ServerInv
  <2>6. server.op = "unload" => server'.retries[server.of] > 0
    BY <2>3, <2>5
  <2>7. ServerInv'
    BY <1>3, <2>1, <2>2, <2>4, <2>5, <2>6 DEF ServerInv
  <2>. QED
    BY <2>1, <2>7 DEF IndInv, FramesInv, Threads
<1>7. ASSUME ClearMem
      PROVE  Good
  <2>1. /\ UNCHANGED <<frame, client, model_map_>> /\ server.op = "idle"
        /\ server'.op = "clear" /\ server'.of = {p \in Paths : Registered(p)}
    BY <1>0, <1>7 DEF ClearMem, store, Serving, ServerRecords
  <2>2. frame[Server].at = "none"
    <3>1. ServerInv /\ frame[Server].at \in FramePoints
      BY <1>0 DEF IndInv, FrameRecords
    <3>. QED
      BY <2>1, <3>1 DEF ServerInv, FramePoints
  <2>3. \A p \in server'.of : Registered(p)'
    BY <1>3, <2>1
  <2>. QED
    BY <2>1, <2>2, <2>3 DEF ServerInv
<1>8. ASSUME NEW c \in Clients, Confirm(c)
      PROVE  Good
  <2> DEFINE p == client[c].path
             m == model_map_[p]
             f == Frame("appear", m, {}, c)
  <2>1. p \in Paths
    BY <1>8 DEF Confirm, IndInv, ClientsInv
  <2>2. CASE ~Registered(p)
    BY <1>2, <1>3, <1>8, <2>2 DEF Confirm, Serving, store
  <2>3. CASE Registered(p)
    <3>1. m \in Models
      BY <1>1, <2>1, <2>3
    <3>2. f.at = "appear" /\ f.model = m /\ f.on = c
      BY <3>1, FrameType DEF FramePoints
    <3>3. /\ frame' = [frame EXCEPT ![Server] = f] /\ UNCHANGED client
          /\ Calling("confirm", c)
          /\ client[c].next = "confirm" /\ client[c].tries > 0
      BY <1>8, <2>3 DEF Confirm
    <3>4. server'.op = "confirm"
      BY <1>0, <3>3 DEF Calling, ServerRecords
    <3> HIDE DEF f, m
    <3>5. frame'[Server] = f
      BY <1>0, <3>3
    <3>. QED
      BY <3>1, <3>2, <3>3, <3>4, <3>5 DEF ServerInv
  <2>. QED
    BY <2>2, <2>3
<1>9. ASSUME NEW c \in Clients, ConfirmFails(c)
      PROVE  Good
  BY <1>2, <1>3, <1>9 DEF ConfirmFails, Serving, store
<1>10. ASSUME NEW p \in Paths, Unload(p)
       PROVE  Good
  <2>1. CASE ~Registered(p)
    <3>1. /\ server' = [server EXCEPT !.retries[p] = @ - 1] /\ server.op = "idle"
          /\ UNCHANGED <<frame, client, model_map_>>
      BY <1>10, <2>1 DEF Unload, Serving, store
    <3>2. server'.op = server.op /\ server'.of = server.of
      BY <1>0, <3>1 DEF ServerRecords
    <3> HIDE DEF Good
    <3>3. \A q \in Paths : Registered(q) => Registered(q)'
      BY <1>3, <3>1
    <3>. QED
      BY <3>1, <3>2, <3>3, ServerStays DEF Good
  <2>2. CASE Registered(p)
    <3> DEFINE m == model_map_[p]
               f == Frame("enter", m, {}, Null)
    <3>1. m \in Models
      BY <1>1, <2>2
    <3>2. f.at = "enter" /\ f.model = m
      BY <3>1, FrameType DEF FramePoints
    <3>3. /\ frame' = [frame EXCEPT ![Server] = f]
          /\ UNCHANGED <<client, model_map_>>
          /\ server' = [server EXCEPT !.op = "unload", !.of = p]
          /\ server.retries[p] > 0
      BY <1>10, <2>2 DEF Unload, Enter, Calling, store
    <3>4. /\ server'.op = "unload" /\ server'.of = p
          /\ server'.retries = server.retries
      BY <1>0, <3>3 DEF ServerRecords
    <3> HIDE DEF f, m, Good
    <3>5. server'.op \in {"unload", "clear"}
      BY <3>4
    <3>. QED
      BY <3>1, <3>2, <3>3, <3>4, <3>5, ServerWaits DEF Good
  <2>. QED
    BY <2>1, <2>2
<1>11. ASSUME NEW p \in Paths, ClearNext(p)
       PROVE  Good
  <2> DEFINE m == model_map_[p]
             f == Frame("enter", m, {}, Null)
  <2>1. server.op = "clear" /\ server.of \subseteq Paths /\ p \in server.of
        /\ \A q \in server.of : Registered(q)
    BY <1>11 DEF ClearNext, Serving, IndInv, ServerInv
  <2>2. m \in Models
    BY <1>1, <2>1
  <2>3. f.at = "enter" /\ f.model = m
    BY <2>2, FrameType DEF FramePoints
  <2>4. /\ frame' = [frame EXCEPT ![Server] = f]
        /\ UNCHANGED <<client, model_map_>>
        /\ server' = [server EXCEPT !.of = @ \ {p}]
    BY <1>11 DEF ClearNext, Enter, store
  <2>5. server'.op = "clear" /\ server'.of \subseteq server.of
    BY <1>0, <2>1, <2>4 DEF ServerRecords
  <2> HIDE DEF f, m, Good
  <2>6. /\ server'.op \in {"unload", "clear"}
        /\ server'.op # "unload"
        /\ server'.of \subseteq Paths /\ \A q \in server'.of : Registered(q)
    BY <2>1, <2>5
  <2>. QED
    BY <2>2, <2>3, <2>4, <2>6, ServerWaits DEF Good
<1>12. ASSUME ReplicaFound
       PROVE  Good
  <2> DEFINE f == [frame[Server] EXCEPT !.at = "replica"]
  <2>1. /\ frame' = [frame EXCEPT ![Server] = f]
        /\ UNCHANGED <<client, model_map_, server>>
        /\ frame[Server].at = "appear"
    BY <1>12 DEF ReplicaFound, In, store
  <2>2. /\ frame[Server].model \in Models /\ frame[Server].on \in Clients
        /\ server.op = "confirm" /\ client[frame[Server].on].next = "confirm"
        /\ client[frame[Server].on].tries > 0
    BY <2>1 DEF IndInv, FramesInv, ServerInv, Threads
  <2>3. f.at = "replica" /\ f.model = frame[Server].model /\ f.on = frame[Server].on
    BY <1>0 DEF FrameRecords
  <2> HIDE DEF f
  <2>4. frame'[Server] = f
    BY <1>0, <2>1
  <2>. QED
    BY <2>1, <2>2, <2>3, <2>4 DEF ServerInv
<1>13. ASSUME ConfirmReturns
       PROVE  Good
  <2>1. frame' = [frame EXCEPT ![Server] = NoFrame] /\ Calling("idle", Null)
    BY <1>13 DEF ConfirmReturns, Answer
  <2>2. frame'[Server] = NoFrame /\ server'.op = "idle"
    BY <1>0, <2>1 DEF Calling, ServerRecords
  <2>. QED
    BY <2>2, ServerReturns
<1>14. ASSUME Cleared
       PROVE  Good
  <2>1. UNCHANGED frame /\ frame[Server] = NoFrame /\ Calling("idle", Null)
    BY <1>14 DEF Cleared
  <2>2. frame'[Server] = NoFrame /\ server'.op = "idle"
    BY <1>0, <2>1 DEF Calling, ServerRecords
  <2>. QED
    BY <2>2, ServerReturns
<1> HIDE DEF Good
<1>15. Good
  BY <1>4, <1>5, <1>6, <1>7, <1>8, <1>9, <1>10, <1>11, <1>12, <1>13, <1>14
     DEF Request, ServerStep
<1>. QED
  BY <1>15 DEF Good

\* FreeHost on the event loop ends or goes on waiting.
LEMMA ServerFrees ==
    ASSUME IndInv, NEW t \in Threads, FreeStep(t)
    PROVE  /\ ServerInv'
           /\ frame'[Server].at # "none" => frame'[Server].model \in Models
           /\ frame'[Server].at \in {"replicas", "cancel", "appear", "replica"}
                => frame'[Server].on \in Clients
<1> DEFINE m == frame[t].model
           Good ==
             /\ ServerInv'
             /\ frame'[Server].at # "none" => frame'[Server].model \in Models
             /\ frame'[Server].at \in {"replicas", "cancel", "appear", "replica"}
                  => frame'[Server].on \in Clients
<1>0. /\ frame \in [Threads -> FrameRecords] /\ Server \in Threads
      /\ server \in ServerRecords /\ Server \notin Clients
      /\ t \in Clients \/ t = Server
      /\ ServerInv
  BY ClientsAssumption DEF IndInv, TypeOK, Threads
<1>1. UNCHANGED <<client, model_map_>>
  BY DEF FreeStep, FreeHost, HostEnded, HostSleepsOn, ReplicaEnded,
         ScanReplicas, Crash, store
<1>2. \A p \in Paths : Registered(p)' = Registered(p)
  BY <1>1 DEF Registered
<1>3. CASE t \in Clients
  <2>1. t # Server
    BY <1>0, <1>3
  <2>2. UNCHANGED server \/ Crash
    BY <1>3 DEF FreeStep, FreeHost, HostEnded, HostSleepsOn, ReplicaEnded,
                ScanReplicas, Return
  <2>3. /\ server'.op = server.op /\ server'.of = server.of
        /\ server'.retries = server.retries
    BY <1>0, <2>2 DEF Crash, ServerRecords
  <2>4. \/ UNCHANGED frame \/ \E f : frame' = [frame EXCEPT ![t] = f]
        \/ frame' = [frame EXCEPT ![t].at = "host"]
        \/ frame' = [frame EXCEPT ![t].notified = FALSE]
    BY DEF FreeStep, FreeHost, HostEnded, HostSleepsOn, ReplicaEnded,
           ScanReplicas, Return, Crash
  <2>5. frame'[Server] = frame[Server]
    BY <1>0, <2>1, <2>4
  <2>. QED
    BY <1>1, <1>2, <2>3, <2>5, ServerStays
<1>4. CASE t = Server
  <2>1. frame[Server].at \in {"enter", "host", "replicas"}
    BY <1>4 DEF FreeStep, FreeHost, HostEnded, HostSleepsOn, ReplicaEnded, In
  <2>2. /\ m \in Models /\ server.op \in {"unload", "clear"}
        /\ server.op = "unload" => /\ server.of \in Paths
                                   /\ server.retries[server.of] > 0
        /\ server.op = "clear" => /\ server.of \subseteq Paths
                                  /\ \A p \in server.of : Registered(p)
    BY <1>0, <1>4, <2>1 DEF IndInv, FramesInv, ServerInv
  <2>3. ASSUME NEW f, frame' = [frame EXCEPT ![Server] = f], UNCHANGED server,
               f.at \in {"host", "replicas"}, f.model \in Models,
               f.at = "replicas" => f.on \in Clients
        PROVE  Good
    BY <1>1, <2>2, <2>3, ServerWaits
  <2>4. ASSUME NEW freed, Return(t, freed)
        PROVE  Good
    <3>1. frame' = [frame EXCEPT ![Server] = NoFrame]
      BY <1>4, <2>4 DEF Return
    <3>2. frame'[Server] = NoFrame
      BY <1>0, <3>1
    <3>3. server' = IF server.op = "clear" THEN server
                    ELSE [server EXCEPT !.op = "idle", !.of = Null,
                            !.retries[server.of] = IF freed THEN 0 ELSE @ - 1]
      BY <1>0, <1>4, <2>4 DEF Return
    <3>4. CASE server.op = "clear"
      <4>1. server' = server
        BY <3>3, <3>4
      <4>2. server'.op = "clear" /\ server'.of \subseteq Paths
            /\ \A p \in server'.of : Registered(p)'
        BY <1>2, <2>2, <3>4, <4>1
      <4>. QED
        BY <3>2, <4>2, ServerReturns
    <3>5. CASE server.op # "clear"
      <4> DEFINE retries == [server.retries EXCEPT ![server.of] =
                               IF freed THEN 0 ELSE @ - 1]
      <4>1. server' = [server EXCEPT !.op = "idle", !.of = Null,
                                     !.retries = retries]
        BY <1>0, <3>3, <3>5 DEF ServerRecords
      <4> HIDE DEF retries
      <4>2. server'.op = "idle"
        BY <1>0, <4>1 DEF ServerRecords
      <4>. QED
        BY <3>2, <4>2, ServerReturns
    <3>. QED
      BY <3>4, <3>5
  <2>5. ASSUME Crash
        PROVE  Good
    <3>1. /\ server'.op = server.op /\ server'.of = server.of
          /\ server'.retries = server.retries /\ UNCHANGED frame
      BY <1>0, <2>5 DEF Crash, ServerRecords
    <3>. QED
      BY <1>1, <1>2, <3>1, ServerStays
  <2>6. ASSUME NEW visit \in SUBSET Clients, ScanReplicas(t, m, visit)
        PROVE  Good
    <3>1. ASSUME NEW r \in Loading(m), UNCHANGED server,
                 frame' = [frame EXCEPT ![t] = Frame("replicas", m, visit \ {r}, r)]
          PROVE  Good
      <4>1. r \in Clients
        BY DEF Loading, Replicas
      <4> DEFINE f == Frame("replicas", m, visit \ {r}, r)
      <4>2. f.at = "replicas" /\ f.model = m /\ f.on = r
        BY <2>2, <4>1, FrameType DEF FramePoints
      <4> HIDE DEF f, Good
      <4>. QED
        BY <1>4, <2>2, <2>3, <3>1, <4>1, <4>2 DEF f
    <3> HIDE DEF Good
    <3>. QED
      BY <2>4, <2>5, <2>6, <3>1 DEF ScanReplicas
  <2>7. ASSUME FreeHost(t)
        PROVE  Good
    <3>1. Replicas(m) \in SUBSET Clients
      BY DEF Replicas
    <3>2. ASSUME frame' = [frame EXCEPT ![t].at = "host"], UNCHANGED server
          PROVE  Good
      <4> DEFINE f == [frame[Server] EXCEPT !.at = "host"]
      <4>1. f.at = "host" /\ f.model = m
        BY <1>0, <1>4 DEF FrameRecords
      <4>2. frame' = [frame EXCEPT ![Server] = f]
        BY <1>4, <3>2
      <4> HIDE DEF f, Good
      <4>. QED
        BY <2>2, <2>3, <3>2, <4>1, <4>2
    <3> HIDE DEF Good
    <3>. QED
      BY <2>4, <2>6, <2>7, <3>1, <3>2 DEF FreeHost
  <2>8. ASSUME HostSleepsOn(t)
        PROVE  Good
    <3>1. frame' = [frame EXCEPT ![Server].notified = FALSE] /\ UNCHANGED server
      BY <1>4, <2>8 DEF HostSleepsOn
    <3>2. /\ frame'[Server].at = frame[Server].at
          /\ frame'[Server].model = frame[Server].model
          /\ frame'[Server].on = frame[Server].on
      BY <1>0, <3>1 DEF FrameRecords
    <3>. QED
      BY <1>1, <1>2, <3>1, <3>2, ServerStays
  <2>9. ASSUME HostEnded(t) \/ ReplicaEnded(t)
        PROVE  Good
    <3>1. Replicas(m) \in SUBSET Clients /\ frame[t].visit \in SUBSET Clients
      BY <1>0, <1>4 DEF Replicas, FrameRecords
    <3> HIDE DEF Good
    <3>. QED
      BY <2>6, <2>9, <3>1 DEF HostEnded, ReplicaEnded
  <2> HIDE DEF Good
  <2>10. Good
    BY <2>7, <2>8, <2>9 DEF FreeStep
  <2>. QED
    BY <2>10 DEF Good
<1>. QED
  BY <1>0, <1>3, <1>4

\* The threads of the clients leave the event loop alone.
LEMMA ServerLeftAlone ==
    ASSUME IndInv, NEW c \in Clients,
           DiskStep(c) \/ ReadStep(c) \/ ReplicaStep(c) \/ DeviceStep(c)
    PROVE  /\ ServerInv'
           /\ frame'[Server].at # "none" => frame'[Server].model \in Models
           /\ frame'[Server].at \in {"replicas", "cancel", "appear", "replica"}
                => frame'[Server].on \in Clients
<1>0. /\ frame \in [Threads -> FrameRecords] /\ Server \in Threads
      /\ server \in ServerRecords /\ Server # c
  BY ClientsAssumption DEF IndInv, TypeOK, Threads
<1> DEFINE Mild == UNCHANGED <<client, model_map_>> /\ (UNCHANGED server \/ Crash)
<1>a. ASSUME Crash PROVE Mild
  BY <1>a DEF Crash, store
<1>b. ASSUME UNCHANGED <<client, model_map_, server>> PROVE Mild
  BY <1>b
<1>1. Mild
  <2> HIDE DEF Mild
  <2>1. CASE DiskStep(c)
    <3>1. CASE Allocate(c)
      BY <1>a, <1>b, <3>1 DEF Allocate
    <3>2. CASE ToHost(c)
      BY <1>a, <1>b, <3>2 DEF ToHost, store
    <3>3. CASE ReadersDone(c) \/ CancelledEnded(c)
      BY <1>b, <3>3 DEF ReadersDone, CancelledEnded, store
    <3>. QED
      BY <1>b, <2>1, <3>1, <3>2, <3>3
         DEF DiskStep, DiskBegin, KeepMemory, AlreadyRead, ToHostFails, store
  <2>2. CASE ReadStep(c)
    BY <1>a, <1>b, <2>2 DEF ReadStep, ReadChunk, ReadFails, store
  <2>3. CASE ReplicaStep(c)
    <3>1. CASE Plan(c) \/ Dispatch(c) \/ FreeGpu(c)
      BY <1>a, <1>b, <3>1 DEF Plan, Dispatch, FreeGpu, store
    <3>. QED
      BY <1>b, <2>3, <3>1 DEF ReplicaStep, ReplicaBegin, ToGpu, ReplicaDone, store
  <2>4. CASE DeviceStep(c)
    BY <1>a, <1>b, <2>4 DEF DeviceStep, DeviceStart, Copy, store
  <2>. QED
    BY <2>1, <2>2, <2>3, <2>4
<1>2. \A p \in Paths : Registered(p)' = Registered(p)
  BY <1>1 DEF Registered, Mild
<1>3. /\ server'.op = server.op /\ server'.of = server.of
      /\ server'.retries = server.retries
  BY <1>0, <1>1 DEF Crash, ServerRecords, Mild
<1>4. /\ frame'[Server].at = frame[Server].at
      /\ frame'[Server].model = frame[Server].model
      /\ frame'[Server].on = frame[Server].on
  <2>1. CASE ReplicaStep(c) \/ DeviceStep(c)
    BY <1>0, <2>1, ReplicaViews
  <2>2. CASE DiskStep(c) \/ ReadStep(c)
    <3> DEFINE Mine == UNCHANGED frame \/ \E f : frame' = [frame EXCEPT ![c] = f]
    <3>1. ASSUME UNCHANGED frame PROVE Mine
      BY <3>1
    <3>2. ASSUME CallFreeHost(c) PROVE Mine
      BY <3>2 DEF CallFreeHost, Enter
    <3>3. ASSUME NEW m, NEW visit, NEW state, CancelReplicas(c, m, visit, state)
          PROVE  Mine
      BY <3>2, <3>3 DEF CancelReplicas
    <3> HIDE DEF Mine
    <3>4. ASSUME DiskStep(c) PROVE Mine
      <4>1. CASE ReadersDone(c) \/ CancelledEnded(c)
        BY <3>1, <3>3, <4>1 DEF ReadersDone, CancelledEnded
      <4>2. CASE ToHostFails(c)
        BY <3>2, <4>2 DEF ToHostFails
      <4>3. CASE Allocate(c) \/ ToHost(c)
        BY <3>1, <4>3 DEF Allocate, ToHost, Crash
      <4>. QED
        BY <3>1, <3>4, <4>1, <4>2, <4>3 DEF DiskStep, DiskBegin, KeepMemory, AlreadyRead
    <3>5. ASSUME ReadStep(c) PROVE Mine
      BY <3>1, <3>5 DEF ReadStep, ReadChunk, ReadFails, Crash
    <3>6. Mine
      BY <2>2, <3>4, <3>5
    <3>. QED
      BY <1>0, <3>6 DEF Mine
  <2>. QED
    BY <2>1, <2>2
<1>. QED
  BY <1>1, <1>2, <1>3, <1>4, ServerStays DEF Mild

\* The frames of the clients and of the event loop stay as they are meant.
LEMMA FramesStep ==
    ASSUME IndInv, [Next]_vars
    PROVE  FramesInv' /\ ServerInv'
<1>1. /\ ServerInv'
      /\ frame'[Server].at # "none" => frame'[Server].model \in Models
      /\ frame'[Server].at \in {"replicas", "cancel", "appear", "replica"}
           => frame'[Server].on \in Clients
  <2>1. CASE UNCHANGED vars
    <3>1. UNCHANGED <<frame, server, client, model_map_>>
      BY <2>1 DEF vars, store
    <3>2. \A p \in Paths : Registered(p)' = Registered(p)
      BY <3>1 DEF Registered
    <3>. QED
      BY <3>1, <3>2, ServerStays
  <2>2. CASE Request \/ ServerStep
    BY <2>2, ServerRequests
  <2>3. CASE \E t \in Threads : FreeStep(t)
    BY <2>3, ServerFrees
  <2>4. CASE \E c \in Clients : DiskStep(c) \/ ReadStep(c) \/ ReplicaStep(c)
                                \/ DeviceStep(c)
    BY <2>4, ServerLeftAlone
  <2>. QED
    BY <2>1, <2>2, <2>3, <2>4 DEF Next
<1>2. ASSUME NEW c \in Clients
      PROVE  /\ frame'[c].at # "none" => frame'[c].model \in Models
             /\ frame'[c].at \in {"replicas", "cancel"} => frame'[c].on \in Clients
             /\ frame'[c].at \in {"none", "enter", "host", "replicas", "cancel"}
             /\ frame'[c].at # "none" => load'[c].at \in {"free", "cancel"}
  <2>1. LoadView(c) /\ FrameView(c)
    BY TaskViewsStep DEF TaskViews
  <2>2. /\ frame[c].at # "none" => frame[c].model \in Models
        /\ frame[c].at \in {"replicas", "cancel"} => frame[c].on \in Clients
        /\ frame[c].at \in {"none", "enter", "host", "replicas", "cancel"}
        /\ frame[c].at # "none" => load[c].at \in {"free", "cancel"}
    BY DEF IndInv, FramesInv, Threads
  <2>3. frame'[c].at # "none" => load'[c].at \in {"free", "cancel"}
    BY <2>1, <2>2 DEF LoadView, FrameView
  <2>. QED
    BY <2>1, <2>2, <2>3 DEF FrameView
<1>. QED
  BY <1>1, <1>2 DEF FramesInv, Threads
-----------------------------------------------------------------------------
(* The invariant                                                           *)

\* The server starts with every buffer free and nothing to do.
LEMMA InitInv ==
    ASSUME Init
    PROVE  IndInv
<1>1. TypeOK
  <2>1. /\ model_map_ \in [Paths -> {Null} \cup Models] /\ access_order \in Seq(Paths)
    BY DEF Init
  <2>2. MemoryType
    BY DEF Init, MemoryType, States
  <2>3. client \in [Clients -> ClientRecords]
    BY DEF Init, ClientRecords, MaxTries
  <2>4. load \in [Clients -> LoadRecords]
    BY DEF Init, LoadRecords
  <2>5. replica \in [Clients -> ReplicaRecords]
    BY DEF Init, ReplicaRecords, States
  <2>6. server \in ServerRecords
    BY ClientsAssumption DEF Init, ServerRecords, MaxTries
  <2>7. frame \in [Threads -> FrameRecords]
    BY DEF Init, NoFrame, FrameRecords, FramePoints
  <2>. QED
    BY <2>1, <2>2, <2>3, <2>4, <2>5, <2>6, <2>7 DEF TypeOK
<1>2. \A m \in Models : Held(m) = {}
  BY DEF Init, Held
<1>3. PoolConservation /\ VacantHoldsNothing
  BY <1>2 DEF Init, PoolConservation, VacantHoldsNothing
<1>4. ClientsInv /\ LoadsInv /\ ReplicasInv
  BY DEF Init, ClientsInv, LoadsInv, ReplicasInv
<1>5. FramesInv /\ ServerInv
  BY DEF Init, FramesInv, ServerInv, NoFrame, Threads
<1>. QED
  BY <1>1, <1>3, <1>4, <1>5 DEF IndInv

\* Every step keeps the invariant.
LEMMA NextInv ==
    ASSUME IndInv, [Next]_vars
    PROVE  IndInv'
BY NextType, ConservationStep, TasksStep, FramesStep DEF IndInv

\* The invariant holds whatever fails, is unloaded or cleared.
THEOREM Invariance == Spec => []IndInv
BY InitInv, NextInv, PTL DEF Spec

\* Whatever the disk and the device do, however loads, evictions, unloads and
\* ClearMem meet, and even after a crash: every buffer of the pool is free or
\* belongs to exactly one model (PinnedMemoryPool's Allocate and Deallocate as
\* AllocatePinnedMemory, TryFreeHost, FreeHost and ToHost's error path use
\* them), and every variable holds what it is meant to hold.
THEOREM NothingEverLost == Spec => []NothingIsLost
<1>1. IndInv => NothingIsLost
  BY DEF IndInv, NothingIsLost
<1>. QED
  BY <1>1, Invariance, PTL
-----------------------------------------------------------------------------
(* A store that nothing copies from: GpuClients = {}, the load_to_host of  *)
(* the store managers                                                      *)

\* No replica is ever made, so that nobody waits for one.
NoReplicas ==
    /\ \A c \in Clients :
         /\ client[c].next \in {"cpu", "end"}
         /\ replica[c].at = "none" /\ ~replica[c].listed
         /\ replica[c].device = "none"
    /\ \A t \in Threads : frame[t].at \in {"none", "enter", "host"}

Reads(c, m) == load[c].at = "reading" /\ load[c].model = m

\* A task that reads a model is the only one, reads it into the buffers the
\* model has and leaves no gap behind it; a model that is LOADING is read.
ReadersInv ==
    /\ \A m \in Models : \A c, d \in Clients : Reads(c, m) /\ Reads(d, m) => c = d
    /\ \A m \in Models : state_[m] = "LOADING" => \E c \in Clients : Reads(c, m)
    /\ \A c \in Clients : \A m \in Models : Reads(c, m) =>
         /\ state_[m] = "LOADING" /\ load[c].target = pinned_mem_[m]
         /\ ~load[c].error =>
              Chunks(m) \ load[c].unread \subseteq
                content[m] \cap ToSet(host_ptr_vector_[m])

\* Nothing is CANCELLED or INTERRUPTED for others to see.
StatesInv == \A m \in Models : state_[m] \notin {"CANCELLED", "INTERRUPTED"}

CacheInv == /\ NoReplicas /\ ReadersInv /\ StatesInv
            /\ MemoryMatchesState /\ LoadedIsComplete

\* Then nobody is in the way of FreeHost or of an eviction, and nothing that
\* loses its memory is being copied.
LEMMA NobodyCopies ==
    ASSUME TypeOK, NoReplicas
    PROVE  /\ \A m : Replicas(m) = {} /\ Loading(m) = {}
           /\ \A S : Dangling(S) = replica
<1>1. \A m : Replicas(m) = {} /\ Loading(m) = {}
  BY DEF NoReplicas, Replicas, Loading
<1>2. ASSUME NEW S PROVE Dangling(S) = replica
  <2>1. \A c \in Clients : replica[c].device # "copying"
    BY DEF NoReplicas
  <2>. QED
    BY <2>1 DEF Dangling, TypeOK
<1>. QED
  BY <1>1, <1>2

\* No step makes one.
LEMMA NoReplicasStep ==
    ASSUME GpuClients = {}, IndInv, NoReplicas, [Next]_vars
    PROVE  NoReplicas'
<1> DEFINE Clear == \A t \in Threads : frame'[t].at \in {"none", "enter", "host"}
           Ends == \A c \in Clients : client'[c].next \in {"cpu", "end"}
           Out == UNCHANGED replica /\ Ends /\ Clear
<1>0. /\ frame \in [Threads -> FrameRecords] /\ client \in [Clients -> ClientRecords]
      /\ \A t \in Threads : frame[t].at \in {"none", "enter", "host"}
      /\ \A c \in Clients : client[c].next \in {"cpu", "end"}
      /\ Server \in Threads /\ Clients \subseteq Threads
  BY DEF IndInv, TypeOK, NoReplicas, Threads
<1>1. /\ \A m : Replicas(m) = {} /\ Loading(m) = {}
      /\ \A S : Dangling(S) = replica
  BY NobodyCopies DEF IndInv
<1>2. ASSUME UNCHANGED frame PROVE Clear
  BY <1>0, <1>2
<1>3. ASSUME NEW t \in Threads, NEW f, frame' = [frame EXCEPT ![t] = f],
             f.at \in {"none", "enter", "host"}
      PROVE  Clear
  BY <1>0, <1>3
<1>4. NoFrame.at = "none"
  BY DEF NoFrame
<1>5. ASSUME NEW t \in Threads, NEW m \in Models, Enter(t, m) PROVE Clear
  <2> DEFINE f == Frame("enter", m, {}, Null)
  <2>1. f.at = "enter" /\ frame' = [frame EXCEPT ![t] = f]
    BY <1>5, FrameType DEF FramePoints, Enter
  <2> HIDE DEF f, Clear
  <2>. QED
    BY <1>3, <2>1
<1>6. ASSUME UNCHANGED client PROVE Ends
  BY <1>0, <1>6
<1>7. ASSUME UNCHANGED <<client, frame, replica>> PROVE Out
  BY <1>2, <1>6, <1>7
<1>8. ASSUME Crash PROVE Out
  BY <1>7, <1>8 DEF Crash
<1>9. ASSUME NEW S, NEW m, NEW bufs, Reallocate(S, m, bufs) PROVE UNCHANGED replica
  BY <1>1, <1>9 DEF Reallocate
<1>10. ASSUME Request \/ ServerStep PROVE Out
  <2>1. ASSUME NEW c \in Clients, NEW p \in Paths, LoadIntoCpu(c, p) PROVE Out
    <3>1. /\ client' = [client EXCEPT ![c].path = p, ![c].next = "end"]
          /\ UNCHANGED <<frame, replica>>
      BY <2>1 DEF LoadIntoCpu
    <3>2. Ends
      BY <1>0, <3>1 DEF ClientRecords
    <3>. QED
      BY <1>2, <3>1, <3>2
  <2>2. ASSUME NEW c \in Clients, LoadIntoGpu(c) \/ Confirm(c) \/ ConfirmFails(c)
        PROVE  FALSE
    BY <1>0, <2>2 DEF LoadIntoGpu, Confirm, ConfirmFails
  <2>3. ~ReplicaFound /\ ~ConfirmReturns
    BY <1>0 DEF ReplicaFound, ConfirmReturns, In
  <2>4. ASSUME NEW p \in Paths, Unload(p) PROVE Out
    <3>1. CASE Registered(p)
      <4>1. model_map_[p] \in Models
        BY <3>1 DEF Registered, IndInv, TypeOK
      <4>2. Enter(Server, model_map_[p]) /\ UNCHANGED <<client, replica>>
        BY <2>4, <3>1 DEF Unload
      <4>. QED
        BY <1>0, <1>5, <1>6, <4>1, <4>2
    <3>2. CASE ~Registered(p)
      BY <1>7, <2>4, <3>2 DEF Unload
    <3>. QED
      BY <3>1, <3>2
  <2>5. ASSUME NEW p \in Paths, ClearNext(p) PROVE Out
    <3>1. Registered(p)
      BY <2>5 DEF ClearNext, Serving, IndInv, ServerInv
    <3>2. model_map_[p] \in Models
      BY <3>1 DEF Registered, IndInv, TypeOK
    <3>3. Enter(Server, model_map_[p]) /\ UNCHANGED <<client, replica>>
      BY <2>5 DEF ClearNext
    <3>. QED
      BY <1>0, <1>5, <1>6, <3>2, <3>3
  <2> HIDE DEF Out
  <2>6. ASSUME NEW p \in Paths, RequestUnload(p) PROVE Out
    BY <1>7, <2>6 DEF RequestUnload
  <2>7. ASSUME ClearMem \/ Cleared PROVE Out
    BY <1>7, <2>7 DEF ClearMem, Cleared
  <2>. QED
    BY <1>10, <2>1, <2>2, <2>3, <2>4, <2>5, <2>6, <2>7 DEF Request, ServerStep
<1>11. ASSUME NEW t \in Threads, FreeStep(t) PROVE Out
  <2>1. UNCHANGED client
    BY <1>11 DEF FreeStep, FreeHost, HostEnded, HostSleepsOn, ReplicaEnded,
                 ScanReplicas, Crash
  <2>2. ASSUME NEW freed, Return(t, freed) PROVE Clear
    <3>1. frame' = [frame EXCEPT ![t] = NoFrame]
      BY <2>2 DEF Return
    <3> HIDE DEF Clear
    <3>. QED
      BY <1>3, <1>4, <3>1
  <2> HIDE DEF Out, Clear
  <2>3. ASSUME NEW m, NEW visit, ScanReplicas(t, m, visit)
        PROVE  UNCHANGED replica /\ Clear
    BY <1>1, <1>2, <1>9, <2>2, <2>3 DEF ScanReplicas, Crash
  <2>4. ASSUME frame' = [frame EXCEPT ![t].at = "host"] PROVE Clear
    BY <1>0, <2>4 DEF Clear, FrameRecords
  <2>5. ASSUME frame' = [frame EXCEPT ![t].notified = FALSE] PROVE Clear
    BY <1>0, <2>5 DEF Clear, FrameRecords
  <2>6. UNCHANGED replica /\ Clear
    BY <1>11, <2>2, <2>3, <2>4, <2>5
       DEF FreeStep, FreeHost, HostEnded, HostSleepsOn, ReplicaEnded
  <2>. QED
    BY <1>6, <2>1, <2>6 DEF Out
<1>12. ASSUME NEW c \in Clients, DiskStep(c) \/ ReadStep(c) PROVE Out
  <2>1. load[c].at = "toHost" \/ load[c].at = "reading" => load[c].model \in Models
    BY DEF IndInv, LoadsInv
  <2>2. ~CancelledEnded(c)
    BY <1>0 DEF CancelledEnded, In
  <2>3. ASSUME ToHostFails(c) PROVE Out
    <3>1. Enter(c, load[c].model) /\ UNCHANGED <<client, replica>> /\ load[c].at = "toHost"
      BY <2>3 DEF ToHostFails, CallFreeHost, Disk
    <3>. QED
      BY <1>0, <1>5, <1>6, <2>1, <3>1
  <2>4. ASSUME ReadersDone(c) PROVE Out
    <3>1. load[c].at = "reading" /\ UNCHANGED client
      BY <2>4 DEF ReadersDone, Disk
    <3>2. CASE load[c].error
      <4>1. Reallocate({load[c].model}, load[c].model, Null) /\ CallFreeHost(c)
        BY <1>1, <2>4, <3>2 DEF ReadersDone, CancelReplicas
      <4>2. UNCHANGED replica
        BY <1>9, <4>1
      <4>3. Enter(c, load[c].model)
        BY <4>1 DEF CallFreeHost
      <4>. QED
        BY <1>0, <1>5, <1>6, <2>1, <3>1, <4>2, <4>3
    <3>3. CASE ~load[c].error
      BY <1>7, <2>4, <3>1, <3>3 DEF ReadersDone
    <3>. QED
      BY <3>2, <3>3
  <2>5. ASSUME Allocate(c), ~Crash PROVE Out
    <3>1. UNCHANGED <<client, frame>>
      BY <2>5 DEF Allocate
    <3>2. UNCHANGED replica
      BY <1>9, <2>5 DEF Allocate
    <3>. QED
      BY <1>7, <3>1, <3>2
  <2> HIDE DEF Out
  <2>6. ASSUME ToHost(c) PROVE Out
    BY <1>7, <1>8, <2>6 DEF ToHost
  <2>7. ASSUME ReadStep(c) PROVE Out
    BY <1>7, <1>8, <2>7 DEF ReadStep, ReadChunk, ReadFails
  <2>. QED
    BY <1>7, <1>8, <1>12, <2>2, <2>3, <2>4, <2>5, <2>6, <2>7
       DEF DiskStep, DiskBegin, KeepMemory, AlreadyRead
<1>13. ASSUME NEW c \in Clients, ReplicaStep(c) \/ DeviceStep(c) PROVE FALSE
  <2>1. replica[c].at = "none" /\ replica[c].device = "none"
    BY DEF NoReplicas
  <2>. QED
    BY <1>13, <2>1 DEF ReplicaStep, DeviceStep, ReplicaBegin, ToGpu, Plan,
       Dispatch, ReplicaDone, FreeGpu, DeviceStart, Copy, Gpu, Device
<1>14. ASSUME UNCHANGED vars PROVE Out
  BY <1>7, <1>14 DEF vars
<1> HIDE DEF Out
<1>15. Out
  BY <1>10, <1>11, <1>12, <1>13, <1>14 DEF Next
<1>. QED
  BY <1>15 DEF Out, NoReplicas

\* What a step can do to the models and to those who read them: those who do
\* not begin, go on or end reading register a model, free one that is not
\* being read, make room for one or do nothing.
SameReaders == \A c \in Clients : \/ load'[c] = load[c]
                                  \/ load[c].at # "reading" /\ load'[c].at # "reading"
Others ==
    /\ SameReaders /\ UNCHANGED host_ptr_vector_
    /\ \/ Quiet /\ UNCHANGED content
       \/ \E m \in Models : \/ Registers(m) /\ UNCHANGED content
                            \/ state_[m] \in {"ALLOCATED", "LOADED"} /\ Frees(m)
                            \/ Evicts(m)

\* Every step is of one of these kinds.
LEMMA CacheSteps ==
    ASSUME GpuClients = {}, IndInv, NoReplicas, StatesInv, [Next]_vars
    PROVE  Others \/ \E c \in Clients : ToHost(c) \/ ReadersDone(c) \/ ReadStep(c)
<1>0. /\ frame \in [Threads -> FrameRecords] /\ load \in [Clients -> LoadRecords]
      /\ state_ \in [Models -> States]
      /\ \A m : Replicas(m) = {} /\ Loading(m) = {}
  BY NobodyCopies DEF IndInv, TypeOK, MemoryType
<1>1. ASSUME SameReaders, UNCHANGED memory PROVE Others
  BY <1>1 DEF Others, Quiet, memory
<1>2. ASSUME UNCHANGED load PROVE SameReaders
  BY <1>2 DEF SameReaders
<1>3. ASSUME NEW c \in Clients, NEW at, load[c].at # "reading", at # "reading",
             load' = [load EXCEPT ![c].at = at]
      PROVE  SameReaders
  BY <1>0, <1>3 DEF SameReaders, LoadRecords
<1>4. ASSUME Crash PROVE Others
  BY <1>1, <1>2, <1>4 DEF Crash
<1>5. ASSUME NEW p \in Paths, Register(p), SameReaders,
             UNCHANGED <<pinned_mem_, host_ptr_vector_, content, free_list_>>
      PROVE  Others
  BY <1>5 DEF Register, Registered, Others, Quiet, Registers
<1>6. ASSUME Request \/ ServerStep PROVE Others
  <2>1. ASSUME NEW c \in Clients, NEW p \in Paths, LoadIntoCpu(c, p) PROVE Others
    <3>1. load[c].at = "none" /\ load' = [load EXCEPT ![c].at = "begin"]
      BY <2>1 DEF LoadIntoCpu, IndInv, ClientsInv
    <3>2. SameReaders
      BY <1>3, <3>1
    <3>. QED
      BY <1>5, <2>1, <3>2 DEF LoadIntoCpu
  <2>2. ASSUME NEW c \in Clients, LoadIntoGpu(c) PROVE FALSE
    BY <2>2 DEF LoadIntoGpu, NoReplicas
  <2>3. ASSUME UNCHANGED <<memory, load>> PROVE Others
    BY <1>1, <1>2, <2>3
  <2>4. CASE Request
    <3>1. ASSUME NEW p \in Paths, RequestUnload(p) PROVE Others
      BY <2>3, <3>1 DEF RequestUnload
    <3>2. ASSUME ClearMem PROVE Others
      BY <2>3, <3>2 DEF ClearMem
    <3>. QED
      BY <2>1, <2>2, <2>4, <3>1, <3>2 DEF Request
  <2>5. CASE ServerStep
    <3>1. UNCHANGED <<memory, load>>
      BY <2>5 DEF ServerStep, Confirm, ConfirmFails, Unload, ClearNext,
         ReplicaFound, ConfirmReturns, Answer, Cleared
    <3>. QED
      BY <2>3, <3>1
  <2>. QED
    BY <1>6, <2>4, <2>5
<1>7. ASSUME NEW t \in Threads, FreeStep(t) PROVE Others
  <2> DEFINE m == frame[t].model
  <2>1. frame[t].at \in {"enter", "host"}
    BY <1>7 DEF FreeStep, FreeHost, HostEnded, HostSleepsOn, ReplicaEnded, In,
                NoReplicas
  <2>2. /\ m \in Models
        /\ t \in Clients => load[t].at \in {"free", "cancel"}
    BY <2>1 DEF IndInv, FramesInv
  <2>3. ASSUME NEW freed, Return(t, freed) PROVE SameReaders
    <3>1. CASE t \in Clients
      BY <1>3, <2>2, <2>3, <3>1 DEF Return
    <3>2. CASE t \notin Clients
      BY <1>2, <2>3, <3>2 DEF Return
    <3>. QED
      BY <3>1, <3>2
  <2>4. ASSUME NEW visit, ScanReplicas(t, m, visit), state_[m] \in {"ALLOCATED", "LOADED"}
        PROVE  Others
    <3>1. CASE Crash
      BY <1>4, <3>1
    <3>2. CASE ~Crash
      <4>1. /\ Reallocate({m}, m, Null) /\ Return(t, TRUE)
            /\ state_' = [state_ EXCEPT ![m] = "UNALLOCATED"]
        BY <1>0, <2>4, <3>2 DEF ScanReplicas
      <4>2. SameReaders
        BY <2>3, <4>1
      <4>3. Frees(m) /\ UNCHANGED host_ptr_vector_
        BY <4>1 DEF Frees, Reallocate
      <4>. QED
        BY <2>2, <2>4, <4>2, <4>3 DEF Others
    <3>. QED
      BY <3>1, <3>2
  <2>5. state_[m] \notin Vacant \cup {"LOADING"} => state_[m] \in {"ALLOCATED", "LOADED"}
    BY <1>0, <2>2 DEF States, StatesInv, Vacant
  <2>6. ASSUME FreeHost(t) PROVE Others
    <3>1. CASE state_[m] \in Vacant
      BY <1>1, <1>2, <2>3, <2>6, <3>1 DEF FreeHost, Vacant
    <3>2. CASE state_[m] = "LOADING"
      BY <1>1, <1>2, <2>6, <3>2 DEF FreeHost, Vacant
    <3>3. CASE state_[m] \notin Vacant \cup {"LOADING"}
      <4>1. ScanReplicas(t, m, Replicas(m))
        BY <2>6, <3>3 DEF FreeHost
      <4>. QED
        BY <2>4, <2>5, <3>3, <4>1
    <3>. QED
      BY <3>1, <3>2, <3>3
  <2>7. ASSUME HostEnded(t) PROVE Others
    <3>1. state_[m] \in {"ALLOCATED", "LOADED"} /\ ScanReplicas(t, m, Replicas(m))
      BY <2>2, <2>7 DEF HostEnded, Ended, StatesInv
    <3>. QED
      BY <2>4, <3>1
  <2>8. ASSUME HostSleepsOn(t) PROVE Others
    BY <1>1, <1>2, <2>8 DEF HostSleepsOn
  <2>9. ~ReplicaEnded(t)
    BY <2>1 DEF ReplicaEnded, In
  <2>. QED
    BY <1>7, <2>6, <2>7, <2>8, <2>9 DEF FreeStep
<1>8. ASSUME NEW c \in Clients, DiskStep(c), ~ToHost(c), ~ReadersDone(c) PROVE Others
  <2> DEFINE m == load[c].model
  <2>1. ASSUME DiskBegin(c) PROVE Others
    <3>1. load[c].at = "begin" /\ UNCHANGED memory
      BY <2>1 DEF DiskBegin, Disk
    <3>2. \A d \in Clients \ {c} : load'[d] = load[d]
      BY <1>0, <2>1 DEF DiskBegin
    <3>3. load'[c].at # "reading"
      BY <1>0, <2>1 DEF DiskBegin, LoadRecords
    <3>4. SameReaders
      BY <3>1, <3>2, <3>3 DEF SameReaders
    <3>. QED
      BY <1>1, <3>1, <3>4
  <2>2. ASSUME KeepMemory(c) \/ AlreadyRead(c) PROVE Others
    <3>1. /\ load[c].at # "reading" /\ UNCHANGED memory
          /\ \E at \in {"toHost", "loaded"} : load' = [load EXCEPT ![c].at = at]
      BY <2>2 DEF KeepMemory, AlreadyRead, Disk
    <3>. QED
      BY <1>1, <1>3, <3>1
  <2>3. ASSUME ToHostFails(c) PROVE Others
    <3>1. /\ load[c].at # "reading" /\ UNCHANGED memory
          /\ load' = [load EXCEPT ![c].at = "free"]
      BY <2>3 DEF ToHostFails, CallFreeHost, Disk
    <3>. QED
      BY <1>1, <1>3, <3>1
  <2>4. ~CancelledEnded(c)
    BY DEF CancelledEnded, In, NoReplicas, Threads
  <2>5. ASSUME Allocate(c) PROVE Others
    <3>1. m \in Models /\ load[c].at = "allocate"
      BY <2>5 DEF Allocate, Disk, IndInv, LoadsInv
    <3>2. CASE Null \in Oldest(Visited(m))
      BY <1>4, <2>5, <3>2 DEF Allocate
    <3>3. CASE Null \notin Oldest(Visited(m))
      <4>1. Evicts(m)
        BY <2>5, <3>3 DEF Allocate, Evicts, Needs
      <4>2. UNCHANGED host_ptr_vector_
        BY <4>1 DEF Evicts, Reallocate
      <4> DEFINE at == IF Enough(m, Visited(m)) THEN "toHost" ELSE "failed"
      <4>3. load' = [load EXCEPT ![c].at = at]
        BY <2>5, <3>3 DEF Allocate
      <4>4. at # "reading"
        OBVIOUS
      <4> HIDE DEF at
      <4>5. SameReaders
        BY <1>3, <3>1, <4>3, <4>4
      <4>. QED
        BY <3>1, <4>1, <4>2, <4>5 DEF Others
    <3>. QED
      BY <3>2, <3>3
  <2>. QED
    BY <1>8, <2>1, <2>2, <2>3, <2>4, <2>5 DEF DiskStep
<1>9. ASSUME NEW c \in Clients, ReplicaStep(c) \/ DeviceStep(c) PROVE FALSE
  <2>1. replica[c].at = "none" /\ replica[c].device = "none"
    BY DEF NoReplicas
  <2>. QED
    BY <1>9, <2>1 DEF ReplicaStep, DeviceStep, ReplicaBegin, ToGpu, Plan,
       Dispatch, ReplicaDone, FreeGpu, DeviceStart, Copy, Gpu, Device
<1>10. ASSUME UNCHANGED vars PROVE Others
  BY <1>1, <1>2, <1>10 DEF vars
<1>. QED
  BY <1>6, <1>7, <1>8, <1>9, <1>10 DEF Next

\* What the other steps do to a model: nothing, or it is not being read and
\* ends without memory, or it gets all the memory it needs.
OtherView(n) ==
    \/ /\ state_'[n] = state_[n] /\ pinned_mem_'[n] = pinned_mem_[n]
       /\ content'[n] = content[n]
    \/ state_[n] # "LOADING" /\ state_'[n] = "UNALLOCATED"
    \/ /\ state_[n] = "UNALLOCATED" /\ state_'[n] = "ALLOCATED"
       /\ pinned_mem_'[n] \in SUBSET Buffers /\ pinned_mem_'[n] # Null
       /\ Cardinality(pinned_mem_'[n]) = Size[n[1]]

\* Registering, freeing and evicting leave the models that are read alone.
LEMMA OtherViews ==
    ASSUME IndInv, Others
    PROVE  \A n \in Models : OtherView(n)
<1>0. /\ TypeOK /\ state_ \in [Models -> States]
      /\ pinned_mem_ \in [Models -> {Null} \cup SUBSET Buffers]
      /\ content \in [Models -> SUBSET Nat]
  BY DEF IndInv, TypeOK, MemoryType
<1>1. CASE Quiet /\ UNCHANGED content
  BY <1>1 DEF Quiet, OtherView
<1>2. ASSUME NEW m \in Models, Registers(m), UNCHANGED content
      PROVE  \A n \in Models : OtherView(n)
  BY <1>0, <1>2 DEF Registers, OtherView
<1>3. ASSUME NEW m \in Models, state_[m] \in {"ALLOCATED", "LOADED"}, Frees(m)
      PROVE  \A n \in Models : OtherView(n)
  <2>1. \A n \in Models \ {m} : /\ pinned_mem_'[n] = pinned_mem_[n]
                                /\ content'[n] = content[n]
    BY <1>0, <1>3 DEF Frees, Reallocate
  <2>2. /\ state_[m] # "LOADING" /\ state_'[m] = "UNALLOCATED"
        /\ \A n \in Models \ {m} : state_'[n] = state_[n]
    BY <1>0, <1>3 DEF Frees
  <2>. QED
    BY <2>1, <2>2 DEF OtherView
<1>4. ASSUME NEW m \in Models, Evicts(m)
      PROVE  \A n \in Models : OtherView(n)
  <2> DEFINE k == Visited(m)
             up == Enough(m, k)
             S == Victims(k)
  <2>1. PICK bufs \in SUBSET Available(k) :
          /\ Cardinality(bufs) = IF up THEN Size[m[1]] ELSE 0
          /\ Reallocate(S, m, bufs)
    BY <1>4 DEF Evicts
  <2>2. /\ state_[m] = "UNALLOCATED"
        /\ state_' = [n \in Models |-> IF n = m /\ up THEN "ALLOCATED" ELSE
                                       IF n \in S THEN "UNALLOCATED" ELSE state_[n]]
    BY <1>4 DEF Evicts
  <2>3. k \in 0 .. Len(access_order)
    BY <1>0, VisitedProperties
  <2>4. /\ \A v \in S : state_[v] \notin Vacant \cup {"LOADING"}
        /\ Available(k) \subseteq Buffers
    BY <1>0, <2>3, VictimsType
  <2>5. bufs \in SUBSET Buffers /\ bufs # Null
    BY <2>4, NullAssumption
  <2> HIDE DEF k, up, S
  <2>6. \A n \in Models :
          /\ pinned_mem_'[n] = IF n = m THEN bufs ELSE
                               IF n \in S THEN Null ELSE pinned_mem_[n]
          /\ content'[n] = IF n \in S THEN {} ELSE content[n]
    BY <2>1 DEF Reallocate
  <2>7. m \notin S
    BY <2>2, <2>4 DEF Vacant
  <2>8. ASSUME NEW n \in Models PROVE OtherView(n)
    <3>1. CASE n \in S
      BY <2>2, <2>4, <2>7, <3>1 DEF OtherView
    <3>2. CASE n = m /\ up
      BY <2>1, <2>2, <2>5, <2>6, <3>2 DEF OtherView
    <3>3. CASE n = m /\ ~up
      BY <2>2, <2>7, <3>3 DEF OtherView
    <3>4. CASE n # m /\ n \notin S
      BY <2>2, <2>6, <3>4 DEF OtherView
    <3>. QED
      BY <3>1, <3>2, <3>3, <3>4
  <2>. QED
    BY <2>8
<1>. QED
  BY <1>1, <1>2, <1>3, <1>4 DEF Others

\* What counts of the memory of a model depends on its buffers alone.
LEMMA HeldSame ==
    ASSUME NEW n, pinned_mem_'[n] = pinned_mem_[n]
    PROVE  Held(n)' = Held(n)
BY DEF Held

\* Those steps keep the models and their readers in order.
LEMMA OthersKeep ==
    ASSUME IndInv, IndInv', ReadersInv, StatesInv, MemoryMatchesState,
           LoadedIsComplete, Others
    PROVE  ReadersInv' /\ StatesInv' /\ MemoryMatchesState' /\ LoadedIsComplete'
<1>1. /\ \A n \in Models : OtherView(n)
      /\ SameReaders /\ UNCHANGED host_ptr_vector_
      /\ VacantHoldsNothing'
  BY OtherViews DEF Others, IndInv
<1>2. \A c \in Clients : \A m \in Models :
        /\ Reads(c, m)' <=> Reads(c, m)
        /\ Reads(c, m) => load'[c] = load[c]
  BY <1>1 DEF SameReaders, Reads
<1>3. StatesInv'
  BY <1>1 DEF StatesInv, OtherView
<1>4. LoadedIsComplete'
  BY <1>1 DEF LoadedIsComplete, OtherView
<1>5. MemoryMatchesState'
  <2>1. ASSUME NEW m \in Models
        PROVE  Cardinality(Held(m)') = IF state_'[m] \in Vacant THEN 0 ELSE Size[m[1]]
    <3>1. CASE state_'[m] = state_[m] /\ pinned_mem_'[m] = pinned_mem_[m]
      BY <3>1, HeldSame DEF MemoryMatchesState
    <3>2. CASE state_'[m] = "UNALLOCATED"
      <4>1. Held(m)' = {}
        BY <1>1, <3>2 DEF VacantHoldsNothing, Vacant
      <4>. QED
        BY <3>2, <4>1, FS_EmptySet DEF Vacant
    <3>3. CASE /\ state_'[m] = "ALLOCATED" /\ pinned_mem_'[m] # Null
               /\ Cardinality(pinned_mem_'[m]) = Size[m[1]]
      BY <3>3 DEF Vacant, Held
    <3>. QED
      BY <1>1, <3>1, <3>2, <3>3 DEF OtherView
  <2>. QED
    BY <2>1 DEF MemoryMatchesState
<1>6. ReadersInv'
  <2>1. \A m \in Models : \A c, d \in Clients : Reads(c, m)' /\ Reads(d, m)' => c = d
    BY <1>2 DEF ReadersInv
  <2>2. \A m \in Models : state_'[m] = "LOADING" =>
          /\ state_[m] = "LOADING" /\ \E c \in Clients : Reads(c, m)'
    BY <1>1, <1>2 DEF ReadersInv, OtherView
  <2>3. ASSUME NEW c \in Clients, NEW m \in Models, Reads(c, m)'
        PROVE  /\ state_'[m] = "LOADING" /\ load'[c].target = pinned_mem_'[m]
               /\ ~load'[c].error =>
                    Chunks(m) \ load'[c].unread \subseteq
                      content'[m] \cap ToSet(host_ptr_vector_'[m])
    <3>1. Reads(c, m) /\ load'[c] = load[c]
      BY <1>2, <2>3
    <3>2. /\ state_[m] = "LOADING" /\ load[c].target = pinned_mem_[m]
          /\ ~load[c].error =>
               Chunks(m) \ load[c].unread \subseteq
                 content[m] \cap ToSet(host_ptr_vector_[m])
      BY <3>1 DEF ReadersInv
    <3>3. /\ state_'[m] = "LOADING" /\ pinned_mem_'[m] = pinned_mem_[m]
          /\ content'[m] = content[m]
      BY <1>1, <3>2 DEF OtherView
    <3>. QED
      BY <1>1, <3>1, <3>2, <3>3
  <2>. QED
    BY <2>1, <2>2, <2>3 DEF ReadersInv
<1>. QED
  BY <1>3, <1>4, <1>5, <1>6

\* ToHost starts the only reader of a model that has its memory.
LEMMA ToHostKeeps ==
    ASSUME IndInv, CacheInv, NEW c \in Clients, ToHost(c)
    PROVE  /\ ReadersInv' /\ StatesInv' /\ MemoryMatchesState' /\ LoadedIsComplete'
           /\ load[c].model \in Models /\ state_[load[c].model] = "ALLOCATED"
           /\ state_' = [state_ EXCEPT ![load[c].model] = "LOADING"]
           /\ UNCHANGED <<pinned_mem_, free_list_>>
<1> DEFINE m == load[c].model
           new == [load[c] EXCEPT !.at = "reading", !.unread = Chunks(m),
                                  !.error = FALSE, !.target = pinned_mem_[m]]
<1>0. /\ load \in [Clients -> LoadRecords] /\ state_ \in [Models -> States]
      /\ host_ptr_vector_ \in [Models -> {Null} \cup Seq(Nat)]
      /\ ReadersInv /\ StatesInv /\ MemoryMatchesState /\ LoadedIsComplete
  BY DEF IndInv, TypeOK, MemoryType, CacheInv
<1>1. /\ load[c].at = "toHost" /\ state_[m] = "ALLOCATED"
      /\ m \in Models
  BY DEF ToHost, Disk, IndInv, LoadsInv
<1>2. ~Awaited(m)
  BY DEF Awaited, Gpu, CacheInv, NoReplicas
<1>3. /\ state_' = [state_ EXCEPT ![m] = "LOADING"]
      /\ host_ptr_vector_' = [host_ptr_vector_ EXCEPT ![m] = << >>]
      /\ load' = [load EXCEPT ![c].at = "reading", ![c].unread = Chunks(m),
                              ![c].error = FALSE, ![c].target = pinned_mem_[m]]
      /\ UNCHANGED <<pinned_mem_, content, free_list_>>
  BY <1>2 DEF ToHost
<1>4. load' = [load EXCEPT ![c] = new]
  BY <1>0, <1>3
<1>5. /\ new.at = "reading" /\ new.model = m /\ new.unread = Chunks(m)
      /\ new.target = pinned_mem_[m] /\ new.error = FALSE
  BY <1>0 DEF LoadRecords
<1> HIDE DEF m, new
<1>6. /\ load'[c] = new
      /\ \A d \in Clients \ {c} : load'[d] = load[d]
  BY <1>0, <1>4
<1>7. \A d \in Clients : \A n \in Models :
        /\ d # c => (Reads(d, n)' <=> Reads(d, n))
        /\ Reads(c, n)' <=> n = m
        /\ Reads(d, n) => n # m /\ d # c
  BY <1>0, <1>1, <1>5, <1>6 DEF Reads, ReadersInv
<1>8. \A n \in Models : /\ n # m => /\ state_'[n] = state_[n]
                                    /\ host_ptr_vector_'[n] = host_ptr_vector_[n]
                        /\ state_'[m] = "LOADING"
                        /\ pinned_mem_'[n] = pinned_mem_[n]
                        /\ content'[n] = content[n]
  BY <1>0, <1>1, <1>3
<1>9. StatesInv'
  BY <1>0, <1>8 DEF StatesInv
<1>10. LoadedIsComplete'
  BY <1>0, <1>8 DEF LoadedIsComplete
<1>11. MemoryMatchesState'
  <2>1. ASSUME NEW n \in Models
        PROVE  Cardinality(Held(n)') = IF state_'[n] \in Vacant THEN 0 ELSE Size[n[1]]
    <3>1. Cardinality(Held(n)) = IF state_[n] \in Vacant THEN 0 ELSE Size[n[1]]
      BY <1>0 DEF MemoryMatchesState
    <3>2. Held(n)' = Held(n)
      BY <1>8, HeldSame
    <3>. QED
      BY <1>1, <1>8, <3>1, <3>2 DEF Vacant
  <2>. QED
    BY <2>1 DEF MemoryMatchesState
<1>12. ReadersInv'
  <2>1. \A n \in Models : \A d, e \in Clients : Reads(d, n)' /\ Reads(e, n)' => d = e
    BY <1>0, <1>7 DEF ReadersInv
  <2>2. \A n \in Models : state_'[n] = "LOADING" => \E d \in Clients : Reads(d, n)'
    <3>1. ASSUME NEW n \in Models, state_'[n] = "LOADING", n # m
          PROVE  \E d \in Clients : Reads(d, n)'
      <4>1. PICK d \in Clients : Reads(d, n)
        BY <1>0, <1>8, <3>1 DEF ReadersInv
      <4>. QED
        BY <1>7, <4>1
    <3>. QED
      BY <1>7, <3>1
  <2>3. ASSUME NEW d \in Clients, NEW n \in Models, Reads(d, n)'
        PROVE  /\ state_'[n] = "LOADING" /\ load'[d].target = pinned_mem_'[n]
               /\ ~load'[d].error =>
                    Chunks(n) \ load'[d].unread \subseteq
                      content'[n] \cap ToSet(host_ptr_vector_'[n])
    <3>1. CASE d = c
      BY <1>1, <1>5, <1>6, <1>7, <1>8, <2>3, <3>1
    <3>2. CASE d # c
      <4>1. Reads(d, n) /\ n # m /\ load'[d] = load[d]
        BY <1>6, <1>7, <2>3, <3>2
      <4>. QED
        BY <1>0, <1>8, <4>1 DEF ReadersInv
    <3>. QED
      BY <3>1, <3>2
  <2>. QED
    BY <2>1, <2>2, <2>3 DEF ReadersInv
<1>. QED
  BY <1>1, <1>3, <1>9, <1>10, <1>11, <1>12 DEF m

\* A thread that reads a chunk puts it where it belongs, and one that cannot
\* leaves a task that knows of it.
LEMMA ReadKeeps ==
    ASSUME IndInv, CacheInv, NEW c \in Clients, ReadStep(c)
    PROVE  /\ ReadersInv' /\ StatesInv' /\ MemoryMatchesState' /\ LoadedIsComplete'
           /\ Quiet
<1> DEFINE m == load[c].model
<1>0. /\ load \in [Clients -> LoadRecords] /\ state_ \in [Models -> States]
      /\ host_ptr_vector_ \in [Models -> {Null} \cup Seq(Nat)]
      /\ content \in [Models -> SUBSET Nat]
      /\ ReadersInv /\ StatesInv /\ MemoryMatchesState /\ LoadedIsComplete
  BY DEF IndInv, TypeOK, MemoryType, CacheInv
<1>1. PICK i \in load[c].unread : ReadChunk(c, i) \/ ReadFails(c, i)
  BY DEF ReadStep
<1>2. /\ load[c].at = "reading" /\ m \in Models /\ i \in Chunks(m)
      /\ host_ptr_vector_[m] \in Seq(Chunks(m))
  BY <1>1 DEF ReadChunk, ReadFails, NextChunk, Disk, IndInv, LoadsInv
<1>3. /\ state_[m] = "LOADING" /\ load[c].target = pinned_mem_[m]
      /\ ~load[c].error => Chunks(m) \ load[c].unread \subseteq
                             content[m] \cap ToSet(host_ptr_vector_[m])
  BY <1>0, <1>2 DEF ReadersInv, Reads
<1> DEFINE View ==
      /\ Quiet
      /\ \A d \in Clients : /\ load'[d].at = load[d].at
                            /\ load'[d].model = load[d].model
                            /\ load'[d].target = load[d].target
                            /\ d # c => load'[d] = load[d]
      /\ \A n \in Models : /\ n # m => /\ content'[n] = content[n]
                                       /\ host_ptr_vector_'[n] = host_ptr_vector_[n]
      /\ \/ load'[c].error
         \/ /\ load'[c].error = load[c].error
            /\ load'[c].unread = load[c].unread \ {i}
            /\ content'[m] = content[m] \cup {i}
            /\ ToSet(host_ptr_vector_'[m]) = ToSet(host_ptr_vector_[m]) \cup {i}
<1>4. ASSUME ReadChunk(c, i) PROVE View
  <2>1. /\ content' = [content EXCEPT ![m] = @ \cup {i}]
        /\ host_ptr_vector_' = [host_ptr_vector_ EXCEPT ![m] =
             IF i \in ToSet(@) THEN @ ELSE Append(@, i)]
        /\ load' = [load EXCEPT ![c].unread = @ \ {i}]
        /\ Quiet
    BY <1>3, <1>4 DEF ReadChunk, Quiet
  <2>2. ToSet(Append(host_ptr_vector_[m], i)) = ToSet(host_ptr_vector_[m]) \cup {i}
    BY <1>2, AppendElements
  <2>3. ToSet(host_ptr_vector_'[m]) = ToSet(host_ptr_vector_[m]) \cup {i}
    BY <1>0, <1>2, <2>1, <2>2
  <2>4. \A d \in Clients : /\ load'[d].at = load[d].at
                           /\ load'[d].model = load[d].model
                           /\ load'[d].target = load[d].target
                           /\ d # c => load'[d] = load[d]
    BY <1>0, <2>1 DEF LoadRecords
  <2>5. /\ load'[c].error = load[c].error
        /\ load'[c].unread = load[c].unread \ {i}
    BY <1>0, <2>1 DEF LoadRecords
  <2>6. /\ content'[m] = content[m] \cup {i}
        /\ \A n \in Models : n # m => /\ content'[n] = content[n]
                                      /\ host_ptr_vector_'[n] = host_ptr_vector_[n]
    BY <1>0, <1>2, <2>1
  <2>. QED
    BY <2>1, <2>3, <2>4, <2>5, <2>6
<1>5. ASSUME ReadFails(c, i) PROVE View
  <2> DEFINE rest == load[c].unread \ SameThread(m, i)
             new == [load[c] EXCEPT !.error = TRUE, !.unread = rest]
  <2>1. load' = [load EXCEPT ![c] = new]
    BY <1>0, <1>5 DEF ReadFails
  <2>2. /\ new.at = load[c].at /\ new.model = load[c].model
        /\ new.target = load[c].target /\ new.error = TRUE
    BY <1>0 DEF LoadRecords
  <2> HIDE DEF new
  <2>3. load'[c] = new /\ \A d \in Clients : d # c => load'[d] = load[d]
    BY <1>0, <2>1
  <2>4. Quiet /\ UNCHANGED <<content, host_ptr_vector_>>
    BY <1>5 DEF ReadFails, memory, Quiet
  <2>. QED
    BY <2>2, <2>3, <2>4
<1> HIDE DEF View
<1>6. View
  BY <1>1, <1>4, <1>5
<1>7. UNCHANGED <<state_, pinned_mem_>>
  BY <1>6 DEF View, Quiet
<1>8. \A d \in Clients : \A n \in Models : Reads(d, n)' <=> Reads(d, n)
  BY <1>6 DEF View, Reads
<1>9. StatesInv'
  BY <1>0, <1>7 DEF StatesInv
<1>10. MemoryMatchesState'
  BY <1>0, <1>7 DEF MemoryMatchesState, Held
<1>11. LoadedIsComplete'
  <2>1. \A n \in Models : state_'[n] = "LOADED" => n # m /\ state_[n] = "LOADED"
    BY <1>3, <1>7
  <2>. QED
    BY <1>0, <1>6, <2>1 DEF View, LoadedIsComplete
<1>12. ReadersInv'
  <2>1. \A n \in Models : \A d, e \in Clients : Reads(d, n)' /\ Reads(e, n)' => d = e
    BY <1>0, <1>8 DEF ReadersInv
  <2>2. \A n \in Models : state_'[n] = "LOADING" => \E d \in Clients : Reads(d, n)'
    BY <1>0, <1>7, <1>8 DEF ReadersInv
  <2>3. ASSUME NEW d \in Clients, NEW n \in Models, Reads(d, n)'
        PROVE  /\ state_'[n] = "LOADING" /\ load'[d].target = pinned_mem_'[n]
               /\ ~load'[d].error =>
                    Chunks(n) \ load'[d].unread \subseteq
                      content'[n] \cap ToSet(host_ptr_vector_'[n])
    <3>1. /\ Reads(d, n) /\ state_[n] = "LOADING" /\ load[d].target = pinned_mem_[n]
          /\ ~load[d].error => Chunks(n) \ load[d].unread \subseteq
                                 content[n] \cap ToSet(host_ptr_vector_[n])
      BY <1>0, <1>8, <2>3 DEF ReadersInv
    <3>2. state_'[n] = "LOADING" /\ load'[d].target = pinned_mem_'[n]
      BY <1>6, <1>7, <3>1 DEF View
    <3>3. CASE d = c
      <4>1. n = m
        BY <3>1, <3>3 DEF Reads
      <4> HIDE DEF m
      <4>. QED
        BY <1>6, <3>1, <3>2, <3>3, <4>1 DEF View
    <3>4. CASE d # c
      <4>1. n # m
        BY <1>0, <1>2, <3>1, <3>4 DEF ReadersInv, Reads
      <4> HIDE DEF m
      <4>. QED
        BY <1>6, <3>1, <3>2, <3>4, <4>1 DEF View
    <3>. QED
      BY <3>3, <3>4
  <2>. QED
    BY <2>1, <2>2, <2>3 DEF ReadersInv
<1>. QED
  BY <1>6, <1>9, <1>10, <1>11, <1>12 DEF View

\* The join of the threads: the model is complete, or its memory is released.
LEMMA ReadersDoneKeeps ==
    ASSUME IndInv, CacheInv, NEW c \in Clients, ReadersDone(c)
    PROVE  /\ ReadersInv' /\ StatesInv' /\ MemoryMatchesState' /\ LoadedIsComplete'
           /\ load[c].model \in Models /\ state_[load[c].model] = "LOADING"
           /\ \/ /\ state_' = [state_ EXCEPT ![load[c].model] = "LOADED"]
                 /\ UNCHANGED <<pinned_mem_, free_list_>>
              \/ Frees(load[c].model)
<1> DEFINE m == load[c].model
<1>0. /\ load \in [Clients -> LoadRecords] /\ state_ \in [Models -> States]
      /\ host_ptr_vector_ \in [Models -> {Null} \cup Seq(Nat)]
      /\ content \in [Models -> SUBSET Nat]
      /\ \A n \in Models : content[n] \subseteq Chunks(n)
      /\ ReadersInv /\ StatesInv /\ MemoryMatchesState /\ LoadedIsComplete
  BY DEF IndInv, TypeOK, MemoryType, CacheInv
<1>1. /\ load[c].at = "reading" /\ m \in Models /\ load[c].unread = {}
      /\ host_ptr_vector_[m] \in Seq(Chunks(m)) /\ Reads(c, m)
  BY DEF ReadersDone, Disk, IndInv, LoadsInv, Reads
<1>2. /\ state_[m] = "LOADING"
      /\ ~load[c].error => Chunks(m) \subseteq content[m] \cap ToSet(host_ptr_vector_[m])
      /\ \A d \in Clients \ {c} : ~Reads(d, m)
  BY <1>0, <1>1 DEF ReadersInv
<1>3. ToSet(host_ptr_vector_[m]) \subseteq Chunks(m)
  BY <1>1, ToSetMember
<1>4. \A n : Replicas(n) = {}
  BY NobodyCopies DEF IndInv, CacheInv
<1> DEFINE Full == /\ state_' = [state_ EXCEPT ![m] = "LOADED"]
                   /\ UNCHANGED <<pinned_mem_, free_list_, content, host_ptr_vector_>>
                   /\ ~load[c].error
           Free == Frees(m) /\ UNCHANGED host_ptr_vector_
<1>5. /\ Full \/ Free
      /\ \E at \in {"loaded", "free"} : load' = [load EXCEPT ![c].at = at]
  <2>1. CASE load[c].error
    <3>1. /\ Reallocate({m}, m, Null) /\ CallFreeHost(c)
          /\ state_' = [[state_ EXCEPT ![m] = "INTERRUPTED"] EXCEPT ![m] = "UNALLOCATED"]
      BY <1>4, <2>1 DEF ReadersDone, CancelReplicas
    <3>2. state_' = [state_ EXCEPT ![m] = "UNALLOCATED"]
      BY <1>0, <1>1, <3>1
    <3>. QED
      BY <3>1, <3>2 DEF Frees, CallFreeHost, Reallocate
  <2>2. CASE ~load[c].error
    BY <2>2 DEF ReadersDone
  <2>. QED
    BY <2>1, <2>2
<1>6. /\ load'[c].at # "reading"
      /\ \A d \in Clients : d # c => load'[d] = load[d]
  BY <1>0, <1>5 DEF LoadRecords
<1>7. \A d \in Clients : \A n \in Models :
        Reads(d, n)' <=> Reads(d, n) /\ d # c
  BY <1>6 DEF Reads
<1>8. \A d \in Clients : \A n \in Models : Reads(d, n)' => n # m
  BY <1>2, <1>7
<1>9. /\ \A n \in Models : n # m => /\ state_'[n] = state_[n]
                                    /\ pinned_mem_'[n] = pinned_mem_[n]
                                    /\ content'[n] = content[n]
      /\ UNCHANGED host_ptr_vector_
  BY <1>0, <1>5 DEF Frees, Reallocate
<1>10. \/ /\ state_'[m] = "LOADED" /\ pinned_mem_'[m] = pinned_mem_[m]
          /\ content'[m] = content[m] /\ Full
       \/ state_'[m] = "UNALLOCATED" /\ pinned_mem_'[m] = Null /\ Free
  <2>1. CASE Full
    BY <1>0, <1>1, <2>1
  <2>2. CASE Free
    <3>1. Reallocate({m}, m, Null) /\ state_' = [state_ EXCEPT ![m] = "UNALLOCATED"]
      BY <2>2 DEF Frees
    <3>2. pinned_mem_'[m] = Null
      BY <1>1, <3>1 DEF Reallocate
    <3>. QED
      BY <1>0, <1>1, <2>2, <3>1, <3>2
  <2>. QED
    BY <1>5, <2>1, <2>2
<1> HIDE DEF m
<1>11. StatesInv'
  BY <1>0, <1>9, <1>10 DEF StatesInv
<1>12. LoadedIsComplete'
  <2>1. ASSUME NEW n \in Models, state_'[n] = "LOADED"
        PROVE  content'[n] = Chunks(n) /\ ToSet(host_ptr_vector_'[n]) = Chunks(n)
    <3>1. CASE n # m
      BY <1>0, <1>9, <2>1, <3>1 DEF LoadedIsComplete
    <3>2. CASE n = m
      <4>1. Full /\ content'[m] = content[m]
        BY <1>10, <2>1, <3>2
      <4>. QED
        BY <1>0, <1>1, <1>2, <1>3, <1>9, <3>2, <4>1
    <3>. QED
      BY <3>1, <3>2
  <2>. QED
    BY <2>1 DEF LoadedIsComplete
<1>13. MemoryMatchesState'
  <2>1. ASSUME NEW n \in Models
        PROVE  Cardinality(Held(n)') = IF state_'[n] \in Vacant THEN 0 ELSE Size[n[1]]
    <3>1. Cardinality(Held(n)) = IF state_[n] \in Vacant THEN 0 ELSE Size[n[1]]
      BY <1>0 DEF MemoryMatchesState
    <3>2. CASE n # m
      BY <1>9, <3>1, <3>2, HeldSame
    <3>3. CASE n = m
      <4>1. CASE state_'[m] = "LOADED" /\ pinned_mem_'[m] = pinned_mem_[m]
        BY <1>2, <3>1, <3>3, <4>1, HeldSame DEF Vacant
      <4>2. CASE state_'[m] = "UNALLOCATED" /\ pinned_mem_'[m] = Null
        BY <3>3, <4>2, FS_EmptySet DEF Vacant, Held
      <4>. QED
        BY <1>10, <4>1, <4>2
    <3>. QED
      BY <3>2, <3>3
  <2>. QED
    BY <2>1 DEF MemoryMatchesState
<1>14. ReadersInv'
  <2>1. \A n \in Models : \A d, e \in Clients : Reads(d, n)' /\ Reads(e, n)' => d = e
    BY <1>0, <1>7 DEF ReadersInv
  <2>2. ASSUME NEW n \in Models, state_'[n] = "LOADING"
        PROVE  \E d \in Clients : Reads(d, n)'
    <3>1. n # m /\ state_[n] = "LOADING"
      BY <1>9, <1>10, <2>2
    <3>2. PICK d \in Clients : Reads(d, n)
      BY <1>0, <3>1 DEF ReadersInv
    <3>3. d # c
      BY <1>1, <3>1, <3>2 DEF Reads
    <3>. QED
      BY <1>7, <3>2, <3>3
  <2>3. ASSUME NEW d \in Clients, NEW n \in Models, Reads(d, n)'
        PROVE  /\ state_'[n] = "LOADING" /\ load'[d].target = pinned_mem_'[n]
               /\ ~load'[d].error =>
                    Chunks(n) \ load'[d].unread \subseteq
                      content'[n] \cap ToSet(host_ptr_vector_'[n])
    <3>1. n # m /\ d # c /\ Reads(d, n) /\ load'[d] = load[d]
      BY <1>6, <1>7, <1>8, <2>3
    <3>2. /\ state_[n] = "LOADING" /\ load[d].target = pinned_mem_[n]
          /\ ~load[d].error => Chunks(n) \ load[d].unread \subseteq
                                 content[n] \cap ToSet(host_ptr_vector_[n])
      BY <1>0, <3>1 DEF ReadersInv
    <3>. QED
      BY <1>9, <3>1, <3>2
  <2>. QED
    BY <2>1, <2>2, <2>3 DEF ReadersInv
<1>. QED
  BY <1>1, <1>2, <1>5, <1>11, <1>12, <1>13, <1>14 DEF m

\* It starts empty.
LEMMA CacheInit ==
    ASSUME Init
    PROVE  CacheInv
<1>1. NoReplicas
  BY DEF Init, NoReplicas, NoFrame
<1>2. ReadersInv /\ StatesInv /\ LoadedIsComplete
  BY DEF Init, ReadersInv, Reads, StatesInv, LoadedIsComplete
<1>3. MemoryMatchesState
  <2>1. \A m \in Models : Held(m) = {} /\ state_[m] \in Vacant
    BY DEF Init, Held, Vacant
  <2>. QED
    BY <2>1, FS_EmptySet DEF MemoryMatchesState
<1>. QED
  BY <1>1, <1>2, <1>3 DEF CacheInv

\* And stays in order.
LEMMA CacheNext ==
    ASSUME GpuClients = {}, IndInv, CacheInv, [Next]_vars
    PROVE  CacheInv'
<1>1. IndInv' /\ NoReplicas'
  BY NextInv, NoReplicasStep DEF CacheInv
<1>2. Others \/ \E c \in Clients : ToHost(c) \/ ReadersDone(c) \/ ReadStep(c)
  BY CacheSteps DEF CacheInv
<1>3. CASE Others
  BY <1>1, <1>3, OthersKeep DEF CacheInv
<1>4. CASE \E c \in Clients : ToHost(c) \/ ReadersDone(c) \/ ReadStep(c)
  BY <1>1, <1>4, ToHostKeeps, ReadersDoneKeeps, ReadKeeps DEF CacheInv
<1>. QED
  BY <1>2, <1>3, <1>4

\* One reader at most, and one where the state says so: what OneReader counts.
LEMMA ReadersCounted ==
    ASSUME IndInv, ReadersInv
    PROVE  OneReader
<1>1. ASSUME NEW m \in Models
      PROVE  LET readers == {c \in Clients : load[c].at = "reading"
                                              /\ load[c].model = m}
             IN /\ Cardinality(readers) = IF state_[m] = "LOADING" THEN 1 ELSE 0
                /\ \A c \in readers : load[c].target = pinned_mem_[m]
  <2> DEFINE readers == {c \in Clients : load[c].at = "reading"
                                         /\ load[c].model = m}
  <2>1. \A c : c \in readers <=> c \in Clients /\ Reads(c, m)
    BY DEF Reads
  <2> HIDE DEF readers
  <2>2. \A c \in readers : load[c].target = pinned_mem_[m]
    BY <2>1 DEF ReadersInv
  <2>3. CASE state_[m] = "LOADING"
    <3>1. PICK c \in Clients : Reads(c, m)
      BY <2>3 DEF ReadersInv
    <3>2. readers = {c}
      BY <2>1, <3>1 DEF ReadersInv
    <3>. QED
      BY <2>2, <2>3, <3>2, FS_Singleton DEF readers
  <2>4. CASE state_[m] # "LOADING"
    <3>1. readers = {}
      BY <2>1, <2>4 DEF ReadersInv
    <3>. QED
      BY <2>2, <2>4, <3>1, FS_EmptySet DEF readers
  <2>. QED
    BY <2>3, <2>4
<1>. QED
  BY <1>1 DEF OneReader

\* In a store that loads to host memory only, whatever is evicted, unloaded or
\* cleared, whatever the disk does: a model has exactly the buffers its state
\* says, one task at most reads it, into the buffers it has, and what is LOADED
\* is complete (AllocatePinnedMemory, ToHost and FreeHost of Model).
THEOREM MemoryStaysConsistent ==
    ASSUME GpuClients = {}
    PROVE  Spec => []MemoryIsConsistent
<1>1. Init => CacheInv
  BY CacheInit
<1>2. IndInv /\ CacheInv /\ [Next]_vars => CacheInv'
  BY CacheNext
<1>3. IndInv /\ CacheInv => MemoryIsConsistent
  BY ReadersCounted DEF IndInv, CacheInv, MemoryIsConsistent
<1>. QED
  BY <1>1, <1>2, <1>3, Invariance, PTL DEF Spec
-----------------------------------------------------------------------------
(* The cache of models                                                     *)

\* The two modules count alike.
LEMMA CacheCounts == \A S : Cache!Cardinality(S) = Cardinality(S)
BY DEF Cache!Cardinality, Cardinality, Cache!IsFiniteSet, IsFiniteSet

\* The empty store is an empty cache.
LEMMA CacheStarts ==
    ASSUME Init
    PROVE  Cache!Init
<1>1. \A m \in Models : Held(m) = {} /\ Phase(m) = "absent"
  BY DEF Init, Held, Phase
<1>. QED
  BY <1>1 DEF Init, Cache!Init

\* A step that turns one model from a phase to the next.
LEMMA CacheMoves ==
    ASSUME TypeOK, NEW m \in Models, NEW from, NEW to, Phase(m) = from,
           Phase(m)' = to,
           \A n \in Models \ {m} : Phase(n)' = Phase(n),
           \A n \in Models : Held(n)' = Held(n), UNCHANGED free_list_
    PROVE  Cache!Move(m, from, to)
<1> DEFINE phase == [n \in Models |-> Phase(n)]
<1>1. [n \in Models |-> Phase(n)'] = [phase EXCEPT ![m] = to]
  OBVIOUS
<1>2. phase[m] = from
  OBVIOUS
<1>3. [n \in Models |-> Held(n)'] = [n \in Models |-> Held(n)]
  OBVIOUS
<1>. QED
  BY <1>1, <1>2, <1>3 DEF Cache!Move

\* A step that takes the buffers of the models in S.
LEMMA CacheDrops ==
    ASSUME NEW S \in SUBSET Models,
           \A n \in Models : Held(n)' = IF n \in S THEN {} ELSE Held(n),
           free_list_' = free_list_ \cup UNION {Held(n) : n \in S},
           \A n \in Models : Phase(n)' = IF n \in S THEN "absent" ELSE Phase(n)
    PROVE  /\ [n \in Models |-> Held(n)'] = Cache!Dropped(S)
           /\ free_list_' = Cache!Gained(S)
           /\ [n \in Models |-> Phase(n)'] = Cache!Absent(S)
<1>1. [n \in Models |-> Held(n)'] = Cache!Dropped(S)
  BY DEF Cache!Dropped
<1>2. [n \in Models |-> Phase(n)'] = Cache!Absent(S)
  BY DEF Cache!Absent
<1>3. {Held(n) : n \in S} = {[m \in Models |-> Held(m)][n] : n \in S}
  OBVIOUS
<1>4. free_list_' = Cache!Gained(S)
  BY <1>3 DEF Cache!Gained
<1>. QED
  BY <1>1, <1>2, <1>4

\* A step that shows nothing of the models.
LEMMA CacheStutters ==
    ASSUME \A n \in Models : Held(n)' = Held(n) /\ Phase(n)' = Phase(n),
           UNCHANGED free_list_
    PROVE  UNCHANGED Cache!vars
<1>1. [n \in Models |-> Held(n)'] = [n \in Models |-> Held(n)]
  OBVIOUS
<1>2. [n \in Models |-> Phase(n)'] = [n \in Models |-> Phase(n)]
  OBVIOUS
<1>. QED
  BY <1>1, <1>2 DEF Cache!vars

\* The phase of a model follows from its state.
LEMMA PhaseFacts ==
    /\ \A m : /\ state_[m] = "ALLOCATED" => Phase(m) = "reserved"
              /\ state_[m] \in {"LOADING", "INTERRUPTED"} => Phase(m) = "filling"
              /\ state_[m] = "LOADED" => Phase(m) = "full"
              /\ state_[m] \in Vacant => Phase(m) = "absent"
    /\ \A m : /\ state_'[m] = "ALLOCATED" => Phase(m)' = "reserved"
              /\ state_'[m] \in {"LOADING", "INTERRUPTED"} => Phase(m)' = "filling"
              /\ state_'[m] = "LOADED" => Phase(m)' = "full"
              /\ state_'[m] \in Vacant => Phase(m)' = "absent"
    /\ \A m : state_'[m] = state_[m] => Phase(m)' = Phase(m)
BY DEF Phase, Vacant

\* FreeHost and the error path of ToHost take the buffers of one model.
LEMMA FreesDrops ==
    ASSUME TypeOK, NEW m \in Models, Frees(m)
    PROVE  /\ [n \in Models |-> Held(n)'] = Cache!Dropped({m})
           /\ free_list_' = Cache!Gained({m})
           /\ [n \in Models |-> Phase(n)'] = Cache!Absent({m})
<1> DEFINE S == {m}
           bufs == Null
<1>1. S \in SUBSET Models /\ bufs \in {Null} \cup SUBSET Buffers
      /\ Reallocate(S, m, bufs) /\ bufs = Null /\ m \in S
  BY DEF Frees
<1>2. \A n \in Models : n \in S <=> n = m
  OBVIOUS
<1> HIDE DEF bufs, S
<1>3. \A n \in Models :
        Held(n)' = IF n = m THEN (IF bufs = Null THEN {} ELSE bufs) ELSE
                   IF n \in S THEN {} ELSE Held(n)
  BY <1>1, ReallocateHeld
<1>4. \A n \in Models : Held(n)' = IF n \in S THEN {} ELSE Held(n)
  BY <1>1, <1>2, <1>3
<1>5. free_list_' = free_list_ \cup UNION {Held(n) : n \in S}
  BY <1>1 DEF Reallocate
<1>6. \A n \in Models : Phase(n)' = IF n \in S THEN "absent" ELSE Phase(n)
  <2>1. \A n \in Models : state_'[n] = IF n = m THEN "UNALLOCATED" ELSE state_[n]
    BY DEF Frees, TypeOK, MemoryType
  <2>. QED
    BY <1>2, <2>1, PhaseFacts DEF Vacant
<1>7. /\ [n \in Models |-> Held(n)'] = Cache!Dropped(S)
      /\ free_list_' = Cache!Gained(S)
      /\ [n \in Models |-> Phase(n)'] = Cache!Absent(S)
  BY <1>1, <1>4, <1>5, <1>6, CacheDrops
<1>. QED
  BY <1>7 DEF S

\* An eviction makes room for a model, or drops models in vain.
LEMMA EvictsReserves ==
    ASSUME IndInv, StatesInv, NEW m \in Models, Evicts(m)
    PROVE  [Cache!Next]_Cache!vars
<1> DEFINE k == Visited(m)
           up == Enough(m, k)
           S == Victims(k)
           held == [n \in Models |-> Held(n)]
           phase == [n \in Models |-> Phase(n)]
<1>0. /\ TypeOK /\ VacantHoldsNothing /\ state_ \in [Models -> States]
      /\ Size[m[1]] \in Nat
  BY ModelFacts DEF IndInv, TypeOK, MemoryType
<1>1. PICK bufs \in SUBSET Available(k) :
        /\ Cardinality(bufs) = IF up THEN Size[m[1]] ELSE 0
        /\ Reallocate(S, m, bufs)
  BY DEF Evicts
<1>2. /\ state_[m] = "UNALLOCATED"
      /\ state_' = [n \in Models |-> IF n = m /\ up THEN "ALLOCATED" ELSE
                                     IF n \in S THEN "UNALLOCATED" ELSE state_[n]]
  BY DEF Evicts
<1>3. k \in 0 .. Len(access_order)
  BY <1>0, VisitedProperties
<1>4. /\ S \subseteq Models
      /\ \A v \in S : state_[v] \notin Vacant \cup {"LOADING"}
      /\ Available(k) \subseteq Buffers
  BY <1>0, <1>3, VictimsType
<1>5. bufs \in SUBSET Buffers /\ bufs # Null
  BY <1>4, NullAssumption
<1>6. Available(k) = free_list_ \cup UNION {Held(n) : n \in S}
  BY DEF Available
<1> HIDE DEF k, up, S
<1>7. \A n \in Models : Held(n)' = IF n = m THEN bufs ELSE
                                   IF n \in S THEN {} ELSE Held(n)
  BY <1>0, <1>1, <1>4, <1>5, ReallocateHeld
<1>8. free_list_' = (free_list_ \cup UNION {Held(n) : n \in S}) \ bufs
  BY <1>1, <1>5 DEF Reallocate
<1>9. m \notin S /\ Held(m) = {}
  BY <1>0, <1>2, <1>4 DEF VacantHoldsNothing, Vacant
<1>10. {Held(n) : n \in S} = {held[n] : n \in S}
  BY <1>4
<1>11. Cache!Gained(S) = free_list_ \cup UNION {Held(n) : n \in S}
  BY <1>10 DEF Cache!Gained
<1>12. \A v \in S : phase[v] \in {"reserved", "full"}
  <2>1. \A v \in S : state_[v] \in {"ALLOCATED", "LOADED"}
    BY <1>0, <1>4 DEF Vacant, States, StatesInv
  <2>. QED
    BY <1>4, <2>1, PhaseFacts
<1>13. CASE up
  <2>1. \A n \in Models :
          Phase(n)' = IF n = m THEN "reserved" ELSE
                      IF n \in S THEN "absent" ELSE Phase(n)
    BY <1>2, <1>13, PhaseFacts DEF Vacant
  <2>2. phase[m] = "absent"
    BY <1>2, PhaseFacts DEF Vacant
  <2>3. S \subseteq Cache!Droppable
    BY <1>4, <1>12 DEF Cache!Droppable
  <2> DEFINE held2 == [n \in Models |-> Held(n)']
             phase2 == [n \in Models |-> Phase(n)']
  <2>4. held2[m] = bufs
    BY <1>7
  <2>5. held2 = [Cache!Dropped(S) EXCEPT ![m] = bufs]
    BY <1>7, <1>9 DEF Cache!Dropped
  <2>6. phase2 = [Cache!Absent(S) EXCEPT ![m] = "reserved"]
    BY <1>9, <2>1 DEF Cache!Absent
  <2>7. Cache!Cardinality(bufs) = Size[m[1]]
    BY <1>1, <1>13, CacheCounts
  <2>8. bufs \subseteq Cache!Gained(S) /\ free_list_' = Cache!Gained(S) \ bufs
    BY <1>1, <1>6, <1>8, <1>11
  <2>9. Cache!Reserve(m, S)
    BY <2>2, <2>3, <2>4, <2>5, <2>6, <2>7, <2>8 DEF Cache!Reserve
  <2>. QED
    BY <1>4, <1>9, <2>9 DEF Cache!Next
<1>14. CASE ~up
  <2>1. bufs = {}
    BY <1>1, <1>5, <1>14, SizeAssumption, FS_Subset, FS_EmptySet
  <2>2. \A n \in Models : Held(n)' = IF n \in S THEN {} ELSE Held(n)
    BY <1>7, <1>9, <2>1
  <2>3. free_list_' = free_list_ \cup UNION {Held(n) : n \in S}
    BY <1>8, <2>1
  <2>4. \A n \in Models : Phase(n)' = IF n \in S THEN "absent" ELSE Phase(n)
    BY <1>2, <1>14, PhaseFacts DEF Vacant
  <2>5. CASE S = {}
    <3>1. UNCHANGED free_list_ /\ \A n \in Models : Held(n)' = Held(n) /\ Phase(n)' = Phase(n)
      BY <2>2, <2>3, <2>4, <2>5
    <3>. QED
      BY <3>1, CacheStutters
  <2>6. CASE S # {}
    <3>1. Cache!Drop(S)
      BY <1>4, <1>12, <2>2, <2>3, <2>4, <2>6, CacheDrops DEF Cache!Drop, Cache!Droppable
    <3>. QED
      BY <1>4, <3>1 DEF Cache!Next
  <2>. QED
    BY <2>5, <2>6
<1>. QED
  BY <1>13, <1>14

\* A step of a store that loads to host memory only is one of the cache.
LEMMA CacheImplements ==
    ASSUME GpuClients = {}, IndInv, CacheInv, [Next]_vars
    PROVE  [Cache!Next]_Cache!vars
<1>0. /\ TypeOK /\ StatesInv /\ NoReplicas /\ state_ \in [Models -> States]
  BY DEF IndInv, CacheInv, TypeOK, MemoryType
<1>1. ASSUME Quiet PROVE [Cache!Next]_Cache!vars
  <2>1. \A n \in Models : Held(n)' = Held(n) /\ Phase(n)' = Phase(n)
    BY <1>1 DEF Quiet, Held, Phase
  <2>. QED
    BY <1>1, <2>1, CacheStutters DEF Quiet
<1>2. ASSUME NEW m \in Models, Registers(m) PROVE [Cache!Next]_Cache!vars
  <2>1. \A n \in Models : Held(n)' = Held(n)
    BY <1>2 DEF Registers, Held
  <2>2. state_[m] \in Vacant /\ state_'[m] \in Vacant
        /\ \A n \in Models \ {m} : state_'[n] = state_[n]
    BY <1>0, <1>2 DEF Registers, Vacant
  <2>3. \A n \in Models : Phase(n)' = Phase(n)
    BY <2>2, PhaseFacts
  <2>. QED
    BY <1>2, <2>1, <2>3, CacheStutters DEF Registers
<1>3. ASSUME NEW m \in Models, state_[m] \in {"ALLOCATED", "LOADED"}, Frees(m)
      PROVE  [Cache!Next]_Cache!vars
  <2>1. {m} \subseteq Cache!Droppable /\ {m} # {} /\ {m} \in SUBSET Models
    BY <1>3, PhaseFacts DEF Cache!Droppable
  <2>2. Cache!Drop({m})
    BY <1>0, <1>3, <2>1, FreesDrops DEF Cache!Drop
  <2>. QED
    BY <2>1, <2>2 DEF Cache!Next
<1>4. ASSUME NEW m \in Models, Evicts(m) PROVE [Cache!Next]_Cache!vars
  BY <1>0, <1>4, EvictsReserves
<1>5. ASSUME NEW m \in Models, NEW from, NEW to,
             NEW s, state_' = [state_ EXCEPT ![m] = s],
             UNCHANGED <<pinned_mem_, free_list_>>,
             Phase(m) = from, Phase(m)' = to
      PROVE  Cache!Move(m, from, to)
  <2>1. \A n \in Models : Held(n)' = Held(n)
    BY <1>5 DEF Held
  <2>2. \A n \in Models \ {m} : Phase(n)' = Phase(n)
    BY <1>0, <1>5, PhaseFacts
  <2>. QED
    BY <1>0, <1>5, <2>1, <2>2, CacheMoves
<1>6. ASSUME NEW c \in Clients, ToHost(c) PROVE [Cache!Next]_Cache!vars
  <2>1. PICK m \in Models :
          /\ state_[m] = "ALLOCATED" /\ state_' = [state_ EXCEPT ![m] = "LOADING"]
          /\ UNCHANGED <<pinned_mem_, free_list_>>
    BY <1>6, ToHostKeeps
  <2>2. Phase(m) = "reserved" /\ Phase(m)' = "filling"
    BY <1>0, <2>1, PhaseFacts
  <2>3. Cache!Move(m, "reserved", "filling")
    BY <1>5, <2>1, <2>2
  <2>. QED
    BY <2>3 DEF Cache!Next
<1>7. ASSUME NEW c \in Clients, ReadersDone(c) PROVE [Cache!Next]_Cache!vars
  <2>1. PICK m \in Models :
          /\ state_[m] = "LOADING"
          /\ \/ /\ state_' = [state_ EXCEPT ![m] = "LOADED"]
                /\ UNCHANGED <<pinned_mem_, free_list_>>
             \/ Frees(m)
    BY <1>7, ReadersDoneKeeps
  <2>2. Phase(m) = "filling"
    BY <2>1, PhaseFacts
  <2>3. CASE Frees(m)
    <3>1. Cache!Abort(m)
      BY <1>0, <2>2, <2>3, FreesDrops DEF Cache!Abort
    <3>. QED
      BY <3>1 DEF Cache!Next
  <2>4. CASE /\ state_' = [state_ EXCEPT ![m] = "LOADED"]
             /\ UNCHANGED <<pinned_mem_, free_list_>>
    <3>1. Phase(m)' = "full"
      BY <1>0, <2>4, PhaseFacts
    <3>2. Cache!Move(m, "filling", "full")
      BY <1>5, <2>2, <2>4, <3>1
    <3>. QED
      BY <3>2 DEF Cache!Next
  <2>. QED
    BY <2>1, <2>3, <2>4
<1>8. ASSUME NEW c \in Clients, ReadStep(c) PROVE [Cache!Next]_Cache!vars
  BY <1>1, <1>8, ReadKeeps
<1>. QED
  BY <1>0, <1>1, <1>2, <1>3, <1>4, <1>6, <1>7, <1>8, CacheSteps DEF Others

\* The host memory of such a store is a cache of models: a model gets all its
\* buffers at once, room is never made by dropping one that is being read, and
\* what is complete stays so until it is dropped as a whole.
THEOREM StoreIsCache ==
    ASSUME GpuClients = {}
    PROVE  Spec => ImplementsCache
<1>1. Init => CacheInv /\ Cache!Init
  BY CacheInit, CacheStarts
<1>2. IndInv /\ CacheInv /\ [Next]_vars => CacheInv' /\ [Cache!Next]_Cache!vars
  BY CacheNext, CacheImplements
<1>. QED
  BY <1>1, <1>2, Invariance, PTL DEF Spec, ImplementsCache, Cache!Spec
-----------------------------------------------------------------------------
(* The order of the evictions, in such a store that ClearMem is not called *)
(* for: ClearMem forgets the models, but not the order of their paths      *)

\* A path is in the order once, and leads to the Model that was made for it.
OrderInv ==
    /\ server.clears = 0 /\ server.op # "clear"
    /\ IsInjective(access_order)
    /\ \A p \in Paths : Registered(p) => model_map_[p][1] = p
    /\ \A m \in Models : state_[m] # "UNINITIALIZED" => model_map_[m[1]] = m

\* What a step does to the event loop and to the maps of the store.
OrderView ==
    /\ server'.clears = server.clears
    /\ server'.op = server.op \/ server'.op # "clear"
    /\ UNCHANGED model_map_ \/ \E m \in Models : Registers(m)
    /\ UNCHANGED access_order \/ \E p \in Paths : access_order' = Touched(p)

\* No step forgets a model or has a path twice.
LEMMA OrderViewStep ==
    ASSUME GpuClients = {}, IndInv, NoReplicas, [Next]_vars,
           server.clears = 0, server.op # "clear"
    PROVE  OrderView
<1> DEFINE Loop == /\ server'.clears = server.clears
                   /\ server'.op = server.op \/ server'.op # "clear"
           Map == UNCHANGED model_map_ \/ \E m \in Models : Registers(m)
           Order == UNCHANGED access_order \/ \E p \in Paths : access_order' = Touched(p)
           View == Loop /\ Map /\ Order
<1>0. server \in ServerRecords /\ client \in [Clients -> ClientRecords]
  BY DEF IndInv, TypeOK
<1>1. ASSUME UNCHANGED server PROVE Loop
  BY <1>1
<1>2. ASSUME NEW op, NEW of, op # "clear", Calling(op, of) PROVE Loop
  BY <1>0, <1>2 DEF Calling, ServerRecords
<1>3. ASSUME UNCHANGED store PROVE Map /\ Order
  BY <1>3 DEF store
<1>4. ASSUME UNCHANGED <<server, store>> PROVE View
  BY <1>4 DEF store
<1>5. ASSUME Crash PROVE View
  BY <1>0, <1>5 DEF Crash, store, ServerRecords
<1>6. ASSUME Request \/ ServerStep PROVE View
  <2>1. ASSUME NEW c \in Clients, NEW p \in Paths, LoadIntoCpu(c, p) PROVE View
    <3>1. Map
      BY <2>1 DEF LoadIntoCpu, Register, Registered, Registers
    <3>2. UNCHANGED <<server, access_order>>
      BY <2>1 DEF LoadIntoCpu
    <3>. QED
      BY <3>1, <3>2
  <2>2. ASSUME NEW c \in Clients, LoadIntoGpu(c) \/ Confirm(c) \/ ConfirmFails(c)
        PROVE  FALSE
    BY <2>2 DEF LoadIntoGpu, Confirm, ConfirmFails, NoReplicas
  <2>3. ~ReplicaFound /\ ~ConfirmReturns
    BY DEF ReplicaFound, ConfirmReturns, In, NoReplicas, Threads
  <2>4. ~ClearMem /\ (\A p \in Paths : ~ClearNext(p)) /\ ~Cleared
    BY DEF ClearMem, ClearNext, Cleared, Serving
  <2>5. ASSUME NEW p \in Paths, RequestUnload(p) PROVE View
    <3>1. server' = [server EXCEPT !.unloads[p] = @ - 1, !.retries[p] = MaxTries]
          /\ UNCHANGED store
      BY <2>5 DEF RequestUnload
    <3>2. Loop
      BY <1>0, <3>1 DEF ServerRecords
    <3>. QED
      BY <1>3, <3>1, <3>2
  <2>6. ASSUME NEW p \in Paths, Unload(p) PROVE View
    <3>1. UNCHANGED store
      BY <2>6 DEF Unload
    <3>2. CASE Registered(p)
      <4>1. Loop
        BY <1>2, <2>6, <3>2 DEF Unload
      <4>. QED
        BY <1>3, <3>1, <4>1
    <3>3. CASE ~Registered(p)
      <4>1. server' = [server EXCEPT !.retries[p] = @ - 1]
        BY <2>6, <3>3 DEF Unload
      <4>2. Loop
        BY <1>0, <4>1 DEF ServerRecords
      <4>. QED
        BY <1>3, <3>1, <4>2
    <3>. QED
      BY <3>2, <3>3
  <2> HIDE DEF View
  <2>. QED
    BY <1>6, <2>1, <2>2, <2>3, <2>4, <2>5, <2>6 DEF Request, ServerStep
<1>7. ASSUME NEW t \in Threads, FreeStep(t) PROVE View
  <2>1. ASSUME NEW freed, Return(t, freed), UNCHANGED store PROVE View
    <3>1. CASE t \in Clients
      BY <1>4, <2>1, <3>1 DEF Return
    <3>2. CASE t \notin Clients
      <4> DEFINE retries == [server.retries EXCEPT ![server.of] =
                               IF freed THEN 0 ELSE @ - 1]
      <4>1. server' = [server EXCEPT !.op = "idle", !.of = Null,
                         !.retries[server.of] = IF freed THEN 0 ELSE @ - 1]
        BY <2>1, <3>2 DEF Return
      <4>2. server' = [server EXCEPT !.op = "idle", !.of = Null,
                                     !.retries = retries]
        BY <1>0, <4>1 DEF ServerRecords
      <4> HIDE DEF retries
      <4>3. Loop
        BY <1>0, <4>2 DEF ServerRecords
      <4>. QED
        BY <1>3, <2>1, <4>3
    <3>. QED
      BY <3>1, <3>2
  <2> HIDE DEF View
  <2>2. ASSUME NEW m, NEW visit, ScanReplicas(t, m, visit) PROVE View
    BY <1>4, <1>5, <2>1, <2>2 DEF ScanReplicas
  <2>. QED
    BY <1>4, <1>7, <2>1, <2>2
       DEF FreeStep, FreeHost, HostEnded, HostSleepsOn, ReplicaEnded
<1>8. ASSUME NEW c \in Clients, DiskStep(c) \/ ReadStep(c) PROVE View
  <2>1. load[c].at # "none" => client[c].path \in Paths
    BY DEF IndInv, ClientsInv
  <2>2. ASSUME UNCHANGED <<server, model_map_>>, load[c].at = "allocate",
               \/ UNCHANGED access_order
               \/ access_order' = Touched(client[c].path)
        PROVE  View
    BY <2>1, <2>2
  <2> HIDE DEF View
  <2>3. ASSUME Allocate(c) PROVE View
    BY <1>5, <2>2, <2>3 DEF Allocate, Disk
  <2>4. ASSUME KeepMemory(c) PROVE View
    BY <2>2, <2>4 DEF KeepMemory, Disk
  <2>5. ASSUME DiskStep(c), ~Allocate(c), ~KeepMemory(c) PROVE View
    BY <1>4, <1>5, <2>5 DEF DiskStep, DiskBegin, AlreadyRead, ToHostFails,
       ToHost, ReadersDone, CancelledEnded
  <2>6. ASSUME ReadStep(c) PROVE View
    BY <1>4, <1>5, <2>6 DEF ReadStep, ReadChunk, ReadFails
  <2>. QED
    BY <1>8, <2>3, <2>4, <2>5, <2>6
<1>9. ASSUME NEW c \in Clients, ReplicaStep(c) \/ DeviceStep(c) PROVE FALSE
  <2>1. replica[c].at = "none" /\ replica[c].device = "none"
    BY DEF NoReplicas
  <2>. QED
    BY <1>9, <2>1 DEF ReplicaStep, DeviceStep, ReplicaBegin, ToGpu, Plan,
       Dispatch, ReplicaDone, FreeGpu, DeviceStart, Copy, Gpu, Device
<1>10. ASSUME UNCHANGED vars PROVE View
  BY <1>4, <1>10 DEF vars
<1> HIDE DEF View
<1>11. View
  BY <1>6, <1>7, <1>8, <1>9, <1>10 DEF Next
<1>. QED
  BY <1>11 DEF View, OrderView

\* A path that is used moves to the end, and is in the order once.
LEMMA TouchedOnce ==
    ASSUME access_order \in Seq(Paths), IsInjective(access_order), NEW p \in Paths
    PROVE  IsInjective(Touched(p))
<1> DEFINE at == {i \in DOMAIN access_order : access_order[i] = p}
           k  == CHOOSE i \in at : TRUE
           s  == IF at = {} THEN access_order ELSE RemoveAt(access_order, k)
<1>1. s \in Seq(Paths) /\ IsInjective(s) /\ p \notin ToSet(s)
  <2>1. CASE at = {}
    <3>1. p \notin ToSet(access_order)
      BY <2>1, ToSetMember
    <3>. QED
      BY <2>1, <3>1
  <2>2. CASE at # {}
    <3>1. k \in at
      BY <2>2
    <3>2. k \in DOMAIN access_order /\ access_order[k] = p
      BY <3>1
    <3> HIDE DEF k, at
    <3>3. /\ RemoveAt(access_order, k) \in Seq(Paths)
          /\ IsInjective(RemoveAt(access_order, k))
          /\ ToSet(RemoveAt(access_order, k)) = ToSet(access_order) \ {access_order[k]}
      BY <3>2, RemoveAtElements
    <3>. QED
      BY <2>2, <3>2, <3>3
  <2>. QED
    BY <2>1, <2>2
<1>2. Touched(p) = Append(s, p)
  BY DEF Touched
<1> HIDE DEF s
<1>. QED
  BY <1>1, <1>2, AppendElements

\* A model is used for the first time only when it is registered.
LEMMA OnlyRegistered ==
    ASSUME GpuClients = {}, IndInv, CacheInv, [Next]_vars,
           NEW n \in Models, state_[n] = "UNINITIALIZED", state_'[n] # "UNINITIALIZED"
    PROVE  Registers(n)
<1>0. state_ \in [Models -> States]
  BY DEF IndInv, TypeOK, MemoryType
<1>1. CASE Others
  <2>1. ASSUME NEW m \in Models, Registers(m) PROVE Registers(n)
    BY <1>0, <2>1 DEF Registers
  <2>2. ASSUME NEW m \in Models, state_[m] \in {"ALLOCATED", "LOADED"}, Frees(m)
        PROVE  FALSE
    BY <1>0, <2>2 DEF Frees
  <2>3. ASSUME NEW m \in Models, Evicts(m) PROVE FALSE
    <3>1. Visited(m) \in 0 .. Len(access_order)
      BY VisitedProperties DEF IndInv
    <3>2. n \notin Victims(Visited(m))
      BY <3>1, VictimsType DEF IndInv, Vacant
    <3>3. n # m
      BY <2>3 DEF Evicts
    <3>. QED
      BY <2>3, <3>2, <3>3 DEF Evicts
  <2>4. ~Quiet
    BY DEF Quiet
  <2>. QED
    BY <1>1, <2>1, <2>2, <2>3, <2>4 DEF Others
<1>2. ASSUME NEW c \in Clients, ToHost(c) \/ ReadersDone(c) \/ ReadStep(c)
      PROVE  FALSE
  <2>1. CASE ToHost(c)
    <3>1. PICK m \in Models : /\ state_[m] = "ALLOCATED"
                              /\ state_' = [state_ EXCEPT ![m] = "LOADING"]
      BY <2>1, ToHostKeeps
    <3>. QED
      BY <1>0, <3>1
  <2>2. CASE ReadersDone(c)
    <3>1. PICK m \in Models :
            /\ state_[m] = "LOADING"
            /\ state_' = [state_ EXCEPT ![m] = "LOADED"] \/ Frees(m)
      BY <2>2, ReadersDoneKeeps
    <3>. QED
      BY <1>0, <3>1 DEF Frees
  <2>3. CASE ReadStep(c)
    BY <2>3, ReadKeeps DEF Quiet
  <2>. QED
    BY <1>2, <2>1, <2>2, <2>3
<1>. QED
  BY <1>1, <1>2, CacheSteps DEF CacheInv

\* The paths lead to the models from the start, and every step keeps it so.
LEMMA OrderInit ==
    ASSUME Init, Clears = 0
    PROVE  OrderInv
BY EmptyElements DEF Init, OrderInv, Registered

\* Every step keeps the order of use and the models it names.
LEMMA OrderNext ==
    ASSUME GpuClients = {}, IndInv, CacheInv, OrderInv, [Next]_vars
    PROVE  OrderInv'
<1>0. /\ access_order \in Seq(Paths) /\ model_map_ \in [Paths -> {Null} \cup Models]
      /\ state_ \in [Models -> States]
  BY DEF IndInv, TypeOK, MemoryType
<1>1. OrderView
  BY OrderViewStep DEF OrderInv, CacheInv
<1>2. server'.clears = 0 /\ server'.op # "clear"
  BY <1>1 DEF OrderView, OrderInv
<1>3. IsInjective(access_order')
  BY <1>0, <1>1, TouchedOnce DEF OrderView, OrderInv
<1>4. CASE UNCHANGED model_map_
  <2>1. ASSUME NEW n \in Models, state_'[n] # "UNINITIALIZED"
        PROVE  model_map_'[n[1]] = n
    <3>1. CASE state_[n] # "UNINITIALIZED"
      BY <1>4, <3>1 DEF OrderInv
    <3>2. CASE state_[n] = "UNINITIALIZED"
      <4>1. Registers(n)
        BY <2>1, <3>2, OnlyRegistered
      <4>2. n[1] \in Paths /\ n # Null
        BY ModelFacts
      <4>. QED
        BY <1>0, <1>4, <4>1, <4>2 DEF Registers
    <3>. QED
      BY <3>1, <3>2
  <2>2. \A p \in Paths : Registered(p)' => model_map_'[p][1] = p
    BY <1>4 DEF OrderInv, Registered
  <2>. QED
    BY <1>2, <1>3, <2>1, <2>2 DEF OrderInv
<1>5. ASSUME NEW m \in Models, Registers(m) PROVE OrderInv'
  <2>1. m[1] \in Paths /\ \A n \in Models : n # Null
    BY ModelFacts
  <2>2. /\ model_map_'[m[1]] = m /\ model_map_[m[1]] = Null
        /\ \A p \in Paths : p # m[1] => model_map_'[p] = model_map_[p]
        /\ \A n \in Models : n # m => state_'[n] = state_[n]
    BY <1>0, <1>5, <2>1 DEF Registers
  <2>3. \A p \in Paths : Registered(p)' => model_map_'[p][1] = p
    BY <2>2 DEF OrderInv, Registered
  <2>4. ASSUME NEW n \in Models, state_'[n] # "UNINITIALIZED", n # m
        PROVE  model_map_'[n[1]] = n
    <3>1. model_map_[n[1]] = n /\ n[1] \in Paths
      BY <2>2, <2>4, ModelFacts DEF OrderInv
    <3>2. n[1] # m[1]
      BY <2>1, <2>2, <3>1
    <3>. QED
      BY <2>2, <3>1, <3>2
  <2>. QED
    BY <1>2, <1>3, <2>2, <2>3, <2>4 DEF OrderInv
<1>. QED
  BY <1>1, <1>4, <1>5 DEF OrderView

\* The place of a model is where its path is.
LEMMA PlaceIs ==
    ASSUME IsInjective(access_order), NEW m, NEW i \in DOMAIN access_order,
           access_order[i] = m[1]
    PROVE  Place(m) = i
BY DEF Place, IsInjective

\* The victims of the first k paths: those the order leads to.
LEMMA VictimsAre ==
    ASSUME IndInv, OrderInv, NEW k \in 0 .. Len(access_order)
    PROVE  /\ \A v \in Victims(k) :
                /\ v \in Models /\ Evictable(v)
                /\ Place(v) \in 1 .. k /\ access_order[Place(v)] = v[1]
           /\ \A v \in Models :
                (/\ state_[v] # "UNINITIALIZED" /\ Evictable(v)
                 /\ \E i \in 1 .. k : access_order[i] = v[1]) => v \in Victims(k)
<1>0. /\ access_order \in Seq(Paths) /\ Len(access_order) \in Nat
      /\ \A i \in 1 .. k : i \in DOMAIN access_order /\ access_order[i] \in Paths
      /\ model_map_ \in [Paths -> {Null} \cup Models]
  BY DEF IndInv, TypeOK
<1>1. ASSUME NEW v \in Victims(k)
      PROVE  /\ v \in Models /\ Evictable(v)
             /\ Place(v) \in 1 .. k /\ access_order[Place(v)] = v[1]
  <2>1. PICK i \in 1 .. k : v = model_map_[access_order[i]] /\ v # Null /\ Evictable(v)
    BY DEF Victims, Oldest
  <2>2. access_order[i] = v[1] /\ v \in Models
    BY <1>0, <2>1 DEF OrderInv, Registered
  <2>3. Place(v) = i
    BY <1>0, <2>2, PlaceIs DEF OrderInv
  <2>. QED
    BY <2>1, <2>2, <2>3
<1>2. ASSUME NEW v \in Models, state_[v] # "UNINITIALIZED", Evictable(v),
             NEW i \in 1 .. k, access_order[i] = v[1]
      PROVE  v \in Victims(k)
  <2>1. model_map_[access_order[i]] = v /\ v # Null
    BY <1>2, ModelFacts DEF OrderInv
  <2>. QED
    BY <1>2, <2>1 DEF Victims, Oldest
<1>. QED
  BY <1>1, <1>2

\* Those who lose their memory to an eviction are its victims.
LEMMA LosersAre ==
    ASSUME IndInv, CacheInv, OrderInv, NEW c \in Clients, Allocate(c),
           Enough(load[c].model, Visited(load[c].model)),
           Null \notin Oldest(Visited(load[c].model))
    PROVE  Losers = Victims(Visited(load[c].model))
<1> DEFINE m == load[c].model
           k == Visited(m)
<1>1. /\ state_' = [n \in Models |-> IF n = m THEN "ALLOCATED" ELSE
                                     IF n \in Victims(k) THEN "UNALLOCATED" ELSE state_[n]]
      /\ state_[m] = "UNALLOCATED" /\ m \in Models
  BY DEF Allocate, Needs, Disk, IndInv, LoadsInv
<1>2. k \in 0 .. Len(access_order)
  BY <1>1, VisitedProperties DEF IndInv
<1>3. \A v \in Victims(k) : v \in Models /\ Evictable(v)
  BY <1>2, VictimsAre
<1>4. \A v \in Victims(k) : v # m /\ state_[v] \notin Vacant
  BY <1>1, <1>3 DEF Evictable, Vacant
<1>5. \A v \in Victims(k) : Held(v) # {}
  <2>1. \A v \in Victims(k) : Cardinality(Held(v)) = Size[v[1]] /\ Size[v[1]] > 0
    BY <1>3, <1>4, ModelFacts DEF CacheInv, MemoryMatchesState
  <2>. QED
    BY <2>1, FS_EmptySet
<1> HIDE DEF k, m
<1>6. ASSUME NEW v \in Models
      PROVE  Held(v) # {} /\ state_'[v] = "UNALLOCATED" <=> v \in Victims(k)
  <2>1. CASE v \in Victims(k)
    BY <1>1, <1>4, <1>5, <2>1
  <2>2. CASE v \notin Victims(k)
    <3>1. state_'[v] = "UNALLOCATED" => state_[v] = "UNALLOCATED"
      BY <1>1, <2>2
    <3>2. state_[v] = "UNALLOCATED" => Held(v) = {}
      BY DEF IndInv, VacantHoldsNothing, Vacant
    <3>. QED
      BY <2>2, <3>1, <3>2
  <2>. QED
    BY <2>1, <2>2
<1>7. Losers = Victims(k)
  BY <1>3, <1>6 DEF Losers
<1>. QED
  BY <1>7 DEF k, m

\* A disk task goes for its ToHost from AllocatePinnedMemory alone.
LEMMA AllocatedBy ==
    ASSUME GpuClients = {}, IndInv, NoReplicas, [Next]_vars,
           NEW c \in Clients, load[c].at = "allocate", load'[c].at = "toHost"
    PROVE  KeepMemory(c) \/ Allocate(c)
<1>0. load \in [Clients -> LoadRecords]
  BY DEF IndInv, TypeOK
<1>1. ASSUME NEW d \in Clients, NEW at, at # "toHost",
             load' = [load EXCEPT ![d].at = at]
      PROVE  FALSE
  BY <1>0, <1>1 DEF LoadRecords
<1>2. ASSUME UNCHANGED load PROVE FALSE
  BY <1>2
<1>3. ASSUME NEW d \in Clients, d # c, NEW r, load' = [load EXCEPT ![d] = r]
      PROVE  FALSE
  BY <1>0, <1>3
<1>4. ASSUME Request \/ ServerStep PROVE FALSE
  <2>1. ASSUME NEW d \in Clients, NEW p \in Paths, LoadIntoCpu(d, p)
        PROVE  FALSE
    <3>1. load' = [load EXCEPT ![d].at = "begin"]
      BY <2>1 DEF LoadIntoCpu
    <3>. QED
      BY <1>1, <3>1
  <2>2. ASSUME NEW d \in Clients, LoadIntoGpu(d) PROVE FALSE
    BY <1>2, <2>2 DEF LoadIntoGpu
  <2>3. ASSUME ServerStep PROVE UNCHANGED load
    BY <2>3 DEF ServerStep, Confirm, ConfirmFails, Unload, ClearNext,
                ReplicaFound, ConfirmReturns, Answer, Cleared
  <2>4. ASSUME (\E p \in Paths : RequestUnload(p)) \/ ClearMem
        PROVE  UNCHANGED load
    BY <2>4 DEF RequestUnload, ClearMem
  <2>. QED
    BY <1>2, <1>4, <2>1, <2>2, <2>3, <2>4 DEF Request
<1>5. ASSUME NEW t \in Threads, FreeStep(t) PROVE FALSE
  <2>1. ASSUME NEW freed, Return(t, freed) PROVE FALSE
    <3>1. CASE t \in Clients
      <4>1. load' = [load EXCEPT ![t].at = "failed"]
        BY <2>1, <3>1 DEF Return
      <4>. QED
        BY <1>1, <3>1, <4>1
    <3>2. CASE t \notin Clients
      BY <1>2, <2>1, <3>2 DEF Return
    <3>. QED
      BY <3>1, <3>2
  <2>2. ASSUME NEW m, NEW visit, ScanReplicas(t, m, visit) PROVE FALSE
    <3>1. ASSUME Return(t, TRUE) PROVE FALSE
      BY <2>1, <3>1
    <3>2. UNCHANGED load \/ Return(t, TRUE)
      BY <2>2 DEF ScanReplicas, Crash
    <3>. QED
      BY <1>2, <3>1, <3>2
  <2>3. CASE FreeHost(t)
    <3>1. Return(t, FALSE) \/ UNCHANGED load
          \/ ScanReplicas(t, frame[t].model, Replicas(frame[t].model))
      BY <2>3 DEF FreeHost
    <3>. QED
      BY <1>2, <2>1, <2>2, <3>1
  <2>4. CASE HostEnded(t)
    BY <2>2, <2>4 DEF HostEnded
  <2>5. CASE HostSleepsOn(t)
    BY <1>2, <2>5 DEF HostSleepsOn
  <2>6. CASE ReplicaEnded(t)
    BY <2>2, <2>6 DEF ReplicaEnded
  <2>. QED
    BY <1>5, <2>3, <2>4, <2>5, <2>6 DEF FreeStep
<1>6. ASSUME NEW d \in Clients, d # c, DiskStep(d) \/ ReadStep(d) PROVE FALSE
  <2>1. \A e \in Clients : e # d => load'[e] = load[e]
    BY <1>0, <1>6 DEF DiskStep, ReadStep, DiskBegin, KeepMemory, Allocate,
       AlreadyRead, ToHostFails, ToHost, ReadersDone, CancelledEnded,
       CancelReplicas, CallFreeHost, ReadChunk, ReadFails, Crash
  <2>. QED
    BY <1>6, <2>1
<1>7. ASSUME DiskStep(c) PROVE KeepMemory(c) \/ Allocate(c)
  <2>1. ~CancelledEnded(c)
    BY DEF CancelledEnded, In, NoReplicas, Threads
  <2>. QED
    BY <1>7, <2>1 DEF DiskStep, DiskBegin, AlreadyRead, ToHostFails, ToHost,
       ReadersDone, Disk
<1>8. ~ReadStep(c)
  BY DEF ReadStep, ReadChunk, ReadFails, NextChunk, Disk
<1>9. ASSUME NEW d \in Clients, ReplicaStep(d) \/ DeviceStep(d) PROVE FALSE
  BY <1>2, <1>9, ReplicaViews
<1>10. ASSUME UNCHANGED vars PROVE FALSE
  BY <1>2, <1>10 DEF vars
<1>. QED
  BY <1>4, <1>5, <1>6, <1>7, <1>8, <1>9, <1>10 DEF Next

\* An eviction goes by last use and takes no more than it needs.
LEMMA EvictionStep ==
    ASSUME GpuClients = {}, IndInv, CacheInv, OrderInv, [Next]_vars,
           NEW c \in Clients, load[c].at = "allocate", load'[c].at = "toHost"
    PROVE  EvictsOldest(c)
<1> DEFINE m == load[c].model
           k == Visited(m)
<1>0. /\ TypeOK /\ m \in Models /\ Size[m[1]] \in Nat
      /\ load \in [Clients -> LoadRecords]
      /\ state_ \in [Models -> States] /\ access_order \in Seq(Paths)
  BY ModelFacts DEF IndInv, LoadsInv, TypeOK, MemoryType
<1>1. KeepMemory(c) \/ Allocate(c)
  BY AllocatedBy DEF CacheInv
<1>2. CASE KeepMemory(c)
  <2>1. state_' = state_
    BY <1>2 DEF KeepMemory, memory
  <2>2. Losers = {}
    BY <2>1 DEF Losers, IndInv, VacantHoldsNothing, Vacant
  <2>. QED
    BY <2>2 DEF EvictsOldest
<1>3. CASE Allocate(c)
  <2>1. Enough(m, k) /\ Null \notin Oldest(k)
    <3>1. CASE Null \in Oldest(k)
      BY <1>3, <3>1 DEF Allocate, Crash
    <3>2. CASE Null \notin Oldest(k) /\ ~Enough(m, k)
      <4>1. load' = [load EXCEPT ![c].at = "failed"]
        BY <1>3, <3>2 DEF Allocate
      <4>. QED
        BY <1>0, <4>1 DEF LoadRecords
    <3>. QED
      BY <3>1, <3>2
  <2>2. /\ k \in 0 .. Len(access_order)
        /\ \A j \in 0 .. k - 1 : ~Enough(m, j)
    BY <1>0, <2>1, VisitedProperties
  <2>3. Losers = Victims(k)
    BY <1>3, <2>1, LosersAre
  <2> HIDE DEF k, m
  <2>4. ASSUME NEW v \in Losers, NEW n \in Models \ Losers,
               state_[n] \in {"ALLOCATED", "LOADED"}, Evictable(n),
               n[1] \in ToSet(access_order)
        PROVE  Place(v) < Place(n)
    <3>1. Place(v) \in 1 .. k
      BY <2>2, <2>3, VictimsAre
    <3>2. PICK i \in 1 .. Len(access_order) : access_order[i] = n[1]
      BY <1>0, <2>4, ToSetMember
    <3>3. Place(n) = i
      BY <1>0, <3>2, PlaceIs DEF OrderInv
    <3>4. i \notin 1 .. k
      BY <2>2, <2>3, <2>4, <3>2, VictimsAre
    <3>. QED
      BY <1>0, <2>2, <3>1, <3>2, <3>3, <3>4
  <2>5. ASSUME NEW v \in Losers, \A n \in Losers : Place(n) <= Place(v)
        PROVE  Cardinality(free_list_ \cup UNION {Held(n) : n \in Losers \ {v}})
                 < Size[m[1]]
    <3> DEFINE rest == free_list_ \cup UNION {Held(n) : n \in Losers \ {v}}
    <3>1. PICK j \in Int : j = Place(v) - 1 /\ Place(v) \in 1 .. k
      BY <2>2, <2>3, VictimsAre
    <3>2. j \in 0 .. k - 1 /\ j \in 0 .. Len(access_order)
      BY <1>0, <2>2, <3>1
    <3>3. ASSUME NEW n \in Losers \ {v}
          PROVE  n \in Victims(j)
      <4>1. /\ n \in Models /\ Evictable(n) /\ v \in Models
            /\ Place(n) \in 1 .. k /\ access_order[Place(n)] = n[1]
            /\ access_order[Place(v)] = v[1] /\ Evictable(v)
        BY <2>2, <2>3, VictimsAre
      <4>2. state_[n] # "UNINITIALIZED" /\ state_[v] # "UNINITIALIZED"
        BY <4>1 DEF Evictable, Vacant
      <4>3. Place(n) # Place(v)
        <5>1. model_map_[n[1]] = n /\ model_map_[v[1]] = v
          BY <4>1, <4>2 DEF OrderInv
        <5>. QED
          BY <4>1, <5>1
      <4>4. Place(n) \in 1 .. j
        BY <2>2, <2>5, <3>1, <4>1, <4>3
      <4>. QED
        BY <3>2, <4>1, <4>2, <4>4, VictimsAre
    <3>4. rest \subseteq Available(j)
      BY <3>3 DEF Available
    <3>5. Available(j) \subseteq Buffers
      BY <1>0, <3>2, VictimsType
    <3> HIDE DEF rest
    <3>6. /\ Cardinality(rest) <= Cardinality(Available(j))
          /\ Cardinality(rest) \in Nat /\ Cardinality(Available(j)) \in Nat
      BY <3>4, <3>5, SizeAssumption, FS_Subset, FS_CardinalityType
    <3>7. ~ (Cardinality(Available(j)) >= Size[m[1]])
      BY <2>2, <3>2 DEF Enough
    <3>8. Cardinality(rest) < Size[m[1]]
      BY <1>0, <3>6, <3>7
    <3>. QED
      BY <3>8 DEF rest
  <2>. QED
    BY <2>4, <2>5 DEF EvictsOldest, m
<1>. QED
  BY <1>1, <1>2, <1>3

\* In a store that loads to host memory only and that nobody clears, an
\* eviction frees the models that were used least recently of those that can be
\* freed, and no more of them than the new model needs
\* (Model::AllocatePinnedMemory over model_last_access_time_).
THEOREM EvictionsByLastUse ==
    ASSUME GpuClients = {}, Clears = 0
    PROVE  Spec => LeastRecentlyUsed
<1>1. Init => CacheInv /\ OrderInv
  BY CacheInit, OrderInit
<1>2. IndInv /\ CacheInv /\ OrderInv /\ [Next]_vars => CacheInv' /\ OrderInv'
  BY CacheNext, OrderNext
<1>3. IndInv /\ CacheInv /\ OrderInv /\ [Next]_vars =>
        \A c \in Clients :
          (load[c].at = "allocate" /\ load'[c].at = "toHost") => EvictsOldest(c)
  BY EvictionStep
<1>. QED
  BY <1>1, <1>2, <1>3, Invariance, PTL DEF Spec, LeastRecentlyUsed
-----------------------------------------------------------------------------
(* A store with room for all models that nothing goes wrong with: no fault, *)
(* no UnloadModel and no ClearMem                                          *)

\* The pool has room for all models at the same time: every path can have
\* buffers of its own.
Roomy ==
    \E home \in [Paths -> SUBSET Buffers] :
        /\ \A p \in Paths : Cardinality(home[p]) = Size[p]
        /\ \A p, q \in Paths : p # q => home[p] \cap home[q] = {}
Undisturbed == Faults = {} /\ Unloads = 0 /\ Clears = 0

\* The one Model that the path of a client ever has.
Mine(c) == <<client[c].path, 1>>
Full(m) == state_[m] \in {"LOADING", "LOADED"}

\* The server is up and has nothing to unload or to clear.
ServingInv ==
    /\ server.up /\ server.op \in {"idle", "confirm"} /\ server.clears = 0
    /\ \A p \in Paths : server.retries[p] = 0 /\ server.unloads[p] = 0

\* A model is registered once, gets its memory once and is read once: what it
\* has read is in its vector, each chunk once.
ModelInv(m) ==
    /\ state_[m] \in {"UNINITIALIZED", "UNALLOCATED", "ALLOCATED", "LOADING", "LOADED"}
    /\ state_[m] # "UNINITIALIZED" => m[2] = 1
    /\ m[2] = 1 => (state_[m] = "UNINITIALIZED" <=> model_map_[m[1]] = Null)
    /\ model_map_[m[1]] \in {Null, <<m[1], 1>>}
    /\ state_[m] \notin Vacant => Cardinality(Held(m)) = Size[m[1]]
    /\ ~Full(m) => content[m] = {}
    /\ Full(m) => /\ host_ptr_vector_[m] \in Seq(Chunks(m)) /\ IsInjective(host_ptr_vector_[m])
                  /\ content[m] = ToSet(host_ptr_vector_[m])
    /\ state_[m] = "LOADED" => content[m] = Chunks(m)

\* Where the disk task of a client is, its model is as far.
TaskInv(c) ==
    /\ load[c].at \in {"none", "begin", "allocate", "toHost", "reading", "loaded"}
    /\ client[c].next # "cpu" => model_map_[client[c].path] = Mine(c)
    /\ load[c].at = "none" <=> client[c].next = "cpu"
    /\ load[c].at \in {"allocate", "toHost", "reading"} => load[c].model = Mine(c)
    /\ load[c].at = "toHost" => state_[Mine(c)] \notin Vacant
    /\ load[c].at = "loaded" => Full(Mine(c))
    /\ load[c].at = "reading" =>
         /\ state_[Mine(c)] = "LOADING" /\ ~load[c].error
         /\ load[c].target = pinned_mem_[Mine(c)]
         /\ load[c].unread = Chunks(Mine(c)) \ content[Mine(c)]
AloneInv ==
    \A c, d \in Clients :
        load[c].at = "reading" /\ load[d].at = "reading" /\ Mine(c) = Mine(d) => c = d

\* The first k items in the queue of a replica are chunks that were read.
Sends(c, k) == \A i \in 1 .. k : replica[c].queue[i] \in content[Mine(c)]

\* What a replica was sent has been read, the end comes last and the device
\* thread stops there.
CopyInv(c) ==
    LET r == replica[c] IN
    /\ ~r.dangling /\ ~r.garbage
    /\ r.at \in {"none", "begin", "toGpu", "plan", "dispatch", "join", "loaded"}
    /\ r.at # "none" => /\ client[c].next \in {"confirm", "confirmed", "unconfirmed"}
                        /\ Full(Mine(c))
    /\ r.at \notin {"none", "begin"} => r.model = Mine(c)
    /\ r.at \in {"none", "begin", "toGpu"} =>
         /\ r.state = "UNINITIALIZED" /\ ~r.listed /\ r.device = "none"
         /\ r.sent = 0 /\ r.queue = <<>>
    /\ r.at \in {"plan", "dispatch", "join", "loaded"} =>
         r.listed /\ r.state = IF r.at = "loaded" THEN "LOADED" ELSE "LOADING"
    /\ r.at \in {"plan", "dispatch"} =>
         /\ r.device \in {"start", "copying"}
         /\ r.sent <= Len(host_ptr_vector_[Mine(c)]) /\ Sends(c, Len(r.queue))
    /\ r.at \in {"join", "loaded"} => r.sent = Size[client[c].path]
    /\ r.at = "join" =>
         \/ /\ r.device \in {"start", "copying"} /\ r.queue # <<>>
            /\ r.queue[Len(r.queue)] = End /\ Sends(c, Len(r.queue) - 1)
         \/ r.device = "done" /\ r.queue = <<>>
    /\ r.at = "loaded" => r.device = "done" /\ r.queue = <<>>
AnswerInv(c) == client[c].next = "confirmed" => replica[c].at = "loaded"

\* No task frees anything, and the event loop waits for replicas at most.
QuietInv ==
    /\ \A c \in Clients : frame[c].at = "none"
    /\ frame[Server].at \in {"none", "appear", "replica"}
    /\ frame[Server].at = "replica" => replica[frame[Server].on].listed

RightInv ==
    /\ ServingInv /\ AloneInv /\ QuietInv
    /\ \A m \in Models : ModelInv(m)
    /\ \A c \in Clients : TaskInv(c) /\ CopyInv(c) /\ AnswerInv(c)

\* The model of a client that has called.
LEMMA MineType ==
    ASSUME IndInv, NEW c \in Clients, client[c].next # "cpu"
    PROVE  /\ Mine(c) \in Models /\ Mine(c)[1] = client[c].path /\ Mine(c)[2] = 1
           /\ client[c].path \in Paths
BY SizeAssumption DEF IndInv, ClientsInv, Mine, Models

\* While a model waits for its memory there is room for it: what the others
\* hold, they could hold in buffers of their own.
LEMMA RoomLeft ==
    ASSUME Roomy, IndInv, \A n \in Models : ModelInv(n),
           NEW m \in Models, state_[m] = "UNALLOCATED"
    PROVE  Cardinality(free_list_) >= Size[m[1]] /\ Cardinality(free_list_) \in Nat
<1>1. PICK home \in [Paths -> SUBSET Buffers] :
         /\ \A p \in Paths : Cardinality(home[p]) = Size[p]
         /\ \A p, q \in Paths : p # q => home[p] \cap home[q] = {}
  BY DEF Roomy
<1>2. /\ TypeOK /\ PoolConservation /\ VacantHoldsNothing /\ IsFiniteSet(Buffers)
      /\ m[1] \in Paths /\ free_list_ \subseteq Buffers
  BY SizeAssumption, ModelFacts DEF IndInv, TypeOK, MemoryType
<1>3. PICK H : H = UNION {Held(n) : n \in Models}
  OBVIOUS
<1>4. H \subseteq Buffers /\ free_list_ = Buffers \ H
  BY <1>2, <1>3, HeldType DEF PoolConservation
<1>5. ASSUME NEW n \in Models, Held(n) # {}
      PROVE  n[1] # m[1] /\ n[1] \in Paths /\ Cardinality(Held(n)) = Cardinality(home[n[1]])
             /\ n = <<n[1], 1>>
  <2>1. state_[n] \notin Vacant
    BY <1>2, <1>5 DEF VacantHoldsNothing
  <2>2. n[2] = 1 /\ Cardinality(Held(n)) = Size[n[1]] /\ m[2] = 1
    BY <2>1 DEF ModelInv, Vacant
  <2>3. n # m
    BY <2>1 DEF Vacant
  <2>. QED
    BY <1>1, <2>2, <2>3, ModelFacts DEF Models
<1>6. ASSUME NEW n \in Models, Held(n) # {}
      PROVE  \E f : f \in Bijection(Held(n), home[n[1]])
  <2>1. home[n[1]] \subseteq Buffers /\ Cardinality(Held(n)) = Cardinality(home[n[1]])
    BY <1>1, <1>5, <1>6
  <2>2. IsFiniteSet(Held(n)) /\ IsFiniteSet(home[n[1]])
    BY <1>2, <2>1, HeldType, FS_Subset
  <2>3. ExistsBijection(Held(n), home[n[1]])
    BY <2>1, <2>2, FS_SameCardinalityBij
  <2>. QED
    BY <2>3 DEF ExistsBijection
<1> DEFINE g == [n \in Models |-> CHOOSE f : f \in Bijection(Held(n), home[n[1]])]
           of(b) == CHOOSE n \in Models : b \in Held(n)
           F == [b \in H |-> g[of(b)][b]]
           R == Buffers \ home[m[1]]
<1>7. ASSUME NEW b \in H
      PROVE  of(b) \in Models /\ b \in Held(of(b))
  BY <1>3
<1>8. ASSUME NEW n \in Models, Held(n) # {}
      PROVE  /\ g[n] \in [Held(n) -> home[n[1]]]
             /\ \A a, b \in Held(n) : g[n][a] = g[n][b] => a = b
  <2>1. g[n] \in Bijection(Held(n), home[n[1]])
    BY <1>6, <1>8
  <2> HIDE DEF g
  <2>. QED
    BY <2>1 DEF Bijection, Injection, IsInjective
<1> HIDE DEF g, of
<1>9. ASSUME NEW b \in H
      PROVE  /\ F[b] = g[of(b)][b] /\ F[b] \in home[of(b)[1]]
             /\ of(b)[1] # m[1] /\ of(b)[1] \in Paths
             /\ of(b) = <<of(b)[1], 1>> /\ of(b) \in Models /\ b \in Held(of(b))
  <2>1. of(b) \in Models /\ b \in Held(of(b)) /\ Held(of(b)) # {}
    BY <1>7
  <2>. QED
    BY <1>5, <1>8, <2>1
<1> HIDE DEF F
<1>10. F \in [H -> R]
  <2>1. ASSUME NEW b \in H PROVE F[b] \in R
    <3>1. home[of(b)[1]] \subseteq Buffers /\ home[of(b)[1]] \cap home[m[1]] = {}
      BY <1>1, <1>2, <1>9
    <3>. QED
      BY <1>9, <3>1
  <2>. QED
    BY <2>1 DEF F
<1>11. ASSUME NEW a \in H, NEW b \in H, F[a] = F[b] PROVE a = b
  <2>1. of(a)[1] = of(b)[1]
    BY <1>1, <1>9, <1>11
  <2>2. of(a) = of(b)
    BY <1>9, <2>1
  <2>. QED
    BY <1>8, <1>9, <1>11, <2>2
<1>12. F \in Injection(H, R)
  BY <1>10, <1>11 DEF Injection, IsInjective
<1>13. /\ IsFiniteSet(R) /\ IsFiniteSet(H)
       /\ Cardinality(R) = Cardinality(Buffers) - Size[m[1]]
       /\ Cardinality(free_list_) = Cardinality(Buffers) - Cardinality(H)
       /\ Cardinality(Buffers) \in Nat /\ Cardinality(R) \in Nat /\ Cardinality(H) \in Nat
  <2>1. Buffers \cap home[m[1]] = home[m[1]] /\ Buffers \cap H = H
    BY <1>1, <1>2, <1>4
  <2>2. /\ IsFiniteSet(R) /\ IsFiniteSet(H)
    BY <1>2, <1>4, FS_Subset
  <2>3. Cardinality(R) = Cardinality(Buffers) - Size[m[1]]
    <3>1. PICK h : h = home[m[1]]
      OBVIOUS
    <3>2. Cardinality(Buffers \ h) = Cardinality(Buffers) - Cardinality(Buffers \cap h)
      BY <1>2, FS_Difference
    <3>3. Buffers \cap h = h /\ Cardinality(h) = Size[m[1]] /\ R = Buffers \ h
      BY <1>1, <1>2, <2>1, <3>1
    <3>. QED
      BY <3>2, <3>3
  <2>4. Cardinality(free_list_) = Cardinality(Buffers) - Cardinality(H)
    BY <1>2, <1>4, <2>1, FS_Difference, ZenonT(40)
  <2>. QED
    BY <1>2, <2>2, <2>3, <2>4, FS_CardinalityType
<1>14. Cardinality(H) <= Cardinality(R)
  BY <1>12, <1>13, FS_Injection
<1>15. Cardinality(free_list_) \in Nat /\ Size[m[1]] \in Nat
  <2>1. IsFiniteSet(free_list_)
    BY <1>2, FS_Subset
  <2>. QED
    BY <2>1, FS_CardinalityType, ModelFacts
<1>. QED
  BY <1>13, <1>14, <1>15

\* A model that a step leaves alone, and what the tasks rely on of one that a
\* step takes further.
Kept(m) ==
    /\ state_'[m] = state_[m] /\ pinned_mem_'[m] = pinned_mem_[m]
    /\ host_ptr_vector_'[m] = host_ptr_vector_[m] /\ content'[m] = content[m]
Advances(m) ==
    /\ state_[m] \notin Vacant => state_'[m] \notin Vacant
    /\ Full(m) => /\ state_'[m] \in {"LOADING", "LOADED"} /\ content[m] \subseteq content'[m]
                  /\ Len(host_ptr_vector_[m]) <= Len(host_ptr_vector_'[m])

\* A model that is left alone is right as before.
LEMMA ModelFrame ==
    ASSUME NEW m \in Models, ModelInv(m), Kept(m), model_map_'[m[1]] = model_map_[m[1]]
    PROVE  ModelInv(m)' /\ Advances(m)
<1>1. Held(m)' = Held(m) /\ (Full(m)' <=> Full(m))
  BY DEF Kept, Held, Full
<1>2. ModelInv(m)'
  BY <1>1 DEF ModelInv, Kept
<1>3. Advances(m)
  BY <1>1 DEF ModelInv, Kept, Advances, Full
<1>. QED
  BY <1>2, <1>3

\* A disk task that takes no step is right when its model only gets further,
\* and is left alone if the task reads it.
LEMMA TaskFrame ==
    ASSUME NEW d \in Clients, TaskInv(d), load'[d] = load[d],
           client'[d].path = client[d].path,
           client'[d].next = "cpu" <=> client[d].next = "cpu",
           client[d].next # "cpu" => /\ model_map_'[client[d].path] = model_map_[client[d].path]
                                     /\ Advances(Mine(d)),
           load[d].at = "reading" => Kept(Mine(d))
    PROVE  TaskInv(d)'
<1>1. PICK n : n = Mine(d)
  OBVIOUS
<1>2. Mine(d)' = n
  BY <1>1 DEF Mine
<1>3. PICK r : r = load[d]
  OBVIOUS
<1>4. load'[d] = r
  BY <1>3
<1>5. CASE client[d].next = "cpu"
  BY <1>3, <1>4, <1>5 DEF TaskInv
<1>6. CASE client[d].next # "cpu"
  <2>1. client'[d].next # "cpu" /\ model_map_'[client'[d].path] = n /\ r.at # "none"
    BY <1>1, <1>3, <1>6 DEF TaskInv
  <2>2. r.at \in {"allocate", "toHost", "reading"} => r.model = n
    BY <1>1, <1>3 DEF TaskInv
  <2>3. r.at = "toHost" => state_'[n] \notin Vacant
    BY <1>1, <1>3, <1>6 DEF TaskInv, Advances
  <2>4. r.at = "loaded" => Full(n)'
    BY <1>1, <1>3, <1>6 DEF TaskInv, Advances, Full
  <2>5. r.at = "reading" =>
          /\ state_'[n] = "LOADING" /\ ~r.error /\ r.target = pinned_mem_'[n]
          /\ r.unread = Chunks(n) \ content'[n]
    BY <1>1, <1>3 DEF TaskInv, Kept
  <2>6. r.at \in {"none", "begin", "allocate", "toHost", "reading", "loaded"}
    BY <1>3 DEF TaskInv
  <2>. QED
    BY <1>2, <1>4, <2>1, <2>2, <2>3, <2>4, <2>5, <2>6 DEF TaskInv
<1>. QED
  BY <1>5, <1>6

\* So is a replica.
LEMMA CopyFrame ==
    ASSUME NEW d \in Clients, CopyInv(d), AnswerInv(d), replica'[d] = replica[d],
           client'[d] = client[d], replica \in [Clients -> ReplicaRecords],
           replica[d].at # "none" => Advances(Mine(d)),
           replica[d].at # "none" => ModelInv(Mine(d))
    PROVE  CopyInv(d)' /\ AnswerInv(d)'
<1>1. PICK n : n = Mine(d)
  OBVIOUS
<1>2. Mine(d)' = n
  BY <1>1 DEF Mine
<1>3. PICK r : r = replica[d]
  OBVIOUS
<1>4. replica'[d] = r /\ r \in ReplicaRecords
  BY <1>3
<1>5. AnswerInv(d)'
  BY DEF AnswerInv
<1>6. r.at # "none" => Full(n) /\ Full(n)' /\ content[n] \subseteq content'[n]
  BY <1>1, <1>3 DEF CopyInv, Advances, Full
<1>7. \A k : r.at # "none" /\ Sends(d, k) => Sends(d, k)'
  BY <1>1, <1>2, <1>3, <1>6 DEF Sends
<1>8. r.at \in {"plan", "dispatch"} => r.sent <= Len(host_ptr_vector_'[n])
  <2>1. CASE r.at \in {"plan", "dispatch"}
    <3>1. r.sent <= Len(host_ptr_vector_[n]) /\ Full(n)
      BY <1>1, <1>3, <2>1 DEF CopyInv
    <3>2. Len(host_ptr_vector_[n]) <= Len(host_ptr_vector_'[n])
      BY <1>1, <1>3, <2>1, <3>1 DEF Advances
    <3>3. r.sent \in Int
      BY <1>4 DEF ReplicaRecords
    <3>4. host_ptr_vector_[n] \in Seq(Chunks(n))
      BY <1>1, <1>3, <2>1, <3>1 DEF ModelInv
    <3>5. Len(host_ptr_vector_[n]) \in Int
      BY <3>4
    <3>. QED
      BY <3>1, <3>2, <3>3, <3>5
  <2>. QED
    BY <2>1
<1>9. CopyInv(d)'
  BY <1>1, <1>2, <1>3, <1>4, <1>6, <1>7, <1>8 DEF CopyInv
<1>. QED
  BY <1>5, <1>9

\* What a step about the replica of client c has to show.
LEMMA CopyStepRight ==
    ASSUME IndInv, RightInv, NEW c \in Clients, UNCHANGED <<model_map_, memory, load>>,
           \A d \in Clients \ {c} : replica'[d] = replica[d] /\ client'[d] = client[d],
           client'[c].path = client[c].path,
           client'[c].next = "cpu" <=> client[c].next = "cpu",
           CopyInv(c)', AnswerInv(c)', ServingInv', QuietInv'
    PROVE  RightInv'
<1>1. UNCHANGED <<state_, pinned_mem_, host_ptr_vector_, content>>
  BY DEF memory
<1>2. ASSUME NEW m \in Models PROVE ModelInv(m)' /\ Advances(m) /\ Kept(m)
  <2>1. Kept(m) /\ ModelInv(m)
    BY <1>1 DEF Kept, RightInv
  <2>. QED
    BY <2>1, ModelFrame
<1>3. ASSUME NEW d \in Clients PROVE TaskInv(d)'
  <2>1. client'[d].path = client[d].path /\ (client'[d].next = "cpu" <=> client[d].next = "cpu")
    OBVIOUS
  <2>2. client[d].next # "cpu" => /\ model_map_'[client[d].path] = model_map_[client[d].path]
                                  /\ Advances(Mine(d))
    BY <1>2, MineType
  <2>3. load[d].at = "reading" => Kept(Mine(d))
    BY <1>1 DEF Kept
  <2>4. TaskInv(d) /\ load'[d] = load[d]
    BY DEF RightInv
  <2>. QED
    BY <2>1, <2>2, <2>3, <2>4, TaskFrame
<1>4. ASSUME NEW d \in Clients PROVE CopyInv(d)' /\ AnswerInv(d)'
  <2>1. CASE d = c
    BY <2>1
  <2>2. CASE d # c
    <3>1. CopyInv(d) /\ AnswerInv(d) /\ replica'[d] = replica[d] /\ client'[d] = client[d]
      BY <2>2 DEF RightInv
    <3>2. replica \in [Clients -> ReplicaRecords]
      BY DEF IndInv, TypeOK
    <3>3. replica[d].at # "none" => Advances(Mine(d)) /\ ModelInv(Mine(d))
      <4>1. replica[d].at # "none" => client[d].next # "cpu"
        BY <3>1 DEF CopyInv
      <4>. QED
        BY <1>2, <4>1, MineType DEF RightInv
    <3>. QED
      BY <3>1, <3>2, <3>3, CopyFrame
  <2>. QED
    BY <2>1, <2>2
<1>5. AloneInv'
  <2>1. AloneInv /\ load' = load /\ \A d \in Clients : client'[d].path = client[d].path
    BY DEF RightInv
  <2>. QED
    BY <2>1 DEF AloneInv, Mine
<1>. QED
  BY <1>2, <1>3, <1>4, <1>5 DEF RightInv

\* What a step of the disk task of client c has to show.
LEMMA DiskStepRight ==
    ASSUME IndInv, RightInv, NEW c \in Clients, client[c].next # "cpu",
           UNCHANGED <<model_map_, client, replica, server, frame>>,
           \A d \in Clients \ {c} : load'[d] = load[d],
           \A m \in Models \ {Mine(c)} : Kept(m),
           \A m \in Models : m = Mine(c) => ModelInv(m)' /\ Advances(m),
           TaskInv(c)',
           \A d \in Clients \ {c} : load[d].at = "reading" /\ Mine(d) = Mine(c) =>
               Kept(Mine(c)) /\ load'[c].at # "reading"
    PROVE  RightInv'
<1>1. ASSUME NEW m \in Models PROVE ModelInv(m)' /\ Advances(m)
  <2>1. CASE m = Mine(c)
    BY <2>1
  <2>2. CASE m # Mine(c)
    BY <2>2, ModelFrame DEF RightInv
  <2>. QED
    BY <2>1, <2>2
<1>2. ASSUME NEW d \in Clients PROVE TaskInv(d)'
  <2>1. CASE d = c
    BY <2>1
  <2>2. CASE d # c
    <3>1. TaskInv(d) /\ load'[d] = load[d] /\ client' = client
      BY <2>2 DEF RightInv
    <3>2. client[d].next # "cpu" => /\ model_map_'[client[d].path] = model_map_[client[d].path]
                                    /\ Advances(Mine(d))
      BY <1>1, MineType
    <3>3. load[d].at = "reading" => Kept(Mine(d))
      <4>1. load[d].at = "reading" => client[d].next # "cpu"
        BY <3>1 DEF TaskInv
      <4>. QED
        BY <2>2, <4>1, MineType
    <3>. QED
      BY <3>1, <3>2, <3>3, TaskFrame
  <2>. QED
    BY <2>1, <2>2
<1>3. ASSUME NEW d \in Clients PROVE CopyInv(d)' /\ AnswerInv(d)'
  <2>1. CopyInv(d) /\ AnswerInv(d) /\ replica'[d] = replica[d] /\ client'[d] = client[d]
    BY DEF RightInv
  <2>2. replica \in [Clients -> ReplicaRecords]
    BY DEF IndInv, TypeOK
  <2>3. replica[d].at # "none" => Advances(Mine(d)) /\ ModelInv(Mine(d))
    <3>1. replica[d].at # "none" => client[d].next # "cpu"
      BY <2>1 DEF CopyInv
    <3>. QED
      BY <1>1, <3>1, MineType DEF RightInv
  <2>. QED
    BY <2>1, <2>2, <2>3, CopyFrame
<1>4. AloneInv'
  <2>1. AloneInv /\ client' = client
    BY DEF RightInv
  <2>2. \A d \in Clients : Mine(d)' = Mine(d)
    BY <2>1 DEF Mine
  <2>3. ASSUME NEW d \in Clients, NEW e \in Clients, load'[d].at = "reading",
               load'[e].at = "reading", Mine(d) = Mine(e)
        PROVE  d = e
    BY <2>1, <2>3 DEF AloneInv
  <2>. QED
    BY <2>2, <2>3 DEF AloneInv
<1>5. ServingInv' /\ QuietInv'
  BY DEF RightInv, ServingInv, QuietInv
<1>. QED
  BY <1>1, <1>2, <1>3, <1>4, <1>5 DEF RightInv

\* What is known of a replica and of the client it belongs to.
LEMMA ReplicaFacts ==
    ASSUME IndInv, RightInv, NEW c \in Clients
    PROVE  /\ replica \in [Clients -> ReplicaRecords] /\ client \in [Clients -> ClientRecords]
           /\ frame \in [Threads -> FrameRecords] /\ server \in ServerRecords
           /\ CopyInv(c) /\ TaskInv(c) /\ AnswerInv(c) /\ ServingInv /\ QuietInv
           /\ Server \in Threads /\ Server \notin Clients /\ Clients \subseteq Threads
           /\ replica[c].at # "none" =>
                /\ client[c].next # "cpu" /\ Mine(c) \in Models /\ Full(Mine(c))
                /\ Held(Mine(c)) # {} /\ Mine(c)[1] = client[c].path
                /\ model_map_[client[c].path] = Mine(c) /\ client[c].path \in Paths
<1>1. /\ replica \in [Clients -> ReplicaRecords] /\ client \in [Clients -> ClientRecords]
      /\ frame \in [Threads -> FrameRecords] /\ server \in ServerRecords
      /\ CopyInv(c) /\ TaskInv(c) /\ AnswerInv(c) /\ ServingInv /\ QuietInv
      /\ Server \in Threads /\ Server \notin Clients /\ Clients \subseteq Threads
  BY ClientsAssumption DEF IndInv, TypeOK, RightInv, Threads
<1>2. ASSUME replica[c].at # "none"
      PROVE  /\ client[c].next # "cpu" /\ Mine(c) \in Models /\ Full(Mine(c))
             /\ Held(Mine(c)) # {} /\ Mine(c)[1] = client[c].path
             /\ model_map_[client[c].path] = Mine(c) /\ client[c].path \in Paths
  <2>1. client[c].next # "cpu" /\ Full(Mine(c)) /\ model_map_[client[c].path] = Mine(c)
    BY <1>1, <1>2 DEF CopyInv, TaskInv
  <2>2. Mine(c) \in Models /\ Mine(c)[1] = client[c].path /\ client[c].path \in Paths
    BY <2>1, MineType
  <2>3. ModelInv(Mine(c)) /\ Size[Mine(c)[1]] > 0
    BY <2>2, ModelFacts DEF RightInv
  <2>4. Cardinality(Held(Mine(c))) = Size[Mine(c)[1]]
    BY <2>1, <2>3 DEF ModelInv, Full, Vacant
  <2>5. Held(Mine(c)) # {}
    <3>1. PICK h : h = Held(Mine(c))
      OBVIOUS
    <3>2. Cardinality(h) # 0
      BY <2>2, <2>3, <2>4, <3>1, ModelFacts
    <3>. QED
      BY <3>1, <3>2, FS_EmptySet
  <2>. QED
    BY <2>1, <2>2, <2>5
<1>. QED
  BY <1>1, <1>2

\* load_into_gpu comes when the model is read or being read.
LEMMA LoadIntoGpuRight ==
    ASSUME Undisturbed, IndInv, RightInv, NEW c \in Clients, LoadIntoGpu(c)
    PROVE  RightInv'
<1>1. /\ client[c].next = "gpu" /\ server.op = "idle"
      /\ load[c].at \notin {"begin", "allocate", "toHost"}
      /\ Register(client[c].path)
      /\ client' = [client EXCEPT ![c].next = "confirm"]
      /\ UNCHANGED <<pinned_mem_, host_ptr_vector_, content, free_list_, load, server, frame>>
  BY DEF LoadIntoGpu, Serving, Undisturbed
<1>2. PICK r : r = replica[c]
  OBVIOUS
<1>3. PICK s : s = [r EXCEPT !.at = "begin"]
  OBVIOUS
<1>4. replica' = [replica EXCEPT ![c] = s]
  BY <1>2, <1>3, ReplicaFacts DEF LoadIntoGpu
<1>5. Mine(c) \in Models /\ client[c].path \in Paths
  BY <1>1, MineType
<1>6. Registered(client[c].path)
  BY <1>1, <1>5, ModelFacts, ReplicaFacts DEF TaskInv, Registered
<1>7. UNCHANGED <<model_map_, memory, load>>
  BY <1>1, <1>6 DEF Register, memory
<1>8. Full(Mine(c))
  BY <1>1, ReplicaFacts DEF TaskInv, Full
<1>9. /\ r \in ReplicaRecords /\ r.at = "none" /\ ~r.dangling /\ ~r.garbage
      /\ r.state = "UNINITIALIZED" /\ ~r.listed /\ r.device = "none" /\ r.sent = 0
      /\ r.queue = <<>>
  BY <1>1, <1>2, ReplicaFacts DEF CopyInv
<1>10. /\ s.at = "begin" /\ ~s.dangling /\ ~s.garbage
       /\ s.state = "UNINITIALIZED" /\ ~s.listed /\ s.device = "none" /\ s.sent = 0
       /\ s.queue = <<>>
  BY <1>3, <1>9 DEF ReplicaRecords
<1>11. /\ replica'[c] = s /\ \A d \in Clients \ {c} : replica'[d] = replica[d]
       /\ client'[c].next = "confirm" /\ client'[c].path = client[c].path
       /\ \A d \in Clients \ {c} : client'[d] = client[d]
  BY <1>1, <1>4, ReplicaFacts DEF ClientRecords
<1>12. Full(Mine(c))'
  BY <1>7, <1>8, <1>11 DEF Full, Mine, memory
<1>13. CopyInv(c)' /\ AnswerInv(c)'
  BY <1>10, <1>11, <1>12 DEF CopyInv, AnswerInv
<1>14. ServingInv'
  BY <1>1, ReplicaFacts DEF ServingInv
<1>15. QuietInv'
  <2>1. \A d \in Clients : replica[d].listed => replica'[d].listed
    BY <1>2, <1>9, <1>11
  <2>2. frame[Server].at = "replica" => frame[Server].on \in Clients
    BY ReplicaFacts DEF IndInv, FramesInv
  <2>. QED
    BY <1>1, <2>1, <2>2, ReplicaFacts DEF QuietInv
<1>. QED
  BY <1>1, <1>7, <1>11, <1>13, <1>14, <1>15, CopyStepRight

\* The event loop asks for a replica, gives up or finds it loading.
LEMMA ConfirmRight ==
    ASSUME IndInv, RightInv, NEW c \in Clients, Confirm(c) \/ ConfirmFails(c)
    PROVE  RightInv'
<1>1. /\ client[c].next = "confirm" /\ UNCHANGED <<store, memory, load, replica>>
      /\ server.op = "idle"
  BY DEF Confirm, ConfirmFails, Serving
<1>2. UNCHANGED <<model_map_, state_>>
  BY <1>1 DEF store, memory
<1>3. /\ client'[c].next \in {"confirm", "unconfirmed"} /\ client'[c].path = client[c].path
      /\ \A d \in Clients \ {c} : client'[d] = client[d]
  BY <1>1, ReplicaFacts DEF Confirm, ConfirmFails, ClientRecords
<1>4. CopyInv(c)' /\ AnswerInv(c)'
  <2>1. Mine(c)' = Mine(c)
    BY <1>3 DEF Mine
  <2>2. PICK n : n = Mine(c)
    OBVIOUS
  <2>3. Full(n)' <=> Full(n)
    BY <1>2 DEF Full
  <2>4. \A k : Sends(c, k)' <=> Sends(c, k)
    BY <1>1, <2>1 DEF Sends, memory
  <2>5. CopyInv(c)'
    BY <1>1, <1>3, <2>1, <2>2, <2>3, <2>4, ReplicaFacts DEF CopyInv, memory
  <2>. QED
    BY <1>3, <2>5 DEF AnswerInv
<1>5. server'.up = server.up /\ server'.op \in {"idle", "confirm"}
      /\ server'.retries = server.retries /\ server'.unloads = server.unloads
      /\ server'.clears = server.clears
  <2>1. UNCHANGED server \/ Calling("confirm", c)
    BY DEF Confirm, ConfirmFails
  <2>2. server.op \in {"idle", "confirm"} /\ server \in ServerRecords
    BY <1>1, ReplicaFacts
  <2>. QED
    BY <2>1, <2>2 DEF Calling, ServerRecords
<1>6. ServingInv'
  BY <1>5, ReplicaFacts DEF ServingInv
<1>7. QuietInv'
  <2>1. CASE UNCHANGED frame
    BY <1>1, <2>1, ReplicaFacts DEF QuietInv
  <2>2. CASE ~UNCHANGED frame
    <3>1. PICK f : f = Frame("appear", model_map_[client[c].path], {}, c)
      OBVIOUS
    <3>2. frame' = [frame EXCEPT ![Server] = f]
      BY <2>2, <3>1 DEF Confirm, ConfirmFails
    <3>3. f.at = "appear"
      BY <3>1 DEF Frame, NoFrame
    <3>. QED
      BY <3>2, <3>3, ReplicaFacts DEF QuietInv
  <2>. QED
    BY <2>1, <2>2
<1>. QED
  BY <1>1, <1>2, <1>3, <1>4, <1>6, <1>7, CopyStepRight

\* It finds the replica loading.
LEMMA ReplicaFoundRight ==
    ASSUME IndInv, RightInv, ReplicaFound
    PROVE  RightInv'
<1>1. /\ frame[Server].on \in Loading(frame[Server].model)
      /\ frame' = [frame EXCEPT ![Server].at = "replica"]
      /\ UNCHANGED <<store, memory, client, load, replica, server>>
  BY DEF ReplicaFound
<1>2. PICK c \in Clients : c = frame[Server].on /\ replica[c].listed
  BY <1>1 DEF Loading, Replicas
<1>3. /\ frame \in [Threads -> FrameRecords] /\ Server \in Threads /\ Server \notin Clients
      /\ Clients \subseteq Threads
  BY <1>2, ReplicaFacts
<1>4. /\ frame'[Server].at = "replica" /\ frame'[Server].on = c
      /\ \A d \in Clients : frame'[d] = frame[d]
  BY <1>1, <1>2, <1>3 DEF FrameRecords
<1>5. CopyInv(c)' /\ AnswerInv(c)'
  BY <1>1, ReplicaFacts DEF CopyInv, AnswerInv, Sends, Mine, Full, memory
<1>6. ServingInv' /\ QuietInv'
  BY <1>1, <1>2, <1>4, ReplicaFacts DEF ServingInv, QuietInv
<1>. QED
  BY <1>1, <1>5, <1>6, CopyStepRight DEF store

\* The client is told that its replica is loaded, and it is.
LEMMA ConfirmReturnsRight ==
    ASSUME IndInv, RightInv, ConfirmReturns
    PROVE  RightInv'
<1>1. PICK c : c = frame[Server].on
  OBVIOUS
<1>2. frame[Server].at \in {"appear", "replica"}
  BY DEF ConfirmReturns, In
<1>3. c \in Clients
  BY <1>1, <1>2 DEF IndInv, FramesInv, Threads
<1>4. /\ frame' = [frame EXCEPT ![Server] = NoFrame]
      /\ Calling("idle", Null) /\ UNCHANGED <<store, memory, load, replica>>
      /\ client' = IF replica[c].state = "INTERRUPTED" THEN [client EXCEPT ![c].tries = @ - 1]
                   ELSE [client EXCEPT ![c].next = "confirmed"]
  BY <1>1 DEF ConfirmReturns, Answer
<1>5. replica[c].listed
  BY <1>1, <1>2, <1>3, ReplicaFacts DEF ConfirmReturns, In, Replicas, QuietInv
<1>6. replica[c].state # "LOADING"
  BY <1>1, <1>3 DEF ConfirmReturns, In, Loading, Ended
<1>7. replica[c].at = "loaded" /\ replica[c].state = "LOADED"
  BY <1>3, <1>5, <1>6, ReplicaFacts DEF CopyInv
<1>8. /\ client'[c].next = "confirmed" /\ client'[c].path = client[c].path
      /\ \A d \in Clients \ {c} : client'[d] = client[d]
  BY <1>3, <1>4, <1>7, ReplicaFacts DEF ClientRecords
<1>9. client[c].next # "cpu"
  BY <1>3, <1>7, ReplicaFacts
<1>10. CopyInv(c)' /\ AnswerInv(c)'
  <2>1. PICK n : n = Mine(c)
    OBVIOUS
  <2>2. Mine(c)' = n
    BY <1>8, <2>1 DEF Mine
  <2>3. Full(n)' <=> Full(n)
    BY <1>4 DEF Full, memory
  <2>. QED
    BY <1>3, <1>4, <1>7, <1>8, <2>1, <2>2, <2>3, ReplicaFacts DEF CopyInv, AnswerInv
<1>11. ServingInv'
  BY <1>3, <1>4, ReplicaFacts DEF ServingInv, Calling, ServerRecords
<1>12. QuietInv'
  BY <1>3, <1>4, ReplicaFacts DEF QuietInv, NoFrame
<1>. QED
  BY <1>3, <1>4, <1>8, <1>9, <1>10, <1>11, <1>12, CopyStepRight DEF store

\* What a step of a replica's own threads has to show.
LEMMA ReplicaStepRight ==
    ASSUME IndInv, RightInv, NEW c \in Clients, NEW s,
           replica' = [replica EXCEPT ![c] = s],
           UNCHANGED <<model_map_, memory, client, load, server>>,
           \A t \in Threads : frame'[t].at = frame[t].at /\ frame'[t].on = frame[t].on,
           replica[c].listed => s.listed, replica[c].at # "loaded" \/ s.at = "loaded",
           CopyInv(c)'
    PROVE  RightInv'
<1>1. replica'[c] = s /\ \A d \in Clients \ {c} : replica'[d] = replica[d]
  BY ReplicaFacts
<1>2. AnswerInv(c)'
  BY <1>1, ReplicaFacts DEF AnswerInv
<1>3. ServingInv'
  BY ReplicaFacts DEF ServingInv
<1>4. QuietInv'
  <2>1. \A d \in Clients : replica[d].listed => replica'[d].listed
    BY <1>1
  <2>2. frame[Server].at = "replica" => frame[Server].on \in Clients
    BY ReplicaFacts DEF IndInv, FramesInv
  <2>3. QuietInv /\ Server \in Threads /\ Clients \subseteq Threads
    BY ReplicaFacts
  <2>. QED
    BY <2>1, <2>2, <2>3 DEF QuietInv
<1>. QED
  BY <1>1, <1>2, <1>3, <1>4, CopyStepRight

\* CopyInv for a replica that a step leaves as s.
LEMMA CopyAfter ==
    ASSUME IndInv, RightInv, NEW c \in Clients, NEW s,
           replica' = [replica EXCEPT ![c] = s], UNCHANGED <<memory, client>>,
           replica[c].at # "none", ~s.dangling, ~s.garbage,
           s.at \in {"begin", "toGpu", "plan", "dispatch", "join", "loaded"},
           s.at # "begin" => s.model = Mine(c),
           s.at \in {"begin", "toGpu"} =>
             /\ s.state = "UNINITIALIZED" /\ ~s.listed /\ s.device = "none"
             /\ s.sent = 0 /\ s.queue = <<>>,
           s.at \in {"plan", "dispatch", "join", "loaded"} =>
             s.listed /\ s.state = IF s.at = "loaded" THEN "LOADED" ELSE "LOADING",
           s.at \in {"plan", "dispatch"} =>
             /\ s.device \in {"start", "copying"}
             /\ s.sent <= Len(host_ptr_vector_[Mine(c)])
             /\ \A i \in 1 .. Len(s.queue) : s.queue[i] \in content[Mine(c)],
           s.at \in {"join", "loaded"} => s.sent = Size[client[c].path],
           s.at = "join" =>
             \/ /\ s.device \in {"start", "copying"} /\ s.queue # <<>>
                /\ s.queue[Len(s.queue)] = End
                /\ \A i \in 1 .. Len(s.queue) - 1 : s.queue[i] \in content[Mine(c)]
             \/ s.device = "done" /\ s.queue = <<>>,
           s.at = "loaded" => s.device = "done" /\ s.queue = <<>>
    PROVE  CopyInv(c)'
<1>1. PICK n : n = Mine(c)
  OBVIOUS
<1>2. Mine(c)' = n /\ replica'[c] = s /\ client'[c] = client[c]
  BY <1>1, ReplicaFacts DEF Mine
<1>3. client[c].next \in {"confirm", "confirmed", "unconfirmed"} /\ Full(n)
  BY <1>1, ReplicaFacts DEF CopyInv
<1>4. UNCHANGED <<state_, content, host_ptr_vector_>>
  BY DEF memory
<1>5. Full(n)'
  BY <1>3, <1>4 DEF Full
<1>6. \A k : Sends(c, k)' <=> \A i \in 1 .. k : s.queue[i] \in content[n]
  BY <1>2, <1>4 DEF Sends
<1>. QED
  BY <1>1, <1>2, <1>3, <1>4, <1>5, <1>6 DEF CopyInv

\* The task of a replica finds its model, which is registered.
LEMMA ReplicaBeginRight ==
    ASSUME IndInv, RightInv, NEW c \in Clients, ReplicaBegin(c)
    PROVE  RightInv'
<1>1. PICK r : r = replica[c]
  OBVIOUS
<1>2. PICK s : s = [r EXCEPT !.model = Mine(c), !.at = "toGpu"]
  OBVIOUS
<1>3. r.at = "begin" /\ r \in ReplicaRecords
  BY <1>1, ReplicaFacts DEF ReplicaBegin, Gpu
<1>4. Registered(client[c].path) /\ model_map_[client[c].path] = Mine(c)
  BY <1>1, <1>3, ModelFacts, ReplicaFacts DEF Registered
<1>5. /\ replica' = [replica EXCEPT ![c].model = Mine(c), ![c].at = "toGpu"]
      /\ UNCHANGED <<model_map_, memory, client, load, server, frame>>
  BY <1>4 DEF ReplicaBegin
<1>6. replica' = [replica EXCEPT ![c] = s]
  BY <1>1, <1>2, <1>5, ReplicaFacts
<1>7. /\ ~r.dangling /\ ~r.garbage
      /\ r.state = "UNINITIALIZED" /\ ~r.listed /\ r.device = "none" /\ r.sent = 0
      /\ r.queue = <<>>
  BY <1>1, <1>3, ReplicaFacts DEF CopyInv
<1>8. /\ s.at = "toGpu" /\ s.model = Mine(c) /\ ~s.dangling /\ ~s.garbage
      /\ s.state = "UNINITIALIZED" /\ ~s.listed /\ s.device = "none" /\ s.sent = 0
      /\ s.queue = <<>>
  BY <1>2, <1>3, <1>7 DEF ReplicaRecords
<1>9. CopyInv(c)'
  BY <1>1, <1>3, <1>5, <1>6, <1>8, CopyAfter
<1>. QED
  BY <1>1, <1>3, <1>5, <1>6, <1>7, <1>9, ReplicaStepRight

\* ToGpu starts the threads of a replica; nobody waits for the model.
LEMMA ToGpuRight ==
    ASSUME IndInv, RightInv, NEW c \in Clients, ToGpu(c)
    PROVE  RightInv'
<1>1. PICK r : r = replica[c]
  OBVIOUS
<1>2. PICK s : s = [r EXCEPT !.listed = TRUE, !.state = "LOADING", !.at = "plan",
                             !.device = "start"]
  OBVIOUS
<1>3. r.at = "toGpu" /\ r \in ReplicaRecords
  BY <1>1, ReplicaFacts DEF ToGpu, Gpu
<1>4. /\ replica' = [replica EXCEPT ![c].listed = TRUE, ![c].state = "LOADING",
                                    ![c].at = "plan", ![c].device = "start"]
  BY DEF ToGpu
<1>0. UNCHANGED <<model_map_, memory, client, load, server>>
  BY DEF ToGpu, store
<1>5. replica' = [replica EXCEPT ![c] = s]
  BY <1>1, <1>2, <1>4, ReplicaFacts
<1>6. ASSUME NEW t \in Threads PROVE frame'[t].at = frame[t].at /\ frame'[t].on = frame[t].on
  <2>1. frame[t] \in FrameRecords
    BY ReplicaFacts
  <2>2. frame'[t] = IF frame[t].at = "host" /\ frame[t].model = replica[c].model
                    THEN [frame[t] EXCEPT !.notified = TRUE] ELSE frame[t]
    BY DEF ToGpu
  <2>. QED
    BY <2>1, <2>2 DEF FrameRecords
<1>7. /\ ~r.dangling /\ ~r.garbage /\ r.model = Mine(c) /\ ~r.listed /\ r.sent = 0
      /\ r.queue = <<>>
  BY <1>1, <1>3, ReplicaFacts DEF CopyInv
<1>8. /\ s.at = "plan" /\ s.model = Mine(c) /\ ~s.dangling /\ ~s.garbage
      /\ s.state = "LOADING" /\ s.listed /\ s.device = "start" /\ s.sent = 0
      /\ s.queue = <<>>
  BY <1>2, <1>3, <1>7 DEF ReplicaRecords
<1>9. host_ptr_vector_[Mine(c)] \in Seq(Chunks(Mine(c)))
  BY <1>1, <1>3, ReplicaFacts DEF RightInv, ModelInv
<1>10. s.sent <= Len(host_ptr_vector_[Mine(c)]) /\ \A i \in 1 .. Len(s.queue) : FALSE
  BY <1>8, <1>9
<1>11. CopyInv(c)'
  BY <1>0, <1>1, <1>3, <1>5, <1>8, <1>10, CopyAfter
<1>. QED
  BY <1>0, <1>1, <1>3, <1>5, <1>6, <1>7, <1>8, <1>11, ReplicaStepRight

\* The dispatcher finds the memory of the model when it plans.
LEMMA PlanRight ==
    ASSUME IndInv, RightInv, NEW c \in Clients, Plan(c)
    PROVE  RightInv'
<1>1. PICK r : r = replica[c]
  OBVIOUS
<1>2. PICK s : s = [r EXCEPT !.at = "dispatch"]
  OBVIOUS
<1>3. r.at = "plan" /\ r \in ReplicaRecords
  BY <1>1, ReplicaFacts DEF Plan, Gpu
<1>4. /\ ~r.dangling /\ ~r.garbage /\ r.model = Mine(c) /\ r.listed /\ r.state = "LOADING"
      /\ r.device \in {"start", "copying"} /\ r.sent <= Len(host_ptr_vector_[Mine(c)])
      /\ \A i \in 1 .. Len(r.queue) : r.queue[i] \in content[Mine(c)]
  BY <1>1, <1>3, ReplicaFacts DEF CopyInv, Sends
<1>5. Held(r.model) # {}
  BY <1>1, <1>3, <1>4, ReplicaFacts
<1>6. /\ replica' = [replica EXCEPT ![c].at = "dispatch"]
      /\ UNCHANGED <<model_map_, memory, client, load, server, frame>>
  BY <1>1, <1>5 DEF Plan, store
<1>7. replica' = [replica EXCEPT ![c] = s]
  BY <1>1, <1>2, <1>6, ReplicaFacts
<1>8. /\ s.at = "dispatch" /\ s.model = Mine(c) /\ ~s.dangling /\ ~s.garbage
      /\ s.state = "LOADING" /\ s.listed /\ s.device = r.device /\ s.sent = r.sent
      /\ s.queue = r.queue
  BY <1>2, <1>3, <1>4 DEF ReplicaRecords
<1>9. CopyInv(c)'
  BY <1>1, <1>3, <1>4, <1>6, <1>7, <1>8, CopyAfter
<1>. QED
  BY <1>1, <1>3, <1>6, <1>7, <1>8, <1>9, ReplicaStepRight

\* The device thread finds the memory of the model when it starts.
LEMMA DeviceStartRight ==
    ASSUME Undisturbed, IndInv, RightInv, NEW c \in Clients, DeviceStart(c)
    PROVE  RightInv'
<1>1. PICK r : r = replica[c]
  OBVIOUS
<1>2. PICK s : s = [r EXCEPT !.device = "copying"]
  OBVIOUS
<1>3. r.device = "start" /\ r \in ReplicaRecords
  BY <1>1, ReplicaFacts DEF DeviceStart, Device
<1>4. r.at \in {"plan", "dispatch", "join"}
  BY <1>1, <1>3, ReplicaFacts DEF CopyInv
<1>5. /\ ~r.dangling /\ ~r.garbage /\ r.model = Mine(c) /\ r.listed /\ r.state = "LOADING"
      /\ r.at \in {"plan", "dispatch"} =>
           /\ r.sent <= Len(host_ptr_vector_[Mine(c)])
           /\ \A i \in 1 .. Len(r.queue) : r.queue[i] \in content[Mine(c)]
      /\ r.at = "join" =>
           /\ r.sent = Size[client[c].path] /\ r.queue # <<>>
           /\ r.queue[Len(r.queue)] = End
           /\ \A i \in 1 .. Len(r.queue) - 1 : r.queue[i] \in content[Mine(c)]
  BY <1>1, <1>3, <1>4, ReplicaFacts DEF CopyInv, Sends
<1>6. Held(r.model) # {}
  BY <1>1, <1>4, <1>5, ReplicaFacts
<1>7. /\ replica' = [replica EXCEPT ![c].device = "copying"]
      /\ UNCHANGED <<model_map_, memory, client, load, server, frame>>
  BY <1>1, <1>6 DEF DeviceStart, store, Undisturbed
<1>8. replica' = [replica EXCEPT ![c] = s]
  BY <1>1, <1>2, <1>7, ReplicaFacts
<1>9. /\ s.at = r.at /\ s.model = Mine(c) /\ ~s.dangling /\ ~s.garbage
      /\ s.state = "LOADING" /\ s.listed /\ s.device = "copying" /\ s.sent = r.sent
      /\ s.queue = r.queue
  BY <1>2, <1>3, <1>5 DEF ReplicaRecords
<1>10. CopyInv(c)'
  BY <1>1, <1>4, <1>5, <1>7, <1>8, <1>9, CopyAfter, ZenonT(40)
<1>. QED
  BY <1>1, <1>4, <1>7, <1>8, <1>9, <1>10, ReplicaStepRight

\* The join finds that the device thread is done.
LEMMA ReplicaDoneRight ==
    ASSUME IndInv, RightInv, NEW c \in Clients, ReplicaDone(c)
    PROVE  RightInv'
<1>1. PICK r : r = replica[c]
  OBVIOUS
<1>2. PICK s : s = [r EXCEPT !.state = "LOADED", !.at = "loaded"]
  OBVIOUS
<1>3. r.at = "join" /\ r.device \in {"done", "error"} /\ r \in ReplicaRecords
  BY <1>1, ReplicaFacts DEF ReplicaDone, Gpu
<1>4. /\ ~r.dangling /\ ~r.garbage /\ r.model = Mine(c) /\ r.listed
      /\ r.device = "done" /\ r.queue = <<>> /\ r.sent = Size[client[c].path]
  BY <1>1, <1>3, ReplicaFacts DEF CopyInv
<1>5. /\ replica' = [replica EXCEPT ![c].state = "LOADED", ![c].at = "loaded"]
      /\ UNCHANGED <<model_map_, memory, client, load, server, frame>>
  BY <1>1, <1>4 DEF ReplicaDone, store
<1>6. replica' = [replica EXCEPT ![c] = s]
  BY <1>1, <1>2, <1>5, ReplicaFacts
<1>7. /\ s.at = "loaded" /\ s.model = Mine(c) /\ ~s.dangling /\ ~s.garbage
      /\ s.state = "LOADED" /\ s.listed /\ s.device = "done" /\ s.sent = r.sent
      /\ s.queue = <<>>
  BY <1>2, <1>3, <1>4 DEF ReplicaRecords
<1>8. CopyInv(c)'
  BY <1>1, <1>3, <1>4, <1>5, <1>6, <1>7, CopyAfter
<1>. QED
  BY <1>1, <1>3, <1>5, <1>6, <1>7, <1>8, ReplicaStepRight

\* A sequence without repetitions is no longer than there are values for it.
LEMMA ShortEnough ==
    ASSUME NEW n \in Nat, NEW v \in Seq(1 .. n), IsInjective(v)
    PROVE  Len(v) <= n
<1>1. Len(v) \in Nat /\ v \in [1 .. Len(v) -> 1 .. n]
  OBVIOUS
<1>2. v \in Injection(1 .. Len(v), 1 .. n)
  BY <1>1 DEF Injection, IsInjective
<1>3. /\ IsFiniteSet(1 .. Len(v)) /\ Cardinality(1 .. Len(v)) = Len(v)
      /\ IsFiniteSet(1 .. n) /\ Cardinality(1 .. n) = n
  <2>1. \A k \in Nat : IsFiniteSet(1 .. k) /\ Cardinality(1 .. k) = k
    <3>1. SUFFICES ASSUME NEW k \in Nat
                   PROVE  IsFiniteSet(1 .. k) /\ Cardinality(1 .. k) = k
      OBVIOUS
    <3>2. /\ IsFiniteSet(1 .. k)
          /\ Cardinality(1 .. k) = IF 1 > k THEN 0 ELSE k - 1 + 1
      BY FS_Interval
    <3>. QED
      BY <3>2
  <2>. QED
    BY <1>1, <2>1
<1>4. Cardinality(1 .. Len(v)) <= Cardinality(1 .. n)
  <2>1. PICK S, T : S = 1 .. Len(v) /\ T = 1 .. n
    OBVIOUS
  <2>2. v \in Injection(S, T) /\ IsFiniteSet(T)
    BY <1>2, <1>3, <2>1
  <2>3. Cardinality(S) <= Cardinality(T)
    BY <2>2, FS_Injection
  <2>. QED
    BY <2>1, <2>3
<1>. QED
  BY <1>3, <1>4

\* The members of a sequence, for a larger set of values.
LEMMA SeqOfMore ==
    ASSUME NEW S, NEW T, S \subseteq T, NEW v \in Seq(S)
    PROVE  /\ v \in Seq(T) /\ DOMAIN v = 1 .. Len(v) /\ Len(v) \in Nat
           /\ \A i \in DOMAIN v : v[i] \in S /\ v[i] \in ToSet(v)
<1>1. Len(v) \in Nat /\ v \in [1 .. Len(v) -> S]
  OBVIOUS
<1>2. v \in [1 .. Len(v) -> T]
  BY <1>1
<1>3. v \in Seq(T)
  BY <1>1, <1>2
<1>. QED
  BY <1>1, <1>3 DEF ToSet

\* What the dispatcher sends has been read, and the end comes when all is sent.
LEMMA DispatchRight ==
    ASSUME IndInv, RightInv, NEW c \in Clients, Dispatch(c)
    PROVE  RightInv'
<1> DEFINE m == Mine(c)
           vector == host_ptr_vector_[m]
<1>1. PICK r : r = replica[c]
  OBVIOUS
<1>2. r.at = "dispatch" /\ r \in ReplicaRecords /\ r.sent \in Nat /\ r.queue \in Seq(Nat)
  BY <1>1, ReplicaFacts DEF Dispatch, Gpu, ReplicaRecords
<1>3. /\ ~r.dangling /\ ~r.garbage /\ r.model = m /\ r.listed /\ r.state = "LOADING"
      /\ r.device \in {"start", "copying"} /\ r.sent <= Len(vector)
      /\ \A i \in 1 .. Len(r.queue) : r.queue[i] \in content[m]
  BY <1>1, <1>2, ReplicaFacts DEF CopyInv, Sends
<1>4. m \in Models /\ Full(m) /\ m[1] = client[c].path /\ Size[m[1]] \in Nat
  BY <1>1, <1>2, ReplicaFacts, ModelFacts
<1>5. /\ vector \in Seq(Chunks(m)) /\ IsInjective(vector) /\ content[m] = ToSet(vector)
      /\ Chunks(m) = 1 .. Size[m[1]] /\ Chunks(m) \subseteq Nat
  BY <1>4, ModelFacts DEF RightInv, ModelInv, Chunks
<1>6. vector # Null
  <2>1. vector \in Seq(Nat)
    BY <1>5, SeqOfMore
  <2>. QED
    BY <2>1, NullAssumption
<1>7. Len(vector) \in Nat /\ Len(vector) <= Size[m[1]]
  BY <1>4, <1>5, ShortEnough
<1> DEFINE next == r.sent + 1
           Sent(item) == Append(r.queue, item)
<1>8. UNCHANGED <<model_map_, memory, client, load, server, frame>>
  BY <1>1, <1>3, <1>6 DEF Dispatch, store
<1>9. \/ /\ next \in DOMAIN vector
         /\ replica' = [[replica EXCEPT ![c].queue = Append(@, vector[next])]
                          EXCEPT ![c].sent = next]
      \/ /\ next \notin Chunks(m)
         /\ replica' = [[replica EXCEPT ![c].queue = Append(@, End)]
                          EXCEPT ![c].at = "join"]
  BY <1>1, <1>3, <1>6 DEF Dispatch
<1>10. ASSUME NEW item \in Nat
       PROVE  /\ Len(Sent(item)) = Len(r.queue) + 1 /\ Len(r.queue) \in Nat
              /\ Sent(item)[Len(r.queue) + 1] = item /\ Sent(item) # <<>>
              /\ \A i \in 1 .. Len(r.queue) : Sent(item)[i] \in content[m]
  <2>1. PICK queue, C : queue = r.queue /\ C = content[m]
    OBVIOUS
  <2>2. queue \in Seq(Nat) /\ \A i \in 1 .. Len(queue) : queue[i] \in C
    BY <1>2, <1>3, <2>1
  <2>3. /\ Len(Append(queue, item)) = Len(queue) + 1 /\ Len(queue) \in Nat
        /\ Append(queue, item)[Len(queue) + 1] = item
        /\ \A i \in 1 .. Len(queue) : Append(queue, item)[i] = queue[i]
    BY <2>2
  <2>4. Append(queue, item) # <<>>
    BY <2>3
  <2>. QED
    BY <2>1, <2>2, <2>3, <2>4
<1>11. CASE /\ next \in DOMAIN vector
            /\ replica' = [[replica EXCEPT ![c].queue = Append(@, vector[next])]
                             EXCEPT ![c].sent = next]
  <2>1. PICK item : item = vector[next]
    OBVIOUS
  <2>2. item \in Nat /\ item \in content[m] /\ next <= Len(vector)
    <3>1. PICK v, S : v = vector /\ S = Chunks(m)
      OBVIOUS
    <3>2. v \in Seq(S) /\ S \subseteq Nat /\ next \in DOMAIN v /\ item = v[next]
      BY <1>5, <1>11, <2>1, <3>1
    <3>3. /\ DOMAIN v = 1 .. Len(v) /\ Len(v) \in Nat
          /\ \A i \in DOMAIN v : v[i] \in S /\ v[i] \in ToSet(v)
      BY <3>2, SeqOfMore
    <3>4. item \in S /\ item \in ToSet(v) /\ next \in 1 .. Len(v)
      BY <3>2, <3>3
    <3>5. item \in Nat /\ next <= Len(v)
      BY <3>2, <3>3, <3>4
    <3>. QED
      BY <1>5, <3>1, <3>4, <3>5
  <2>3. PICK s : s = [r EXCEPT !.queue = Sent(item), !.sent = next]
    OBVIOUS
  <2>4. replica' = [replica EXCEPT ![c] = s]
    BY <1>1, <1>11, <2>1, <2>3, ReplicaFacts
  <2>5. /\ s.at = "dispatch" /\ s.model = m /\ ~s.dangling /\ ~s.garbage
        /\ s.state = "LOADING" /\ s.listed /\ s.device = r.device /\ s.sent = next
        /\ s.queue = Sent(item)
    BY <1>2, <1>3, <2>3 DEF ReplicaRecords
  <2>6. \A i \in 1 .. Len(Sent(item)) : Sent(item)[i] \in content[m]
    <3>1. ASSUME NEW i \in 1 .. Len(Sent(item)) PROVE Sent(item)[i] \in content[m]
      <4>1. i \in 1 .. Len(r.queue) \/ i = Len(r.queue) + 1
        BY <1>10, <2>2
      <4>. QED
        BY <1>10, <2>2, <4>1
    <3>. QED
      BY <3>1
  <2> HIDE DEF next, Sent
  <2>7. CopyInv(c)'
    BY <1>1, <1>2, <1>3, <1>8, <2>2, <2>4, <2>5, <2>6, CopyAfter
  <2>. QED
    BY <1>1, <1>2, <1>8, <2>4, <2>5, <2>7, ReplicaStepRight
<1>12. CASE /\ next \notin Chunks(m)
            /\ replica' = [[replica EXCEPT ![c].queue = Append(@, End)]
                             EXCEPT ![c].at = "join"]
  <2>1. PICK item : item = End
    OBVIOUS
  <2>2. item \in Nat
    BY <2>1 DEF End
  <2>3. PICK s : s = [r EXCEPT !.queue = Sent(item), !.at = "join"]
    OBVIOUS
  <2>4. replica' = [replica EXCEPT ![c] = s]
    BY <1>1, <1>12, <2>1, <2>3, ReplicaFacts
  <2>5. /\ s.at = "join" /\ s.model = m /\ ~s.dangling /\ ~s.garbage
        /\ s.state = "LOADING" /\ s.listed /\ s.device = r.device /\ s.sent = r.sent
        /\ s.queue = Sent(item)
    BY <1>2, <1>3, <2>3 DEF ReplicaRecords
  <2>6. r.sent = Size[client[c].path]
    BY <1>2, <1>3, <1>4, <1>5, <1>7, <1>12
  <2>7. Len(Sent(item)) - 1 = Len(r.queue) /\ Len(Sent(item)) = Len(r.queue) + 1
    BY <1>10, <2>2
  <2>8. /\ Sent(item) # <<>> /\ Sent(item)[Len(Sent(item))] = End
        /\ \A i \in 1 .. Len(Sent(item)) - 1 : Sent(item)[i] \in content[m]
    BY <1>10, <2>1, <2>2, <2>7
  <2> HIDE DEF next, Sent
  <2>9. CopyInv(c)'
    BY <1>1, <1>2, <1>3, <1>8, <2>4, <2>5, <2>6, <2>8, CopyAfter
  <2>. QED
    BY <1>1, <1>2, <1>8, <2>4, <2>5, <2>9, ReplicaStepRight
<1>. QED
  BY <1>9, <1>11, <1>12

\* The device thread copies chunks that are in the buffers of the model, and
\* stops at the end.
LEMMA CopyRight ==
    ASSUME Undisturbed, IndInv, RightInv, NEW c \in Clients, Copy(c)
    PROVE  RightInv'
<1> DEFINE m == Mine(c)
<1>1. PICK r : r = replica[c]
  OBVIOUS
<1>2. PICK q : q = r.queue
  OBVIOUS
<1>3. /\ r.device = "copying" /\ r \in ReplicaRecords /\ q # <<>> /\ q \in Seq(Nat)
      /\ Head(q) = q[1] /\ Len(q) \in Nat /\ Len(q) >= 1
  BY <1>1, <1>2, ReplicaFacts DEF Copy, Device, ReplicaRecords
<1>4. r.at \in {"plan", "dispatch", "join"}
  BY <1>1, <1>3, ReplicaFacts DEF CopyInv
<1>5. /\ ~r.dangling /\ ~r.garbage /\ r.model = m /\ r.listed /\ r.state = "LOADING"
      /\ r.at \in {"plan", "dispatch"} =>
           /\ r.sent <= Len(host_ptr_vector_[m])
           /\ \A i \in 1 .. Len(q) : q[i] \in content[m]
      /\ r.at = "join" =>
           /\ r.sent = Size[client[c].path] /\ q[Len(q)] = End
           /\ \A i \in 1 .. Len(q) - 1 : q[i] \in content[m]
  BY <1>1, <1>2, <1>3, <1>4, ReplicaFacts DEF CopyInv, Sends
<1>6. m \in Models /\ End \notin content[m]
  <2>1. m \in Models /\ Full(m)
    BY <1>1, <1>4, ReplicaFacts
  <2>2. content[m] = ToSet(host_ptr_vector_[m]) /\ host_ptr_vector_[m] \in Seq(Chunks(m))
    BY <2>1 DEF RightInv, ModelInv
  <2>3. content[m] \subseteq Chunks(m)
    BY <2>2 DEF ToSet
  <2>. QED
    BY <2>1, <2>3, ModelFacts DEF Chunks, End
<1>7. Len(Tail(q)) = Len(q) - 1 /\ \A i \in 1 .. Len(q) - 1 : Tail(q)[i] = q[i + 1]
  BY <1>3
<1>8. CASE q[1] = End
  <2>1. r.at = "join"
    BY <1>3, <1>4, <1>5, <1>6, <1>8
  <2>2. Len(q) = 1
    <3>1. \A i \in 1 .. Len(q) - 1 : q[i] \in content[m]
      BY <1>5, <2>1
    <3>2. 1 \notin 1 .. Len(q) - 1
      BY <1>6, <1>8, <3>1
    <3>3. PICK k \in Nat : k = Len(q)
      BY <1>3
    <3>4. k >= 1 /\ 1 \notin 1 .. k - 1
      BY <1>3, <3>2, <3>3
    <3>. QED
      BY <3>3, <3>4
  <2>3. Tail(q) = <<>>
    BY <1>3, <1>7, <2>2, SMTT(30)
  <2>4. /\ replica' = [replica EXCEPT ![c].queue = Tail(@), ![c].device = "done"]
        /\ UNCHANGED <<model_map_, memory, client, load, server, frame>>
    BY <1>1, <1>2, <1>3, <1>8 DEF Copy, store
  <2>5. PICK s : s = [r EXCEPT !.queue = <<>>, !.device = "done"]
    OBVIOUS
  <2>6. replica' = [replica EXCEPT ![c] = s]
    BY <1>1, <1>2, <2>3, <2>4, <2>5, ReplicaFacts
  <2>7. /\ s.at = "join" /\ s.model = m /\ ~s.dangling /\ ~s.garbage
        /\ s.state = "LOADING" /\ s.listed /\ s.device = "done" /\ s.sent = r.sent
        /\ s.queue = <<>>
    BY <1>3, <1>5, <2>1, <2>5 DEF ReplicaRecords
  <2>8. CopyInv(c)'
    BY <1>1, <1>4, <1>5, <2>1, <2>4, <2>6, <2>7, CopyAfter
  <2>. QED
    BY <1>1, <1>4, <2>4, <2>6, <2>7, <2>8, ReplicaStepRight
<1>9. CASE q[1] # End
  <2>1. q[1] \in content[m] /\ (r.at = "join" => Len(q) > 1)
    BY <1>3, <1>4, <1>5, <1>9
  <2>2. /\ replica' = [[replica EXCEPT ![c].queue = Tail(@), ![c].device = "copying"]
                         EXCEPT ![c].garbage = @ \/ q[1] \notin content[m]]
        /\ UNCHANGED <<model_map_, memory, client, load, server, frame>>
    BY <1>1, <1>2, <1>3, <1>5, <1>9, ZenonT(40) DEF Copy, store, Undisturbed
  <2>3. PICK s : s = [r EXCEPT !.queue = Tail(q), !.device = "copying",
                               !.garbage = r.garbage \/ q[1] \notin content[m]]
    OBVIOUS
  <2>4. replica' = [replica EXCEPT ![c] = s]
    BY <1>1, <1>2, <2>2, <2>3, ReplicaFacts, ZenonT(40)
  <2>5. /\ s.at = r.at /\ s.model = m /\ ~s.dangling /\ ~s.garbage
        /\ s.state = "LOADING" /\ s.listed /\ s.device = "copying" /\ s.sent = r.sent
        /\ s.queue = Tail(q)
    BY <1>3, <1>5, <2>1, <2>3 DEF ReplicaRecords
  <2>6. /\ r.at \in {"plan", "dispatch"} => \A i \in 1 .. Len(Tail(q)) : Tail(q)[i] \in content[m]
        /\ r.at = "join" =>
             /\ Tail(q) # <<>> /\ Tail(q)[Len(Tail(q))] = End
             /\ \A i \in 1 .. Len(Tail(q)) - 1 : Tail(q)[i] \in content[m]
    <3>1. ASSUME r.at \in {"plan", "dispatch"}, NEW i \in 1 .. Len(Tail(q))
          PROVE  Tail(q)[i] \in content[m]
      <4>1. \A k \in 1 .. Len(q) : q[k] \in content[m]
        BY <1>5, <3>1
      <4>2. i + 1 \in 1 .. Len(q) /\ Tail(q)[i] = q[i + 1]
        BY <1>3, <1>7
      <4>. QED
        BY <4>1, <4>2
    <3>2. ASSUME r.at = "join"
          PROVE  Tail(q) # <<>> /\ Tail(q)[Len(Tail(q))] = End
      <4>1. q[Len(q)] = End /\ Len(q) > 1
        BY <1>5, <2>1, <3>2
      <4>2. PICK k \in Nat : k = Len(q) - 1
        BY <1>3
      <4>3. k \in 1 .. Len(q) - 1 /\ k + 1 = Len(q) /\ Len(Tail(q)) = k /\ k # 0
        BY <1>3, <1>7, <4>1, <4>2
      <4>4. Tail(q)[k] = q[k + 1]
        BY <1>7, <4>3
      <4>. QED
        BY <4>1, <4>3, <4>4
    <3>3. ASSUME r.at = "join", NEW i \in 1 .. Len(Tail(q)) - 1
          PROVE  Tail(q)[i] \in content[m]
      <4>1. \A k \in 1 .. Len(q) - 1 : q[k] \in content[m]
        BY <1>5, <3>3
      <4>2. i + 1 \in 1 .. Len(q) - 1 /\ Tail(q)[i] = q[i + 1]
        BY <1>3, <1>7
      <4>. QED
        BY <4>1, <4>2
    <3>. QED
      BY <3>1, <3>2, <3>3
  <2>7. CopyInv(c)'
    BY <1>1, <1>4, <1>5, <2>2, <2>4, <2>5, <2>6, CopyAfter, ZenonT(40)
  <2>. QED
    BY <1>1, <1>4, <2>2, <2>4, <2>5, <2>7, ReplicaStepRight
<1>. QED
  BY <1>8, <1>9

\* What is known of a disk task and of the client it belongs to.
LEMMA DiskFacts ==
    ASSUME IndInv, RightInv, NEW c \in Clients, load[c].at # "none"
    PROVE  /\ load \in [Clients -> LoadRecords] /\ TypeOK /\ TaskInv(c)
           /\ client[c].next # "cpu" /\ client[c].path \in Paths
           /\ Mine(c) \in Models /\ Mine(c)[1] = client[c].path /\ Mine(c)[2] = 1
           /\ model_map_[client[c].path] = Mine(c) /\ Mine(c) # Null
           /\ ModelInv(Mine(c)) /\ state_[Mine(c)] # "UNINITIALIZED"
<1>1. load \in [Clients -> LoadRecords] /\ TypeOK /\ TaskInv(c)
  BY DEF IndInv, TypeOK, RightInv
<1>2. client[c].next # "cpu"
  BY <1>1 DEF TaskInv
<1>3. /\ client[c].path \in Paths /\ Mine(c) \in Models /\ Mine(c)[1] = client[c].path
      /\ Mine(c)[2] = 1
  BY <1>2, MineType
<1>4. model_map_[client[c].path] = Mine(c) /\ Mine(c) # Null /\ ModelInv(Mine(c))
  BY <1>1, <1>2, <1>3, ModelFacts DEF TaskInv, RightInv
<1>5. state_[Mine(c)] # "UNINITIALIZED"
  BY <1>3, <1>4 DEF ModelInv
<1>. QED
  BY <1>1, <1>2, <1>3, <1>4, <1>5

\* TaskInv for a disk task that a step leaves as l.
LEMMA TaskAfter ==
    ASSUME IndInv, RightInv, NEW c \in Clients, load[c].at # "none", NEW l,
           load' = [load EXCEPT ![c] = l], UNCHANGED <<model_map_, client>>,
           l.at \in {"allocate", "toHost", "reading", "loaded"},
           l.at # "loaded" => l.model = Mine(c),
           l.at = "toHost" => state_'[Mine(c)] \notin Vacant,
           l.at = "loaded" => state_'[Mine(c)] \in {"LOADING", "LOADED"},
           l.at = "reading" => /\ state_'[Mine(c)] = "LOADING" /\ ~l.error
                               /\ l.target = pinned_mem_'[Mine(c)]
                               /\ l.unread = Chunks(Mine(c)) \ content'[Mine(c)]
    PROVE  /\ TaskInv(c)' /\ load'[c] = l
           /\ \A d \in Clients \ {c} : load'[d] = load[d]
<1>1. load'[c] = l /\ \A d \in Clients \ {c} : load'[d] = load[d]
  BY DiskFacts
<1>2. PICK n : n = Mine(c)
  OBVIOUS
<1>3. Mine(c)' = n
  BY <1>2 DEF Mine
<1>4. client'[c].next # "cpu" /\ model_map_'[client'[c].path] = n
  BY <1>2, DiskFacts
<1>5. l.at = "loaded" => Full(n)'
  BY <1>2 DEF Full
<1>6. TaskInv(c)'
  BY <1>1, <1>2, <1>3, <1>4, <1>5 DEF TaskInv
<1>. QED
  BY <1>1, <1>6

\* A step that changes no model.
LEMMA DiskOnly ==
    ASSUME IndInv, RightInv, NEW c \in Clients, client[c].next # "cpu",
           UNCHANGED <<model_map_, client, replica, server, frame, memory>>,
           \A d \in Clients \ {c} : load'[d] = load[d],
           TaskInv(c)', load'[c].at # "reading"
    PROVE  RightInv'
<1>1. \A m \in Models : Kept(m)
  BY DEF Kept, memory
<1>2. Mine(c) \in Models
  BY MineType
<1>3. \A m \in Models : ModelInv(m)' /\ Advances(m)
  BY <1>1, ModelFrame DEF RightInv
<1>. QED
  BY <1>1, <1>2, <1>3, DiskStepRight

\* A disk task finds its model.
LEMMA DiskBeginRight ==
    ASSUME IndInv, RightInv, NEW c \in Clients, DiskBegin(c)
    PROVE  RightInv'
<1>1. load[c].at = "begin" /\ load[c].at # "none"
  BY DEF DiskBegin, Disk
<1>2. Registered(client[c].path) /\ model_map_[client[c].path] = Mine(c)
  BY <1>1, DiskFacts DEF Registered
<1>3. /\ load' = [load EXCEPT ![c].model = Mine(c), ![c].at = "allocate"]
      /\ UNCHANGED <<model_map_, client, replica, server, frame, memory>>
  BY <1>2 DEF DiskBegin, store
<1>4. PICK l : l = [load[c] EXCEPT !.model = Mine(c), !.at = "allocate"]
  OBVIOUS
<1>5. load' = [load EXCEPT ![c] = l]
  BY <1>1, <1>3, <1>4, DiskFacts
<1>6. l.model = Mine(c) /\ l.at = "allocate"
  BY <1>1, <1>4, DiskFacts DEF LoadRecords
<1>7. TaskInv(c)' /\ load'[c] = l /\ \A d \in Clients \ {c} : load'[d] = load[d]
  BY <1>1, <1>3, <1>5, <1>6, TaskAfter
<1>. QED
  BY <1>1, <1>3, <1>6, <1>7, DiskFacts, DiskOnly

\* A model that has its memory keeps it.
LEMMA KeepMemoryRight ==
    ASSUME IndInv, RightInv, NEW c \in Clients, KeepMemory(c)
    PROVE  RightInv'
<1>1. load[c].at = "allocate" /\ load[c].at # "none"
  BY DEF KeepMemory, Disk
<1>2. load[c].model = Mine(c)
  BY <1>1, DiskFacts DEF TaskInv
<1>3. state_[Mine(c)] \notin Vacant
  BY <1>1, <1>2, DiskFacts DEF KeepMemory, Needs, Vacant
<1>4. /\ load' = [load EXCEPT ![c].at = "toHost"]
      /\ UNCHANGED <<model_map_, client, replica, server, frame, memory>>
  BY DEF KeepMemory
<1>5. PICK l : l = [load[c] EXCEPT !.at = "toHost"]
  OBVIOUS
<1>6. load' = [load EXCEPT ![c] = l]
  BY <1>1, <1>4, <1>5, DiskFacts
<1>7. l.model = Mine(c) /\ l.at = "toHost"
  BY <1>1, <1>2, <1>5, DiskFacts DEF LoadRecords
<1>8. TaskInv(c)' /\ load'[c] = l /\ \A d \in Clients \ {c} : load'[d] = load[d]
  BY <1>1, <1>3, <1>4, <1>6, <1>7, TaskAfter DEF memory
<1>. QED
  BY <1>1, <1>4, <1>7, <1>8, DiskFacts, DiskOnly

\* ToHost has nothing to do.
LEMMA AlreadyReadRight ==
    ASSUME IndInv, RightInv, NEW c \in Clients, AlreadyRead(c)
    PROVE  RightInv'
<1>1. load[c].at = "toHost" /\ load[c].at # "none"
  BY DEF AlreadyRead, Disk
<1>2. load[c].model = Mine(c)
  BY <1>1, DiskFacts DEF TaskInv
<1>3. /\ load' = [load EXCEPT ![c].at = "loaded"]
      /\ UNCHANGED <<model_map_, client, replica, server, frame, memory>>
      /\ state_[Mine(c)] \in {"LOADING", "LOADED"}
  BY <1>2 DEF AlreadyRead, store
<1>4. PICK l : l = [load[c] EXCEPT !.at = "loaded"]
  OBVIOUS
<1>5. load' = [load EXCEPT ![c] = l]
  BY <1>1, <1>3, <1>4, DiskFacts
<1>6. l.at = "loaded"
  BY <1>1, <1>4, DiskFacts DEF LoadRecords
<1>7. TaskInv(c)' /\ load'[c] = l /\ \A d \in Clients \ {c} : load'[d] = load[d]
  BY <1>1, <1>3, <1>5, <1>6, TaskAfter DEF memory
<1>. QED
  BY <1>1, <1>3, <1>6, <1>7, DiskFacts, DiskOnly

\* With room for all models nothing is evicted for the new one.
LEMMA NothingEvicted ==
    ASSUME Roomy, IndInv, RightInv, NEW m \in Models, state_[m] = "UNALLOCATED"
    PROVE  Visited(m) = 0 /\ Oldest(0) = {} /\ Victims(0) = {}
           /\ Available(0) = free_list_ /\ Enough(m, 0)
<1>1. Oldest(0) = {}
  BY DEF Oldest
<1>2. Victims(0) = {}
  BY <1>1 DEF Victims
<1>3. Available(0) = free_list_
  BY <1>2 DEF Available
<1>4. Enough(m, 0)
  BY <1>3, RoomLeft DEF Enough, RightInv
<1>5. Len(access_order) \in Nat
  BY DEF IndInv, TypeOK
<1>6. \E k \in 0 .. Len(access_order) : Enough(m, k)
  BY <1>4, <1>5
<1>7. PICK v : v = Visited(m)
  OBVIOUS
<1>8. v = CHOOSE k \in 0 .. Len(access_order) :
              Enough(m, k) /\ \A j \in 0 .. (k - 1) : ~Enough(m, j)
  BY <1>6, <1>7 DEF Visited
<1>9. \E k \in 0 .. Len(access_order) :
         Enough(m, k) /\ \A j \in 0 .. (k - 1) : ~Enough(m, j)
  <2>1. 0 \in 0 .. Len(access_order) /\ \A j \in 0 .. (0 - 1) : ~Enough(m, j)
    BY <1>5
  <2>. QED
    BY <1>4, <2>1
<1>10. v \in 0 .. Len(access_order) /\ \A j \in 0 .. (v - 1) : ~Enough(m, j)
  BY <1>8, <1>9
<1>11. v = 0
  BY <1>4, <1>5, <1>10
<1>. QED
  BY <1>1, <1>2, <1>3, <1>4, <1>7, <1>11

\* A model gets memory of its own, and nobody loses any.
LEMMA AllocateRight ==
    ASSUME Roomy, IndInv, RightInv, NEW c \in Clients, Allocate(c)
    PROVE  RightInv'
<1>1. load[c].at = "allocate" /\ load[c].at # "none"
  BY DEF Allocate, Disk
<1>2. PICK m \in Models : m = Mine(c)
  BY <1>1, DiskFacts
<1>3. load[c].model = m
  BY <1>1, <1>2, DiskFacts DEF TaskInv
<1>4. state_[m] = "UNALLOCATED"
  BY <1>3 DEF Allocate, Needs
<1>5. /\ Visited(m) = 0 /\ Oldest(0) = {} /\ Victims(0) = {}
      /\ Available(0) = free_list_ /\ Enough(m, 0)
  BY <1>4, NothingEvicted
<1>6. PICK bufs \in SUBSET free_list_ :
        Cardinality(bufs) = Size[m[1]] /\ Reallocate({}, m, bufs)
  BY <1>3, <1>5 DEF Allocate
<1>7. /\ state_' = [n \in Models |-> IF n = m THEN "ALLOCATED" ELSE state_[n]]
      /\ load' = [load EXCEPT ![c].at = "toHost"]
      /\ UNCHANGED <<model_map_, client, server, frame>>
  BY <1>3, <1>5 DEF Allocate
<1>8. TypeOK
  BY DEF IndInv
<1>9. bufs # Null
  BY <1>6, <1>8, NullAssumption DEF TypeOK, MemoryType
<1>10. /\ pinned_mem_' = [n \in Models |-> IF n = m THEN bufs ELSE pinned_mem_[n]]
       /\ content' = [n \in Models |-> content[n]]
       /\ host_ptr_vector_' = host_ptr_vector_ /\ replica' = Dangling({})
  BY <1>6 DEF Reallocate
<1>11. replica' = replica
  <2>1. Dangling({}) = [d \in Clients |-> replica[d]]
    BY DEF Dangling
  <2>. QED
    BY <1>10, <2>1, ReplicaFacts
<1>12. content' = content
  BY <1>8, <1>10 DEF TypeOK, MemoryType
<1>13. \A n \in Models \ {m} : Kept(n)
  BY <1>7, <1>10, <1>12 DEF Kept
<1>14. ModelInv(m) /\ m[2] = 1 /\ model_map_[m[1]] = m /\ m # Null
  BY <1>1, <1>2, DiskFacts
<1>15. Held(m)' = bufs /\ state_'[m] = "ALLOCATED" /\ ~Full(m) /\ ~Full(m)'
  BY <1>4, <1>7, <1>9, <1>10 DEF Held, Full
<1>16. ModelInv(m)'
  BY <1>4, <1>6, <1>7, <1>12, <1>14, <1>15 DEF ModelInv
<1>17. Advances(m)
  BY <1>4, <1>15 DEF Advances, Vacant
<1>18. PICK l : l = [load[c] EXCEPT !.at = "toHost"]
  OBVIOUS
<1>19. load' = [load EXCEPT ![c] = l]
  BY <1>1, <1>7, <1>18, DiskFacts
<1>20. l.at = "toHost" /\ l.model = m
  BY <1>1, <1>3, <1>18, DiskFacts DEF LoadRecords
<1>21. TaskInv(c)' /\ \A d \in Clients \ {c} : load'[d] = load[d]
  BY <1>1, <1>2, <1>7, <1>15, <1>19, <1>20, TaskAfter, ZenonT(40) DEF Vacant
<1>22. ASSUME NEW d \in Clients, load[d].at = "reading", Mine(d) = m
       PROVE  FALSE
  <2>1. TaskInv(d)
    BY DEF RightInv
  <2>. QED
    BY <1>4, <1>22, <2>1 DEF TaskInv
<1>. QED
  BY <1>1, <1>2, <1>7, <1>11, <1>13, <1>16, <1>17, <1>21, <1>22, DiskFacts, DiskStepRight

\* The readers of a model start, and nobody waits in its old vector.
LEMMA ToHostRight ==
    ASSUME IndInv, RightInv, NEW c \in Clients, ToHost(c)
    PROVE  RightInv'
<1>1. load[c].at = "toHost" /\ load[c].at # "none"
  BY DEF ToHost, Disk
<1>2. PICK m \in Models : m = Mine(c)
  BY <1>1, DiskFacts
<1>3. load[c].model = m
  BY <1>1, <1>2, DiskFacts DEF TaskInv
<1>4. state_[m] = "ALLOCATED" /\ ~Full(m)
  BY <1>3 DEF ToHost, Full
<1>5. ~Awaited(m)
  <2>1. ASSUME NEW r \in Clients, Gpu(r, "dispatch"), replica[r].model = m
        PROVE  FALSE
    <3>1. replica[r].at = "dispatch"
      BY <2>1 DEF Gpu
    <3>2. Mine(r) = m
      BY <2>1, <3>1, ReplicaFacts DEF CopyInv
    <3>. QED
      BY <1>4, <3>1, <3>2, ReplicaFacts
  <2>. QED
    BY <2>1 DEF Awaited
<1>6. /\ state_' = [state_ EXCEPT ![m] = "LOADING"]
      /\ host_ptr_vector_' = [host_ptr_vector_ EXCEPT ![m] = <<>>]
      /\ load' = [load EXCEPT ![c].at = "reading", ![c].unread = Chunks(m),
                              ![c].error = FALSE, ![c].target = pinned_mem_[m]]
      /\ UNCHANGED <<model_map_, pinned_mem_, content, client, replica, server, frame>>
  BY <1>3, <1>5 DEF ToHost, store
<1>7. TypeOK
  BY DEF IndInv
<1>8. state_'[m] = "LOADING" /\ host_ptr_vector_'[m] = <<>>
  BY <1>6, <1>7 DEF TypeOK, MemoryType
<1>9. \A n \in Models \ {m} : Kept(n)
  BY <1>6, <1>7 DEF Kept, TypeOK, MemoryType
<1>10. ModelInv(m) /\ m[2] = 1 /\ model_map_[m[1]] = m /\ m # Null
  BY <1>1, <1>2, DiskFacts
<1>11. content[m] = {} /\ Cardinality(Held(m)) = Size[m[1]] /\ Held(m)' = Held(m)
  BY <1>4, <1>6, <1>10 DEF ModelInv, Vacant, Held
<1>12. ModelInv(m)'
  <2>1. <<>> \in Seq(Chunks(m)) /\ IsInjective(<<>>) /\ ToSet(<<>>) = {}
    BY DEF IsInjective, ToSet
  <2>. QED
    BY <1>6, <1>8, <1>10, <1>11, <2>1 DEF ModelInv
<1>13. Advances(m)
  BY <1>4, <1>8 DEF Advances, Vacant
<1>14. PICK l : l = [load[c] EXCEPT !.at = "reading", !.unread = Chunks(m),
                                    !.error = FALSE, !.target = pinned_mem_[m]]
  OBVIOUS
<1>15. load' = [load EXCEPT ![c] = l]
  BY <1>1, <1>6, <1>14, DiskFacts
<1>16. /\ l.at = "reading" /\ l.model = m /\ l.unread = Chunks(m) /\ ~l.error
       /\ l.target = pinned_mem_[m]
  BY <1>1, <1>3, <1>14, DiskFacts DEF LoadRecords
<1>17. UNCHANGED <<model_map_, client>> /\ l.unread = Chunks(m) \ content'[m]
       /\ l.target = pinned_mem_'[m]
  BY <1>6, <1>11, <1>16
<1>18. TaskInv(c)' /\ \A d \in Clients \ {c} : load'[d] = load[d]
  BY <1>1, <1>2, <1>8, <1>15, <1>16, <1>17, TaskAfter
<1>19. ASSUME NEW d \in Clients, load[d].at = "reading", Mine(d) = m
       PROVE  FALSE
  <2>1. TaskInv(d)
    BY DEF RightInv
  <2>. QED
    BY <1>4, <1>19, <2>1 DEF TaskInv
<1>20. UNCHANGED <<model_map_, client, replica, server, frame>>
  BY <1>6
<1>. QED
  BY <1>1, <1>2, <1>9, <1>12, <1>13, <1>18, <1>19, <1>20, DiskFacts, DiskStepRight

\* ModelInv for a model that is read, or that has been.
LEMMA FullAfter ==
    ASSUME NEW m \in Models, m[2] = 1, model_map_[m[1]] = m, m # Null, ModelInv(m),
           state_[m] = "LOADING", UNCHANGED <<model_map_, pinned_mem_>>,
           state_'[m] \in {"LOADING", "LOADED"},
           host_ptr_vector_'[m] \in Seq(Chunks(m)), IsInjective(host_ptr_vector_'[m]),
           content'[m] = ToSet(host_ptr_vector_'[m]),
           state_'[m] = "LOADED" => content'[m] = Chunks(m)
    PROVE  ModelInv(m)'
<1>1. Held(m)' = Held(m)
  BY DEF Held
<1>2. Cardinality(Held(m)) = Size[m[1]]
  BY DEF ModelInv, Vacant
<1>3. Full(m)'
  BY DEF Full
<1>4. model_map_'[m[1]] \in {Null, <<m[1], 1>>} /\ model_map_'[m[1]] # Null
  BY DEF ModelInv
<1>. QED
  BY <1>1, <1>2, <1>3, <1>4 DEF ModelInv

\* What a chunk that is new in a vector makes of it.
LEMMA OneMore ==
    ASSUME NEW S, NEW v \in Seq(S), IsInjective(v), NEW i \in S, i \notin ToSet(v)
    PROVE  /\ Append(v, i) \in Seq(S) /\ IsInjective(Append(v, i))
           /\ ToSet(Append(v, i)) = ToSet(v) \cup {i}
           /\ Len(v) \in Nat /\ Len(Append(v, i)) = Len(v) + 1
<1>1. PICK n \in Nat : n = Len(v) /\ DOMAIN v = 1 .. n
  OBVIOUS
<1>2. PICK w : w = Append(v, i)
  OBVIOUS
<1>3. /\ w \in Seq(S) /\ Len(w) = n + 1 /\ DOMAIN w = 1 .. (n + 1)
      /\ \A k \in 1 .. n : w[k] = v[k]
      /\ w[n + 1] = i
  BY <1>1, <1>2
<1>4. \A k \in 1 .. n : v[k] # i
  BY <1>1 DEF ToSet
<1>5. \A k \in 1 .. (n + 1) : k \in 1 .. n \/ k = n + 1
  BY <1>1
<1>6. IsInjective(w)
  BY <1>1, <1>3, <1>4, <1>5 DEF IsInjective
<1>7. ToSet(w) = ToSet(v) \cup {i}
  BY <1>1, <1>3, <1>5 DEF ToSet
<1>. QED
  BY <1>1, <1>2, <1>3, <1>6, <1>7

\* A chunk is read into the buffers of the model, by the one task that reads it.
LEMMA ReadChunkRight ==
    ASSUME IndInv, RightInv, NEW c \in Clients, NEW i \in load[c].unread, ReadChunk(c, i)
    PROVE  RightInv'
<1>1. load[c].at = "reading" /\ load[c].at # "none"
  BY DEF ReadChunk, NextChunk, Disk
<1>2. PICK m \in Models : m = Mine(c)
  BY <1>1, DiskFacts
<1>3. PICK r : r = load[c]
  OBVIOUS
<1>4. /\ r.model = m /\ state_[m] = "LOADING" /\ ~r.error /\ r.target = pinned_mem_[m]
      /\ r.unread = Chunks(m) \ content[m] /\ r \in LoadRecords
  BY <1>1, <1>2, <1>3, DiskFacts DEF TaskInv
<1>5. ModelInv(m) /\ m[2] = 1 /\ model_map_[m[1]] = m /\ m # Null
  BY <1>1, <1>2, DiskFacts
<1>6. PICK v : v = host_ptr_vector_[m]
  OBVIOUS
<1>7. /\ v \in Seq(Chunks(m)) /\ IsInjective(v) /\ content[m] = ToSet(v)
      /\ i \in Chunks(m) /\ i \notin ToSet(v)
  BY <1>3, <1>4, <1>5, <1>6 DEF ModelInv, Full
<1>8. PICK w : w = Append(v, i)
  OBVIOUS
<1>9. /\ w \in Seq(Chunks(m)) /\ IsInjective(w) /\ ToSet(w) = ToSet(v) \cup {i}
      /\ Len(v) \in Nat /\ Len(w) = Len(v) + 1
  BY <1>7, <1>8, OneMore
<1>10. TypeOK
  BY DEF IndInv
<1>11. /\ content' = [content EXCEPT ![m] = @ \cup {i}]
       /\ host_ptr_vector_' = [host_ptr_vector_ EXCEPT ![m] = w]
       /\ load' = [load EXCEPT ![c].unread = @ \ {i}]
       /\ UNCHANGED <<model_map_, state_, pinned_mem_, client, replica, server, frame>>
  <2>1. /\ content' = [content EXCEPT ![m] = @ \cup {i}]
        /\ host_ptr_vector_' = [host_ptr_vector_ EXCEPT ![m] =
              IF i \in ToSet(@) THEN @ ELSE Append(@, i)]
        /\ load' = [load EXCEPT ![c].unread = @ \ {i}]
        /\ UNCHANGED <<model_map_, state_, pinned_mem_, client, replica, server, frame>>
    BY <1>3, <1>4 DEF ReadChunk, store
  <2>. QED
    BY <1>6, <1>7, <1>8, <2>1
<1>12. content'[m] = content[m] \cup {i} /\ host_ptr_vector_'[m] = w
  BY <1>10, <1>11 DEF TypeOK, MemoryType
<1>13. \A n \in Models \ {m} : Kept(n)
  BY <1>10, <1>11 DEF Kept, TypeOK, MemoryType
<1>14. state_'[m] = "LOADING" /\ UNCHANGED <<model_map_, pinned_mem_>>
  BY <1>4, <1>11
<1>15. content'[m] = ToSet(w)
  BY <1>7, <1>9, <1>12
<1>16. ModelInv(m)'
  BY <1>4, <1>5, <1>9, <1>12, <1>14, <1>15, FullAfter
<1>17. Advances(m)
  BY <1>6, <1>9, <1>12, <1>14 DEF Advances, Vacant
<1>18. PICK l : l = [r EXCEPT !.unread = @ \ {i}]
  OBVIOUS
<1>19. load' = [load EXCEPT ![c] = l]
  BY <1>1, <1>3, <1>11, <1>18, DiskFacts
<1>20. /\ l.at = "reading" /\ l.model = m /\ ~l.error
       /\ l.target = pinned_mem_[m] /\ l.unread = r.unread \ {i}
  BY <1>1, <1>3, <1>4, <1>18 DEF LoadRecords
<1>21. UNCHANGED <<model_map_, client>> /\ l.unread = Chunks(m) \ content'[m]
       /\ l.target = pinned_mem_'[m]
  BY <1>4, <1>11, <1>12, <1>20
<1>22. TaskInv(c)' /\ \A d \in Clients \ {c} : load'[d] = load[d]
  BY <1>1, <1>2, <1>14, <1>19, <1>20, <1>21, TaskAfter
<1>23. ASSUME NEW d \in Clients \ {c}, load[d].at = "reading", Mine(d) = m
       PROVE  FALSE
  BY <1>1, <1>2, <1>23 DEF RightInv, AloneInv
<1>24. UNCHANGED <<model_map_, client, replica, server, frame>>
  BY <1>11
<1>. QED
  BY <1>1, <1>2, <1>13, <1>16, <1>17, <1>22, <1>23, <1>24, DiskFacts, DiskStepRight

\* The readers have read all chunks when they end.
LEMMA ReadersDoneRight ==
    ASSUME IndInv, RightInv, NEW c \in Clients, ReadersDone(c)
    PROVE  RightInv'
<1>1. load[c].at = "reading" /\ load[c].at # "none" /\ load[c].unread = {}
  BY DEF ReadersDone, Disk
<1>2. PICK m \in Models : m = Mine(c)
  BY <1>1, DiskFacts
<1>3. /\ load[c].model = m /\ state_[m] = "LOADING" /\ ~load[c].error
      /\ Chunks(m) \subseteq content[m]
  BY <1>1, <1>2, DiskFacts DEF TaskInv
<1>4. TypeOK
  BY DEF IndInv
<1>5. content[m] = Chunks(m)
  BY <1>3, <1>4 DEF TypeOK, MemoryType
<1>6. /\ state_' = [state_ EXCEPT ![m] = "LOADED"]
      /\ load' = [load EXCEPT ![c].at = "loaded"]
      /\ UNCHANGED <<model_map_, pinned_mem_, content, host_ptr_vector_, client, replica,
                     server, frame>>
  BY <1>3 DEF ReadersDone, store
<1>7. state_'[m] = "LOADED"
  BY <1>4, <1>6 DEF TypeOK, MemoryType
<1>8. \A n \in Models \ {m} : Kept(n)
  BY <1>4, <1>6 DEF Kept, TypeOK, MemoryType
<1>9. ModelInv(m) /\ m[2] = 1 /\ model_map_[m[1]] = m /\ m # Null
  BY <1>1, <1>2, DiskFacts
<1>10. /\ host_ptr_vector_[m] \in Seq(Chunks(m))
       /\ IsInjective(host_ptr_vector_[m]) /\ content[m] = ToSet(host_ptr_vector_[m])
  BY <1>3, <1>9 DEF ModelInv, Full
<1>11. ModelInv(m)'
  BY <1>3, <1>5, <1>6, <1>7, <1>9, <1>10, FullAfter
<1>12. Advances(m)
  <2>1. Len(host_ptr_vector_[m]) \in Nat
    BY <1>10
  <2>. QED
    BY <1>6, <1>7, <2>1 DEF Advances, Vacant
<1>13. PICK l : l = [load[c] EXCEPT !.at = "loaded"]
  OBVIOUS
<1>14. load' = [load EXCEPT ![c] = l]
  BY <1>1, <1>6, <1>13, DiskFacts
<1>15. l.at = "loaded"
  BY <1>1, <1>13, DiskFacts DEF LoadRecords
<1>16. TaskInv(c)' /\ load'[c] = l /\ \A d \in Clients \ {c} : load'[d] = load[d]
  BY <1>1, <1>2, <1>6, <1>7, <1>14, <1>15, TaskAfter, ZenonT(40)
<1>17. ASSUME NEW d \in Clients \ {c}, load[d].at = "reading", Mine(d) = m
       PROVE  FALSE
  BY <1>1, <1>2, <1>17 DEF RightInv, AloneInv
<1>18. UNCHANGED <<model_map_, client, replica, server, frame>>
  BY <1>6
<1>. QED
  BY <1>1, <1>2, <1>8, <1>11, <1>12, <1>16, <1>17, <1>18, DiskFacts, DiskStepRight

\* A path is registered once, as its first Model.
LEMMA RegisterOnce ==
    ASSUME IndInv, RightInv, NEW p \in Paths, Register(p)
    PROVE  /\ model_map_'[p] = <<p, 1>>
           /\ \A q \in Paths : model_map_[q] # Null => model_map_'[q] = model_map_[q]
           /\ \/ UNCHANGED <<model_map_, state_>>
              \/ /\ model_map_[p] = Null /\ <<p, 1>> \in Models
                 /\ model_map_' = [model_map_ EXCEPT ![p] = <<p, 1>>]
                 /\ state_[<<p, 1>>] = "UNINITIALIZED"
                 /\ state_' = [state_ EXCEPT ![<<p, 1>>] = "UNALLOCATED"]
<1>1. <<p, 1>> \in Models /\ ModelInv(<<p, 1>>)
  BY SizeAssumption DEF Models, RightInv
<1>2. model_map_ \in [Paths -> {Null} \cup Models]
  BY DEF IndInv, TypeOK
<1>3. CASE Registered(p)
  BY <1>1, <1>2, <1>3 DEF Register, Registered, ModelInv
<1>4. CASE ~Registered(p)
  <2>1. PICK m \in Models :
          /\ m[1] = p /\ state_[m] = "UNINITIALIZED"
          /\ \A k \in 1 .. (m[2] - 1) : state_[<<p, k>>] # "UNINITIALIZED"
          /\ model_map_' = [model_map_ EXCEPT ![p] = m]
          /\ state_' = [state_ EXCEPT ![m] = "UNALLOCATED"]
    BY <1>4 DEF Register
  <2>2. state_[<<p, 1>>] = "UNINITIALIZED"
    BY <1>1, <1>4 DEF ModelInv, Registered
  <2>3. m[2] \in Nat /\ m[2] >= 1 /\ m = <<m[1], m[2]>>
    BY SizeAssumption DEF Models
  <2>4. m[2] = 1
    BY <2>1, <2>2, <2>3
  <2>5. m = <<p, 1>>
    BY <2>1, <2>3, <2>4
  <2>. QED
    BY <1>1, <1>2, <1>4, <2>1, <2>2, <2>5 DEF Registered
<1>. QED
  BY <1>3, <1>4

\* load_into_cpu registers the model and leaves the others as they are.
LEMMA LoadIntoCpuRight ==
    ASSUME IndInv, RightInv, NEW c \in Clients, NEW p \in Paths, LoadIntoCpu(c, p)
    PROVE  RightInv'
<1>1. /\ client[c].next = "cpu" /\ Register(p)
      /\ load' = [load EXCEPT ![c].at = "begin"]
      /\ client' = [client EXCEPT ![c].path = p, ![c].next =
                      IF c \in GpuClients THEN "gpu" ELSE "end"]
      /\ UNCHANGED <<pinned_mem_, host_ptr_vector_, content, replica, server, frame>>
  BY DEF LoadIntoCpu
<1>2. TypeOK
  BY DEF IndInv
<1>3. PICK m : m = <<p, 1>>
  OBVIOUS
<1>4. /\ model_map_'[p] = m
      /\ \A q \in Paths : model_map_[q] # Null => model_map_'[q] = model_map_[q]
      /\ \/ UNCHANGED <<model_map_, state_>>
         \/ /\ model_map_[p] = Null /\ m \in Models
            /\ model_map_' = [model_map_ EXCEPT ![p] = m]
            /\ state_[m] = "UNINITIALIZED"
            /\ state_' = [state_ EXCEPT ![m] = "UNALLOCATED"]
  BY <1>1, <1>3, RegisterOnce
<1>5. ASSUME NEW n \in Models
      PROVE  ModelInv(n)' /\ Advances(n) /\ (state_[n] = "LOADING" => Kept(n))
  <2>1. ModelInv(n) /\ n[1] \in Paths /\ n # Null
    BY ModelFacts DEF RightInv
  <2>2. CASE UNCHANGED <<model_map_, state_>>
    <3>1. Kept(n) /\ model_map_'[n[1]] = model_map_[n[1]]
      BY <1>1, <2>2 DEF Kept
    <3>. QED
      BY <2>1, <3>1, ModelFrame
  <2>3. CASE /\ model_map_[p] = Null /\ m \in Models
             /\ model_map_' = [model_map_ EXCEPT ![p] = m]
             /\ state_[m] = "UNINITIALIZED"
             /\ state_' = [state_ EXCEPT ![m] = "UNALLOCATED"]
    <3>1. CASE n[1] # p
      <4>1. n # m
        BY <1>3, <3>1
      <4>2. Kept(n) /\ model_map_'[n[1]] = model_map_[n[1]]
        BY <1>1, <1>2, <2>1, <2>3, <3>1, <4>1 DEF Kept, TypeOK, MemoryType
      <4>. QED
        BY <2>1, <4>2, ModelFrame
    <3>2. CASE n = m
      <4>1. state_'[n] = "UNALLOCATED" /\ state_[n] = "UNINITIALIZED"
        BY <1>2, <2>3, <3>2 DEF TypeOK, MemoryType
      <4>2. n[1] = p /\ n[2] = 1 /\ model_map_'[n[1]] = n
        BY <1>3, <1>4, <3>2
      <4>3. content'[n] = {}
        BY <1>1, <2>1, <4>1 DEF ModelInv, Full
      <4>4. ModelInv(n)'
        BY <1>3, <2>1, <3>2, <4>1, <4>2, <4>3 DEF ModelInv, Full, Vacant
      <4>. QED
        BY <4>1, <4>4 DEF Advances, Full, Vacant
    <3>3. CASE n[1] = p /\ n # m
      <4>1. n[2] # 1 /\ n = <<n[1], n[2]>>
        BY <1>3, <3>3 DEF Models
      <4>2. Kept(n) /\ model_map_'[n[1]] = m
        BY <1>1, <1>2, <1>4, <2>3, <3>3 DEF Kept, TypeOK, MemoryType
      <4>3. Held(n)' = Held(n) /\ (Full(n)' <=> Full(n))
        BY <4>2 DEF Kept, Held, Full
      <4>4. ModelInv(n)'
        BY <1>3, <2>1, <3>3, <4>1, <4>2, <4>3 DEF ModelInv, Kept
      <4>5. Advances(n)
        BY <2>1, <4>2, <4>3 DEF Advances, Kept, Full, ModelInv
      <4>. QED
        BY <4>2, <4>4, <4>5
    <3>. QED
      BY <3>1, <3>2, <3>3
  <2>. QED
    BY <1>4, <2>2, <2>3
<1>6. /\ load'[c].at = "begin" /\ \A d \in Clients \ {c} : load'[d] = load[d]
      /\ client'[c].path = p /\ client'[c].next \in {"gpu", "end"}
      /\ \A d \in Clients \ {c} : client'[d] = client[d]
  BY <1>1, <1>2 DEF TypeOK, LoadRecords, ClientRecords
<1>7. ASSUME NEW d \in Clients PROVE TaskInv(d)'
  <2>1. CASE d = c
    BY <1>3, <1>4, <1>6, <2>1 DEF TaskInv, Mine
  <2>2. CASE d # c
    <3>1. TaskInv(d) /\ load'[d] = load[d] /\ client'[d] = client[d]
      BY <1>6, <2>2 DEF RightInv
    <3>2. client[d].next # "cpu" => /\ model_map_'[client[d].path] = model_map_[client[d].path]
                                    /\ Advances(Mine(d))
      <4>1. ASSUME client[d].next # "cpu"
            PROVE  /\ model_map_[client[d].path] # Null /\ client[d].path \in Paths
                   /\ Mine(d) \in Models
        BY <3>1, <4>1, MineType, ModelFacts DEF TaskInv
      <4>. QED
        BY <1>4, <1>5, <4>1
    <3>3. load[d].at = "reading" => Kept(Mine(d))
      <4>1. load[d].at = "reading" => client[d].next # "cpu" /\ state_[Mine(d)] = "LOADING"
        BY <3>1 DEF TaskInv
      <4>. QED
        BY <1>5, <4>1, MineType
    <3>. QED
      BY <3>1, <3>2, <3>3, TaskFrame
  <2>. QED
    BY <2>1, <2>2
<1>8. ASSUME NEW d \in Clients PROVE CopyInv(d)' /\ AnswerInv(d)'
  <2>1. CopyInv(d) /\ AnswerInv(d) /\ replica'[d] = replica[d]
    BY <1>1 DEF RightInv
  <2>2. CASE d = c
    <3>1. replica[c].at = "none"
      BY <1>1, <2>1, <2>2 DEF CopyInv
    <3>2. PICK r : r = replica[c]
      OBVIOUS
    <3>3. /\ ~r.dangling /\ ~r.garbage /\ r.at = "none" /\ r.state = "UNINITIALIZED"
          /\ ~r.listed /\ r.device = "none" /\ r.sent = 0 /\ r.queue = <<>>
      BY <2>1, <2>2, <3>1, <3>2 DEF CopyInv
    <3>4. replica'[c] = r
      BY <2>1, <2>2, <3>2
    <3>. QED
      BY <1>6, <2>2, <3>3, <3>4 DEF CopyInv, AnswerInv
  <2>3. CASE d # c
    <3>1. client'[d] = client[d]
      BY <1>6, <2>3
    <3>2. replica \in [Clients -> ReplicaRecords]
      BY <1>2 DEF TypeOK
    <3>3. replica[d].at # "none" => Advances(Mine(d)) /\ ModelInv(Mine(d))
      <4>1. replica[d].at # "none" => client[d].next # "cpu"
        BY <2>1 DEF CopyInv
      <4>. QED
        BY <1>5, <4>1, MineType DEF RightInv
    <3>. QED
      BY <2>1, <3>1, <3>2, <3>3, CopyFrame
  <2>. QED
    BY <2>2, <2>3
<1>9. AloneInv'
  <2>1. ASSUME NEW d \in Clients, NEW e \in Clients, load'[d].at = "reading",
               load'[e].at = "reading", Mine(d)' = Mine(e)'
        PROVE  d = e
    <3>1. d # c /\ e # c
      BY <1>6, <2>1
    <3>2. /\ load[d].at = "reading" /\ load[e].at = "reading"
          /\ Mine(d)' = Mine(d) /\ Mine(e)' = Mine(e)
      BY <1>6, <2>1, <3>1 DEF Mine
    <3>. QED
      BY <2>1, <3>2 DEF RightInv, AloneInv
  <2>. QED
    BY <2>1 DEF AloneInv
<1>10. ServingInv' /\ QuietInv'
  BY <1>1 DEF RightInv, ServingInv, QuietInv
<1>. QED
  BY <1>5, <1>7, <1>8, <1>9, <1>10 DEF RightInv

\* What needs a fault, an UnloadModel, a ClearMem or a task that failed does
\* not happen.
LEMMA NothingElse ==
    ASSUME Undisturbed, IndInv, RightInv
    PROVE  /\ \A p \in Paths : ~RequestUnload(p) /\ ~Unload(p) /\ ~ClearNext(p)
           /\ ~ClearMem /\ ~Cleared
           /\ \A t \in Threads : ~FreeStep(t)
           /\ \A c \in Clients : ~ToHostFails(c) /\ ~CancelledEnded(c) /\ ~FreeGpu(c)
           /\ \A c \in Clients : \A i \in load[c].unread : ~ReadFails(c, i)
<1>1. ServingInv /\ QuietInv /\ server \in ServerRecords
  BY DEF RightInv, IndInv, TypeOK
<1>2. \A p \in Paths : ~RequestUnload(p) /\ ~Unload(p) /\ ~ClearNext(p)
  BY <1>1 DEF ServingInv, RequestUnload, Unload, ClearNext, Serving
<1>3. ~ClearMem /\ ~Cleared
  BY <1>1 DEF ServingInv, ClearMem, Cleared, Serving
<1>4. \A t \in Threads : ~FreeStep(t)
  <2>1. ASSUME NEW t \in Threads PROVE frame[t].at \notin {"enter", "host", "replicas"}
    BY <1>1 DEF QuietInv, Threads
  <2>. QED
    BY <2>1 DEF FreeStep, FreeHost, HostEnded, HostSleepsOn, ReplicaEnded, In
<1>5. ASSUME NEW c \in Clients, ToHostFails(c) PROVE FALSE
  <2>1. load[c].at = "toHost" /\ load[c].at # "none"
    BY <1>5 DEF ToHostFails, Disk
  <2>2. PICK m \in Models : m = Mine(c)
    BY <2>1, DiskFacts
  <2>3. load[c].model = m /\ state_[m] \notin Vacant /\ ModelInv(m)
    BY <2>1, <2>2, DiskFacts DEF TaskInv
  <2>4. state_[m] = "ALLOCATED" /\ Held(m) = {}
    BY <1>5, <2>3 DEF ToHostFails, ModelInv, Vacant, Undisturbed
  <2>5. Cardinality(Held(m)) = Size[m[1]] /\ Size[m[1]] > 0
    BY <2>2, <2>3, ModelFacts DEF ModelInv
  <2>. QED
    BY <2>4, <2>5, FS_EmptySet
<1>6. \A c \in Clients : ~CancelledEnded(c) /\ ~FreeGpu(c)
  BY <1>1 DEF QuietInv, CancelledEnded, In, FreeGpu, Gpu, RightInv, CopyInv
<1>7. \A c \in Clients : \A i \in load[c].unread : ~ReadFails(c, i)
  BY DEF ReadFails, Undisturbed
<1>. QED
  BY <1>2, <1>3, <1>4, <1>5, <1>6, <1>7

\* A store that starts is right.
LEMMA RightInit ==
    ASSUME Undisturbed, Init
    PROVE  RightInv
<1>1. ServingInv
  BY DEF Init, ServingInv, Undisturbed
<1>2. QuietInv
  BY DEF Init, QuietInv, Threads, NoFrame
<1>3. AloneInv
  BY DEF Init, AloneInv
<1>4. \A m \in Models : ModelInv(m)
  <2>1. ASSUME NEW m \in Models PROVE ModelInv(m)
    <3>1. m[1] \in Paths
      BY ModelFacts
    <3>2. /\ state_[m] = "UNINITIALIZED" /\ model_map_[m[1]] = Null /\ content[m] = {}
      BY <3>1 DEF Init
    <3>. QED
      BY <3>2 DEF ModelInv, Full, Vacant
  <2>. QED
    BY <2>1
<1>5. \A c \in Clients : TaskInv(c)
  BY DEF Init, TaskInv
<1>6. \A c \in Clients : CopyInv(c)
  BY DEF Init, CopyInv
<1>7. \A c \in Clients : AnswerInv(c)
  BY DEF Init, AnswerInv
<1>. QED
  BY <1>1, <1>2, <1>3, <1>4, <1>5, <1>6, <1>7 DEF RightInv

\* A step that changes nothing leaves it right.
LEMMA RightStutters ==
    ASSUME RightInv, UNCHANGED vars
    PROVE  RightInv'
<1>1. \A m \in Models : ModelInv(m)' <=> ModelInv(m)
  BY DEF vars, store, memory, ModelInv, Full, Held
<1>2. \A c \in Clients : TaskInv(c)' <=> TaskInv(c)
  BY DEF vars, store, memory, TaskInv, Full, Mine
<1>3. \A c \in Clients : CopyInv(c)' <=> CopyInv(c)
  BY DEF vars, store, memory, CopyInv, Full, Mine, Sends
<1>4. \A c \in Clients : AnswerInv(c)' <=> AnswerInv(c)
  BY DEF vars, AnswerInv
<1>5. (AloneInv' <=> AloneInv) /\ (ServingInv' <=> ServingInv) /\ (QuietInv' <=> QuietInv)
  BY DEF vars, AloneInv, Mine, ServingInv, QuietInv
<1>. QED
  BY <1>1, <1>2, <1>3, <1>4, <1>5 DEF RightInv

\* So does every step.
LEMMA RightNext ==
    ASSUME Roomy, Undisturbed, IndInv, RightInv, [Next]_vars
    PROVE  RightInv'
<1>1. CASE Request
  BY <1>1, LoadIntoCpuRight, LoadIntoGpuRight, NothingElse DEF Request
<1>2. CASE ServerStep
  BY <1>2, ConfirmRight, ReplicaFoundRight, ConfirmReturnsRight, NothingElse DEF ServerStep
<1>3. CASE \E t \in Threads : FreeStep(t)
  BY <1>3, NothingElse
<1>4. ASSUME NEW c \in Clients, DiskStep(c) PROVE RightInv'
  BY <1>4, DiskBeginRight, KeepMemoryRight, AllocateRight, AlreadyReadRight, ToHostRight,
     ReadersDoneRight, NothingElse DEF DiskStep
<1>5. ASSUME NEW c \in Clients, ReadStep(c) PROVE RightInv'
  BY <1>5, ReadChunkRight, NothingElse DEF ReadStep
<1>6. ASSUME NEW c \in Clients, ReplicaStep(c) PROVE RightInv'
  BY <1>6, ReplicaBeginRight, ToGpuRight, PlanRight, DispatchRight, ReplicaDoneRight,
     NothingElse DEF ReplicaStep
<1>7. ASSUME NEW c \in Clients, DeviceStep(c) PROVE RightInv'
  BY <1>7, DeviceStartRight, CopyRight DEF DeviceStep
<1>8. CASE UNCHANGED vars
  BY <1>8, RightStutters
<1>. QED
  BY <1>1, <1>2, <1>3, <1>4, <1>5, <1>6, <1>7, <1>8 DEF Next

\* What RightInv says of the answers and of the replicas.
LEMMA RightMeans ==
    ASSUME IndInv, RightInv
    PROVE  ReplicasAreRight
<1>1. NoCrash
  BY DEF RightInv, ServingInv, NoCrash
<1>2. ASSUME NEW c \in Clients, replica[c].state = "LOADED"
      PROVE  /\ replica[c].at = "loaded" /\ replica[c].device = "done"
             /\ replica[c].queue = <<>> /\ ~replica[c].garbage
             /\ replica[c].sent = Size[replica[c].model[1]]
  <2>1. replica[c].at = "loaded"
    BY <1>2 DEF RightInv, CopyInv
  <2>2. /\ replica[c].model = Mine(c) /\ replica[c].device = "done" /\ replica[c].queue = <<>>
        /\ ~replica[c].garbage /\ replica[c].sent = Size[client[c].path]
    BY <2>1 DEF RightInv, CopyInv
  <2>. QED
    BY <2>1, <2>2 DEF Mine
<1>3. ReplicasAreComplete
  BY <1>2 DEF ReplicasAreComplete
<1>4. ConfirmedIsLoaded
  <2>1. ASSUME NEW c \in Clients, client[c].next = "confirmed"
        PROVE  replica[c].state = "LOADED"
    <3>1. replica[c].at = "loaded"
      BY <2>1 DEF RightInv, AnswerInv
    <3>. QED
      BY <3>1 DEF RightInv, CopyInv
  <2>. QED
    BY <2>1 DEF ConfirmedIsLoaded
<1>. QED
  BY <1>1, <1>3, <1>4 DEF ReplicasAreRight

\* In a store with room for all models that nothing goes wrong with, the
\* replicas that are copied while the disk is still read, by several clients
\* that may share a model, get all its bytes before a client is told so; and
\* the store never crashes (Model::ToHost, DispatchToGpu, WaitInGpu).
THEOREM ReplicasAlwaysRight ==
    ASSUME Roomy, Undisturbed
    PROVE  Spec => []ReplicasAreRight
<1>1. Init => RightInv
  BY RightInit
<1>2. IndInv /\ RightInv /\ [Next]_vars => RightInv'
  BY RightNext
<1>3. IndInv /\ RightInv => ReplicasAreRight
  BY RightMeans
<1>. QED
  BY <1>1, <1>2, <1>3, Invariance, PTL DEF Spec

-----------------------------------------------------------------------------
(* Saving a state dict                                                     *)

FileBytes == {Gap} \cup (Pointers \X Nat)

\* All that was written, in the order of the files, and what the buffer
\* still has of it; the part of it that is in the open partition.
Stream == FlattenSeq(files) \o buffer
Opened == IF files = <<>> THEN <<>> ELSE files[Len(files)] \o buffer
\* The bytes of the current record that were taken.
Begun  == IF written = -1 THEN 0 ELSE written

WTypes ==
    /\ files \in Seq(Seq(FileBytes)) /\ buffer \in Seq(FileBytes)
    /\ file_offset \in Nat /\ partition_size \in Nat /\ offset \in Nat
    /\ count \in 0 .. Len(TensorNames)
    /\ tensor_offsets \in Seq(Nat) /\ Len(tensor_offsets) = count
    /\ written \in Nat \cup {-1} /\ saved \in BOOLEAN
    /\ written # -1 => More /\ written <= Current.size /\ Shared = {}
    /\ saved => ~More /\ written = -1 /\ buffer = <<>>

\* The counters say how far the open partition has been written.
OffsetsInv ==
    /\ files = <<>> => buffer = <<>> /\ written = -1
    /\ files # <<>> /\ ~saved => Len(files[Len(files)]) = file_offset
    /\ Len(buffer) < kBufferSize
    /\ ~saved => file_offset + Len(buffer) = partition_size + Begun
    /\ file_offset % kAlignment = 0 /\ partition_size % Word = 0 /\ offset % Word = 0
    /\ Len(Stream) = offset + Begun

\* The record of tensor i is in the stream.
Recorded(i) ==
    LET d == data[TensorNames[i]]
        at == tensor_offsets[i]
    IN  /\ at % Word = 0 /\ at + d.size <= offset
        /\ \A k \in 1 .. d.size : Stream[at + k] = <<d.ptr, k>>

\* Behind the records there is only the beginning of the current one, and
\* each byte was written once.
RecordsInv ==
    /\ \A i \in 1 .. count : Recorded(i)
    /\ \A i \in 1 .. offset : Stream[i] # Gap =>
          \E j \in 1 .. count : Stream[i][1] = data[TensorNames[j]].ptr
    /\ \A k \in 1 .. Begun : Stream[offset + k] = <<Current.ptr, k>>
    /\ \A i, j \in DOMAIN Stream : Stream[i] = Stream[j] /\ Stream[i] # Gap => i = j

\* What may be in one partition.
OnlyOf(p, s) == \A i \in DOMAIN s : s[i] = Gap \/ s[i][1] = p
Bounded(s) == Len(s) < kPartitionMaxSize + Word \/ \E p \in Pointers : OnlyOf(p, s)
PartitionsInv ==
    /\ \A f \in 1 .. Len(files) - 1 : Bounded(files[f])
    /\ written = -1 => Bounded(Opened)
    /\ written # -1 => \/ partition_size + Current.size <= kPartitionMaxSize
                       \/ partition_size = 0 /\ OnlyOf(Current.ptr, Opened)

WInv ==
    /\ data \in StateDicts /\ failures \in Nat
    /\ failures = 0 => WTypes /\ OffsetsInv /\ RecordsInv /\ PartitionsInv

(* Multiples *)

\* Multiples of w, with the factor.
LEMMA Divides ==
    ASSUME NEW a \in Int, NEW w \in Nat \ {0}
    PROVE  a % w = 0 <=> \E q \in Int : a = q * w
<1>1. a = w * (a \div w) + (a % w) /\ a \div w \in Int /\ a % w \in 0 .. w - 1
  OBVIOUS
<1>2. ASSUME a % w = 0 PROVE \E q \in Int : a = q * w
  BY <1>1, <1>2
<1>3. ASSUME NEW q \in Int, a = q * w PROVE a % w = 0
  <2> DEFINE d == a \div w
             r == a % w
  <2>1. q * w = w * d + r /\ d \in Int /\ r \in 0 .. w - 1
    BY <1>1, <1>3
  <2> HIDE DEF d, r
  <2>2. (q - d) * w = r /\ q - d \in Int
    BY <2>1
  <2>3. PICK e \in Int : e = q - d
    BY <2>2
  <2>4. e * w = r
    BY <2>2, <2>3
  <2>5. CASE e >= 1
    <3>1. e * w >= w
      BY <2>5
    <3>. QED
      BY <3>1, <2>4, <2>1
  <2>6. CASE e <= -1
    <3>1. e * w <= -w
      BY <2>6
    <3>. QED
      BY <3>1, <2>4, <2>1
  <2>7. CASE e = 0
    BY <2>7, <2>4 DEF r
  <2>. QED
    BY <2>5, <2>6, <2>7
<1>. QED
  BY <1>2, <1>3

\* Sums and differences.
LEMMA SumDivides ==
    ASSUME NEW w \in Nat \ {0}, NEW a \in Int, NEW b \in Int, a % w = 0, b % w = 0
    PROVE  (a + b) % w = 0 /\ (a - b) % w = 0
<1>1. PICK q \in Int : a = q * w
  BY Divides
<1>2. PICK r \in Int : b = r * w
  BY Divides
<1>3. PICK c \in Int : c = a + b
  OBVIOUS
<1>4. PICK d \in Int : d = a - b
  OBVIOUS
<1>5. c = (q + r) * w /\ q + r \in Int
  BY <1>1, <1>2, <1>3
<1>6. d = (q - r) * w /\ q - r \in Int
  BY <1>1, <1>2, <1>4
<1>7. c % w = 0
  <2>1. \E e \in Int : c = e * w
    BY <1>5
  <2>. QED
    BY <2>1, Divides
<1>8. d % w = 0
  <2>1. \E e \in Int : d = e * w
    BY <1>6
  <2>. QED
    BY <2>1, Divides
<1>. QED
  BY <1>3, <1>4, <1>7, <1>8

\* A multiple of a multiple.
LEMMA DividesAll ==
    ASSUME NEW w \in Nat \ {0}, NEW k \in Nat \ {0}, k % w = 0, NEW a \in Int, a % k = 0
    PROVE  a % w = 0
<1>1. PICK q \in Int : a = q * k
  BY Divides
<1>2. PICK r \in Int : k = r * w
  BY Divides
<1>3. a = (q * r) * w /\ q * r \in Int
  BY <1>1, <1>2
<1>4. \E e \in Int : a = e * w
  BY <1>3
<1>. QED
  BY <1>4, Divides

\* Different multiples are at least w apart.
LEMMA NextMultiple ==
    ASSUME NEW w \in Nat \ {0}, NEW a \in Int, NEW b \in Int, a % w = 0, b % w = 0, a < b
    PROVE  a + w <= b
<1>1. PICK q \in Int : a = q * w
  BY Divides
<1>2. PICK r \in Int : b = r * w
  BY Divides
<1>3. q < r
  <2>1. SUFFICES ASSUME q >= r PROVE FALSE
    BY <1>1, <1>2
  <2>2. (q - r) * w >= 0
    BY <2>1
  <2>. QED
    BY <1>1, <1>2, <2>2
<1>4. (r - q - 1) * w >= 0
  BY <1>3
<1>. QED
  BY <1>1, <1>2, <1>4

\* The whole multiples in a number.
LEMMA WholePart ==
    ASSUME NEW k \in Nat \ {0}, NEW a \in Nat
    PROVE  LET b == (a \div k) * k IN b \in Nat /\ b <= a /\ a < b + k /\ b % k = 0
<1>1. a = k * (a \div k) + (a % k) /\ a \div k \in Nat /\ a % k \in 0 .. k - 1
  OBVIOUS
<1>2. PICK q \in Nat : q = a \div k
  BY <1>1
<1>3. PICK b \in Int : b = q * k
  OBVIOUS
<1>4. b \in Nat /\ b <= a /\ a < b + k
  <2>1. q * k >= 0
    OBVIOUS
  <2>. QED
    BY <1>1, <1>2, <1>3, <2>1
<1>5. b % k = 0
  BY <1>3, Divides
<1>. QED
  BY <1>2, <1>3, <1>4, <1>5

\* The padding of a record ends at a multiple.
LEMMA PadDivides ==
    ASSUME NEW w \in Nat \ {0}, NEW s \in Nat
    PROVE  LET p == IF s % w = 0 THEN 0 ELSE w - (s % w) IN
           p \in 0 .. w - 1 /\ (s + p) % w = 0
<1>1. s = w * (s \div w) + (s % w) /\ s \div w \in Nat /\ s % w \in 0 .. w - 1
  OBVIOUS
<1>2. CASE s % w = 0
  BY <1>2
<1>3. CASE s % w # 0
  <2>1. PICK p \in Nat : p = w - (s % w) /\ p \in 0 .. w - 1
    BY <1>1, <1>3
  <2>2. PICK t \in Int : t = s + p
    OBVIOUS
  <2>3. t = (s \div w + 1) * w /\ s \div w + 1 \in Int
    BY <1>1, <2>1, <2>2
  <2>4. \E e \in Int : t = e * w
    BY <2>3
  <2>5. t % w = 0
    BY <2>4, Divides
  <2>. QED
    BY <1>3, <2>1, <2>2, <2>5
<1>. QED
  BY <1>2, <1>3

(* Sequences of files, one after the other *)

\* f[i] is the first i sequences of s, one after the other.
IsFlat(f, T, s) ==
    /\ f \in [0 .. Len(s) -> Seq(T)] /\ f[0] = <<>>
    /\ \A i \in 1 .. Len(s) : f[i] = f[i - 1] \o s[i]

\* What FlattenSeq puts together, one sequence at a time.
LEMMA FlatSteps ==
    ASSUME NEW T, NEW s \in Seq(Seq(T))
    PROVE  \E f : IsFlat(f, T, s) /\ FlattenSeq(s) = f[Len(s)]
<1> DEFINE N == Len(s)
           Is(f) == f = [i \in 1 .. N |-> IF i = 1 THEN s[i] ELSE f[i - 1] \o s[i]]
           turn == [i \in 1 .. N |-> [x \in Seq(T) |-> x \o s[i]]]
<1>1. N \in Nat /\ <<>> \in Seq(T) /\ \A i \in 1 .. N : s[i] \in Seq(T)
  OBVIOUS
<1>2. turn \in [1 .. N -> [Seq(T) -> Seq(T)]]
  <2>1. \A i \in 1 .. N : [x \in Seq(T) |-> x \o s[i]] \in [Seq(T) -> Seq(T)]
    BY <1>1
  <2>. QED
    BY <2>1
<1>3. PICK f : IsFlat(f, T, s)
  <2> HIDE DEF turn, N
  <2>1. PICK f : IsLoop(f, Seq(T), N, <<>>, turn)
    BY <1>1, <1>2, LoopExists, Zenon
  <2>2. f \in [0 .. N -> Seq(T)] /\ f[0] = <<>>
    BY <2>1 DEF IsLoop
  <2>3. ASSUME NEW i \in 1 .. N PROVE f[i] = f[i - 1] \o s[i]
    <3>1. i - 1 \in 0 .. N
      BY <1>1
    <3>2. f[i] = turn[i][f[i - 1]] /\ f[i - 1] \in Seq(T)
      BY <2>1, <2>2, <3>1 DEF IsLoop
    <3>. QED
      BY <3>2 DEF turn
  <2>. QED
    BY <2>2, <2>3 DEF IsFlat, N
<1>4. CASE N = 0
  <2>1. s = <<>>
    BY <1>4
  <2>. QED
    BY <1>3, <2>1, <1>4 DEF FlattenSeq, IsFlat
<1>5. CASE N # 0
  <2> DEFINE g == [i \in 1 .. N |-> f[i]]
  <2>0. /\ f \in [0 .. N -> Seq(T)] /\ f[0] = <<>>
        /\ \A i \in 1 .. N : f[i] = f[i - 1] \o s[i]
    BY <1>3 DEF IsFlat
  <2>9. f[1] = <<>> \o s[1] /\ s[1] \in Seq(T)
    <3>1. 1 \in 1 .. N /\ 1 - 1 = 0
      BY <1>1, <1>5
    <3>2. f[1] = f[1 - 1] \o s[1]
      BY <2>0, <3>1
    <3>. QED
      BY <3>1, <3>2, <2>0, <1>1
  <2>1. Is(g)
    <3> DEFINE h == [i \in 1 .. N |-> IF i = 1 THEN s[i] ELSE g[i - 1] \o s[i]]
    <3>1. ASSUME NEW i \in 1 .. N PROVE g[i] = h[i]
      <4>1. CASE i = 1
        <5>1. f[1] = <<>> \o s[1] /\ s[1] \in Seq(T)
          BY <2>9, <1>5
        <5>. QED
          BY <4>1, <5>1
      <4>2. CASE i # 1
        <5>1. i - 1 \in 1 .. N
          BY <4>2
        <5>. QED
          BY <5>1, <4>2, <2>0
      <4>. QED
        BY <4>1, <4>2
    <3>2. g = h
      BY <3>1
    <3>. QED
      BY <3>2
  <2> DEFINE flatten == CHOOSE h : Is(h)
  <2>2. Is(flatten)
    <3> HIDE DEF Is, g
    <3>. QED
      BY <2>1
  <2>3. FlattenSeq(s) = flatten[N]
    BY <1>5 DEF FlattenSeq
  <2>4. \A i \in 1 .. N : flatten[i] = IF i = 1 THEN s[i] ELSE flatten[i - 1] \o s[i]
    <3> HIDE DEF flatten
    <3>. QED
      BY <2>2
  <2> HIDE DEF flatten, Is, g
  <2> DEFINE Same == {i \in 0 .. N : i # 0 => flatten[i] = f[i]}
  <2>5. 0 \in Same
    BY <1>1
  <2>6. ASSUME NEW i \in 1 .. N, i - 1 \in Same PROVE i \in Same
    <3>1. CASE i = 1
      BY <2>4, <2>9, <3>1
    <3>2. CASE i # 1
      <4>1. flatten[i - 1] = f[i - 1] /\ i - 1 \in 1 .. N
        BY <2>6, <3>2
      <4>2. f[i] = f[i - 1] \o s[i]
        BY <2>0
      <4>3. flatten[i] = flatten[i - 1] \o s[i]
        BY <2>4, <3>2
      <4>4. flatten[i] = f[i]
        BY <4>1, <4>2, <4>3
      <4>. QED
        BY <4>4
    <3>. QED
      BY <3>1, <3>2
  <2>7. 0 .. N \subseteq Same
    <3> HIDE DEF Same, N
    <3>. QED
      BY <2>5, <2>6, <1>1, UpToBound
  <2>8. flatten[N] = f[N]
    BY <2>7, <1>1, <1>5
  <2>. QED
    BY <1>3, <2>3, <2>8
<1>. QED
  BY <1>4, <1>5

\* The result is a sequence, and another file comes behind.
LEMMA FlatAppend ==
    ASSUME NEW T, NEW s \in Seq(Seq(T)), NEW e \in Seq(T)
    PROVE  /\ FlattenSeq(s) \in Seq(T)
           /\ FlattenSeq(Append(s, e)) = FlattenSeq(s) \o e
<1> DEFINE t == Append(s, e)
           N == Len(s)
<1>1. /\ t \in Seq(Seq(T)) /\ Len(t) = N + 1 /\ N \in Nat
      /\ \A i \in 1 .. N : t[i] = s[i]
      /\ t[N + 1] = e
  OBVIOUS
<1> HIDE DEF t
<1>2. PICK f : IsFlat(f, T, s) /\ FlattenSeq(s) = f[N]
  BY FlatSteps
<1>3. PICK g : IsFlat(g, T, t) /\ FlattenSeq(t) = g[Len(t)]
  BY <1>1, FlatSteps
<1>4. /\ f \in [0 .. N -> Seq(T)] /\ f[0] = <<>>
      /\ \A i \in 1 .. N : f[i] = f[i - 1] \o s[i]
  BY <1>2 DEF IsFlat
<1>5. /\ g \in [0 .. N + 1 -> Seq(T)] /\ FlattenSeq(t) = g[N + 1] /\ g[0] = <<>>
      /\ \A i \in 1 .. N + 1 : g[i] = g[i - 1] \o t[i]
  BY <1>1, <1>3 DEF IsFlat
<1> HIDE DEF N
<1> DEFINE Same == {i \in 0 .. N : f[i] = g[i]}
<1>6. 0 \in Same
  BY <1>1, <1>4, <1>5
<1>7. ASSUME NEW i \in 1 .. N, i - 1 \in Same PROVE i \in Same
  <2>1. f[i - 1] = g[i - 1] /\ i \in 1 .. N + 1
    BY <1>1, <1>7
  <2>2. f[i] = f[i - 1] \o s[i] /\ g[i] = g[i - 1] \o t[i] /\ t[i] = s[i]
    BY <1>1, <1>4, <1>5, <2>1
  <2>3. f[i] = g[i]
    BY <2>1, <2>2
  <2>. QED
    BY <2>3
<1>8. 0 .. N \subseteq Same
  <2> HIDE DEF Same
  <2>. QED
    BY <1>1, <1>6, <1>7, UpToBound
<1>9. f[N] = g[N] /\ f[N] \in Seq(T)
  BY <1>1, <1>4, <1>8
<1>10. g[N + 1] = g[N] \o e
  <2>1. N + 1 \in 1 .. N + 1 /\ (N + 1) - 1 = N
    BY <1>1
  <2>. QED
    BY <1>1, <1>5, <2>1
<1>. QED
  BY <1>2, <1>5, <1>9, <1>10 DEF t

\* Putting sequences of bytes behind each other.
LEMMA BehindEachOther ==
    ASSUME NEW a \in Seq(FileBytes), NEW b \in Seq(FileBytes)
    PROVE  /\ a \o b \in Seq(FileBytes) /\ Len(a \o b) = Len(a) + Len(b)
           /\ \A i \in 1 .. Len(a) : (a \o b)[i] = a[i]
           /\ \A i \in 1 .. Len(b) : (a \o b)[Len(a) + i] = b[i]
           /\ \A i \in 1 .. Len(a \o b) :
                 i \in 1 .. Len(a) \/ \E k \in 1 .. Len(b) : i = Len(a) + k
<1>1. /\ a \o b \in Seq(FileBytes) /\ Len(a \o b) = Len(a) + Len(b)
      /\ \A i \in 1 .. Len(a) : (a \o b)[i] = a[i]
      /\ \A i \in 1 .. Len(b) : (a \o b)[Len(a) + i] = b[i]
  OBVIOUS
<1>2. ASSUME NEW i \in 1 .. Len(a) + Len(b), i \notin 1 .. Len(a)
      PROVE  \E k \in 1 .. Len(b) : i = Len(a) + k
  <2>1. i - Len(a) \in 1 .. Len(b) /\ i = Len(a) + (i - Len(a))
    BY <1>2
  <2>. QED
    BY <2>1
<1>. QED
  BY <1>1, <1>2

\* Nothing more, and more in two parts.
LEMMA InTwoParts ==
    /\ \A a \in Seq(FileBytes) : a \o <<>> = a /\ <<>> \o a = a
    /\ \A a, b, c \in Seq(FileBytes) : (a \o b) \o c = a \o (b \o c)
<1>1. \A a \in Seq(FileBytes) : a \o <<>> = a /\ <<>> \o a = a
  OBVIOUS
<1>2. ASSUME NEW a \in Seq(FileBytes), NEW b \in Seq(FileBytes), NEW c \in Seq(FileBytes)
      PROVE  (a \o b) \o c = a \o (b \o c)
  <2> DEFINE u == (a \o b) \o c
             v == a \o (b \o c)
  <2>1. a \o b \in Seq(FileBytes) /\ b \o c \in Seq(FileBytes)
    OBVIOUS
  <2>2. u \in Seq(FileBytes) /\ v \in Seq(FileBytes) /\ Len(u) = Len(v)
    BY <2>1
  <2>3. \A i \in 1 .. Len(u) : u[i] = v[i]
    BY <2>1
  <2>4. u = v
    <3> HIDE DEF u, v
    <3>. QED
      BY <2>2, <2>3, SeqEqual
  <2>. QED
    BY <2>4
<1>. QED
  BY <1>1, <1>2

\* The last file comes behind the others.
LEMMA FlatFront ==
    ASSUME NEW s \in Seq(Seq(FileBytes)), s # <<>>
    PROVE  /\ Front(s) \in Seq(Seq(FileBytes)) /\ FlattenSeq(Front(s)) \in Seq(FileBytes)
           /\ FlattenSeq(s) = FlattenSeq(Front(s)) \o s[Len(s)]
<1> DEFINE N == Len(s)
           l == s[N]
           front == Front(s)
<1>1. N \in Nat \ {0} /\ l \in Seq(FileBytes)
  OBVIOUS
<1>2. front \in Seq(Seq(FileBytes)) /\ Len(front) = N - 1 /\ \A i \in 1 .. N - 1 : front[i] = s[i]
  BY FrontProperties
<1> HIDE DEF front
<1>3. Append(front, l) = s
  <2> DEFINE u == Append(front, l)
  <2>1. u \in Seq(Seq(FileBytes)) /\ Len(u) = N /\ \A i \in 1 .. N : u[i] = s[i]
    BY <1>1, <1>2
  <2> HIDE DEF u
  <2>2. u = s
    BY <2>1, SeqEqual
  <2>. QED
    BY <2>2 DEF u
<1>4. FlattenSeq(front) \in Seq(FileBytes) /\ FlattenSeq(Append(front, l)) = FlattenSeq(front) \o l
  BY <1>1, <1>2, FlatAppend
<1>. QED
  BY <1>2, <1>3, <1>4 DEF front

(* The steps, by what they do to the bytes *)

\* The constants are natural numbers, and so on.
LEMMA WriterConstants ==
    /\ Word \in Nat \ {0} /\ kAlignment \in Nat \ {0} /\ kAlignment % Word = 0
    /\ kBufferSize \in Nat \ {0} /\ kBufferSize % kAlignment = 0 /\ kBufferSize % Word = 0
    /\ kPartitionMaxSize \in Nat
    /\ TensorNames \in Seq(Names) /\ \A i \in 1 .. Len(TensorNames) : TensorNames[i] \in Names
    /\ \A i, j \in 1 .. Len(TensorNames) : TensorNames[i] = TensorNames[j] => i = j
    /\ <<>> \in Seq(FileBytes) /\ Gap \notin Pointers \X Nat
<1>1. /\ Word \in Nat \ {0} /\ kAlignment \in Nat \ {0} /\ kAlignment % Word = 0
      /\ kBufferSize \in Nat \ {0} /\ kBufferSize % kAlignment = 0
      /\ kPartitionMaxSize \in Nat
  BY WordAssumption, AlignmentAssumption, BufferAssumption, PartitionAssumption
<1>2. kBufferSize % Word = 0
  <2>1. PICK w \in Nat \ {0}, k \in Nat \ {0}, b \in Int :
          w = Word /\ k = kAlignment /\ b = kBufferSize
    BY <1>1
  <2>2. k % w = 0 /\ b % k = 0
    BY <1>1, <2>1
  <2>3. b % w = 0
    BY <2>2, DividesAll
  <2>. QED
    BY <2>1, <2>3
<1>3. /\ TensorNames \in Seq(Names)
      /\ \A i, j \in DOMAIN TensorNames : TensorNames[i] = TensorNames[j] => i = j
  BY NamesAssumption DEF Names, IsInjective
<1>. QED
  BY <1>1, <1>2, <1>3, GapAssumption

\* The storages of a state dict.
LEMMA StorageTypes ==
    ASSUME data \in StateDicts
    PROVE  /\ \A n \in Names : data[n].ptr \in Pointers /\ data[n].size \in Nat
           /\ \A a, b \in Names : data[a].ptr = data[b].ptr => data[a] = data[b]
<1>1. /\ data \in [Names -> [ptr : Pointers, size : Sizes]]
      /\ \A a, b \in Names : data[a].ptr = data[b].ptr => data[a] = data[b]
  BY DEF StateDicts
<1>. QED
  BY <1>1, StorageAssumption

\* The tensor that is next.
LEMMA CurrentType ==
    ASSUME data \in StateDicts, count \in 0 .. Len(TensorNames), More
    PROVE  /\ count + 1 \in 1 .. Len(TensorNames) /\ TensorNames[count + 1] \in Names
           /\ Current.ptr \in Pointers /\ Current.size \in Nat
<1>1. count + 1 \in 1 .. Len(TensorNames)
  BY WriterConstants DEF More
<1>2. TensorNames[count + 1] \in Names
  BY <1>1, WriterConstants
<1>. QED
  BY <1>1, <1>2, StorageTypes DEF Current

\* The bytes of padding, and of a record.
LEMMA GapsType ==
    ASSUME NEW n \in Nat
    PROVE  /\ Gaps(n) \in Seq(FileBytes) /\ Len(Gaps(n)) = n
           /\ \A i \in 1 .. n : Gaps(n)[i] = Gap
BY DEF Gaps, FileBytes
\* Those from lo on.
LEMMA BytesType ==
    ASSUME Current.ptr \in Pointers, NEW lo \in Nat, NEW n \in Nat
    PROVE  /\ Bytes(lo, lo + n) \in Seq(FileBytes) /\ Len(Bytes(lo, lo + n)) = n
           /\ \A i \in 1 .. n : Bytes(lo, lo + n)[i] = <<Current.ptr, lo + i>>
<1>1. (lo + n) - lo = n
  OBVIOUS
<1>2. \A i \in 1 .. n : <<Current.ptr, lo + i>> \in FileBytes
  BY DEF FileBytes
<1>3. Bytes(lo, lo + n) = [i \in 1 .. n |-> <<Current.ptr, lo + i>>]
  BY <1>1 DEF Bytes
<1>4. PICK f : f = Bytes(lo, lo + n)
  OBVIOUS
<1>5. f \in [1 .. n -> FileBytes] /\ \A i \in 1 .. n : f[i] = <<Current.ptr, lo + i>>
  BY <1>2, <1>3, <1>4
<1>6. f \in Seq(FileBytes) /\ Len(f) = n
  BY <1>5
<1>. QED
  BY <1>4, <1>5, <1>6

\* A write at the end of a file.
LEMMA WriteAtEnd ==
    ASSUME NEW file \in Seq(FileBytes), NEW b \in Seq(FileBytes)
    PROVE  Pwrite(file, Len(file), b) = file \o b
<1> DEFINE w == Pwrite(file, Len(file), b)
           n == Len(file) + Len(b)
<1>1. (IF b = <<>> \/ Len(file) + Len(b) < Len(file) THEN Len(file) ELSE Len(file) + Len(b)) = n
  OBVIOUS
<1>2. w = [i \in 1 .. n |-> IF i \in Len(file) + 1 .. n THEN b[i - Len(file)]
                            ELSE IF i <= Len(file) THEN file[i] ELSE Gap]
  BY <1>1 DEF Pwrite
<1> HIDE DEF w
<1>3. \A i \in 1 .. n : w[i] = (file \o b)[i]
  <2> SUFFICES ASSUME NEW i \in 1 .. n PROVE w[i] = (file \o b)[i]
    OBVIOUS
  <2>1. CASE i \in Len(file) + 1 .. n
    BY <1>2, <2>1
  <2>2. CASE i \notin Len(file) + 1 .. n
    <3>1. i \in 1 .. Len(file)
      BY <2>2
    <3>. QED
      BY <1>2, <2>2, <3>1
  <2>. QED
    BY <2>1, <2>2
<1>4. file \o b \in Seq(FileBytes) /\ Len(file \o b) = n
  OBVIOUS
<1>5. w \in Seq(FileBytes) /\ Len(w) = n
  <2>1. \A i \in 1 .. n : w[i] \in FileBytes
    BY <1>3, <1>4
  <2>2. DOMAIN w = 1 .. n /\ w = [i \in 1 .. n |-> w[i]] /\ n \in Nat
    BY <1>2
  <2>3. w \in [1 .. n -> FileBytes]
    BY <2>1, <2>2
  <2>. QED
    BY <2>2, <2>3
<1>6. w = file \o b
  BY <1>3, <1>4, <1>5, SeqEqual
<1>. QED
  BY <1>6 DEF w

\* The bytes b come behind all that was written and taken.
Extends(b) ==
    /\ files' \in Seq(Seq(FileBytes)) /\ buffer' \in Seq(FileBytes)
    /\ Len(files') = Len(files) /\ \A f \in 1 .. Len(files) - 1 : files'[f] = files[f]
    /\ Stream' = Stream \o b /\ Opened' = Opened \o b

\* A write of e at the end of the last file.
LEMMA PutRight ==
    ASSUME files \in Seq(Seq(FileBytes)), files # <<>>,
           Len(files[Len(files)]) = file_offset, NEW e \in Seq(FileBytes)
    PROVE  /\ Put(e) \in Seq(Seq(FileBytes)) /\ Len(Put(e)) = Len(files) /\ Put(e) # <<>>
           /\ Put(e)[Len(files)] = files[Len(files)] \o e
           /\ \A i \in 1 .. Len(files) - 1 : Put(e)[i] = files[i]
           /\ FlattenSeq(Put(e)) = FlattenSeq(files) \o e
<1> DEFINE N == Len(files)
           u == Put(e)
<1>1. N \in Nat \ {0} /\ files[N] \in Seq(FileBytes)
  OBVIOUS
<1>2. Pwrite(files[N], file_offset, e) = files[N] \o e
  BY <1>1, WriteAtEnd
<1>3. u = [files EXCEPT ![N] = @ \o e]
  BY <1>2, <1>1 DEF Put
<1> HIDE DEF u
<1> DEFINE y == files[N] \o e
<1>4. y \in Seq(FileBytes)
  BY <1>1, BehindEachOther
<1> HIDE DEF y
<1>5. u = [files EXCEPT ![N] = y]
  BY <1>3 DEF y
<1>6. /\ u \in Seq(Seq(FileBytes)) /\ Len(u) = N
      /\ u[N] = y /\ \A i \in 1 .. N - 1 : u[i] = files[i]
  BY <1>1, <1>4, <1>5
<1>7. Front(u) = Front(files)
  BY <1>1, <1>6 DEF Front
<1>8. /\ FlattenSeq(files) = FlattenSeq(Front(files)) \o files[N]
      /\ FlattenSeq(Front(files)) \in Seq(FileBytes)
  BY FlatFront
<1>9. u # <<>>
  BY <1>1, <1>6
<1>10. FlattenSeq(u) = FlattenSeq(Front(files)) \o y
  <2>1. FlattenSeq(u) = FlattenSeq(Front(u)) \o u[Len(u)]
    BY <1>6, <1>9, FlatFront
  <2>. QED
    BY <2>1, <1>6, <1>7
<1>11. (FlattenSeq(Front(files)) \o files[N]) \o e = FlattenSeq(Front(files)) \o (files[N] \o e)
  BY <1>1, <1>8, InTwoParts
<1>12. FlattenSeq(u) = FlattenSeq(files) \o e
  BY <1>8, <1>10, <1>11 DEF y
<1>13. u[N] = files[N] \o e
  BY <1>6 DEF y
<1>. QED
  BY <1>6, <1>9, <1>12, <1>13 DEF u

\* The buffer and b are written to the file.
LEMMA PutExtends ==
    ASSUME files \in Seq(Seq(FileBytes)), files # <<>>, buffer \in Seq(FileBytes),
           Len(files[Len(files)]) = file_offset, NEW b \in Seq(FileBytes),
           files' = Put(buffer \o b), buffer' = <<>>
    PROVE  /\ Extends(b) /\ files' # <<>>
           /\ Len(files'[Len(files')]) = file_offset + Len(buffer) + Len(b)
<1> DEFINE N == Len(files)
           e == buffer \o b
<1>1. N \in Nat \ {0} /\ files[N] \in Seq(FileBytes) /\ e \in Seq(FileBytes)
      /\ Len(e) = Len(buffer) + Len(b)
  OBVIOUS
<1> HIDE DEF e
<1>4. /\ files' \in Seq(Seq(FileBytes)) /\ Len(files') = N /\ files' # <<>>
      /\ files'[N] = files[N] \o e
      /\ \A i \in 1 .. N - 1 : files'[i] = files[i]
      /\ FlattenSeq(files') = FlattenSeq(files) \o e
  <2>1. files' = Put(e)
    BY DEF e
  <2>. QED
    BY <1>1, <2>1, PutRight, ZenonT(40)
<1>5. FlattenSeq(files) \in Seq(FileBytes)
  BY <1>1, FlatAppend
<1>7. Stream' = Stream \o b
  <2>1. Stream' = FlattenSeq(files') \o <<>>
    BY DEF Stream
  <2>2. FlattenSeq(files) \o e \in Seq(FileBytes)
    BY <1>1, <1>5
  <2>3. (FlattenSeq(files) \o e) \o <<>> = FlattenSeq(files) \o e
    BY <2>2, InTwoParts
  <2>4. (FlattenSeq(files) \o buffer) \o b = FlattenSeq(files) \o (buffer \o b)
    BY <1>5, InTwoParts
  <2>. QED
    BY <2>1, <2>3, <2>4, <1>4 DEF Stream, e
<1>8. Opened' = Opened \o b
  <2>1. Opened' = files'[N] \o <<>> /\ Opened = files[N] \o buffer
    BY <1>1, <1>4 DEF Opened
  <2>2. files[N] \o e \in Seq(FileBytes)
    BY <1>1
  <2>3. (files[N] \o e) \o <<>> = files[N] \o e
    BY <2>2, InTwoParts
  <2>4. (files[N] \o buffer) \o b = files[N] \o (buffer \o b)
    BY <1>1, InTwoParts, ZenonT(40)
  <2>. QED
    BY <2>1, <2>3, <2>4, <1>4 DEF e
<1>9. Len(files'[N]) = file_offset + Len(buffer) + Len(b)
  <2>1. Len(files[N] \o e) = Len(files[N]) + Len(e)
    BY <1>1, BehindEachOther
  <2>. QED
    BY <2>1, <1>1, <1>4
<1>. QED
  BY <1>4, <1>7, <1>8, <1>9, WriterConstants DEF Extends

\* The bytes stay in the buffer.
LEMMA BufferExtends ==
    ASSUME files \in Seq(Seq(FileBytes)), files # <<>>, buffer \in Seq(FileBytes),
           NEW b \in Seq(FileBytes), files' = files, buffer' = buffer \o b
    PROVE  Extends(b)
<1> DEFINE N == Len(files)
<1>1. N \in Nat \ {0} /\ files[N] \in Seq(FileBytes) /\ buffer \o b \in Seq(FileBytes)
  OBVIOUS
<1>2. FlattenSeq(files) \in Seq(FileBytes)
  BY <1>1, FlatAppend
<1>3. Stream' = Stream \o b
  BY <1>2, InTwoParts DEF Stream
<1>4. Opened' = Opened \o b
  <2>1. Opened = files[N] \o buffer /\ Opened' = files[N] \o (buffer \o b)
    BY DEF Opened
  <2>2. (files[N] \o buffer) \o b = files[N] \o (buffer \o b)
    BY <1>1, InTwoParts, ZenonT(40)
  <2>. QED
    BY <2>1, <2>2
<1>. QED
  BY <1>1, <1>3, <1>4 DEF Extends

\* What was written and what is open are bytes.
LEMMA StreamTypes ==
    ASSUME WTypes
    PROVE  /\ Stream \in Seq(FileBytes) /\ Opened \in Seq(FileBytes) /\ Begun \in Nat
           /\ FlattenSeq(files) \in Seq(FileBytes)
           /\ files # <<>> => files[Len(files)] \in Seq(FileBytes) /\ Len(files) \in Nat \ {0}
<1>1. files \in Seq(Seq(FileBytes)) /\ buffer \in Seq(FileBytes) /\ written \in Nat \cup {-1}
  BY DEF WTypes
<1>2. FlattenSeq(files) \in Seq(FileBytes)
  BY <1>1, FlatAppend
<1>3. Stream \in Seq(FileBytes)
  BY <1>1, <1>2, BehindEachOther DEF Stream
<1>4. files # <<>> => files[Len(files)] \in Seq(FileBytes) /\ Len(files) \in Nat \ {0}
  BY <1>1
<1>5. Opened \in Seq(FileBytes)
  BY <1>1, <1>4, BehindEachOther, WriterConstants DEF Opened
<1>. QED
  BY <1>1, <1>2, <1>3, <1>4, <1>5 DEF Begun

\* The counters agree with the length of the open partition.
LEMMA OpenedLength ==
    ASSUME WTypes, OffsetsInv, ~saved, files # <<>>
    PROVE  Len(Opened) = partition_size + Begun
<1>1. files[Len(files)] \in Seq(FileBytes) /\ buffer \in Seq(FileBytes)
  BY StreamTypes DEF WTypes
<1>2. Opened = files[Len(files)] \o buffer
  BY DEF Opened
<1>3. Len(Opened) = Len(files[Len(files)]) + Len(buffer)
  BY <1>1, <1>2, BehindEachOther
<1>. QED
  BY <1>3 DEF OffsetsInv

\* Bytes of one storage behind bytes of the same.
LEMMA OnlyOfBoth ==
    ASSUME NEW p, NEW a \in Seq(FileBytes), NEW b \in Seq(FileBytes)
    PROVE  /\ OnlyOf(p, a \o b) => OnlyOf(p, a)
           /\ OnlyOf(p, a) /\ OnlyOf(p, b) => OnlyOf(p, a \o b)
<1>1. /\ DOMAIN a = 1 .. Len(a) /\ DOMAIN b = 1 .. Len(b) /\ DOMAIN (a \o b) = 1 .. Len(a \o b)
      /\ Len(a) \in Nat /\ Len(b) \in Nat /\ Len(a \o b) = Len(a) + Len(b)
  BY BehindEachOther
<1>2. ASSUME OnlyOf(p, a \o b) PROVE OnlyOf(p, a)
  <2> SUFFICES ASSUME NEW i \in 1 .. Len(a) PROVE a[i] = Gap \/ a[i][1] = p
    BY <1>1 DEF OnlyOf
  <2>1. i \in 1 .. Len(a \o b) /\ (a \o b)[i] = a[i]
    BY <1>1, BehindEachOther
  <2>. QED
    BY <1>1, <1>2, <2>1 DEF OnlyOf
<1>3. ASSUME OnlyOf(p, a), OnlyOf(p, b) PROVE OnlyOf(p, a \o b)
  <2> SUFFICES ASSUME NEW i \in 1 .. Len(a \o b) PROVE (a \o b)[i] = Gap \/ (a \o b)[i][1] = p
    BY <1>1 DEF OnlyOf
  <2>1. CASE i \in 1 .. Len(a)
    <3>1. (a \o b)[i] = a[i]
      BY <2>1, BehindEachOther
    <3>. QED
      BY <3>1, <2>1, <1>1, <1>3 DEF OnlyOf
  <2>2. CASE i \notin 1 .. Len(a)
    <3>1. PICK k \in 1 .. Len(b) : i = Len(a) + k
      BY <2>2, BehindEachOther
    <3>2. (a \o b)[i] = b[k]
      BY <3>1, BehindEachOther
    <3>. QED
      BY <3>1, <3>2, <1>1, <1>3 DEF OnlyOf
  <2>. QED
    BY <2>1, <2>2
<1>. QED
  BY <1>2, <1>3

\* A part of what may be in a partition may be in one.
LEMMA BoundedPart ==
    ASSUME NEW a \in Seq(FileBytes), NEW b \in Seq(FileBytes), Bounded(a \o b)
    PROVE  Bounded(a)
<1>1. Len(a) \in Nat /\ Len(b) \in Nat /\ Len(a \o b) = Len(a) + Len(b)
  BY BehindEachOther
<1>2. CASE Len(a \o b) < kPartitionMaxSize + Word
  BY <1>1, <1>2, WriterConstants DEF Bounded
<1>3. CASE \E p \in Pointers : OnlyOf(p, a \o b)
  BY <1>3, OnlyOfBoth DEF Bounded
<1>. QED
  BY <1>2, <1>3 DEF Bounded

\* What is open while a record is written may be in one partition.
LEMMA OpenedBounded ==
    ASSUME data \in StateDicts, WTypes, OffsetsInv, PartitionsInv
    PROVE  Bounded(Opened)
<1>1. CASE written = -1
  BY <1>1 DEF PartitionsInv
<1>2. CASE written # -1
  <2>1. /\ More /\ written <= Current.size /\ written \in Nat /\ ~saved /\ files # <<>>
        /\ partition_size \in Nat /\ count \in 0 .. Len(TensorNames)
    BY <1>2 DEF WTypes, OffsetsInv
  <2>2. Current.size \in Nat /\ Current.ptr \in Pointers
    BY <2>1, CurrentType
  <2>3. CASE partition_size + Current.size <= kPartitionMaxSize
    <3>1. Len(Opened) = partition_size + written
      BY <1>2, <2>1, OpenedLength DEF Begun
    <3>. QED
      BY <2>1, <2>2, <2>3, <3>1, WriterConstants DEF Bounded
  <2>4. CASE OnlyOf(Current.ptr, Opened)
    BY <2>2, <2>4 DEF Bounded
  <2>. QED
    BY <1>2, <2>3, <2>4 DEF PartitionsInv
<1>. QED
  BY <1>1, <1>2

\* A byte of the current storage is in the current record.
LEMMA CurrentBytes ==
    ASSUME WTypes, OffsetsInv, RecordsInv, written # -1,
           NEW i \in DOMAIN Stream, Stream[i] # Gap, Stream[i][1] = Current.ptr
    PROVE  \E k \in 1 .. written : i = offset + k /\ Stream[i] = <<Current.ptr, k>>
<1>1. /\ Stream \in Seq(FileBytes) /\ Len(Stream) = offset + written
      /\ offset \in Nat /\ written \in Nat /\ Begun = written
  BY StreamTypes DEF WTypes, OffsetsInv, Begun
<1>2. i \in 1 .. offset + written
  BY <1>1
<1>3. CASE i \in 1 .. offset
  <2>1. PICK j \in 1 .. count : Stream[i][1] = data[TensorNames[j]].ptr
    BY <1>3 DEF RecordsInv
  <2>2. TensorNames[j] \in Shared
    BY <2>1 DEF Shared
  <2>. QED
    BY <2>2 DEF WTypes
<1>4. CASE i \notin 1 .. offset
  <2>1. i - offset \in 1 .. written /\ i = offset + (i - offset)
    BY <1>1, <1>2, <1>4
  <2>2. PICK k \in 1 .. written : i = offset + k
    BY <2>1
  <2>. QED
    BY <1>1, <2>2 DEF RecordsInv
<1>. QED
  BY <1>3, <1>4

\* A record that grows by n bytes keeps what is said of the stream.
LEMMA TakeRight ==
    ASSUME data \in StateDicts, WTypes, OffsetsInv, RecordsInv, PartitionsInv,
           written # -1, NEW n \in Nat, written + n <= Current.size,
           written' = written + n, Extends(Bytes(written, written + n)),
           UNCHANGED <<data, partition_size, offset, count, tensor_offsets, saved>>,
           file_offset' \in Nat
    PROVE  WTypes' /\ RecordsInv' /\ PartitionsInv' /\ Len(Stream') = offset' + Begun'
<1> DEFINE b == Bytes(written, written + n)
<1>1. /\ More /\ written \in Nat /\ count \in 0 .. Len(TensorNames) /\ offset \in Nat
      /\ Begun = written /\ ~saved /\ partition_size \in Nat
  BY DEF WTypes, Begun
<1>2. /\ Current.ptr \in Pointers /\ Current.size \in Nat
      /\ Current' = Current /\ Shared' = Shared /\ More' = More
  BY <1>1, CurrentType DEF Current, Shared, More
<1>3. /\ b \in Seq(FileBytes) /\ Len(b) = n
      /\ \A k \in 1 .. n : b[k] = <<Current.ptr, written + k>>
  BY <1>1, <1>2, BytesType
<1> HIDE DEF b
<1>4. /\ Stream' = Stream \o b /\ Opened' = Opened \o b
      /\ Stream \in Seq(FileBytes) /\ Opened \in Seq(FileBytes)
      /\ Len(files') = Len(files) /\ \A f \in 1 .. Len(files) - 1 : files'[f] = files[f]
      /\ Len(Stream) = offset + written
  BY <1>1, StreamTypes DEF Extends, b, OffsetsInv
<1>a. /\ Stream \o b \in Seq(FileBytes) /\ Len(Stream \o b) = offset + written + n
      /\ \A i \in 1 .. offset + written : (Stream \o b)[i] = Stream[i]
      /\ \A k \in 1 .. n : (Stream \o b)[offset + written + k] = b[k]
      /\ \A i \in 1 .. offset + written + n :
            i \in 1 .. offset + written \/ \E k \in 1 .. n : i = offset + written + k
  <2> DEFINE c == Stream \o b
  <2>1. /\ c \in Seq(FileBytes) /\ Len(c) = Len(Stream) + Len(b)
        /\ \A i \in 1 .. Len(Stream) : c[i] = Stream[i]
        /\ \A i \in 1 .. Len(b) : c[Len(Stream) + i] = b[i]
        /\ \A i \in 1 .. Len(c) :
              i \in 1 .. Len(Stream) \/ \E k \in 1 .. Len(b) : i = Len(Stream) + k
    BY <1>3, <1>4, BehindEachOther
  <2> HIDE DEF c
  <2>2. Len(Stream) = offset + written /\ Len(b) = n /\ Len(c) = offset + written + n
    BY <1>3, <1>4, <2>1
  <2>3. /\ \A i \in 1 .. offset + written : c[i] = Stream[i]
        /\ \A k \in 1 .. n : c[offset + written + k] = b[k]
        /\ \A i \in 1 .. offset + written + n :
              i \in 1 .. offset + written \/ \E k \in 1 .. n : i = offset + written + k
    BY <2>1, <2>2
  <2>. QED
    BY <2>1, <2>2, <2>3 DEF c
<1>5. /\ Stream' \in Seq(FileBytes) /\ Len(Stream') = offset + written + n
      /\ \A i \in 1 .. offset + written : Stream'[i] = Stream[i]
      /\ \A k \in 1 .. n : Stream'[offset + written + k] = <<Current.ptr, written + k>>
      /\ \A i \in 1 .. offset + written + n :
            i \in 1 .. offset + written \/ \E k \in 1 .. n : i = offset + written + k
  BY <1>3, <1>4, <1>a
<1>6. Begun' = written + n /\ written' # -1
  BY <1>1 DEF Begun
<1>7. WTypes'
  <2>1. files' \in Seq(Seq(FileBytes)) /\ buffer' \in Seq(FileBytes)
    BY DEF Extends
  <2>2. written' \in Nat /\ written' # -1
    BY <1>1
  <2>. QED
    BY <1>1, <1>2, <2>1, <2>2 DEF WTypes
<1>8. RecordsInv'
  <2>1. ASSUME NEW i \in 1 .. count PROVE Recorded(i)'
    <3> DEFINE d == data[TensorNames[i]]
               at == tensor_offsets[i]
    <3>1. /\ at % Word = 0 /\ at + d.size <= offset
          /\ \A k \in 1 .. d.size : Stream[at + k] = <<d.ptr, k>>
      BY DEF RecordsInv, Recorded
    <3>2. at \in Nat /\ d.size \in Nat
      <4>1. i \in 1 .. Len(TensorNames)
        BY <1>1, WriterConstants
      <4>. QED
        BY <4>1, WriterConstants, StorageTypes DEF WTypes
    <3>3. \A k \in 1 .. d.size : Stream'[at + k] = <<d.ptr, k>>
      <4> SUFFICES ASSUME NEW k \in 1 .. d.size PROVE Stream'[at + k] = <<d.ptr, k>>
        OBVIOUS
      <4> HIDE DEF at, d
      <4>1. at + k \in 1 .. offset + written
        BY <3>1, <3>2, <1>1
      <4>. QED
        BY <4>1, <3>1, <1>5
    <3>. QED
      BY <3>1, <3>3 DEF Recorded
  <2>2. ASSUME NEW i \in 1 .. offset, Stream'[i] # Gap
        PROVE  \E j \in 1 .. count : Stream'[i][1] = data[TensorNames[j]].ptr
    <3>1. i \in 1 .. offset + written
      BY <1>1
    <3>2. Stream'[i] = Stream[i]
      BY <1>5, <3>1
    <3>. QED
      BY <2>2, <3>2 DEF RecordsInv
  <2>3. ASSUME NEW k \in 1 .. written + n PROVE Stream'[offset + k] = <<Current.ptr, k>>
    <3>1. CASE k \in 1 .. written
      <4>1. offset + k \in 1 .. offset + written
        BY <1>1, <3>1
      <4>2. Stream[offset + k] = <<Current.ptr, k>>
        BY <1>1, <3>1 DEF RecordsInv
      <4>. QED
        BY <4>1, <4>2, <1>5
    <3>2. CASE k \notin 1 .. written
      <4>1. PICK m \in 1 .. n : k = written + m
        <5>1. k - written \in 1 .. n /\ k = written + (k - written)
          BY <1>1, <3>2
        <5>. QED
          BY <5>1
      <4>2. offset + k = offset + written + m
        BY <1>1, <4>1
      <4>. QED
        BY <4>1, <4>2, <1>5
    <3>. QED
      BY <3>1, <3>2
  <2>4. ASSUME NEW i \in 1 .. offset + written + n, NEW j \in 1 .. offset + written + n,
               Stream'[i] = Stream'[j], Stream'[i] # Gap
        PROVE  i = j
    <3>0. ASSUME NEW x \in 1 .. offset + written, NEW k \in 1 .. n,
                 Stream'[x] = Stream'[offset + written + k]
          PROVE  FALSE
      <4>1. Stream[x] = <<Current.ptr, written + k>>
        BY <1>5, <3>0
      <4>2. x \in DOMAIN Stream /\ Stream[x] # Gap /\ Stream[x][1] = Current.ptr
        <5>1. <<Current.ptr, written + k>> \in Pointers \X Nat
          BY <1>1, <1>2
        <5>. QED
          BY <4>1, <5>1, <1>4, WriterConstants, SMTT(30)
      <4>3. PICK l \in 1 .. written : Stream[x] = <<Current.ptr, l>>
        BY <4>2, CurrentBytes
      <4>4. l = written + k
        BY <4>1, <4>3
      <4>. QED
        BY <4>4, <1>1
    <3>1. CASE i \in 1 .. offset + written /\ j \in 1 .. offset + written
      <4>1. DOMAIN Stream = 1 .. offset + written
        BY <1>4
      <4>2. Stream[i] = Stream[j] /\ Stream[i] # Gap
        BY <3>1, <2>4, <1>5
      <4>. QED
        BY <3>1, <4>1, <4>2 DEF RecordsInv
    <3>2. CASE i \in 1 .. offset + written /\ j \notin 1 .. offset + written
      BY <3>2, <2>4, <1>5, <3>0
    <3>3. CASE i \notin 1 .. offset + written /\ j \in 1 .. offset + written
      <4>1. PICK k \in 1 .. n : i = offset + written + k
        BY <3>3, <1>5
      <4>2. Stream'[j] = Stream'[offset + written + k]
        BY <4>1, <2>4
      <4>. QED
        BY <4>2, <3>3, <3>0
    <3>4. CASE i \notin 1 .. offset + written /\ j \notin 1 .. offset + written
      <4>1. PICK k \in 1 .. n : i = offset + written + k
        BY <3>4, <1>5
      <4>2. PICK l \in 1 .. n : j = offset + written + l
        BY <3>4, <1>5
      <4>3. <<Current.ptr, written + k>> = <<Current.ptr, written + l>>
        BY <4>1, <4>2, <2>4, <1>5
      <4>4. written + k = written + l
        BY <4>3
      <4>. QED
        BY <4>1, <4>2, <4>4, <1>1
    <3>. QED
      BY <3>1, <3>2, <3>3, <3>4
  <2>5. DOMAIN (Stream') = 1 .. offset + written + n
    BY <1>5
  <2>. QED
    BY <1>2, <1>6, <2>1, <2>2, <2>3, <2>4, <2>5 DEF RecordsInv
<1>9. PartitionsInv'
  <2>1. OnlyOf(Current.ptr, b)
    <3>1. DOMAIN b = 1 .. n
      BY <1>3
    <3>. QED
      BY <3>1, <1>3 DEF OnlyOf
  <2>2. OnlyOf(Current.ptr, Opened) => OnlyOf(Current.ptr, Opened')
    BY <2>1, <1>3, <1>4, OnlyOfBoth
  <2>3. \/ partition_size + Current.size <= kPartitionMaxSize
        \/ partition_size = 0 /\ OnlyOf(Current.ptr, Opened)
    BY DEF PartitionsInv
  <2>4. \A f \in 1 .. Len(files) - 1 : Bounded(files[f])
    BY DEF PartitionsInv
  <2>5. \A f \in 1 .. Len(files') - 1 : Bounded(files'[f])
    BY <1>4, <2>4
  <2>7. \/ partition_size' + Current'.size <= kPartitionMaxSize
        \/ partition_size' = 0 /\ OnlyOf(Current'.ptr, Opened')
    BY <1>2, <2>2, <2>3
  <2>. QED
    BY <1>6, <2>5, <2>7 DEF PartitionsInv, Bounded, OnlyOf
<1>10. Len(Stream') = offset' + Begun'
  <2>1. offset' = offset
    OBVIOUS
  <2>2. Len(Stream') = offset + written + n /\ Begun' = written + n
    BY <1>5, <1>6
  <2>3. offset + written + n = offset + (written + n)
    BY <1>1
  <2>. QED
    BY <2>1, <2>2, <2>3, Zenon
<1>. QED
  BY <1>7, <1>8, <1>9, <1>10
\* The bytes behind a record that is complete do not fill the buffer over
\* its end, and the next record starts at a multiple of Word.
LEMMA PaddingFits ==
    ASSUME data \in StateDicts, WTypes, OffsetsInv, written # -1, Left = 0
    PROVE  /\ Padding \in 0 .. Word - 1 /\ Len(buffer) + Padding <= kBufferSize
           /\ (Current.size + Padding) % Word = 0 /\ written = Current.size
<1>1. /\ More /\ written \in Nat /\ count \in 0 .. Len(TensorNames) /\ Begun = written
      /\ ~saved /\ partition_size \in Nat /\ file_offset \in Nat /\ Len(buffer) \in Nat
  BY DEF WTypes, Begun
<1>2. Current.size \in Nat
  BY <1>1, CurrentType
<1>3. written = Current.size
  BY <1>1, <1>2 DEF Left
<1>4. PICK w \in Nat \ {0}, s \in Nat, p \in Int : w = Word /\ s = Current.size /\ p = Padding
  <2>1. Word \in Nat \ {0}
    BY WriterConstants
  <2>2. PICK w \in Nat \ {0}, s \in Nat : w = Word /\ s = Current.size
    BY <1>2, <2>1
  <2>3. Padding = IF s % w = 0 THEN 0 ELSE w - (s % w)
    BY <2>2 DEF Padding
  <2>4. Padding \in Int
    BY <2>3, PadDivides
  <2>. QED
    BY <2>2, <2>4
<1>5. p \in 0 .. w - 1 /\ (s + p) % w = 0
  <2>1. p = IF s % w = 0 THEN 0 ELSE w - (s % w)
    BY <1>4 DEF Padding
  <2>. QED
    BY <2>1, PadDivides
<1>6. PICK f \in Int, l \in Int, q \in Int, k \in Int, c \in Nat \ {0} :
        /\ f = file_offset /\ l = Len(buffer) /\ q = partition_size
        /\ k = kBufferSize /\ c = kAlignment
  BY <1>1, WriterConstants
<1>7. /\ l < k /\ f + l = q + s /\ f % c = 0 /\ c % w = 0 /\ q % w = 0 /\ k % w = 0
  BY <1>1, <1>3, <1>4, <1>6, WriterConstants DEF OffsetsInv
<1>8. f % w = 0
  <2>1. f % c = 0 /\ c % w = 0
    BY <1>7
  <2>. QED
    BY <2>1, DividesAll
<1>9. (l + p) % w = 0
  <2>1. PICK e \in Int : e = s + p
    BY <1>5
  <2>a. e % w = 0 /\ q % w = 0
    BY <1>5, <1>7, <2>1
  <2>2. (q + e) % w = 0
    BY <2>a, SumDivides
  <2>3. PICK g \in Int : g = q + e
    BY <2>1
  <2>b. g % w = 0
    BY <2>2, <2>3
  <2>4. (g - f) % w = 0
    BY <1>8, <2>b, SumDivides
  <2>5. g - f = l + p
    BY <1>5, <1>7, <2>1, <2>3
  <2>. QED
    BY <2>4, <2>5
<1>10. l + p <= k
  <2>1. SUFFICES ASSUME k < l + p PROVE FALSE
    BY <1>5
  <2>2. PICK g \in Int : g = l + p
    BY <1>5
  <2>3. k + w <= g
    BY <1>7, <1>9, <2>1, <2>2, NextMultiple
  <2>. QED
    BY <1>5, <1>7, <2>2, <2>3
<1>. QED
  BY <1>3, <1>4, <1>5, <1>6, <1>10

\* A record that stays where it is when bytes come behind it.
LEMMA RecordStays ==
    ASSUME data \in StateDicts, WTypes, data' = data,
           NEW i \in 1 .. count, Recorded(i), tensor_offsets'[i] = tensor_offsets[i],
           offset <= offset', offset' \in Nat,
           \A k \in 1 .. offset : Stream'[k] = Stream[k]
    PROVE  Recorded(i)'
<1> DEFINE d == data[TensorNames[i]]
           at == tensor_offsets[i]
<1>1. count \in 0 .. Len(TensorNames) /\ offset \in Nat
  BY DEF WTypes
<1>2. at \in Nat /\ d.size \in Nat
  <2>1. i \in 1 .. Len(TensorNames)
    BY <1>1, WriterConstants
  <2>. QED
    BY <2>1, WriterConstants, StorageTypes DEF WTypes
<1>3. /\ at % Word = 0 /\ at + d.size <= offset
      /\ \A k \in 1 .. d.size : Stream[at + k] = <<d.ptr, k>>
  BY DEF Recorded
<1>4. \A k \in 1 .. d.size : Stream'[at + k] = <<d.ptr, k>>
  <2> SUFFICES ASSUME NEW k \in 1 .. d.size PROVE Stream'[at + k] = <<d.ptr, k>>
    OBVIOUS
  <2> HIDE DEF at, d
  <2>1. at + k \in 1 .. offset
    BY <1>1, <1>2, <1>3
  <2>. QED
    BY <1>3, <2>1
<1>5. at + d.size <= offset'
  <2> HIDE DEF at, d
  <2>. QED
    BY <1>1, <1>2, <1>3
<1>. QED
  BY <1>3, <1>4, <1>5 DEF Recorded

\* Bytes nobody chose, behind the stream.
LEMMA GapsBehind ==
    ASSUME WTypes, NEW n \in Nat, Extends(Gaps(n))
    PROVE  /\ Stream' \in Seq(FileBytes) /\ Len(Stream') = Len(Stream) + n
           /\ \A i \in 1 .. Len(Stream) : Stream'[i] = Stream[i]
           /\ \A i \in 1 .. Len(Stream) + n : i \in 1 .. Len(Stream) \/ Stream'[i] = Gap
           /\ Len(Opened') = Len(Opened) + n
           /\ \A p : OnlyOf(p, Opened) => OnlyOf(p, Opened')
<1> DEFINE b == Gaps(n)
           c == Stream \o b
<1>1. /\ b \in Seq(FileBytes) /\ Len(b) = n /\ \A i \in 1 .. n : b[i] = Gap
      /\ Stream' = Stream \o b /\ Opened' = Opened \o b
      /\ Stream \in Seq(FileBytes) /\ Opened \in Seq(FileBytes)
  BY GapsType, StreamTypes DEF Extends
<1> HIDE DEF b
<1>2. /\ c \in Seq(FileBytes) /\ Len(c) = Len(Stream) + Len(b)
      /\ \A i \in 1 .. Len(Stream) : c[i] = Stream[i]
      /\ \A i \in 1 .. Len(b) : c[Len(Stream) + i] = b[i]
      /\ \A i \in 1 .. Len(c) :
            i \in 1 .. Len(Stream) \/ \E k \in 1 .. Len(b) : i = Len(Stream) + k
  BY <1>1, BehindEachOther
<1>3. Stream' = c
  BY <1>1
<1> HIDE DEF c
<1>4. ASSUME NEW i \in 1 .. Len(Stream) + n, i \notin 1 .. Len(Stream) PROVE Stream'[i] = Gap
  <2>1. PICK k \in 1 .. n : i = Len(Stream) + k
    BY <1>1, <1>2, <1>4
  <2>. QED
    BY <1>1, <1>2, <1>3, <2>1
<1>5. ASSUME NEW p, OnlyOf(p, Opened) PROVE OnlyOf(p, Opened')
  <2>1. OnlyOf(p, b)
    BY <1>1 DEF OnlyOf
  <2>. QED
    BY <1>1, <1>5, <2>1, OnlyOfBoth
<1>6. Len(Opened') = Len(Opened) + n
  BY <1>1, BehindEachOther
<1>. QED
  BY <1>1, <1>2, <1>3, <1>4, <1>5, <1>6

\* The record is complete: n is its size, and the padding behind it.
LEMMA EndRight ==
    ASSUME data \in StateDicts, WTypes, OffsetsInv, RecordsInv, PartitionsInv, EndRecord(TRUE)
    PROVE  WTypes' /\ OffsetsInv' /\ RecordsInv' /\ PartitionsInv'
<1> DEFINE N == Len(files)
           full == Padding > 0 /\ Len(buffer) + Padding = kBufferSize
           size == Current.size
           end  == size + Padding
           b    == Gaps(Padding)
<1>1. /\ written # -1 /\ written \in Nat /\ Left = 0 /\ More /\ ~saved /\ files # <<>>
      /\ files \in Seq(Seq(FileBytes)) /\ buffer \in Seq(FileBytes) /\ Begun = written
      /\ count \in 0 .. Len(TensorNames) /\ offset \in Nat /\ partition_size \in Nat
      /\ file_offset \in Nat /\ Len(buffer) \in Nat
      /\ tensor_offsets \in Seq(Nat) /\ Len(tensor_offsets) = count
  BY DEF EndRecord, WTypes, OffsetsInv, Begun
<1>n. /\ Len(buffer) \in Nat /\ kBufferSize \in Nat /\ Word \in Nat \ {0} /\ file_offset \in Nat
      /\ kBufferSize # 0 /\ offset \in Nat /\ partition_size \in Nat /\ count \in Nat
  BY <1>1, WriterConstants
<1>2. /\ Padding \in 0 .. Word - 1 /\ Len(buffer) + Padding <= kBufferSize
      /\ end % Word = 0 /\ written = size
  BY <1>1, PaddingFits
<1>3. /\ size \in Nat /\ Current.ptr \in Pointers /\ Padding \in Nat /\ end \in Nat
      /\ count + 1 \in 1 .. Len(TensorNames)
  <2>1. size \in Nat /\ Current.ptr \in Pointers /\ count + 1 \in 1 .. Len(TensorNames)
    BY <1>1, CurrentType
  <2>2. Padding \in Nat
    BY <1>2, <1>n
  <2>. QED
    BY <2>1, <2>2
<1>4. b \in Seq(FileBytes) /\ Len(b) = Padding /\ Len(buffer \o b) = Len(buffer) + Padding
      /\ buffer \o b \in Seq(FileBytes)
  <2>1. b \in Seq(FileBytes) /\ Len(b) = Padding
    BY <1>3, GapsType
  <2> HIDE DEF b
  <2>2. buffer \o b \in Seq(FileBytes) /\ Len(buffer \o b) = Len(buffer) + Len(b)
    BY <1>1, <2>1, BehindEachOther
  <2>. QED
    BY <2>1, <2>2
<1>5. /\ files' = IF full THEN Put(buffer \o b) ELSE files
      /\ file_offset' = IF full THEN file_offset + kBufferSize ELSE file_offset
      /\ buffer' = IF full THEN <<>> ELSE buffer \o b
      /\ tensor_offsets' = Append(tensor_offsets, offset)
      /\ offset' = offset + end /\ partition_size' = partition_size + end
      /\ count' = count + 1 /\ written' = -1 /\ data' = data /\ saved' = saved
  <2> DEFINE padded == buffer \o Gaps(Padding)
             isFull == Padding > 0 /\ Len(padded) = kBufferSize
             total  == IF Padding > 0 /\ ~(Len(padded) > kBufferSize) THEN written + Padding ELSE written
  <2>1. Len(padded) = Len(buffer) + Padding /\ ~(Len(padded) > kBufferSize)
    BY <1>2, <1>4, <1>3, WriterConstants
  <2>2. total = end
    <3>1. CASE Padding > 0
      BY <1>2, <2>1, <3>1
    <3>2. CASE ~(Padding > 0)
      <4>1. Padding = 0
        BY <1>3, <3>2
      <4>. QED
        BY <1>2, <1>3, <4>1
    <3>. QED
      BY <3>1, <3>2
  <2>3. isFull <=> full
    BY <2>1
  <2>4. /\ files' = IF isFull THEN Put(padded) ELSE files
        /\ file_offset' = IF isFull THEN file_offset + kBufferSize ELSE file_offset
        /\ buffer' = IF isFull THEN <<>> ELSE padded
        /\ tensor_offsets' = Append(tensor_offsets, offset)
        /\ offset' = offset + total /\ partition_size' = partition_size + total
        /\ count' = count + 1 /\ written' = -1 /\ data' = data /\ saved' = saved
    BY DEF EndRecord, Finish
  <2> HIDE DEF padded, isFull, total, full, end
  <2>. QED
    BY <2>2, <2>3, <2>4 DEF padded
<1>6. Extends(b) /\ files' # <<>> /\ Len(files'[Len(files')]) = file_offset'
      /\ Len(buffer') < kBufferSize /\ file_offset' \in Nat /\ file_offset' % kAlignment = 0
      /\ file_offset' + Len(buffer') = file_offset + Len(buffer) + Padding
  <2>1. Len(files[N]) = file_offset /\ file_offset % kAlignment = 0 /\ Len(buffer) < kBufferSize
    BY <1>1 DEF OffsetsInv
  <2>2. CASE full
    <3>1. files' = Put(buffer \o b) /\ buffer' = <<>> /\ file_offset' = file_offset + kBufferSize
      BY <1>5, <2>2
    <3>2. Extends(b) /\ files' # <<>>
          /\ Len(files'[Len(files')]) = file_offset + Len(buffer) + Len(b)
      BY <1>1, <1>4, <2>1, <3>1, PutExtends
    <3>3. (file_offset + kBufferSize) % kAlignment = 0
      <4>1. PICK k \in Nat \ {0}, x \in Int, y \in Int :
              k = kAlignment /\ x = file_offset /\ y = kBufferSize
        BY <1>1, WriterConstants
      <4>2. x % k = 0 /\ y % k = 0
        BY <2>1, <4>1, WriterConstants
      <4>3. (x + y) % k = 0
        BY <4>2, SumDivides
      <4>. QED
        BY <4>1, <4>3
    <3>4. Len(buffer') = 0 /\ file_offset' \in Nat
      BY <1>1, <3>1, WriterConstants
    <3>5. file_offset + Len(buffer) + Padding = file_offset + kBufferSize
      BY <1>n, <1>3, <2>2
    <3>6. Len(files'[Len(files')]) = file_offset'
      BY <1>4, <3>1, <3>2, <3>5
    <3>7. file_offset' + Len(buffer') = file_offset + Len(buffer) + Padding
      BY <1>n, <3>1, <3>4, <3>5
    <3>8. Len(buffer') < kBufferSize
      BY <1>n, <3>4
    <3>9. file_offset' % kAlignment = 0
      BY <3>1, <3>3
    <3>. QED
      BY <3>2, <3>4, <3>6, <3>7, <3>8, <3>9
  <2>3. CASE ~full
    <3>1. files' = files /\ buffer' = buffer \o b /\ file_offset' = file_offset
      BY <1>5, <2>3
    <3>2. Extends(b)
      BY <1>1, <1>4, <3>1, BufferExtends
    <3>3. Len(buffer) + Padding < kBufferSize
      <4>1. CASE Padding > 0
        BY <1>n, <1>2, <1>3, <2>3, <4>1, SMTT(30)
      <4>2. CASE Padding = 0
        BY <1>n, <2>1, <4>2
      <4>. QED
        BY <1>3, <4>1, <4>2
    <3>4. Len(buffer') = Len(buffer) + Padding
      BY <1>4, <3>1
    <3>5. Len(buffer') < kBufferSize /\ file_offset' + Len(buffer') = file_offset + Len(buffer) + Padding
      BY <1>n, <1>3, <3>1, <3>3, <3>4
    <3>6. files' # <<>> /\ Len(files'[Len(files')]) = file_offset'
      BY <1>1, <2>1, <3>1
    <3>7. file_offset' \in Nat /\ file_offset' % kAlignment = 0
      BY <1>n, <2>1, <3>1
    <3>. QED
      BY <3>2, <3>5, <3>6, <3>7
  <2>. QED
    BY <2>2, <2>3
<1> HIDE DEF full, size, end, b
<1>7. Begun' = 0 /\ written' = -1
  BY <1>5 DEF Begun
<1>8. /\ Stream' \in Seq(FileBytes) /\ Len(Stream') = offset + end
      /\ Len(Stream) = offset + size
      /\ \A i \in 1 .. offset + size : Stream'[i] = Stream[i]
      /\ \A i \in 1 .. offset + end : i \in 1 .. offset + size \/ Stream'[i] = Gap
      /\ Len(Opened') = Len(Opened) + Padding
      /\ \A p : OnlyOf(p, Opened) => OnlyOf(p, Opened')
  <2>1. Len(Stream) = offset + size
    BY <1>1, <1>2 DEF OffsetsInv
  <2>2. offset + size + Padding = offset + end
    BY <1>1, <1>3 DEF end, size
  <2>3. /\ Stream' \in Seq(FileBytes) /\ Len(Stream') = Len(Stream) + Padding
        /\ \A i \in 1 .. Len(Stream) : Stream'[i] = Stream[i]
        /\ \A i \in 1 .. Len(Stream) + Padding : i \in 1 .. Len(Stream) \/ Stream'[i] = Gap
        /\ Len(Opened') = Len(Opened) + Padding
        /\ \A p : OnlyOf(p, Opened) => OnlyOf(p, Opened')
    BY <1>3, <1>6, GapsBehind DEF b
  <2>. QED
    BY <2>1, <2>2, <2>3
<1>9. WTypes'
  <2>1. files' \in Seq(Seq(FileBytes)) /\ buffer' \in Seq(FileBytes)
    BY <1>6 DEF Extends
  <2>2. offset' \in Nat /\ partition_size' \in Nat /\ count' \in 0 .. Len(TensorNames)
    <3>1. Len(TensorNames) \in Nat
      BY WriterConstants
    <3>. QED
      BY <1>n, <1>3, <1>5, <3>1
  <2>3. tensor_offsets' \in Seq(Nat) /\ Len(tensor_offsets') = count'
    BY <1>1, <1>5, SMTT(30)
  <2>4. written' = -1 /\ saved' = FALSE
    BY <1>1, <1>5 DEF WTypes
  <2>. QED
    BY <1>6, <2>1, <2>2, <2>3, <2>4 DEF WTypes
<1>10. OffsetsInv'
  <2>1. partition_size' % Word = 0 /\ offset' % Word = 0
    <3>1. PICK w \in Nat \ {0}, x \in Int, y \in Int, z \in Int :
            w = Word /\ x = partition_size /\ y = offset /\ z = end
      BY <1>n, <1>3
    <3>2. x % w = 0 /\ y % w = 0 /\ z % w = 0
      BY <1>2, <3>1 DEF OffsetsInv, end, size
    <3>3. (x + z) % w = 0 /\ (y + z) % w = 0
      BY <3>2, SumDivides
    <3>. QED
      BY <1>5, <3>1, <3>3
  <2>2. file_offset' + Len(buffer') = partition_size' + Begun'
    <3>1. file_offset + Len(buffer) = partition_size + size
      BY <1>1, <1>2 DEF OffsetsInv, size
    <3>2. partition_size' = partition_size + (size + Padding)
      BY <1>5 DEF end
    <3>a. file_offset' + Len(buffer') = (partition_size + size) + Padding
      BY <1>6, <3>1, Zenon
    <3>b. (partition_size + size) + Padding = partition_size + (size + Padding)
      BY <1>n, <1>3
    <3>3. file_offset' + Len(buffer') = partition_size'
      BY <3>2, <3>a, <3>b, Zenon
    <3>. QED
      BY <1>n, <1>3, <1>5, <1>7, <3>3
  <2>3. Len(Stream') = offset' + Begun'
    BY <1>n, <1>3, <1>5, <1>7, <1>8
  <2>. QED
    BY <1>6, <1>7, <2>1, <2>2, <2>3 DEF OffsetsInv
<1>11. RecordsInv'
  <2>1. /\ \A i \in 1 .. count : Recorded(i)
        /\ \A i \in 1 .. offset : Stream[i] # Gap =>
              \E j \in 1 .. count : Stream[i][1] = data[TensorNames[j]].ptr
        /\ \A k \in 1 .. size : Stream[offset + k] = <<Current.ptr, k>>
        /\ \A i, j \in DOMAIN Stream : Stream[i] = Stream[j] /\ Stream[i] # Gap => i = j
    BY <1>1, <1>2 DEF RecordsInv
  <2>2. \A i \in 1 .. offset : Stream'[i] = Stream[i] /\ i \in 1 .. offset + size
    BY <1>n, <1>3, <1>8
  <2>3. /\ \A i \in 1 .. count : tensor_offsets'[i] = tensor_offsets[i]
        /\ tensor_offsets'[count + 1] = offset
    <3>1. tensor_offsets \in Seq(Nat) /\ Len(tensor_offsets) = count /\ offset \in Nat
      BY <1>1
    <3>2. tensor_offsets' = Append(tensor_offsets, offset)
      BY <1>5
    <3>. QED
      BY <3>1, <3>2
  <2>4. \A k \in 1 .. size : Stream'[offset + k] = <<Current.ptr, k>>
    <3>1. \A k \in 1 .. size : offset + k \in 1 .. offset + size
      BY <1>n, <1>3
    <3>. QED
      BY <1>8, <2>1, <3>1
  <2>5. offset <= offset' /\ offset' \in Nat /\ offset + size <= offset'
    <3>1. offset' = offset + (size + Padding)
      BY <1>5 DEF end
    <3>2. size \in Nat /\ Padding \in Nat
      BY <1>3
    <3>. QED
      BY <1>n, <3>1, <3>2
  <2>6. ASSUME NEW i \in 1 .. count + 1 PROVE Recorded(i)'
    <3>1. CASE i \in 1 .. count
      <4>1. Recorded(i) /\ tensor_offsets'[i] = tensor_offsets[i] /\ data' = data
        BY <1>5, <2>1, <2>3, <3>1
      <4>. QED
        BY <2>2, <2>5, <3>1, <4>1, RecordStays
    <3>2. CASE i = count + 1
      <4>1. data[TensorNames[i]] = Current /\ tensor_offsets'[i] = offset /\ offset % Word = 0
        BY <2>3, <3>2 DEF Current, OffsetsInv
      <4>2. /\ offset % Word = 0 /\ offset + Current.size <= offset'
            /\ \A k \in 1 .. Current.size : Stream'[offset + k] = <<Current.ptr, k>>
        BY <2>4, <2>5, <4>1 DEF size
      <4>. QED
        BY <1>5, <4>1, <4>2 DEF Recorded
    <3>. QED
      BY <1>n, <3>1, <3>2
  <2>7. ASSUME NEW i \in 1 .. offset + end, Stream'[i] # Gap
        PROVE  \E j \in 1 .. count + 1 : Stream'[i][1] = data[TensorNames[j]].ptr
    <3>1. i \in 1 .. offset + size
      BY <1>8, <2>7
    <3>2. CASE i \in 1 .. offset
      <4>1. PICK j \in 1 .. count : Stream[i][1] = data[TensorNames[j]].ptr
        BY <2>1, <2>2, <2>7, <3>2
      <4>. QED
        BY <1>n, <2>2, <3>2, <4>1
    <3>3. CASE i \notin 1 .. offset
      <4>1. i - offset \in 1 .. size /\ i = offset + (i - offset)
        BY <1>n, <1>3, <3>1, <3>3
      <4>2. Stream'[i] = <<Current.ptr, i - offset>>
        BY <2>4, <4>1
      <4>3. Stream'[i][1] = data[TensorNames[count + 1]].ptr
        BY <4>2 DEF Current
      <4>. QED
        BY <1>n, <4>3
    <3>. QED
      BY <3>2, <3>3
  <2>8. ASSUME NEW i \in 1 .. offset + end, NEW j \in 1 .. offset + end,
               Stream'[i] = Stream'[j], Stream'[i] # Gap
        PROVE  i = j
    <3>1. /\ i \in 1 .. offset + size /\ j \in 1 .. offset + size
          /\ Stream'[i] = Stream[i] /\ Stream'[j] = Stream[j]
      BY <1>8, <2>8
    <3>2. DOMAIN Stream = 1 .. offset + size
      BY <1>8, StreamTypes
    <3>. QED
      BY <2>1, <2>8, <3>1, <3>2
  <2>9. DOMAIN (Stream') = 1 .. offset + end
    BY <1>8
  <2>10. \A k \in 1 .. Begun' : FALSE
    BY <1>7
  <2>. QED
    BY <1>5, <2>6, <2>7, <2>8, <2>9, <2>10 DEF RecordsInv
<1>12. PartitionsInv'
  <2>1. \A f \in 1 .. Len(files') - 1 : Bounded(files'[f])
    <3>1. Len(files') = Len(files) /\ \A f \in 1 .. Len(files) - 1 : files'[f] = files[f]
      BY <1>6 DEF Extends
    <3>. QED
      BY <3>1 DEF PartitionsInv
  <2>2. Bounded(Opened')
    <3>1. CASE partition_size + size <= kPartitionMaxSize
      <4>1. Len(Opened) = partition_size + size
        BY <1>1, <1>2, OpenedLength
      <4>2. Len(Opened') = partition_size + size + Padding /\ kPartitionMaxSize \in Nat
        BY <1>8, <4>1, WriterConstants
      <4>3. Len(Opened') < kPartitionMaxSize + Word
        BY <1>n, <1>2, <1>3, <3>1, <4>2
      <4>. QED
        BY <4>3 DEF Bounded
    <3>2. CASE OnlyOf(Current.ptr, Opened)
      <4>1. OnlyOf(Current.ptr, Opened')
        BY <1>8, <3>2
      <4>. QED
        BY <1>3, <4>1 DEF Bounded
    <3>. QED
      BY <1>1, <3>1, <3>2 DEF PartitionsInv, size
  <2>. QED
    BY <1>7, <2>1, <2>2 DEF PartitionsInv, Bounded, OnlyOf
<1>. QED
  BY <1>9, <1>10, <1>11, <1>12


\* The record of the same storage is used again.
LEMMA ShareRight ==
    ASSUME data \in StateDicts, WTypes, OffsetsInv, RecordsInv, PartitionsInv, ShareRecord
    PROVE  WTypes' /\ OffsetsInv' /\ RecordsInv' /\ PartitionsInv'
<1>1. /\ More /\ written = -1 /\ count \in 0 .. Len(TensorNames) /\ offset \in Nat
      /\ tensor_offsets \in Seq(Nat) /\ Len(tensor_offsets) = count /\ ~saved
      /\ count' = count + 1 /\ written' = -1 /\ offset' = offset /\ data' = data
      /\ files' = files /\ buffer' = buffer /\ file_offset' = file_offset
      /\ partition_size' = partition_size /\ saved' = saved
  BY DEF ShareRecord, WTypes
<1>2. PICK n \in Shared : tensor_offsets' = Append(tensor_offsets,
            tensor_offsets[CHOOSE i \in 1 .. count : TensorNames[i] = n])
  BY DEF ShareRecord
<1>3. PICK m \in 1 .. count : TensorNames[m] = n /\ data[n].ptr = Current.ptr
                              /\ tensor_offsets' = Append(tensor_offsets, tensor_offsets[m])
  <2>1. PICK j \in 1 .. count : TensorNames[j] = n /\ data[TensorNames[j]].ptr = Current.ptr
    BY DEF Shared
  <2> DEFINE m == CHOOSE i \in 1 .. count : TensorNames[i] = n
  <2>2. m \in 1 .. count /\ TensorNames[m] = n
    BY <2>1
  <2>3. tensor_offsets' = Append(tensor_offsets, tensor_offsets[m])
    BY <1>2
  <2> HIDE DEF m
  <2>. QED
    BY <2>1, <2>2, <2>3
<1>4. /\ count + 1 \in 1 .. Len(TensorNames) /\ Current = data[TensorNames[m]]
      /\ tensor_offsets[m] \in Nat
  <2>1. count + 1 \in 1 .. Len(TensorNames) /\ TensorNames[count + 1] \in Names
    BY <1>1, CurrentType
  <2>2. TensorNames[m] \in Names
    <3>1. m \in 1 .. Len(TensorNames)
      BY <1>1, WriterConstants
    <3>. QED
      BY <3>1, WriterConstants
  <2>3. tensor_offsets[m] \in Nat
    BY <1>1
  <2>. QED
    BY <1>3, <2>1, <2>2, <2>3, StorageTypes DEF Current
<1>5. /\ tensor_offsets' \in Seq(Nat) /\ Len(tensor_offsets') = count + 1
      /\ \A i \in 1 .. count : tensor_offsets'[i] = tensor_offsets[i]
      /\ tensor_offsets'[count + 1] = tensor_offsets[m]
  BY <1>1, <1>3, <1>4
<1>6. Stream' = Stream /\ Opened' = Opened /\ Begun' = 0 /\ Begun = 0
  BY <1>1 DEF Stream, Opened, Begun
<1>7. WTypes'
  <2>1. count + 1 \in 0 .. Len(TensorNames)
    BY <1>1, <1>4
  <2>. QED
    BY <1>1, <1>5, <2>1 DEF WTypes
<1>8. OffsetsInv'
  BY <1>1, <1>6 DEF OffsetsInv
<1>9. RecordsInv'
  <2>1. ASSUME NEW i \in 1 .. count + 1 PROVE Recorded(i)'
    <3>1. CASE i \in 1 .. count
      <4>1. Recorded(i)
        BY <3>1 DEF RecordsInv
      <4>2. tensor_offsets'[i] = tensor_offsets[i]
        BY <1>5, <3>1
      <4>. QED
        BY <1>1, <1>6, <4>1, <4>2 DEF Recorded
    <3>2. CASE i = count + 1
      <4>1. Recorded(m)
        BY DEF RecordsInv
      <4>2. tensor_offsets'[i] = tensor_offsets[m] /\ data[TensorNames[i]] = data[TensorNames[m]]
        BY <1>4, <1>5, <3>2 DEF Current
      <4>. QED
        BY <1>1, <1>6, <4>1, <4>2 DEF Recorded
    <3>. QED
      BY <1>1, <3>1, <3>2
  <2>2. ASSUME NEW i \in 1 .. offset, Stream[i] # Gap
        PROVE  \E j \in 1 .. count + 1 : Stream[i][1] = data[TensorNames[j]].ptr
    <3>1. PICK j \in 1 .. count : Stream[i][1] = data[TensorNames[j]].ptr
      BY <2>2 DEF RecordsInv
    <3>. QED
      BY <1>1, <3>1
  <2>3. \A k \in 1 .. Begun' : FALSE
    BY <1>6
  <2>4. \A i, j \in DOMAIN Stream : Stream[i] = Stream[j] /\ Stream[i] # Gap => i = j
    BY DEF RecordsInv
  <2>. QED
    BY <1>1, <1>6, <2>1, <2>2, <2>3, <2>4 DEF RecordsInv
<1>10. PartitionsInv'
  BY <1>1, <1>6 DEF PartitionsInv, Bounded, OnlyOf
<1>. QED
  BY <1>7, <1>8, <1>9, <1>10

\* The open partition is closed: what is in the buffer is in the file.
LEMMA ClosedRight ==
    ASSUME WTypes, OffsetsInv, ~saved, NEW c, c = Closed(TRUE)
    PROVE  /\ c \in Seq(Seq(FileBytes)) /\ Len(c) = Len(files) /\ FlattenSeq(c) = Stream
           /\ \A f \in 1 .. Len(files) - 1 : c[f] = files[f]
           /\ files # <<>> => c[Len(files)] = Opened /\ c # <<>>
<1>1. files \in Seq(Seq(FileBytes)) /\ buffer \in Seq(FileBytes)
  BY DEF WTypes
<1>2. CASE files = <<>>
  <2>1. buffer = <<>> /\ c = <<>>
    BY <1>2 DEF OffsetsInv, Closed
  <2>2. FlattenSeq(files) \in Seq(FileBytes)
    BY StreamTypes
  <2>3. Stream = FlattenSeq(c)
    BY <1>2, <2>1, <2>2, InTwoParts DEF Stream
  <2>. QED
    BY <1>1, <1>2, <2>1, <2>3
<1>3. CASE files # <<>>
  <2>1. c = Put(buffer) /\ Len(files[Len(files)]) = file_offset
    BY <1>3 DEF OffsetsInv, Closed
  <2>2. /\ c \in Seq(Seq(FileBytes)) /\ Len(c) = Len(files) /\ c # <<>>
        /\ c[Len(files)] = files[Len(files)] \o buffer
        /\ \A i \in 1 .. Len(files) - 1 : c[i] = files[i]
        /\ FlattenSeq(c) = FlattenSeq(files) \o buffer
    <3>1. /\ Put(buffer) \in Seq(Seq(FileBytes)) /\ Len(Put(buffer)) = Len(files)
          /\ Put(buffer) # <<>>
          /\ Put(buffer)[Len(files)] = files[Len(files)] \o buffer
          /\ \A i \in 1 .. Len(files) - 1 : Put(buffer)[i] = files[i]
          /\ FlattenSeq(Put(buffer)) = FlattenSeq(files) \o buffer
      BY <1>1, <1>3, <2>1, PutRight
    <3>. QED
      BY <2>1, <3>1, Zenon
  <2>3. Opened = files[Len(files)] \o buffer
    BY <1>3 DEF Opened
  <2>. QED
    BY <2>2, <2>3, Zenon DEF Stream
<1>. QED
  BY <1>2, <1>3

\* The files are closed for the index.
LEMMA IndexRight ==
    ASSUME data \in StateDicts, WTypes, OffsetsInv, RecordsInv, PartitionsInv, WriteIndex(TRUE)
    PROVE  WTypes' /\ OffsetsInv' /\ RecordsInv' /\ PartitionsInv'
<1>1. /\ ~More /\ ~saved /\ written = -1 /\ buffer' = <<>> /\ saved' = TRUE
      /\ files' = Closed(TRUE) /\ data' = data /\ file_offset' = file_offset
      /\ partition_size' = partition_size /\ offset' = offset /\ count' = count
      /\ written' = written /\ tensor_offsets' = tensor_offsets
  BY DEF WriteIndex, WTypes
<1>2. /\ files' \in Seq(Seq(FileBytes)) /\ Len(files') = Len(files) /\ FlattenSeq(files') = Stream
      /\ \A f \in 1 .. Len(files) - 1 : files'[f] = files[f]
      /\ files # <<>> => files'[Len(files)] = Opened /\ files' # <<>>
  BY <1>1, ClosedRight
<1>3. Stream' = Stream
  <2>1. Stream \in Seq(FileBytes)
    BY StreamTypes
  <2>. QED
    BY <1>1, <1>2, <2>1, InTwoParts DEF Stream
<1>4. Begun' = Begun /\ More' = More /\ Opened' = Opened
  <2>1. Begun' = Begun /\ More' = More
    BY <1>1 DEF Begun, More
  <2>2. CASE files = <<>>
    <3>1. files' = <<>>
      BY <1>1, <2>2 DEF Closed
    <3>. QED
      BY <2>1, <2>2, <3>1 DEF Opened
  <2>3. CASE files # <<>>
    <3>1. Opened \in Seq(FileBytes) /\ Opened' = files'[Len(files)] \o <<>>
      BY <1>1, <1>2, <2>3, StreamTypes DEF Opened
    <3>. QED
      BY <1>2, <2>1, <2>3, <3>1, InTwoParts
  <2>. QED
    BY <2>2, <2>3
<1>5. WTypes'
  BY <1>1, <1>2, <1>4, WriterConstants DEF WTypes
<1>6. OffsetsInv'
  <2>1. Len(buffer') < kBufferSize
    BY <1>1, WriterConstants
  <2>. QED
    BY <1>1, <1>3, <1>4, <2>1 DEF OffsetsInv
<1>7. RecordsInv'
  <2>1. \A i \in 1 .. count : Recorded(i)'
    BY <1>1, <1>3 DEF RecordsInv, Recorded
  <2>2. \A k \in 1 .. Begun' : FALSE
    BY <1>1, <1>4 DEF Begun
  <2>. QED
    BY <1>1, <1>3, <2>1, <2>2 DEF RecordsInv
<1>8. PartitionsInv'
  <2>1. \A f \in 1 .. Len(files') - 1 : Bounded(files'[f])
    BY <1>2 DEF PartitionsInv
  <2>2. Bounded(Opened')
    BY <1>1, <1>4 DEF PartitionsInv
  <2>. QED
    BY <1>1, <2>1, <2>2 DEF PartitionsInv, Bounded, OnlyOf
<1>. QED
  BY <1>5, <1>6, <1>7, <1>8

\* A record starts, perhaps in a new partition.
LEMMA BeginRight ==
    ASSUME data \in StateDicts, WTypes, OffsetsInv, RecordsInv, PartitionsInv, BeginRecord(TRUE)
    PROVE  WTypes' /\ OffsetsInv' /\ RecordsInv' /\ PartitionsInv'
<1>1. /\ More /\ ~saved /\ written = -1 /\ Shared = {} /\ written' = 0
      /\ data' = data /\ offset' = offset /\ count' = count
      /\ tensor_offsets' = tensor_offsets /\ saved' = saved
      /\ count \in 0 .. Len(TensorNames) /\ partition_size \in Nat /\ offset \in Nat
  BY DEF BeginRecord, WTypes
<1>2. /\ Current' = Current /\ Shared' = Shared /\ More' = More /\ Begun' = 0 /\ Begun = 0
      /\ Current.ptr \in Pointers /\ Current.size \in Nat
  <2>1. Current' = Current
    BY <1>1 DEF Current
  <2>. QED
    BY <1>1, <2>1, CurrentType DEF Shared, More, Begun
<1>3. /\ files' \in Seq(Seq(FileBytes)) /\ buffer' \in Seq(FileBytes) /\ files' # <<>>
      /\ file_offset' \in Nat /\ partition_size' \in Nat /\ Stream' = Stream
      /\ \A f \in 1 .. Len(files') - 1 : Bounded(files'[f])
      /\ \/ partition_size' + Current.size <= kPartitionMaxSize
         \/ partition_size' = 0 /\ OnlyOf(Current.ptr, Opened')
      /\ Len(files'[Len(files')]) = file_offset' /\ Len(buffer') < kBufferSize
      /\ file_offset' + Len(buffer') = partition_size'
      /\ file_offset' % kAlignment = 0 /\ partition_size' % Word = 0
  <2>1. CASE NeedsPartition
    <3>1. PICK c : c = Closed(TRUE)
      OBVIOUS
    <3>2. /\ files' = Append(c, <<>>)
          /\ buffer' = <<>> /\ file_offset' = 0 /\ partition_size' = 0
      BY <2>1, <3>1 DEF BeginRecord
    <3>3. /\ c \in Seq(Seq(FileBytes)) /\ Len(c) = Len(files) /\ FlattenSeq(c) = Stream
          /\ \A f \in 1 .. Len(files) - 1 : c[f] = files[f]
          /\ files # <<>> => c[Len(files)] = Opened
      BY <1>1, <3>1, ClosedRight
    <3>4. /\ files' \in Seq(Seq(FileBytes)) /\ Len(files') = Len(files) + 1 /\ files' # <<>>
          /\ files'[Len(files) + 1] = <<>> /\ Len(files) \in Nat
          /\ \A f \in 1 .. Len(files) : files'[f] = c[f]
      <4>1. <<>> \in Seq(FileBytes)
        BY WriterConstants
      <4>. QED
        BY <3>2, <3>3, <4>1
    <3>5. Stream' = Stream
      <4>1. Stream \in Seq(FileBytes)
        BY StreamTypes
      <4>2. FlattenSeq(files') = Stream \o <<>>
        BY <3>2, <3>3, FlatAppend, WriterConstants
      <4>. QED
        BY <3>2, <4>1, <4>2, InTwoParts DEF Stream
    <3>6. \A f \in 1 .. Len(files) : Bounded(files'[f])
      <4> SUFFICES ASSUME NEW f \in 1 .. Len(files) PROVE Bounded(files'[f])
        OBVIOUS
      <4>1. CASE f \in 1 .. Len(files) - 1
        BY <3>3, <3>4, <4>1 DEF PartitionsInv
      <4>2. CASE f = Len(files)
        <5>1. files'[f] = c[f] /\ files # <<>>
          BY <3>4, <4>2
        <5>2. files'[f] = Opened
          BY <3>3, <4>2, <5>1
        <5>. QED
          BY <5>2, OpenedBounded
      <4>. QED
        BY <3>4, <4>1, <4>2
    <3>7. OnlyOf(Current.ptr, Opened')
      <4>1. Opened' = <<>> \o <<>>
        BY <3>2, <3>4 DEF Opened
      <4>2. Opened' = <<>>
        BY <4>1, InTwoParts, WriterConstants
      <4>. QED
        BY <4>2 DEF OnlyOf
    <3>8. 0 % kAlignment = 0 /\ 0 % Word = 0 /\ 0 < kBufferSize
      BY WriterConstants
    <3>9. Len(buffer') = 0 /\ Len(files'[Len(files')]) = 0 /\ Len(files') - 1 = Len(files)
      BY <3>2, <3>4
    <3>. QED
      BY <3>2, <3>4, <3>5, <3>6, <3>7, <3>8, <3>9, WriterConstants
  <2>2. CASE ~NeedsPartition
    <3>1. /\ files' = files /\ buffer' = buffer /\ file_offset' = file_offset
          /\ partition_size' = partition_size
      BY <2>2 DEF BeginRecord
    <3>2. files # <<>> /\ partition_size + Current.size <= kPartitionMaxSize
      BY <1>1, <1>2, <2>2, WriterConstants DEF NeedsPartition
    <3>3. Stream' = Stream
      BY <3>1 DEF Stream
    <3>4. file_offset + Len(buffer) = partition_size
      BY <1>1, <1>2 DEF OffsetsInv
    <3>5. \A f \in 1 .. Len(files) - 1 : Bounded(files[f])
      BY DEF PartitionsInv
    <3>6. /\ files \in Seq(Seq(FileBytes)) /\ buffer \in Seq(FileBytes)
          /\ file_offset \in Nat /\ partition_size \in Nat
      BY DEF WTypes
    <3>7. /\ Len(files[Len(files)]) = file_offset /\ Len(buffer) < kBufferSize
          /\ file_offset % kAlignment = 0 /\ partition_size % Word = 0
      BY <1>1, <3>2 DEF OffsetsInv
    <3>. QED
      BY <3>1, <3>2, <3>3, <3>4, <3>5, <3>6, <3>7
  <2>. QED
    BY <2>1, <2>2
<1>4. WTypes'
  <2>1. 0 <= Current.size
    BY <1>2
  <2>2. tensor_offsets \in Seq(Nat) /\ Len(tensor_offsets) = count /\ saved = FALSE
    BY <1>1 DEF WTypes
  <2>. QED
    BY <1>1, <1>2, <1>3, <2>1, <2>2 DEF WTypes
<1>5. OffsetsInv'
  <2>1. Len(Stream') = offset' + Begun' /\ offset' % Word = 0
    BY <1>1, <1>2, <1>3 DEF OffsetsInv
  <2>2. file_offset' + Len(buffer') = partition_size' + Begun'
    BY <1>2, <1>3
  <2>. QED
    BY <1>1, <1>3, <2>1, <2>2 DEF OffsetsInv
<1>6. RecordsInv'
  <2>1. \A i \in 1 .. count : Recorded(i)'
    BY <1>1, <1>3 DEF RecordsInv, Recorded
  <2>2. \A k \in 1 .. Begun' : FALSE
    BY <1>2
  <2>. QED
    BY <1>1, <1>3, <2>1, <2>2 DEF RecordsInv
<1>7. PartitionsInv'
  BY <1>1, <1>2, <1>3 DEF PartitionsInv, Bounded, OnlyOf
<1>. QED
  BY <1>4, <1>5, <1>6, <1>7


\* The offsets of a direct write, which takes whole multiples of kAlignment.
LEMMA DirectRight ==
    ASSUME data \in StateDicts, WTypes, OffsetsInv, RecordsInv, PartitionsInv, WriteDirect
    PROVE  WTypes' /\ OffsetsInv' /\ RecordsInv' /\ PartitionsInv'
<1> DEFINE n == DirectSize
           b == Bytes(written, written + n)
<1>1. /\ written \in Nat /\ written # -1 /\ written <= Current.size /\ More /\ ~saved
      /\ files # <<>> /\ files \in Seq(Seq(FileBytes)) /\ buffer \in Seq(FileBytes)
      /\ count \in 0 .. Len(TensorNames) /\ Begun = written
      /\ file_offset \in Nat /\ partition_size \in Nat /\ offset \in Nat
      /\ Len(files[Len(files)]) = file_offset
  BY DEF WriteDirect, WTypes, OffsetsInv, Begun
<1>2. Current.ptr \in Pointers /\ Current.size \in Nat
  BY <1>1, CurrentType
<1>3. n \in Nat /\ n <= Left /\ n % kAlignment = 0 /\ kAlignment \in Nat \ {0}
  <2>a. written \in Nat /\ written <= Current.size /\ Current.size \in Nat
    BY <1>1, <1>2
  <2>b. kAlignment \in Nat \ {0} /\ Left \in Nat
    BY <2>a, WriterConstants DEF Left
  <2>1. PICK k \in Nat \ {0}, a \in Nat : k = kAlignment /\ a = Left
    BY <2>b
  <2>2. LET c == (a \div k) * k IN c \in Nat /\ c <= a /\ a < c + k /\ c % k = 0
    BY WholePart
  <2>3. n = (a \div k) * k
    BY <2>1 DEF DirectSize
  <2>. QED
    BY <2>1, <2>2, <2>3
<1>4. /\ buffer = <<>> /\ buffer' = <<>> /\ files' = Put(b) /\ file_offset' = file_offset + n
      /\ written' = written + n /\ data' = data /\ partition_size' = partition_size
      /\ offset' = offset /\ count' = count /\ tensor_offsets' = tensor_offsets /\ saved' = saved
  BY DEF WriteDirect, Direct
<1> HIDE DEF n
<1>5. b \in Seq(FileBytes) /\ Len(b) = n
  BY <1>1, <1>2, <1>3, BytesType
<1>6. Extends(b) /\ files' # <<>> /\ Len(files'[Len(files')]) = file_offset + n
  <2> HIDE DEF b
  <2>1. buffer \o b = b /\ Len(buffer) = 0
    BY <1>4, <1>5, InTwoParts
  <2>2. /\ Extends(b) /\ files' # <<>>
        /\ Len(files'[Len(files')]) = file_offset + Len(buffer) + Len(b)
    BY <1>1, <1>4, <1>5, <2>1, PutExtends
  <2>. QED
    BY <1>1, <1>3, <1>5, <2>1, <2>2
<1>7. written + n <= Current.size
  BY <1>1, <1>2, <1>3 DEF Left
<1>8. file_offset' \in Nat
  BY <1>1, <1>3, <1>4
<1>9. WTypes' /\ RecordsInv' /\ PartitionsInv' /\ Len(Stream') = offset' + Begun'
  BY <1>1, <1>3, <1>4, <1>6, <1>7, <1>8, TakeRight
<1>10. OffsetsInv'
  <2>1. file_offset' % kAlignment = 0
    <3>1. PICK k \in Nat \ {0}, x \in Int, y \in Int :
            k = kAlignment /\ x = file_offset /\ y = n
      BY <1>1, <1>3
    <3>2. x % k = 0 /\ y % k = 0
      BY <1>3, <3>1 DEF OffsetsInv
    <3>3. (x + y) % k = 0
      BY <3>2, SumDivides
    <3>. QED
      BY <1>4, <3>1, <3>3
  <2>2. file_offset' + Len(buffer') = partition_size' + Begun'
    <3>1. file_offset + Len(buffer) = partition_size + written
      BY <1>1 DEF OffsetsInv
    <3>2. Len(buffer) = 0 /\ Len(buffer') = 0
      BY <1>4
    <3>3. Begun' = written + n
      BY <1>1, <1>3, <1>4 DEF Begun
    <3>. QED
      BY <1>1, <1>3, <1>4, <3>1, <3>2, <3>3
  <2>3. Len(buffer') < kBufferSize
    BY <1>4, WriterConstants
  <2>4. partition_size' % Word = 0 /\ offset' % Word = 0
    BY <1>4 DEF OffsetsInv
  <2>5. Len(files'[Len(files')]) = file_offset'
    BY <1>4, <1>6
  <2>. QED
    BY <1>6, <1>9, <2>1, <2>2, <2>3, <2>4, <2>5 DEF OffsetsInv
<1>. QED
  BY <1>9, <1>10

\* A turn through the buffer, which is written when it is full.
LEMMA FillRight ==
    ASSUME data \in StateDicts, WTypes, OffsetsInv, RecordsInv, PartitionsInv, FillBuffer
    PROVE  WTypes' /\ OffsetsInv' /\ RecordsInv' /\ PartitionsInv'
<1> DEFINE n == Taken
           b == Bytes(written, written + n)
           full == Len(buffer \o b) = kBufferSize
<1>1. /\ written \in Nat /\ written # -1 /\ written <= Current.size /\ More /\ ~saved
      /\ files # <<>> /\ files \in Seq(Seq(FileBytes)) /\ buffer \in Seq(FileBytes)
      /\ count \in 0 .. Len(TensorNames) /\ Begun = written
      /\ file_offset \in Nat /\ partition_size \in Nat /\ offset \in Nat
      /\ Len(files[Len(files)]) = file_offset
  BY DEF FillBuffer, WTypes, OffsetsInv, Begun
<1>n. Len(buffer) \in Nat /\ Len(buffer) < kBufferSize /\ kBufferSize \in Nat
      /\ file_offset + Len(buffer) = partition_size + written
      /\ file_offset \in Nat /\ partition_size \in Nat /\ written \in Nat
  BY <1>1, WriterConstants DEF OffsetsInv
<1>2. Current.ptr \in Pointers /\ Current.size \in Nat /\ Left \in Nat
  BY <1>1, CurrentType DEF Left
<1>3. n \in Nat /\ n <= Left /\ Len(buffer) + n <= kBufferSize
  BY <1>n, <1>2 DEF Taken, Smaller
<1>4. /\ files' = IF full THEN Put(buffer \o b) ELSE files
      /\ file_offset' = IF full THEN file_offset + kBufferSize ELSE file_offset
      /\ buffer' = IF full THEN <<>> ELSE buffer \o b
      /\ written' = written + n /\ data' = data /\ partition_size' = partition_size
      /\ offset' = offset /\ count' = count /\ tensor_offsets' = tensor_offsets /\ saved' = saved
  BY DEF FillBuffer
<1> HIDE DEF n
<1>5. b \in Seq(FileBytes) /\ Len(b) = n
  BY <1>1, <1>2, <1>3, BytesType
<1> HIDE DEF b
<1>6. buffer \o b \in Seq(FileBytes) /\ Len(buffer \o b) = Len(buffer) + n
  <2>1. buffer \o b \in Seq(FileBytes) /\ Len(buffer \o b) = Len(buffer) + Len(b)
    BY <1>1, <1>5, BehindEachOther
  <2>. QED
    BY <1>5, <2>1
<1>7. Extends(b) /\ files' # <<>> /\ Len(files'[Len(files')]) = file_offset'
      /\ Len(buffer') < kBufferSize /\ file_offset' \in Nat /\ file_offset' % kAlignment = 0
      /\ file_offset' + Len(buffer') = file_offset + (Len(buffer) + n)
  <2>1. file_offset % kAlignment = 0
    BY DEF OffsetsInv
  <2>2. CASE full
    <3>1. files' = Put(buffer \o b) /\ buffer' = <<>> /\ file_offset' = file_offset + kBufferSize
      BY <1>4, <2>2
    <3>2. Extends(b) /\ files' # <<>>
          /\ Len(files'[Len(files')]) = file_offset + Len(buffer) + Len(b)
      BY <1>1, <1>5, <3>1, PutExtends
    <3>3. (file_offset + kBufferSize) % kAlignment = 0
      <4>1. PICK k \in Nat \ {0}, x \in Int, y \in Int :
              k = kAlignment /\ x = file_offset /\ y = kBufferSize
        BY <1>1, WriterConstants
      <4>2. x % k = 0 /\ y % k = 0
        BY <2>1, <4>1, WriterConstants
      <4>3. (x + y) % k = 0
        BY <4>2, SumDivides
      <4>. QED
        BY <4>1, <4>3
    <3>4. Len(buffer') = 0 /\ file_offset' \in Nat
      BY <1>1, <1>n, <3>1
    <3>5. Len(buffer) + n = kBufferSize
      BY <1>6, <2>2
    <3>a. (file_offset + Len(buffer)) + n = file_offset + (Len(buffer) + n)
      BY <1>n, <1>3
    <3>6. Len(files'[Len(files')]) = file_offset'
      BY <1>5, <3>1, <3>2, <3>5, <3>a, Zenon
    <3>7. file_offset' + Len(buffer') = file_offset + (Len(buffer) + n)
      BY <1>1, <1>n, <3>1, <3>4, <3>5
    <3>8. Len(buffer') < kBufferSize
      BY <1>n, <3>4
    <3>9. file_offset' % kAlignment = 0
      BY <3>1, <3>3
    <3>. QED
      BY <3>2, <3>4, <3>6, <3>7, <3>8, <3>9
  <2>3. CASE ~full
    <3>1. files' = files /\ buffer' = buffer \o b /\ file_offset' = file_offset
      BY <1>4, <2>3
    <3>2. Extends(b)
      BY <1>1, <1>5, <3>1, BufferExtends
    <3>3. Len(buffer') = Len(buffer) + n
      BY <1>6, <3>1
    <3>4. Len(buffer') < kBufferSize
      BY <1>n, <1>3, <1>6, <2>3, <3>3
    <3>5. file_offset' + Len(buffer') = file_offset + (Len(buffer) + n)
      BY <3>1, <3>3
    <3>6. files' # <<>> /\ Len(files'[Len(files')]) = file_offset'
      BY <1>1, <3>1
    <3>7. file_offset' \in Nat /\ file_offset' % kAlignment = 0
      BY <1>1, <2>1, <3>1
    <3>. QED
      BY <3>2, <3>4, <3>5, <3>6, <3>7
  <2>. QED
    BY <2>2, <2>3
<1>8. written + n <= Current.size
  BY <1>1, <1>2, <1>3 DEF Left
<1>9. WTypes' /\ RecordsInv' /\ PartitionsInv' /\ Len(Stream') = offset' + Begun'
  BY <1>1, <1>3, <1>4, <1>7, <1>8, TakeRight DEF b
<1>10. OffsetsInv'
  <2>1. file_offset' + Len(buffer') = partition_size' + Begun'
    <3>1. Begun' = written + n
      BY <1>1, <1>3, <1>4 DEF Begun
    <3>2. file_offset + (Len(buffer) + n) = partition_size + (written + n)
      BY <1>n, <1>3
    <3>. QED
      BY <1>4, <1>7, <3>1, <3>2
  <2>2. partition_size' % Word = 0 /\ offset' % Word = 0
    BY <1>4 DEF OffsetsInv
  <2>. QED
    BY <1>7, <1>9, <2>1, <2>2 DEF OffsetsInv
<1>. QED
  BY <1>9, <1>10

\* Before the first record nothing is written.
LEMMA WriterInit == WInit => WInv
<1> SUFFICES ASSUME WInit PROVE WInv
  OBVIOUS
<1>1. /\ data \in StateDicts /\ files = <<>> /\ buffer = <<>> /\ file_offset = 0
      /\ partition_size = 0 /\ offset = 0 /\ count = 0 /\ written = -1
      /\ tensor_offsets = <<>> /\ saved = FALSE /\ failures = 0
  BY DEF WInit
<1>2. Stream = <<>> /\ Opened = <<>> /\ Begun = 0
  <2>1. FlattenSeq(files) = <<>>
    BY <1>1 DEF FlattenSeq
  <2>2. <<>> \in Seq(FileBytes)
    BY WriterConstants
  <2>. QED
    BY <1>1, <2>1, <2>2, InTwoParts DEF Stream, Opened, Begun
<1>3. WTypes
  <2>1. 0 \in 0 .. Len(TensorNames) /\ <<>> \in Seq(Seq(FileBytes))
    BY WriterConstants
  <2>2. files \in Seq(Seq(FileBytes)) /\ buffer \in Seq(FileBytes)
    BY <1>1, <2>1, WriterConstants
  <2>3. tensor_offsets \in Seq(Nat) /\ Len(tensor_offsets) = count
    BY <1>1
  <2>4. 0 \in Nat /\ -1 \in Nat \cup {-1} /\ FALSE \in BOOLEAN
    OBVIOUS
  <2>5. count \in 0 .. Len(TensorNames)
    BY <1>1, <2>1
  <2>. QED
    BY <1>1, <2>2, <2>3, <2>4, <2>5, Zenon DEF WTypes
<1>4. OffsetsInv
  <2>1. 0 % kAlignment = 0 /\ 0 % Word = 0 /\ 0 < kBufferSize /\ Len(<<>>) = 0
    BY WriterConstants
  <2>. QED
    BY <1>1, <1>2, <2>1 DEF OffsetsInv
<1>5. RecordsInv
  BY <1>1, <1>2 DEF RecordsInv
<1>6. PartitionsInv
  <2>1. Len(files) = 0
    BY <1>1
  <2>2. Bounded(Opened)
    <3>1. Len(Opened) < kPartitionMaxSize + Word
      BY <1>2, WriterConstants
    <3>. QED
      BY <3>1 DEF Bounded
  <2>. QED
    BY <1>1, <2>1, <2>2 DEF PartitionsInv
<1>. QED
  BY <1>1, <1>3, <1>4, <1>5, <1>6 DEF WInv

\* A step keeps the state dict, and the invariant as long as no write fails.
LEMMA WriterNext == WInv /\ [WNext]_wvars => WInv'
<1> SUFFICES ASSUME WInv, [WNext]_wvars PROVE WInv'
  OBVIOUS
<1>1. data \in StateDicts /\ failures \in Nat
  BY DEF WInv
<1>2. data' = data /\ failures' \in {failures, failures + 1}
  <2>1. CASE UNCHANGED wvars
    BY <2>1 DEF wvars
  <2>2. CASE ShareRecord
    BY <2>2 DEF ShareRecord
  <2>3. CASE WriteDirect
    BY <2>3 DEF WriteDirect
  <2>4. CASE FillBuffer
    BY <2>4 DEF FillBuffer
  <2>5. CASE WriteFails
    BY <2>5 DEF WriteFails
  <2>6. ASSUME NEW ok \in BOOLEAN, BeginRecord(ok) PROVE data' = data /\ failures' \in {failures, failures + 1}
    BY <2>6 DEF BeginRecord
  <2>7. ASSUME NEW ok \in BOOLEAN, EndRecord(ok) PROVE data' = data /\ failures' \in {failures, failures + 1}
    BY <2>7 DEF EndRecord
  <2>8. ASSUME NEW ok \in BOOLEAN, WriteIndex(ok) PROVE data' = data /\ failures' \in {failures, failures + 1}
    BY <2>8 DEF WriteIndex
  <2>. QED
    BY <2>1, <2>2, <2>3, <2>4, <2>5, <2>6, <2>7, <2>8 DEF WNext
<1>3. failures' \in Nat
  BY <1>1, <1>2
<1>4. ASSUME failures' = 0 PROVE WTypes' /\ OffsetsInv' /\ RecordsInv' /\ PartitionsInv'
  <2>1. failures = 0 /\ failures' # failures + 1
    BY <1>1, <1>2, <1>4
  <2>2. WTypes /\ OffsetsInv /\ RecordsInv /\ PartitionsInv
    BY <2>1 DEF WInv
  <2>3. CASE UNCHANGED wvars
    <3>1. /\ data' = data /\ files' = files /\ buffer' = buffer /\ file_offset' = file_offset
          /\ partition_size' = partition_size /\ offset' = offset /\ count' = count
          /\ written' = written /\ tensor_offsets' = tensor_offsets /\ saved' = saved
      BY <2>3 DEF wvars
    <3>2. /\ Current' = Current /\ More' = More /\ Begun' = Begun
          /\ Stream' = Stream /\ Opened' = Opened
      BY <3>1 DEF Current, More, Begun, Stream, Opened
    <3>3. Shared' = Shared
      BY <3>1, <3>2 DEF Shared
    <3>4. WTypes'
      BY <2>2, <3>1, <3>2, <3>3 DEF WTypes
    <3>5. OffsetsInv'
      BY <2>2, <3>1, <3>2 DEF OffsetsInv
    <3>6. RecordsInv'
      BY <2>2, <3>1, <3>2 DEF RecordsInv, Recorded
    <3>7. PartitionsInv'
      BY <2>2, <3>1, <3>2 DEF PartitionsInv, Bounded, OnlyOf
    <3>. QED
      BY <3>4, <3>5, <3>6, <3>7
  <2>4. CASE ShareRecord
    BY <1>1, <2>2, <2>4, ShareRight
  <2>5. CASE WriteDirect
    BY <1>1, <2>2, <2>5, DirectRight
  <2>6. CASE FillBuffer
    BY <1>1, <2>2, <2>6, FillRight
  <2>7. CASE WriteFails
    BY <2>1, <2>7 DEF WriteFails
  <2>8. ASSUME NEW ok \in BOOLEAN, BeginRecord(ok)
        PROVE  WTypes' /\ OffsetsInv' /\ RecordsInv' /\ PartitionsInv'
    <3>1. ok = TRUE
      BY <2>1, <2>8 DEF BeginRecord
    <3>2. BeginRecord(TRUE)
      BY <2>8, <3>1
    <3>. QED
      BY <1>1, <2>2, <3>2, BeginRight
  <2>9. ASSUME NEW ok \in BOOLEAN, EndRecord(ok)
        PROVE  WTypes' /\ OffsetsInv' /\ RecordsInv' /\ PartitionsInv'
    <3>1. ok = TRUE
      BY <2>1, <2>9 DEF EndRecord
    <3>2. EndRecord(TRUE)
      BY <2>9, <3>1
    <3>. QED
      BY <1>1, <2>2, <3>2, EndRight
  <2>10. ASSUME NEW ok \in BOOLEAN, WriteIndex(ok)
         PROVE  WTypes' /\ OffsetsInv' /\ RecordsInv' /\ PartitionsInv'
    <3>1. ok = TRUE
      BY <2>1, <2>10 DEF WriteIndex
    <3>2. WriteIndex(TRUE)
      BY <2>10, <3>1
    <3>. QED
      BY <1>1, <2>2, <3>2, IndexRight
  <2>. QED
    BY <2>3, <2>4, <2>5, <2>6, <2>7, <2>8, <2>9, <2>10 DEF WNext
<1>. QED
  BY <1>1, <1>2, <1>3, <1>4 DEF WInv

\* The records are in the files when the index is written.
LEMMA RecordsPlaced == WInv => RecordsAreInPlace
<1> SUFFICES ASSUME WInv, saved, failures = 0, NEW n \in Names
             PROVE  /\ TensorOffset(n) % Word = 0
                    /\ SubSeq(Stored, TensorOffset(n) + 1, TensorOffset(n) + data[n].size) = BytesOf(n)
  BY DEF RecordsAreInPlace
<1>1. WTypes /\ OffsetsInv /\ RecordsInv /\ data \in StateDicts
  BY DEF WInv
<1>2. /\ ~More /\ written = -1 /\ buffer = <<>> /\ count \in 0 .. Len(TensorNames)
      /\ offset \in Nat /\ tensor_offsets \in Seq(Nat) /\ Len(tensor_offsets) = count
  BY <1>1 DEF WTypes
<1>3. count = Len(TensorNames) /\ Len(TensorNames) \in Nat /\ DOMAIN TensorNames = 1 .. Len(TensorNames)
  BY <1>2, WriterConstants DEF More
<1>4. Stored = Stream /\ Stored \in Seq(FileBytes) /\ Len(Stored) = offset
  <2>1. FlattenSeq(files) \in Seq(FileBytes) /\ Begun = 0
    BY <1>1, <1>2, StreamTypes DEF Begun
  <2>2. Stored = Stream
    BY <1>2, <2>1, InTwoParts DEF Stored, Stream
  <2>3. Len(Stream) = offset
    BY <1>1, <1>2, <2>1 DEF OffsetsInv
  <2>. QED
    BY <2>1, <2>2, <2>3 DEF Stored
<1>5. PICK j \in 1 .. count : TensorNames[j] = n /\ TensorOffset(n) = tensor_offsets[j]
  <2>1. \E i \in DOMAIN TensorNames : TensorNames[i] = n
    BY DEF Names, Range
  <2> DEFINE j == CHOOSE i \in DOMAIN TensorNames : TensorNames[i] = n
  <2>2. j \in DOMAIN TensorNames /\ TensorNames[j] = n
    BY <2>1
  <2>3. TensorOffset(n) = tensor_offsets[j]
    BY DEF TensorOffset
  <2> HIDE DEF j
  <2>. QED
    BY <1>3, <2>2, <2>3
<1>6. PICK at \in Nat : at = TensorOffset(n)
  BY <1>2, <1>5
<1>7. PICK size \in Nat : size = data[n].size
  BY <1>1, StorageTypes
<1>8. /\ at % Word = 0 /\ at + size <= offset
      /\ \A k \in 1 .. size : Stored[at + k] = <<data[n].ptr, k>>
  <2>1. Recorded(j)
    BY <1>1 DEF RecordsInv
  <2>. QED
    BY <1>4, <1>5, <1>6, <1>7, <2>1 DEF Recorded
<1>9. SubSeq(Stored, at + 1, at + size) = BytesOf(n)
  <2> DEFINE u == SubSeq(Stored, at + 1, at + size)
  <2>1. u = [i \in 1 .. (at + size) - (at + 1) + 1 |-> Stored[i + (at + 1) - 1]]
    BY DEF SubSeq
  <2>2. (at + size) - (at + 1) + 1 = size /\ \A i \in 1 .. size : i + (at + 1) - 1 = at + i
    OBVIOUS
  <2>3. u = [i \in 1 .. size |-> Stored[at + i]]
    BY <2>1, <2>2
  <2>4. u = [i \in 1 .. size |-> <<data[n].ptr, i>>]
    BY <1>8, <2>3
  <2>. QED
    BY <1>7, <2>4 DEF BytesOf
<1>. QED
  BY <1>6, <1>7, <1>8, <1>9

\* No byte of a storage is written twice.
LEMMA RecordsOnce == WInv => OneRecordPerStorage
<1> SUFFICES ASSUME WInv, failures = 0, NEW p \in Pointers
             PROVE  Cardinality({i \in DOMAIN Stored : Stored[i] = <<p, 1>>}) <= 1
  BY DEF OneRecordPerStorage
<1>1. WTypes /\ RecordsInv
  BY DEF WInv
<1>2. Stored \in Seq(FileBytes) /\ buffer \in Seq(FileBytes) /\ Stream = Stored \o buffer
  BY <1>1, StreamTypes DEF Stored, Stream, WTypes
<1>3. \A i \in DOMAIN Stored : i \in DOMAIN Stream /\ Stream[i] = Stored[i]
  <2> SUFFICES ASSUME NEW i \in DOMAIN Stored PROVE i \in DOMAIN Stream /\ Stream[i] = Stored[i]
    OBVIOUS
  <2>1. i \in 1 .. Len(Stored) /\ Len(Stored) \in Nat /\ Len(buffer) \in Nat
    BY <1>2
  <2>2. Stream \in Seq(FileBytes) /\ Len(Stream) = Len(Stored) + Len(buffer) /\ Stream[i] = Stored[i]
    BY <1>2, <2>1, BehindEachOther
  <2>. QED
    BY <2>1, <2>2
<1>4. <<p, 1>> # Gap
  <2>1. <<p, 1>> \in Pointers \X Nat
    OBVIOUS
  <2>. QED
    BY <2>1, WriterConstants
<1> DEFINE S == {i \in DOMAIN Stored : Stored[i] = <<p, 1>>}
<1>5. \A i, j \in S : i = j
  <2> SUFFICES ASSUME NEW i \in S, NEW j \in S PROVE i = j
    OBVIOUS
  <2>1. /\ i \in DOMAIN Stream /\ j \in DOMAIN Stream
        /\ Stream[i] = Stream[j] /\ Stream[i] # Gap
    BY <1>3, <1>4
  <2>. QED
    BY <1>1, <2>1 DEF RecordsInv
<1> HIDE DEF S
<1>6. Cardinality(S) <= 1
  <2>1. CASE S = {}
    BY <2>1, FS_EmptySet
  <2>2. CASE S # {}
    <3>1. PICK i \in S : S = {i}
      BY <1>5, <2>2
    <3>2. Cardinality({i}) = 1
      BY FS_Singleton
    <3>. QED
      BY <3>1, <3>2
  <2>. QED
    BY <2>1, <2>2
<1>. QED
  BY <1>6 DEF S

\* No partition is too large.
LEMMA PartitionsFit == WInv => PartitionsAreBounded
<1> SUFFICES ASSUME WInv, failures = 0, NEW f \in DOMAIN files PROVE Bounded(files[f])
  BY DEF PartitionsAreBounded, Bounded, OnlyOf
<1>1. WTypes /\ OffsetsInv /\ PartitionsInv /\ data \in StateDicts
  BY DEF WInv
<1>2. files \in Seq(Seq(FileBytes)) /\ buffer \in Seq(FileBytes)
  BY <1>1 DEF WTypes
<1>3. f \in 1 .. Len(files) /\ files # <<>> /\ Len(files) \in Nat
  BY <1>2
<1>4. CASE f \in 1 .. Len(files) - 1
  BY <1>1, <1>4 DEF PartitionsInv
<1>5. CASE f = Len(files)
  <2>1. files[f] \in Seq(FileBytes) /\ Opened = files[f] \o buffer
    BY <1>1, <1>3, <1>5, StreamTypes DEF Opened
  <2>2. Bounded(files[f] \o buffer)
    BY <1>1, <2>1, OpenedBounded
  <2>. QED
    BY <1>2, <2>1, <2>2, BoundedPart
<1>. QED
  BY <1>3, <1>4, <1>5

\* What save_tensors leaves on the disk is right, for every state dict and all
\* sizes of the buffer and of the partitions: the bytes of every tensor are at
\* its offset, a storage is written once, and no partition is too large.
THEOREM WrittenAlwaysRight == WSpec => []WrittenIsRight
<1>1. WInit => WInv
  BY WriterInit
<1>2. WInv /\ [WNext]_wvars => WInv'
  BY WriterNext
<1>3. WInv => WrittenIsRight
  BY RecordsPlaced, RecordsOnce, PartitionsFit DEF WrittenIsRight
<1>. QED
  BY <1>1, <1>2, <1>3, PTL DEF WSpec
=============================================================================
