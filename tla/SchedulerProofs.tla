------------------------- MODULE SchedulerProofs ---------------------------
(***************************************************************************)
(* Proofs about the two schedulers.  FcfsScheduler, for every set of       *)
(* models, requests and nodes and every number of GPUs; its lemmas about   *)
(* the GPUs in use serve the second part.  StorageAwareScheduler, for all  *)
(* sizes too, all answers of the store manager and all plans: the books    *)
(* balance, a request gets the fastest node that has room, the removal by  *)
(* index finds a request that is alone, and without migration the          *)
(* scheduler is a GpuAllocator.                                            *)
(***************************************************************************)
EXTENDS StorageAwareScheduler, SequenceLemmas

(***************************************************************************)
(* Type correctness                                                        *)
(***************************************************************************)

\* The initial state has the right types.
LEMMA InitType == Init => TypeOK
<1> SUFFICES ASSUME Init
             PROVE  TypeOK
  OBVIOUS
<1>1. /\ <<>> \in Seq(Models)
      /\ <<>> \in Seq(Requests)
      /\ <<>> \in Seq(Nodes)
  OBVIOUS
<1>2. /\ model_order \in Seq(Models)
      /\ model_loading_queues \in [Models -> Seq(Requests)]
      /\ worker_nodes \in Seq(Nodes)
  BY <1>1 DEF Init
<1>3. loading_requests \in SUBSET QueueEntry
  BY DEF Init
<1>4. /\ allocation_result \in [Requests -> Nodes \cup {NoNode}]
      /\ model_instance \in [Requests -> Nodes \cup {NoNode}]
      /\ caller \in [Requests -> {"new", "waiting", "holding", "released"}]
  BY DEF Init
<1>5. running \in BOOLEAN
  BY DEF Init
<1>6. /\ loops \in Nat
      /\ starts \in Nat
      /\ request_time \in [Requests -> Nat]
      /\ clock \in Nat
      /\ free_gpu \in [Nodes -> Int]
      /\ ray_nodes \in SUBSET Nodes
  BY DEF Init
<1>. QED
  BY <1>2, <1>3, <1>4, <1>5, <1>6 DEF TypeOK

\* An entry of the pass names a request.
LEMMA EntryReq ==
    ASSUME TypeOK, NEW e \in loading_requests
    PROVE  /\ e.req \in Requests
           /\ e.idx \in Nat \ {0}
           /\ ModelOf[e.req] \in Models
BY RequestsAssumption DEF TypeOK, QueueEntry

\* Every step preserves the types.
LEMMA NextType == TypeOK /\ [Next]_vars => TypeOK'
<1> SUFFICES ASSUME TypeOK, [Next]_vars
             PROVE  TypeOK'
  OBVIOUS
<1> USE RequestsAssumption, NodesAssumption
<1>1. CASE Start
  BY <1>1 DEF Start, TypeOK
<1>2. CASE Shutdown
  <2>1. <<>> \in Seq(Models) /\ <<>> \in Seq(Requests)
    OBVIOUS
  <2>2. /\ model_order' \in Seq(Models)
        /\ model_loading_queues' \in [Models -> Seq(Requests)]
    BY <1>2, <2>1 DEF Shutdown
  <2>3. UNCHANGED <<loops, starts, request_time, clock, allocation_result,
                    model_instance, caller, worker_nodes, free_gpu, ray_nodes,
                    loading_requests>> /\ running' = FALSE
    BY <1>2 DEF Shutdown
  <2>. QED
    BY <2>2, <2>3 DEF TypeOK
<1>3. CASE LoopExit
  BY <1>3 DEF LoopExit, TypeOK
<1>4. ASSUME NEW r \in Requests, Allocate(r)
      PROVE  TypeOK'
  BY <1>4 DEF Allocate, TypeOK
<1>5. ASSUME NEW r \in Requests, RecordInstance(r)
      PROVE  TypeOK'
  BY <1>5 DEF RecordInstance, TypeOK
<1>6. ASSUME NEW r \in Requests, Deallocate(r)
      PROVE  TypeOK'
  BY <1>6 DEF Deallocate, TypeOK
<1>7. ASSUME NEW r \in Requests, DeallocateUnknown(r)
      PROVE  TypeOK'
  BY <1>7 DEF DeallocateUnknown, TypeOK, vars
<1>8. CASE BeginPass
  <2>1. PICK joined \in SetToSeqs(ray_nodes \ Known) :
            worker_nodes' = worker_nodes \o joined
    BY <1>8 DEF BeginPass, GetWorkerNodes
  <2>2. IsFiniteSet(ray_nodes \ Known)
    BY FS_Subset DEF TypeOK
  <2>3. joined \in Seq(ray_nodes \ Known)
    BY <2>2, EnumerationIsSeq
  <2>4. joined \in Seq(Nodes)
    BY <2>3 DEF TypeOK
  <2>5. worker_nodes' \in Seq(Nodes)
    BY <2>1, <2>4 DEF TypeOK
  <2>6. free_gpu' \in [Nodes -> Int]
    BY <1>8 DEF BeginPass, GetWorkerNodes, TypeOK
  <2>8. loading_requests' \in SUBSET QueueEntry
    <3>1. \A m \in Models : model_loading_queues[m] \in Seq(Requests)
      BY DEF TypeOK
    <3>2. ASSUME NEW m \in Models, NEW i \in DOMAIN model_loading_queues[m]
          PROVE  [req |-> model_loading_queues[m][i], idx |-> i] \in QueueEntry
      BY <3>1 DEF QueueEntry
    <3>. QED
      BY <1>8, <3>2 DEF BeginPass, GetWorkerNodes, Snapshot
  <2>. QED
    BY <1>8, <2>5, <2>6, <2>8 DEF BeginPass, GetWorkerNodes, TypeOK
<1>9. ASSUME NEW e \in loading_requests, Skip(e)
      PROVE  TypeOK'
  BY <1>9 DEF Skip, TypeOK
<1>10. ASSUME NEW e \in loading_requests, NEW n \in Nodes, Place(e, n)
       PROVE  TypeOK'
  <2>1. e.req \in Requests /\ ModelOf[e.req] \in Models
    BY EntryReq
  <2>2. model_loading_queues[ModelOf[e.req]] \in Seq(Requests)
    BY <2>1 DEF TypeOK
  <2>3. PICK i \in DOMAIN model_loading_queues[ModelOf[e.req]] :
            model_loading_queues' =
                [model_loading_queues EXCEPT ![ModelOf[e.req]] =
                    RemoveAt(@, i)]
    BY <1>10 DEF Place
  <2>4. RemoveAt(model_loading_queues[ModelOf[e.req]], i) \in Seq(Requests)
    BY <2>2, <2>3, RemoveAtProperties
  <2>5. model_loading_queues' \in [Models -> Seq(Requests)]
    BY <2>1, <2>3, <2>4 DEF TypeOK
  <2>6. free_gpu' \in [Nodes -> Int]
    <3>1. free_gpu' = [free_gpu EXCEPT ![n] = @ - NumGpus[e.req]]
      BY <1>10 DEF Place
    <3>2. NumGpus[e.req] \in Int
      BY <2>1
    <3>3. free_gpu[n] - NumGpus[e.req] \in Int
      BY <3>2 DEF TypeOK
    <3>. QED
      BY <3>1, <3>3 DEF TypeOK
  <2>. QED
    BY <1>10, <2>1, <2>5, <2>6 DEF Place, TypeOK
<1>11. ASSUME NEW n \in Nodes, NodeJoins(n) \/ NodeLeaves(n)
       PROVE  TypeOK'
  BY <1>11 DEF NodeJoins, NodeLeaves, TypeOK
<1>12. CASE UNCHANGED vars
  BY <1>12 DEF vars, TypeOK
<1>. QED
  BY <1>1, <1>2, <1>3, <1>4, <1>5, <1>6, <1>7, <1>8, <1>9, <1>10, <1>11,
     <1>12 DEF Next

\* Type correctness: every variable always has its type.
THEOREM TypeCorrect == Spec => []TypeOK
BY InitType, NextType, PTL DEF Spec

(***************************************************************************)
(* The inductive invariant                                                 *)
(*                                                                         *)
(* GpuConservation alone is not inductive: a pass may only add to the      *)
(* holders of a node if the request did not hold one already, a node that  *)
(* joins must not have holders, and deallocate_resource must give back to  *)
(* the node the request was given.                                         *)
(***************************************************************************)

\* A request waits in the queue of its own model.
QueuedByModel ==
    \A m \in Models : \A i \in DOMAIN model_loading_queues[m] :
        ModelOf[model_loading_queues[m][i]] = m

\* A future is only set to a node of worker_nodes, and the caller returns with
\* the node its future was set to.
GrantsKnown ==
    \A r \in Requests :
        /\ allocation_result[r] # NoNode => /\ allocation_result[r] \in Known
                                            /\ caller[r] # "new"
        /\ caller[r] \in {"holding", "released"} =>
               allocation_result[r] # NoNode
        /\ model_instance[r] # NoNode =>
               /\ model_instance[r] = allocation_result[r]
               /\ caller[r] = "holding"

\* First-fit never takes what is not there.
NoDeficit == \A n \in Nodes : free_gpu[n] >= 0

IndInv ==
    /\ TypeOK
    /\ QueuedOnceAndPending
    /\ QueuedByModel
    /\ GrantsKnown
    /\ NoDeficit
    /\ GpuConservation

(***************************************************************************)
(* Lemmas about the GPUs of a set of requests                              *)
(***************************************************************************)

\* Every set of requests uses finitely many GPUs.
LEMMA GpusOfFinite ==
    ASSUME NEW S \in SUBSET Requests
    PROVE  IsFiniteSet(GpusOf(S))
<1> USE RequestsAssumption
<1> DEFINE cell(r) == {r} \X (1 .. NumGpus[r])
           cells == {cell(r) : r \in S}
           f == [r \in S |-> cell(r)]
<1>1. IsFiniteSet(S)
  BY FS_Subset
<1>2. f \in Surjection(S, cells)
  BY DEF Surjection
<1>3. IsFiniteSet(cells)
  BY <1>1, <1>2, FS_Surjection
<1>4. ASSUME NEW T \in cells
      PROVE  IsFiniteSet(T)
  <2>1. PICK r \in S : T = cell(r)
    OBVIOUS
  <2>2. IsFiniteSet({r})
    BY FS_Singleton
  <2>3. IsFiniteSet(1 .. NumGpus[r])
    BY FS_Interval
  <2>. QED
    BY <2>1, <2>2, <2>3, FS_Product
<1>. QED
  BY <1>3, <1>4, FS_UNION DEF GpusOf

\* One more request uses num_gpus more GPUs.
LEMMA GpusOfAdd ==
    ASSUME NEW S \in SUBSET Requests, NEW r \in Requests \ S
    PROVE  Cardinality(GpusOf(S \cup {r})) =
               Cardinality(GpusOf(S)) + NumGpus[r]
<1> USE RequestsAssumption
<1> DEFINE cell == {r} \X (1 .. NumGpus[r])
<1>1. GpusOf(S \cup {r}) = GpusOf(S) \cup cell
  BY DEF GpusOf
<1>2. GpusOf(S) \cap cell = {}
  BY DEF GpusOf
<1>3. IsFiniteSet({r}) /\ Cardinality({r}) = 1
  BY FS_Singleton
<1>4. IsFiniteSet(1 .. NumGpus[r]) /\ Cardinality(1 .. NumGpus[r]) = NumGpus[r]
  BY FS_Interval
<1>5. IsFiniteSet(cell) /\ Cardinality(cell) = NumGpus[r]
  <2>1. /\ IsFiniteSet(cell)
        /\ Cardinality(cell) = Cardinality({r}) * Cardinality(1 .. NumGpus[r])
    BY <1>3, <1>4, FS_Product
  <2>2. NumGpus[r] \in Nat
    OBVIOUS
  <2> HIDE DEF cell
  <2>. QED
    BY <1>3, <1>4, <2>1, <2>2
<1>6. IsFiniteSet(GpusOf(S))
  BY GpusOfFinite
<1>7. Cardinality(GpusOf(S)) \in Nat
  BY <1>6, FS_CardinalityType
<1>8. Cardinality({}) = 0
  BY FS_EmptySet
<1> HIDE DEF cell
<1>9. Cardinality(GpusOf(S) \cup cell) =
          Cardinality(GpusOf(S)) + Cardinality(cell) - Cardinality({})
  BY <1>2, <1>5, <1>6, FS_Union
<1>10. Cardinality(GpusOf(S \cup {r})) = Cardinality(GpusOf(S) \cup cell)
  BY <1>1
<1>11. NumGpus[r] \in Nat
  OBVIOUS
<1>. QED
  BY <1>5, <1>7, <1>8, <1>9, <1>10, <1>11

\* The number of GPUs in use is a natural number.
LEMMA GpusInUseType ==
    ASSUME NEW n
    PROVE  GpusInUse(n) \in Nat
BY GpusOfFinite, FS_CardinalityType DEF GpusInUse, Holders

(***************************************************************************)
(* Lemmas about the steps                                                  *)
(***************************************************************************)

\* First-fit picks a node of worker_nodes with enough free GPUs.
LEMMA FirstFitFits ==
    ASSUME NEW r, NEW n, FirstFit(r, n)
    PROVE  n \in Known /\ free_gpu[n] >= NumGpus[r]
BY DEF FirstFit, Fits, Known, ToSet

\* A pass begins by adding nodes Ray lists and only those, at the end.
LEMMA BeginPassNodes ==
    ASSUME TypeOK, BeginPass
    PROVE  /\ Known \subseteq Known'
           /\ Known' \subseteq Known \cup ray_nodes
<1>1. PICK joined \in SetToSeqs(ray_nodes \ Known) :
          worker_nodes' = worker_nodes \o joined
  BY DEF BeginPass, GetWorkerNodes
<1>2. IsFiniteSet(ray_nodes \ Known)
  BY NodesAssumption, FS_Subset DEF TypeOK
<1>3. joined \in Seq(ray_nodes \ Known)
  BY <1>2, EnumerationIsSeq
<1>4. /\ worker_nodes \in Seq(Nodes)
      /\ joined \in Seq(Nodes)
  BY <1>3 DEF TypeOK
<1>5. /\ Len(worker_nodes') = Len(worker_nodes) + Len(joined)
      /\ \A i \in 1 .. Len(worker_nodes) + Len(joined) :
            worker_nodes'[i] = IF i <= Len(worker_nodes)
                               THEN worker_nodes[i]
                               ELSE joined[i - Len(worker_nodes)]
      /\ worker_nodes' \in Seq(Nodes)
  BY <1>1, <1>4, ConcatProperties
<1>6. Known \subseteq Known'
  <2> SUFFICES ASSUME NEW i \in DOMAIN worker_nodes
               PROVE  worker_nodes[i] \in ToSet(worker_nodes')
    BY DEF Known, ToSet
  <2>1. i \in DOMAIN worker_nodes' /\ worker_nodes'[i] = worker_nodes[i]
    BY <1>4, <1>5
  <2>. QED
    BY <2>1 DEF ToSet
<1>7. Known' \subseteq Known \cup ray_nodes
  <2> SUFFICES ASSUME NEW i \in DOMAIN worker_nodes'
               PROVE  worker_nodes'[i] \in ToSet(worker_nodes) \cup ray_nodes
    BY DEF Known, ToSet
  <2>1. CASE i <= Len(worker_nodes)
    <3>1. i \in DOMAIN worker_nodes /\ worker_nodes'[i] = worker_nodes[i]
      BY <1>4, <1>5, <2>1
    <3>. QED
      BY <3>1 DEF ToSet
  <2>2. CASE ~(i <= Len(worker_nodes))
    <3>1. /\ i - Len(worker_nodes) \in 1 .. Len(joined)
          /\ worker_nodes'[i] = joined[i - Len(worker_nodes)]
      BY <1>4, <1>5, <2>2
    <3>. QED
      BY <1>3, <3>1
  <2>. QED
    BY <2>1, <2>2
<1>. QED
  BY <1>6, <1>7

\* Place serves a request that waits: it is taken out of its queue, and its
\* future was not set.
LEMMA PlaceRequest ==
    ASSUME IndInv, NEW e \in loading_requests, NEW n \in Nodes, Place(e, n)
    PROVE  /\ e.req \in Requests
           /\ allocation_result[e.req] = NoNode
           /\ caller[e.req] = "waiting"
           /\ n \in Known
           /\ free_gpu[n] >= NumGpus[e.req]
<1>1. e.req \in Requests /\ ModelOf[e.req] \in Models
  BY EntryReq DEF IndInv
<1>2. allocation_result[e.req] = NoNode /\ Queued(e.req)
  BY DEF Place, StillWaiting
<1>3. caller[e.req] = "waiting"
  BY <1>1, <1>2 DEF Queued, IndInv, QueuedOnceAndPending
<1>4. n \in Known /\ free_gpu[n] >= NumGpus[e.req]
  BY FirstFitFits DEF Place
<1>. QED
  BY <1>1, <1>2, <1>3, <1>4

(***************************************************************************)
(* The queues                                                              *)
(***************************************************************************)

\* Every step keeps the queues free of duplicates, of served requests and of
\* requests of other models.
LEMMA QueueStep ==
    IndInv /\ [Next]_vars => (QueuedOnceAndPending /\ QueuedByModel)'
<1> SUFFICES ASSUME IndInv, [Next]_vars
             PROVE  (QueuedOnceAndPending /\ QueuedByModel)'
  OBVIOUS
<1> USE RequestsAssumption, NodesAssumption
<1>1. CASE Start \/ LoopExit \/ UNCHANGED vars
  BY <1>1 DEF Start, LoopExit, vars, IndInv, QueuedOnceAndPending,
              QueuedByModel
<1>2. CASE Shutdown
  BY <1>2 DEF Shutdown, QueuedOnceAndPending, QueuedByModel
<1>3. ASSUME NEW r \in Requests, Allocate(r)
      PROVE  (QueuedOnceAndPending /\ QueuedByModel)'
  <2> DEFINE q == model_loading_queues
             k == ModelOf[r]
  <2>1. k \in Models /\ q \in [Models -> Seq(Requests)]
    BY DEF IndInv, TypeOK
  <2>2. /\ q' = [q EXCEPT ![k] = Append(q[k], r)]
        /\ allocation_result' = allocation_result
        /\ caller[r] = "new"
        /\ caller' = [caller EXCEPT ![r] = "waiting"]
    BY <1>3 DEF Allocate
  <2>3. allocation_result[r] = NoNode
    BY <2>2 DEF IndInv, GrantsKnown
  <2>4. \A m \in Models : \A i \in DOMAIN q[m] : q[m][i] # r
    BY <2>2 DEF IndInv, QueuedOnceAndPending
  <2>5. /\ Len(q'[k]) = Len(q[k]) + 1
        /\ \A i \in 1 .. Len(q[k]) : q'[k][i] = q[k][i]
        /\ q'[k][Len(q[k]) + 1] = r
        /\ DOMAIN q'[k] = 1 .. Len(q[k]) + 1
        /\ DOMAIN q[k] = 1 .. Len(q[k])
        /\ Len(q[k]) \in Nat
    BY <2>1, <2>2, AppendProperties
  <2>6. \A m \in Models \ {k} : q'[m] = q[m]
    BY <2>1, <2>2
  <2>7. caller \in [Requests -> {"new", "waiting", "holding", "released"}]
    BY DEF IndInv, TypeOK
  <2>8. ASSUME NEW m \in Models
        PROVE  /\ \A i, j \in DOMAIN q'[m] : q'[m][i] = q'[m][j] => i = j
               /\ \A i \in DOMAIN q'[m] :
                     /\ allocation_result'[q'[m][i]] = NoNode
                     /\ caller'[q'[m][i]] = "waiting"
                     /\ ModelOf[q'[m][i]] = m
    <3>0. /\ \A i, j \in DOMAIN q[m] : q[m][i] = q[m][j] => i = j
          /\ \A i \in DOMAIN q[m] : /\ q[m][i] \in Requests
                                    /\ allocation_result[q[m][i]] = NoNode
                                    /\ caller[q[m][i]] = "waiting"
                                    /\ ModelOf[q[m][i]] = m
      BY <2>1 DEF IndInv, QueuedOnceAndPending, QueuedByModel
    <3> HIDE DEF q, k
    <3>1. CASE m = k
      BY <2>1, <2>2, <2>3, <2>4, <2>5, <2>7, <3>0, <3>1 DEF k
    <3>2. CASE m # k
      BY <2>1, <2>2, <2>4, <2>6, <2>7, <3>0, <3>2
    <3>. QED
      BY <3>1, <3>2
  <2>. QED
    BY <2>8 DEF QueuedOnceAndPending, QueuedByModel
<1>4. ASSUME NEW r \in Requests, RecordInstance(r)
      PROVE  (QueuedOnceAndPending /\ QueuedByModel)'
  BY <1>4 DEF RecordInstance, IndInv, QueuedOnceAndPending, QueuedByModel
<1>5. ASSUME NEW r \in Requests, Deallocate(r)
      PROVE  (QueuedOnceAndPending /\ QueuedByModel)'
  BY <1>5 DEF Deallocate, IndInv, QueuedOnceAndPending, QueuedByModel,
              GrantsKnown
<1>6. ASSUME NEW r \in Requests, DeallocateUnknown(r)
      PROVE  (QueuedOnceAndPending /\ QueuedByModel)'
  BY <1>6 DEF DeallocateUnknown, vars, IndInv, QueuedOnceAndPending,
              QueuedByModel
<1>7. CASE BeginPass
  BY <1>7 DEF BeginPass, GetWorkerNodes, IndInv, QueuedOnceAndPending, QueuedByModel
<1>8. ASSUME NEW e \in loading_requests, Skip(e)
      PROVE  (QueuedOnceAndPending /\ QueuedByModel)'
  BY <1>8 DEF Skip, IndInv, QueuedOnceAndPending, QueuedByModel
<1>9. ASSUME NEW e \in loading_requests, NEW n \in Nodes, Place(e, n)
      PROVE  (QueuedOnceAndPending /\ QueuedByModel)'
  <2> DEFINE q == model_loading_queues
             r == e.req
             k == ModelOf[r]
  <2>1. r \in Requests /\ k \in Models /\ q \in [Models -> Seq(Requests)]
    BY EntryReq DEF IndInv, TypeOK
  <2>2. PICK p \in DOMAIN q[k] :
            q[k][p] = r /\ q' = [q EXCEPT ![k] = RemoveAt(q[k], p)]
    BY <1>9 DEF Place
  <2>3. /\ allocation_result' = [allocation_result EXCEPT ![r] = n]
        /\ caller' = caller
    BY <1>9 DEF Place
  <2>3a. /\ q[k] \in Seq(Requests)
         /\ \A i, j \in DOMAIN q[k] : q[k][i] = q[k][j] => i = j
         /\ \A i \in DOMAIN q[k] : /\ q[k][i] \in Requests
                                   /\ allocation_result[q[k][i]] = NoNode
                                   /\ caller[q[k][i]] = "waiting"
                                   /\ ModelOf[q[k][i]] = k
    BY <2>1 DEF IndInv, QueuedOnceAndPending, QueuedByModel
  <2>4. /\ \A i, j \in DOMAIN q'[k] : q'[k][i] = q'[k][j] => i = j
        /\ \A i \in DOMAIN q'[k] :
              \E l \in DOMAIN q[k] : l # p /\ q'[k][i] = q[k][l]
    <3> DEFINE old == q[k]
               new == RemoveAt(old, p)
    <3>1. q'[k] = new
      BY <2>1, <2>2
    <3>2. /\ old \in Seq(Requests)
          /\ p \in DOMAIN old
          /\ \A i, j \in DOMAIN old : old[i] = old[j] => i = j
      BY <2>2, <2>3a
    <3> HIDE DEF q, r, k, old
    <3>3. /\ \A i, j \in DOMAIN new : new[i] = new[j] => i = j
          /\ \A i \in DOMAIN new :
                \E l \in DOMAIN old : l # p /\ new[i] = old[l]
      BY <3>2, RemoveAtNoDuplicates, Zenon
    <3> HIDE DEF new
    <3>. QED
      BY <3>1, <3>3 DEF old
  <2>5. \A m \in Models \ {k} : q'[m] = q[m]
    BY <2>1, <2>2
  <2>6. allocation_result \in [Requests -> Nodes \cup {NoNode}]
    BY DEF IndInv, TypeOK
  <2>7. ASSUME NEW m \in Models
        PROVE  /\ \A i, j \in DOMAIN q'[m] : q'[m][i] = q'[m][j] => i = j
               /\ \A i \in DOMAIN q'[m] :
                     /\ allocation_result'[q'[m][i]] = NoNode
                     /\ caller'[q'[m][i]] = "waiting"
                     /\ ModelOf[q'[m][i]] = m
    <3>1. CASE m = k
      <4>1. ASSUME NEW i \in DOMAIN q'[k]
            PROVE  /\ q'[k][i] \in Requests \ {r}
                   /\ allocation_result[q'[k][i]] = NoNode
                   /\ caller[q'[k][i]] = "waiting"
                   /\ ModelOf[q'[k][i]] = k
        BY <2>2, <2>3a, <2>4
      <4> HIDE DEF q, r, k
      <4>. QED
        BY <2>3, <2>4, <2>6, <3>1, <4>1
    <3>2. CASE m # k
      <4>1. /\ \A i, j \in DOMAIN q[m] : q[m][i] = q[m][j] => i = j
            /\ \A i \in DOMAIN q[m] : /\ q[m][i] \in Requests
                                      /\ allocation_result[q[m][i]] = NoNode
                                      /\ caller[q[m][i]] = "waiting"
                                      /\ ModelOf[q[m][i]] = m
        BY <2>1 DEF IndInv, QueuedOnceAndPending, QueuedByModel
      <4> HIDE DEF q, r
      <4>. QED
        BY <2>1, <2>3, <2>5, <2>6, <3>2, <4>1
    <3>. QED
      BY <3>1, <3>2
  <2>. QED
    BY <2>7 DEF QueuedOnceAndPending, QueuedByModel
<1>10. ASSUME NEW n \in Nodes, NodeJoins(n) \/ NodeLeaves(n)
       PROVE  (QueuedOnceAndPending /\ QueuedByModel)'
  BY <1>10 DEF NodeJoins, NodeLeaves, IndInv, QueuedOnceAndPending,
               QueuedByModel
<1>. QED
  BY <1>1, <1>2, <1>3, <1>4, <1>5, <1>6, <1>7, <1>8, <1>9, <1>10 DEF Next

(***************************************************************************)
(* Futures and recorded instances                                          *)
(***************************************************************************)

\* Every step keeps the futures, the recorded instances and the callers
\* consistent.
LEMMA GrantsStep == IndInv /\ [Next]_vars => GrantsKnown'
<1> SUFFICES ASSUME IndInv, [Next]_vars
             PROVE  GrantsKnown'
  OBVIOUS
<1>0. /\ allocation_result \in [Requests -> Nodes \cup {NoNode}]
      /\ model_instance \in [Requests -> Nodes \cup {NoNode}]
      /\ caller \in [Requests -> {"new", "waiting", "holding", "released"}]
  BY DEF IndInv, TypeOK
<1>1. CASE Start \/ Shutdown \/ LoopExit \/ UNCHANGED vars
  BY <1>1 DEF Start, Shutdown, LoopExit, vars, IndInv, GrantsKnown, Known
<1>2. ASSUME NEW r \in Requests,
             Allocate(r) \/ RecordInstance(r) \/ Deallocate(r)
      PROVE  GrantsKnown'
  BY <1>0, <1>2 DEF Allocate, RecordInstance, Deallocate, IndInv, GrantsKnown,
                    Known
<1>3. ASSUME NEW r \in Requests, DeallocateUnknown(r)
      PROVE  GrantsKnown'
  BY <1>3 DEF DeallocateUnknown, vars, IndInv, GrantsKnown, Known
<1>4. CASE BeginPass
  <2>1. Known \subseteq Known'
    BY <1>4, BeginPassNodes DEF IndInv
  <2>. QED
    BY <1>4, <2>1 DEF BeginPass, GetWorkerNodes, IndInv, GrantsKnown
<1>5. ASSUME NEW e \in loading_requests, Skip(e)
      PROVE  GrantsKnown'
  BY <1>5 DEF Skip, IndInv, GrantsKnown, Known
<1>6. ASSUME NEW e \in loading_requests, NEW n \in Nodes, Place(e, n)
      PROVE  GrantsKnown'
  <2>1. /\ e.req \in Requests
        /\ allocation_result[e.req] = NoNode
        /\ caller[e.req] = "waiting"
        /\ n \in Known
    BY <1>6, PlaceRequest
  <2>2. Known' = Known
    BY <1>6 DEF Place, Known
  <2>3. /\ allocation_result' = [allocation_result EXCEPT ![e.req] = n]
        /\ model_instance' = model_instance
        /\ caller' = caller
    BY <1>6 DEF Place
  <2>. QED
    BY <1>0, <2>1, <2>2, <2>3 DEF IndInv, GrantsKnown
<1>7. ASSUME NEW n \in Nodes, NodeJoins(n) \/ NodeLeaves(n)
      PROVE  GrantsKnown'
  BY <1>7 DEF NodeJoins, NodeLeaves, IndInv, GrantsKnown, Known
<1>. QED
  BY <1>1, <1>2, <1>3, <1>4, <1>5, <1>6, <1>7 DEF Next

(***************************************************************************)
(* Conservation of GPUs                                                    *)
(***************************************************************************)

\* Every step keeps the balance of GPUs of every node.
LEMMA ConservationStep ==
    IndInv /\ [Next]_vars => (NoDeficit /\ GpuConservation)'
<1> SUFFICES ASSUME IndInv, [Next]_vars
             PROVE  (NoDeficit /\ GpuConservation)'
  OBVIOUS
<1> USE RequestsAssumption, NodesAssumption
<1>0. /\ allocation_result \in [Requests -> Nodes \cup {NoNode}]
      /\ model_instance \in [Requests -> Nodes \cup {NoNode}]
      /\ caller \in [Requests -> {"new", "waiting", "holding", "released"}]
      /\ free_gpu \in [Nodes -> Int]
      /\ worker_nodes \in Seq(Nodes)
      /\ ray_nodes \subseteq Nodes
  BY DEF IndInv, TypeOK
<1>a. Known \subseteq Nodes
  BY <1>0 DEF Known, ToSet
<1>b. /\ \A n \in Nodes : free_gpu[n] >= 0
      /\ \A n \in Known : free_gpu[n] + GpusInUse(n) = TotalGpus[n]
  BY DEF IndInv, NoDeficit, GpuConservation
\* Steps that change neither worker_nodes, free_gpu nor the holders.
<1>1. ASSUME worker_nodes' = worker_nodes, free_gpu' = free_gpu,
             \A n \in Known : Holders(n)' = Holders(n)
      PROVE  (NoDeficit /\ GpuConservation)'
  BY <1>1, <1>b DEF NoDeficit, GpuConservation, GpusInUse, Known
<1>2. CASE Start \/ Shutdown \/ LoopExit \/ UNCHANGED vars
  BY <1>1, <1>2 DEF Start, Shutdown, LoopExit, vars, Holders, Holds
<1>3. ASSUME NEW r \in Requests, Allocate(r) \/ RecordInstance(r)
      PROVE  (NoDeficit /\ GpuConservation)'
  <2>1. \A n \in Known : Holders(n)' = Holders(n)
    BY <1>0, <1>3 DEF Allocate, RecordInstance, Holders, Holds
  <2>. QED
    BY <1>1, <1>3, <2>1 DEF Allocate, RecordInstance
<1>4. ASSUME NEW r \in Requests, DeallocateUnknown(r)
      PROVE  (NoDeficit /\ GpuConservation)'
  BY <1>1, <1>4 DEF DeallocateUnknown, vars, Holders, Holds
<1>5. ASSUME NEW r \in Requests, Deallocate(r)
      PROVE  (NoDeficit /\ GpuConservation)'
  <2>0. PICK k \in Nodes : k = model_instance[r]
    BY <1>0, <1>5 DEF Deallocate
  <2>1. /\ model_instance[r] # NoNode
        /\ caller' = [caller EXCEPT ![r] = "released"]
        /\ allocation_result' = allocation_result
        /\ worker_nodes' = worker_nodes
    BY <1>5 DEF Deallocate
  <2>2. /\ allocation_result[r] = k
        /\ caller[r] = "holding"
        /\ k \in Known
    BY <2>0, <2>1 DEF IndInv, GrantsKnown
  <2>4. free_gpu' = [free_gpu EXCEPT ![k] = free_gpu[k] + NumGpus[r]]
    BY <1>5, <2>0, <2>2 DEF Deallocate
  <2>5. \A n \in Known \ {k} : Holders(n)' = Holders(n)
    BY <1>0, <2>1, <2>2 DEF Holders, Holds
  <2>6. /\ Holders(k)' \in SUBSET Requests
        /\ r \notin Holders(k)'
        /\ Holders(k) = Holders(k)' \cup {r}
    <3>1. Holds(r, k) /\ ~Holds(r, k)'
      BY <1>0, <2>1, <2>2 DEF Holds
    <3>2. \A q \in Requests \ {r} : Holds(q, k)' <=> Holds(q, k)
      BY <1>0, <2>1 DEF Holds
    <3>. QED
      BY <3>1, <3>2 DEF Holders
  <2>7. Cardinality(GpusOf(Holders(k)' \cup {r})) =
            Cardinality(GpusOf(Holders(k)')) + NumGpus[r]
    BY <2>6, GpusOfAdd
  <2>8. GpusInUse(k) = GpusInUse(k)' + NumGpus[r]
    BY <2>6, <2>7 DEF GpusInUse
  <2>9. \A n \in Known \ {k} : GpusInUse(n)' = GpusInUse(n)
    BY <2>5 DEF GpusInUse
  <2>10. GpusInUse(k)' \in Nat
    BY <2>6, GpusOfFinite, FS_CardinalityType DEF GpusInUse
  <2>11. NoDeficit'
    BY <1>0, <1>b, <2>4 DEF NoDeficit
  <2>12. ASSUME NEW n \in Known
         PROVE  free_gpu'[n] + GpusInUse(n)' = TotalGpus[n]
    <3>1. CASE n = k
      <4>1. free_gpu'[k] = free_gpu[k] + NumGpus[r]
        BY <1>0, <2>4
      <4>2. free_gpu[k] + GpusInUse(k) = TotalGpus[k]
        BY <1>b, <3>1
      <4>. QED
        BY <1>0, <2>8, <2>10, <3>1, <4>1, <4>2
    <3>2. CASE n # k
      BY <1>0, <1>a, <1>b, <2>4, <2>9, <3>2
    <3>. QED
      BY <3>1, <3>2
  <2>. QED
    BY <2>1, <2>11, <2>12 DEF GpuConservation, Known
<1>6. CASE BeginPass
  <2>1. /\ Known' \subseteq Known \cup ray_nodes
        /\ Known \subseteq Known'
    BY <1>6, BeginPassNodes DEF IndInv
  <2>2. /\ free_gpu' = [n \in Nodes |-> IF n \in ray_nodes \ Known
                                        THEN TotalGpus[n] ELSE free_gpu[n]]
        /\ allocation_result' = allocation_result
        /\ caller' = caller
    BY <1>6 DEF BeginPass, GetWorkerNodes
  <2>3. \A n : GpusInUse(n)' = GpusInUse(n)
    BY <2>2 DEF GpusInUse, Holders, Holds
  <2>4. NoDeficit'
    BY <1>0, <1>b, <2>2 DEF NoDeficit
  <2>5. ASSUME NEW n \in Known'
        PROVE  free_gpu'[n] + GpusInUse(n)' = TotalGpus[n]
    <3>1. CASE n \in Known
      BY <1>0, <1>a, <1>b, <2>2, <2>3, <3>1
    <3>2. CASE n \notin Known
      <4>1. n \in ray_nodes /\ n \in Nodes
        BY <1>0, <2>1, <3>2
      <4>2. \A r \in Requests : ~Holds(r, n)
        BY <3>2, <4>1 DEF IndInv, GrantsKnown, Holds
      <4>3. GpusOf(Holders(n)) = {}
        BY <4>2 DEF GpusOf, Holders
      <4>4. GpusInUse(n) = 0
        BY <4>3, FS_EmptySet DEF GpusInUse
      <4>5. free_gpu'[n] = TotalGpus[n] /\ TotalGpus[n] \in Nat
        BY <2>2, <3>2, <4>1
      <4>. QED
        BY <2>3, <4>4, <4>5
    <3>. QED
      BY <3>1, <3>2
  <2>. QED
    BY <2>4, <2>5 DEF GpuConservation
<1>7. ASSUME NEW e \in loading_requests, Skip(e)
      PROVE  (NoDeficit /\ GpuConservation)'
  BY <1>1, <1>7 DEF Skip, Holders, Holds
<1>8. ASSUME NEW e \in loading_requests, NEW k \in Nodes, Place(e, k)
      PROVE  (NoDeficit /\ GpuConservation)'
  <2> DEFINE r == e.req
  <2>1. /\ r \in Requests
        /\ allocation_result[r] = NoNode
        /\ caller[r] = "waiting"
        /\ k \in Known
        /\ free_gpu[k] >= NumGpus[r]
    BY <1>8, PlaceRequest
  <2>2. /\ allocation_result' = [allocation_result EXCEPT ![r] = k]
        /\ free_gpu' = [free_gpu EXCEPT ![k] = free_gpu[k] - NumGpus[r]]
        /\ caller' = caller
        /\ worker_nodes' = worker_nodes
    BY <1>8 DEF Place
  <2> HIDE DEF r
  <2>3. \A n \in Known \ {k} : Holders(n)' = Holders(n)
    BY <1>0, <1>a, <2>1, <2>2 DEF Holders, Holds
  <2>4. /\ Holders(k) \in SUBSET Requests
        /\ r \notin Holders(k)
        /\ Holders(k)' = Holders(k) \cup {r}
    BY <1>0, <1>a, <2>1, <2>2 DEF Holders, Holds
  <2>5. Cardinality(GpusOf(Holders(k) \cup {r})) =
            Cardinality(GpusOf(Holders(k))) + NumGpus[r]
    BY <2>1, <2>4, GpusOfAdd
  <2>6. GpusInUse(k)' = GpusInUse(k) + NumGpus[r]
    BY <2>4, <2>5 DEF GpusInUse
  <2>7. \A n \in Known \ {k} : GpusInUse(n)' = GpusInUse(n)
    BY <2>3 DEF GpusInUse
  <2>8. GpusInUse(k) \in Nat /\ NumGpus[r] \in Nat
    BY <2>1, GpusInUseType
  <2>9. NoDeficit'
    BY <1>0, <1>b, <2>1, <2>2, <2>8 DEF NoDeficit
  <2>10. ASSUME NEW n \in Known
         PROVE  free_gpu'[n] + GpusInUse(n)' = TotalGpus[n]
    <3>1. CASE n = k
      BY <1>0, <1>b, <2>1, <2>2, <2>6, <2>8, <3>1
    <3>2. CASE n # k
      BY <1>0, <1>a, <1>b, <2>2, <2>7, <3>2
    <3>. QED
      BY <3>1, <3>2
  <2>. QED
    BY <2>2, <2>9, <2>10 DEF GpuConservation, Known
<1>9. ASSUME NEW n \in Nodes, NodeJoins(n) \/ NodeLeaves(n)
      PROVE  (NoDeficit /\ GpuConservation)'
  BY <1>1, <1>9 DEF NodeJoins, NodeLeaves, Holders, Holds
<1>. QED
  BY <1>2, <1>3, <1>4, <1>5, <1>6, <1>7, <1>8, <1>9 DEF Next

(***************************************************************************)
(* The theorems                                                            *)
(***************************************************************************)

\* The inductive invariant holds at first: no node is known, no request made.
LEMMA InitInd == Init => IndInv
<1> SUFFICES ASSUME Init
             PROVE  IndInv
  OBVIOUS
<1>1. TypeOK
  BY InitType
<1>2. Known = {}
  BY DEF Init, Known, ToSet
<1>3. QueuedOnceAndPending /\ QueuedByModel
  BY DEF Init, QueuedOnceAndPending, QueuedByModel
<1>4. GrantsKnown
  BY DEF Init, GrantsKnown
<1>5. NoDeficit
  BY DEF Init, NoDeficit
<1>6. GpuConservation
  BY <1>2 DEF GpuConservation
<1>. QED
  BY <1>1, <1>3, <1>4, <1>5, <1>6 DEF IndInv

\* The inductive invariant always holds.
THEOREM Invariance == Spec => []IndInv
<1>1. IndInv /\ [Next]_vars => IndInv'
  <2> SUFFICES ASSUME IndInv, [Next]_vars
               PROVE  IndInv'
    OBVIOUS
  <2>1. TypeOK'
    BY NextType DEF IndInv
  <2>2. (QueuedOnceAndPending /\ QueuedByModel)'
    BY QueueStep
  <2>3. GrantsKnown'
    BY GrantsStep
  <2>4. (NoDeficit /\ GpuConservation)'
    BY ConservationStep
  <2>. QED
    BY <2>1, <2>2, <2>3, <2>4 DEF IndInv
<1>. QED
  BY <1>1, InitInd, PTL DEF Spec

\* Conservation of GPUs: on every node the scheduler knows, free GPUs and
\* GPUs in use always add up to the node's GPUs, so neither the control loop
\* nor deallocate_resource ever loses or invents one.
THEOREM GpusConserved == Spec => []GpuConservation
<1>1. IndInv => GpuConservation
  BY DEF IndInv
<1>. QED
  BY <1>1, Invariance, PTL

\* No node is ever overcommitted.
THEOREM NeverOvercommitted == Spec => []NoOvercommit
<1>1. IndInv => NoOvercommit
  <2> SUFFICES ASSUME IndInv, NEW n \in Nodes
               PROVE  GpusInUse(n) <= TotalGpus[n]
    BY DEF NoOvercommit
  <2>1. GpusInUse(n) \in Nat /\ TotalGpus[n] \in Nat /\ free_gpu[n] \in Int
    BY GpusInUseType, NodesAssumption DEF IndInv, TypeOK
  <2>2. CASE n \in Known
    BY <2>1, <2>2 DEF IndInv, NoDeficit, GpuConservation
  <2>3. CASE n \notin Known
    <3>1. \A r \in Requests : ~Holds(r, n)
      BY <2>3, NodesAssumption DEF IndInv, GrantsKnown, Holds
    <3>2. GpusOf(Holders(n)) = {}
      BY <3>1 DEF GpusOf, Holders
    <3>3. GpusInUse(n) = 0
      BY <3>2, FS_EmptySet DEF GpusInUse
    <3>. QED
      BY <2>1, <3>3
  <2>. QED
    BY <2>2, <2>3
<1>. QED
  BY <1>1, Invariance, PTL

\* A request is in a queue at most once and only while its future is pending.
THEOREM NoRequestServedTwice == Spec => []QueuedOnceAndPending
<1>1. IndInv => QueuedOnceAndPending
  BY DEF IndInv
<1>. QED
  BY <1>1, Invariance, PTL

(***************************************************************************)
(* The order of service                                                    *)
(*                                                                         *)
(* What a pass of the control loop knows: the entries still to look at are *)
(* ordered as their requests arrived, and every queued request that was    *)
(* looked at fits no node, since free_gpu only shrinks during a pass.      *)
(***************************************************************************)

\* The queue of a model is in order of arrival, and nothing in it is newer
\* than the clock.
QueueOrder ==
    \A m \in Models :
        /\ \A i, j \in DOMAIN model_loading_queues[m] :
              i < j => request_time[model_loading_queues[m][i]]
                           < request_time[model_loading_queues[m][j]]
        /\ \A i \in DOMAIN model_loading_queues[m] :
              request_time[model_loading_queues[m][i]] < clock

\* Entries of one model are ordered by arrival.
EntryOrder ==
    \A d, e \in loading_requests :
        /\ ModelOf[d.req] = ModelOf[e.req]
        /\ request_time[d.req] < request_time[e.req]
        => d.idx < e.idx

\* A queued request is still to be looked at or fits no node.
LookedAt ==
    \A r \in Requests :
        Queued(r) => \/ \E e \in loading_requests : e.req = r
                     \/ \A n \in Known : ~Fits(r, n)

PassInv == QueueOrder /\ EntryOrder /\ (Busy => LookedAt)

\* Every step keeps the queues in order of arrival.
LEMMA QueueOrderStep ==
    IndInv /\ QueueOrder /\ [Next]_vars => QueueOrder'
<1> SUFFICES ASSUME IndInv, QueueOrder, [Next]_vars
             PROVE  QueueOrder'
  OBVIOUS
<1> USE RequestsAssumption, NodesAssumption
<1>0. /\ model_loading_queues \in [Models -> Seq(Requests)]
      /\ request_time \in [Requests -> Nat]
      /\ clock \in Nat
  BY DEF IndInv, TypeOK
<1>1. ASSUME UNCHANGED <<model_loading_queues, request_time, clock>>
      PROVE  QueueOrder'
  BY <1>1 DEF QueueOrder
<1>2. CASE Start \/ LoopExit \/ BeginPass \/ UNCHANGED vars
  BY <1>1, <1>2 DEF Start, LoopExit, BeginPass, GetWorkerNodes, vars
<1>3. CASE Shutdown
  BY <1>3 DEF Shutdown, QueueOrder
<1>4. ASSUME NEW r \in Requests, Allocate(r)
      PROVE  QueueOrder'
  <2> DEFINE k == ModelOf[r]
             s == model_loading_queues[k]
  <2>1. k \in Models /\ s \in Seq(Requests)
    BY <1>0
  <2>2. /\ model_loading_queues' =
              [model_loading_queues EXCEPT ![k] = Append(s, r)]
        /\ request_time' = [request_time EXCEPT ![r] = clock]
        /\ clock' = clock + 1
        /\ caller[r] = "new"
    BY <1>4 DEF Allocate
  <2>3. \A m \in Models : \A i \in DOMAIN model_loading_queues[m] :
            model_loading_queues[m][i] \in Requests \ {r}
    BY <1>0, <2>2 DEF IndInv, QueuedOnceAndPending
  <2>4. ASSUME NEW m \in Models, m # k
        PROVE  /\ \A i, j \in DOMAIN model_loading_queues'[m] :
                     i < j => request_time'[model_loading_queues'[m][i]]
                                  < request_time'[model_loading_queues'[m][j]]
               /\ \A i \in DOMAIN model_loading_queues'[m] :
                     request_time'[model_loading_queues'[m][i]] < clock'
    <3>1. model_loading_queues'[m] = model_loading_queues[m]
      BY <1>0, <2>2, <2>4
    <3>. QED
      BY <1>0, <2>2, <2>3, <3>1, SMTT(30) DEF QueueOrder
  <2>5. model_loading_queues'[k] = Append(s, r)
    BY <1>0, <2>1, <2>2
  <2>6. /\ Len(Append(s, r)) = Len(s) + 1
        /\ DOMAIN Append(s, r) = 1 .. Len(s) + 1
        /\ DOMAIN s = 1 .. Len(s)
        /\ Len(s) \in Nat
        /\ \A i \in 1 .. Len(s) : Append(s, r)[i] = s[i]
        /\ Append(s, r)[Len(s) + 1] = r
    BY <2>1, AppendProperties
  <2>7. /\ \A i \in DOMAIN s : request_time'[s[i]] = request_time[s[i]]
        /\ request_time'[r] = clock
    BY <1>0, <2>1, <2>2, <2>3
  <2>8. /\ \A i, j \in DOMAIN s :
              i < j => request_time[s[i]] < request_time[s[j]]
        /\ \A i \in DOMAIN s : /\ request_time[s[i]] < clock
                               /\ request_time[s[i]] \in Nat
    BY <1>0, <2>1 DEF QueueOrder
  <2> DEFINE t == Append(s, r)
  <2> HIDE DEF k, s, t
  <2>9. /\ \A i, j \in DOMAIN t :
              i < j => request_time'[t[i]] < request_time'[t[j]]
        /\ \A i \in DOMAIN t : request_time'[t[i]] < clock'
    <3>1. ASSUME NEW i \in DOMAIN t
          PROVE  \/ i \in DOMAIN s /\ t[i] = s[i]
                 \/ i = Len(s) + 1 /\ t[i] = r
      BY <2>6 DEF t
    <3>2. \A i \in DOMAIN s : i \in 1 .. Len(s)
      BY <2>6
    <3>3. clock' = clock + 1 /\ clock \in Nat
      BY <1>0, <2>2
    <3>4. ASSUME NEW i \in DOMAIN t, NEW j \in DOMAIN t, i < j
          PROVE  request_time'[t[i]] < request_time'[t[j]]
      <4>1. i \in DOMAIN s /\ t[i] = s[i]
        BY <2>6, <3>1, <3>4 DEF t
      <4>2. CASE j \in DOMAIN s /\ t[j] = s[j]
        BY <2>7, <2>8, <3>4, <4>1, <4>2
      <4>3. CASE j = Len(s) + 1 /\ t[j] = r
        BY <2>7, <2>8, <4>1, <4>3
      <4>. QED
        BY <3>1, <4>2, <4>3
    <3>5. ASSUME NEW i \in DOMAIN t
          PROVE  request_time'[t[i]] < clock'
      BY <2>7, <2>8, <3>1, <3>3, SMTT(30)
    <3>. QED
      BY <3>4, <3>5
  <2>. QED
    BY <2>4, <2>5, <2>9 DEF QueueOrder, t
<1>5. ASSUME NEW r \in Requests,
             RecordInstance(r) \/ Deallocate(r) \/ DeallocateUnknown(r)
      PROVE  QueueOrder'
  BY <1>1, <1>5 DEF RecordInstance, Deallocate, DeallocateUnknown, vars
<1>6. ASSUME NEW e \in loading_requests, Skip(e)
      PROVE  QueueOrder'
  BY <1>1, <1>6 DEF Skip
<1>7. ASSUME NEW e \in loading_requests, NEW n \in Nodes, Place(e, n)
      PROVE  QueueOrder'
  <2> DEFINE k == ModelOf[e.req]
             s == model_loading_queues[k]
  <2>1. k \in Models /\ s \in Seq(Requests)
    BY <1>0, EntryReq DEF IndInv
  <2>2. PICK p \in DOMAIN s :
            model_loading_queues' =
                [model_loading_queues EXCEPT ![k] = RemoveAt(s, p)]
    BY <1>7 DEF Place
  <2>3. request_time' = request_time /\ clock' = clock
    BY <1>7 DEF Place
  <2> DEFINE t == RemoveAt(s, p)
  <2>4. p \in 1 .. Len(s) /\ DOMAIN s = 1 .. Len(s)
    BY <2>1
  <2>5. t \in Seq(Requests)
    BY <2>1, <2>4, RemoveAtProperties
  <2>6. \A i, j \in 1 .. Len(s) :
            i < j => request_time[s[i]] < request_time[s[j]]
    BY <2>1, <2>4 DEF QueueOrder
  <2>7. \A i, j \in 1 .. Len(t) :
            i < j => request_time[t[i]] < request_time[t[j]]
    <3> HIDE DEF s, k
    <3>1. p \in 1 .. Len(s)
      BY <2>4
    <3>. QED
      BY <1>0, <2>1, <2>6, <3>1, RemoveAtIncreasing, Zenon
  <2>8. \A i \in DOMAIN t : request_time[t[i]] < clock
    <3>1. \A i, j \in DOMAIN s : s[i] = s[j] => i = j
      BY <2>1 DEF IndInv, QueuedOnceAndPending
    <3>2. \A i \in DOMAIN s : request_time[s[i]] < clock
      BY <2>1 DEF QueueOrder
    <3> HIDE DEF s, k
    <3>3. \A i \in DOMAIN t : \E l \in DOMAIN s : l # p /\ t[i] = s[l]
      BY <2>1, <3>1, RemoveAtNoDuplicates, Zenon
    <3> HIDE DEF t
    <3>. QED
      BY <3>2, <3>3
  <2>9. DOMAIN t = 1 .. Len(t)
    BY <2>5
  <2>10. \A m \in Models :
             model_loading_queues'[m] = IF m = k THEN t
                                        ELSE model_loading_queues[m]
    BY <1>0, <2>1, <2>2
  <2> HIDE DEF k, s, t
  <2>. QED
    BY <2>3, <2>7, <2>8, <2>9, <2>10 DEF QueueOrder
<1>8. ASSUME NEW n \in Nodes, NodeJoins(n) \/ NodeLeaves(n)
      PROVE  QueueOrder'
  BY <1>1, <1>8 DEF NodeJoins, NodeLeaves
<1>. QED
  BY <1>2, <1>3, <1>4, <1>5, <1>6, <1>7, <1>8 DEF Next

\* Between passes there is nothing to keep in order.
LEMMA EntryOrderStep ==
    IndInv /\ PassInv /\ [Next]_vars => EntryOrder'
<1> SUFFICES ASSUME IndInv, PassInv, [Next]_vars
             PROVE  EntryOrder'
  OBVIOUS
<1> USE RequestsAssumption, NodesAssumption
<1>1. ASSUME loading_requests' \subseteq loading_requests,
             request_time' = request_time
      PROVE  EntryOrder'
  BY <1>1 DEF PassInv, EntryOrder
<1>2. CASE Start \/ Shutdown \/ LoopExit \/ UNCHANGED vars
  BY <1>1, <1>2 DEF Start, Shutdown, LoopExit, vars
<1>3. ASSUME NEW r \in Requests, Allocate(r)
      PROVE  EntryOrder'
  BY <1>3 DEF Allocate, Busy, EntryOrder
<1>4. ASSUME NEW r \in Requests,
             RecordInstance(r) \/ Deallocate(r) \/ DeallocateUnknown(r)
      PROVE  EntryOrder'
  BY <1>1, <1>4 DEF RecordInstance, Deallocate, DeallocateUnknown, vars
<1>5. CASE BeginPass
  <2>1. ASSUME NEW d \in Snapshot, NEW e \in Snapshot,
               ModelOf[d.req] = ModelOf[e.req],
               request_time[d.req] < request_time[e.req]
        PROVE  d.idx < e.idx
    <3>a. \A x \in Snapshot : \E m \in Models :
              \E i \in DOMAIN model_loading_queues[m] :
                  x = [req |-> model_loading_queues[m][i], idx |-> i]
      BY DEF Snapshot
    <3>b. PICK m \in Models : \E i \in DOMAIN model_loading_queues[m] :
              d = [req |-> model_loading_queues[m][i], idx |-> i]
      BY <3>a
    <3>c. PICK l \in Models : \E j \in DOMAIN model_loading_queues[l] :
              e = [req |-> model_loading_queues[l][j], idx |-> j]
      BY <3>a
    <3>1. PICK i \in DOMAIN model_loading_queues[m] :
              d = [req |-> model_loading_queues[m][i], idx |-> i]
      BY <3>b
    <3>2. PICK j \in DOMAIN model_loading_queues[l] :
              e = [req |-> model_loading_queues[l][j], idx |-> j]
      BY <3>c
    <3>3. m = l
      BY <2>1, <3>1, <3>2 DEF IndInv, QueuedByModel
    <3>4. /\ model_loading_queues[m] \in Seq(Requests)
          /\ request_time \in [Requests -> Nat]
      BY DEF IndInv, TypeOK
    <3>5. i \in Nat /\ j \in Nat
      BY <3>3, <3>4
    <3> DEFINE q == model_loading_queues[m]
    <3>6. request_time[q[i]] < request_time[q[j]]
      BY <2>1, <3>1, <3>2, <3>3
    <3>7. j < i => request_time[q[j]] < request_time[q[i]]
      BY <3>3 DEF PassInv, QueueOrder
    <3>8. request_time[q[i]] \in Nat /\ request_time[q[j]] \in Nat
      BY <3>3, <3>4
    <3>9. d.idx = i /\ e.idx = j
      BY <3>1, <3>2
    <3> HIDE DEF q
    <3>10. CASE i = j
      BY <3>6, <3>8, <3>10
    <3>. QED
      BY <3>5, <3>6, <3>7, <3>8, <3>9, <3>10
  <2>2. loading_requests' = Snapshot /\ request_time' = request_time
    BY <1>5 DEF BeginPass, GetWorkerNodes
  <2>. QED
    BY <2>1, <2>2 DEF EntryOrder
<1>6. ASSUME NEW e \in loading_requests, Skip(e)
      PROVE  EntryOrder'
  BY <1>1, <1>6 DEF Skip
<1>7. ASSUME NEW e \in loading_requests, NEW n \in Nodes, Place(e, n)
      PROVE  EntryOrder'
  BY <1>1, <1>7 DEF Place
<1>8. ASSUME NEW n \in Nodes, NodeJoins(n) \/ NodeLeaves(n)
      PROVE  EntryOrder'
  BY <1>1, <1>8 DEF NodeJoins, NodeLeaves
<1>. QED
  BY <1>2, <1>3, <1>4, <1>5, <1>6, <1>7, <1>8 DEF Next

\* Skipping a request: it is queued only if it fits no node.
LEMMA LookedAtSkip ==
    ASSUME IndInv, LookedAt, NEW e \in loading_requests, Skip(e)
    PROVE  LookedAt'
<1>1. /\ loading_requests' = loading_requests \ {e}
      /\ UNCHANGED <<model_loading_queues, worker_nodes, free_gpu>>
  BY DEF Skip
<1>2. e.req \in Requests
  BY EntryReq DEF IndInv
<1>3. ASSUME Queued(e.req)
      PROVE  \A n \in Known : ~Fits(e.req, n)
  <2>1. allocation_result[e.req] = NoNode
    BY <1>2, <1>3, RequestsAssumption DEF Queued, IndInv, QueuedOnceAndPending
  <2>. QED
    BY <1>3, <2>1 DEF Skip, StillWaiting
<1>4. ASSUME NEW r \in Requests, Queued(r)
      PROVE  \/ \E d \in loading_requests \ {e} : d.req = r
             \/ \A n \in Known : ~Fits(r, n)
  BY <1>3, <1>4 DEF LookedAt
<1>. QED
  BY <1>1, <1>4 DEF LookedAt, Queued, Fits, Known

\* Serving a request takes it out of its queue and only shrinks free_gpu.
LEMMA LookedAtPlace ==
    ASSUME IndInv, IndInv', LookedAt,
           NEW e \in loading_requests, NEW k \in Nodes, Place(e, k)
    PROVE  LookedAt'
<1> USE RequestsAssumption, NodesAssumption
<1>1. /\ loading_requests' = loading_requests \ {e}
      /\ free_gpu' = [free_gpu EXCEPT ![k] = free_gpu[k] - NumGpus[e.req]]
      /\ allocation_result' = [allocation_result EXCEPT ![e.req] = k]
      /\ worker_nodes' = worker_nodes
  BY DEF Place
<1>2. /\ e.req \in Requests
      /\ ModelOf[e.req] \in Models
      /\ free_gpu \in [Nodes -> Int]
      /\ allocation_result \in [Requests -> Nodes \cup {NoNode}]
      /\ Known \subseteq Nodes
      /\ model_loading_queues \in [Models -> Seq(Requests)]
  BY EntryReq, SMTT(30) DEF IndInv, TypeOK, Known, ToSet
<1>3. ~Queued(e.req)'
  <2>1. allocation_result'[e.req] # NoNode
    BY <1>1, <1>2
  <2>. QED
    BY <1>2, <2>1 DEF Queued, IndInv, QueuedOnceAndPending
<1>4. ASSUME NEW r \in Requests, Queued(r)'
      PROVE  Queued(r)
  <2> DEFINE s == model_loading_queues[ModelOf[e.req]]
  <2>1. PICK p \in DOMAIN s :
            model_loading_queues' =
                [model_loading_queues EXCEPT ![ModelOf[e.req]] =
                    RemoveAt(s, p)]
    BY DEF Place
  <2>2. s \in Seq(Requests)
    BY <1>2
  <2>3. \A i, j \in DOMAIN s : s[i] = s[j] => i = j
    BY <1>2 DEF IndInv, QueuedOnceAndPending
  <2> DEFINE t == RemoveAt(s, p)
  <2>4. \A i \in DOMAIN t : \E l \in DOMAIN s : l # p /\ t[i] = s[l]
    <3> HIDE DEF s
    <3>. QED
      BY <2>1, <2>2, <2>3, RemoveAtNoDuplicates, Zenon
  <2>5. model_loading_queues'[ModelOf[r]] =
            IF ModelOf[r] = ModelOf[e.req] THEN t
            ELSE model_loading_queues[ModelOf[r]]
    BY <1>2, <2>1
  <2> HIDE DEF t
  <2>6. CASE ModelOf[r] = ModelOf[e.req]
    BY <1>4, <2>4, <2>5, <2>6 DEF Queued
  <2>7. CASE ModelOf[r] # ModelOf[e.req]
    BY <1>4, <2>5, <2>7 DEF Queued
  <2>. QED
    BY <2>6, <2>7
<1>5. ASSUME NEW r \in Requests, NEW n \in Known, ~Fits(r, n)
      PROVE  ~Fits(r, n)'
  <2>1. /\ n \in Nodes
        /\ free_gpu[n] \in Int
        /\ free_gpu'[n] \in Int
        /\ NumGpus[r] \in Nat
        /\ NumGpus[e.req] \in Nat
    BY <1>1, <1>2
  <2>2. free_gpu'[n] <= free_gpu[n]
    BY <1>1, <1>2, <2>1
  <2>. QED
    BY <1>5, <2>1, <2>2 DEF Fits
<1>6. Known' = Known
  BY <1>1 DEF Known
<1>7. ASSUME NEW r \in Requests, Queued(r)'
      PROVE  \/ \E d \in loading_requests' : d.req = r
             \/ \A n \in Known' : ~Fits(r, n)'
  <2>1. Queued(r) /\ r # e.req
    BY <1>3, <1>4, <1>7
  <2>2. CASE \E d \in loading_requests : d.req = r
    BY <1>1, <2>1, <2>2
  <2>3. CASE \A n \in Known : ~Fits(r, n)
    BY <1>5, <1>6, <2>3
  <2>. QED
    BY <2>1, <2>2, <2>3 DEF LookedAt
<1>. QED
  BY <1>7 DEF LookedAt

\* During a pass every queued request is still to be looked at or does not
\* fit.
LEMMA LookedAtStep ==
    IndInv /\ IndInv' /\ PassInv /\ [Next]_vars => (Busy => LookedAt)'
<1> SUFFICES ASSUME IndInv, IndInv', PassInv, [Next]_vars, Busy'
             PROVE  LookedAt'
  OBVIOUS
<1>1. ASSUME Busy, loading_requests' = loading_requests,
             model_loading_queues' = model_loading_queues,
             worker_nodes' = worker_nodes, free_gpu' = free_gpu
      PROVE  LookedAt'
  BY <1>1 DEF PassInv, LookedAt, Queued, Fits, Known
<1>2. CASE Start \/ Shutdown \/ LoopExit
  BY <1>2 DEF Start, Shutdown, LoopExit, Busy
<1>3. ASSUME NEW r \in Requests,
             \/ Allocate(r)
             \/ RecordInstance(r)
             \/ Deallocate(r)
             \/ DeallocateUnknown(r)
      PROVE  LookedAt'
  BY <1>3 DEF Allocate, RecordInstance, Deallocate, DeallocateUnknown, vars,
              Busy
<1>4. CASE BeginPass
  <2>1. ASSUME NEW r \in Requests, Queued(r)
        PROVE  \E e \in Snapshot : e.req = r
    <3>1. ModelOf[r] \in Models
      BY RequestsAssumption
    <3>2. PICK i \in DOMAIN model_loading_queues[ModelOf[r]] :
              model_loading_queues[ModelOf[r]][i] = r
      BY <2>1 DEF Queued
    <3>3. [req |-> r, idx |-> i] \in Snapshot
      BY <3>1, <3>2 DEF Snapshot
    <3>. QED
      BY <3>3
  <2>2. /\ loading_requests' = Snapshot
        /\ model_loading_queues' = model_loading_queues
    BY <1>4 DEF BeginPass, GetWorkerNodes
  <2>. QED
    BY <2>1, <2>2 DEF LookedAt, Queued
<1>5. ASSUME NEW e \in loading_requests, Skip(e)
      PROVE  LookedAt'
  BY <1>5, LookedAtSkip DEF PassInv, Busy
<1>6. ASSUME NEW e \in loading_requests, NEW n \in Nodes, Place(e, n)
      PROVE  LookedAt'
  BY <1>6, LookedAtPlace DEF PassInv, Busy
<1>7. CASE \/ UNCHANGED vars
           \/ \E n \in Nodes : NodeJoins(n) \/ NodeLeaves(n)
  BY <1>1, <1>7 DEF NodeJoins, NodeLeaves, vars, Busy
<1>. QED
  BY <1>2, <1>3, <1>4, <1>5, <1>6, <1>7 DEF Next

\* The invariant of the order of service always holds.
THEOREM PassInvariance == Spec => []PassInv
<1>1. Init => PassInv
  BY DEF Init, PassInv, QueueOrder, EntryOrder, Busy
<1>2. IndInv /\ IndInv' /\ PassInv /\ [Next]_vars => PassInv'
  BY QueueOrderStep, EntryOrderStep, LookedAtStep DEF PassInv
<1>. QED
  BY <1>1, <1>2, Invariance, PTL DEF Spec

\* Only a step of the control loop sets a future.
LEMMA OnlyPlaceGrants ==
    ASSUME IndInv, [Next]_vars, NEW r \in Requests, Grants(r)
    PROVE  \E e \in loading_requests, n \in Nodes : Place(e, n) /\ e.req = r
<1>1. allocation_result' # allocation_result
  BY DEF Grants
<1>2. \E e \in loading_requests, n \in Nodes : Place(e, n)
  BY <1>1 DEF Next, Start, Shutdown, LoopExit, Allocate, RecordInstance,
              Deallocate, DeallocateUnknown, BeginPass, GetWorkerNodes, Skip, NodeJoins,
              NodeLeaves, vars
<1>3. PICK e \in loading_requests, n \in Nodes : Place(e, n)
  BY <1>2
<1>4. allocation_result' = [allocation_result EXCEPT ![e.req] = n]
  BY <1>3 DEF Place
<1>5. e.req = r
  BY <1>4 DEF Grants, IndInv, TypeOK
<1>. QED
  BY <1>3, <1>5

\* Requests of one model are served in the order of their arrival, whatever
\* the other models do: no request overtakes an earlier one of its model that
\* needs no more GPUs.
THEOREM ServedInOrder == Spec => FifoPerModel
<1>1. IndInv /\ PassInv /\ [Next]_vars =>
      [\A r, q \in Requests :
           /\ Grants(r)
           /\ ModelOf[q] = ModelOf[r]
           /\ request_time[q] < request_time[r]
           /\ NumGpus[q] <= NumGpus[r]
           => ~Queued(q)]_vars
  <2> SUFFICES ASSUME IndInv, PassInv, [Next]_vars,
                      NEW r \in Requests, NEW q \in Requests,
                      Grants(r),
                      ModelOf[q] = ModelOf[r],
                      request_time[q] < request_time[r],
                      NumGpus[q] <= NumGpus[r],
                      Queued(q)
               PROVE  FALSE
    OBVIOUS
  <2>1. PICK e \in loading_requests, n \in Nodes : Place(e, n) /\ e.req = r
    BY OnlyPlaceGrants
  <2>2. n \in Known /\ free_gpu[n] >= NumGpus[r]
    BY <2>1, FirstFitFits DEF Place
  <2>3. /\ NumGpus[r] \in Nat /\ NumGpus[q] \in Nat
        /\ free_gpu[n] \in Int
    BY RequestsAssumption DEF IndInv, TypeOK
  <2>4. Fits(q, n)
    BY <2>2, <2>3 DEF Fits
  <2>5. PICK d \in loading_requests : d.req = q
    BY <2>1, <2>2, <2>4 DEF PassInv, Busy, LookedAt
  <2>6. d.idx < e.idx
    BY <2>1, <2>5 DEF PassInv, EntryOrder
  <2>7. d # e
    <3>1. d.idx \in Nat
      BY EntryReq DEF IndInv
    <3>. QED
      BY <2>6, <3>1
  <2>8. Before(d, e)
    BY <2>6 DEF Before
  <2>. QED
    BY <2>1, <2>7, <2>8 DEF Place, IsNext
<1>. QED
  BY <1>1, Invariance, PassInvariance, PTL DEF Spec, FifoPerModel

\* When a pass ends no queued request fits any node: the control loop never
\* goes to sleep on GPUs it could have handed out.
THEOREM NoIdleCapacity == Spec => WorkConserving
<1>1. IndInv /\ IndInv' /\ PassInv /\ [Next]_vars =>
      [Busy /\ ~Busy' => NoQueuedFits']_vars
  <2> SUFFICES ASSUME IndInv, IndInv', PassInv, [Next]_vars, Busy, ~Busy'
               PROVE  NoQueuedFits'
    OBVIOUS
  <2>1. LookedAt
    BY DEF PassInv
  <2>2. \/ \E e \in loading_requests : Skip(e)
        \/ \E e \in loading_requests, n \in Nodes : Place(e, n)
    BY DEF Next, Start, Shutdown, LoopExit, Allocate, RecordInstance,
           Deallocate, DeallocateUnknown, BeginPass, GetWorkerNodes, NodeJoins, NodeLeaves,
           vars, Busy
  <2>3. LookedAt'
    BY <2>1, <2>2, LookedAtSkip, LookedAtPlace
  <2>. QED
    BY <2>3 DEF LookedAt, NoQueuedFits, Busy
<1>. QED
  BY <1>1, Invariance, PassInvariance, PTL DEF Spec, WorkConserving

(***************************************************************************)
(* Refinement                                                              *)
(***************************************************************************)

\* The initial state of the scheduler is one of the allocator.
LEMMA AllocatorInit == Init => Allocator!Init
BY DEF Init, Allocator!Init

\* Every step of the scheduler is one of the allocator or a stutter.
LEMMA AllocatorStep == IndInv /\ [Next]_vars => [Allocator!Next]_Allocator!vars
<1> DEFINE owner(r) == IF caller[r] = "released" THEN NoNode
                       ELSE allocation_result[r]
<1> SUFFICES ASSUME IndInv, [Next]_vars
             PROVE  [Allocator!Next]_Allocator!vars
  OBVIOUS
<1> USE RequestsAssumption, NodesAssumption
<1>0. /\ allocation_result \in [Requests -> Nodes \cup {NoNode}]
      /\ caller \in [Requests -> {"new", "waiting", "holding", "released"}]
      /\ model_instance \in [Requests -> Nodes \cup {NoNode}]
  BY DEF IndInv, TypeOK
<1>1. ASSUME UNCHANGED <<allocation_result, caller>>
      PROVE  UNCHANGED Allocator!vars
  BY <1>1 DEF Allocator!vars
<1>2. CASE Start \/ Shutdown \/ LoopExit \/ BeginPass \/ UNCHANGED vars
  BY <1>1, <1>2 DEF Start, Shutdown, LoopExit, BeginPass, GetWorkerNodes, vars
<1>3. ASSUME NEW r \in Requests, Allocate(r) \/ RecordInstance(r)
      PROVE  UNCHANGED Allocator!vars
  <2>1. /\ allocation_result' = allocation_result
        /\ \A q \in Requests :
              caller'[q] = "released" <=> caller[q] = "released"
    BY <1>0, <1>3 DEF Allocate, RecordInstance
  <2>. QED
    BY <2>1 DEF Allocator!vars
<1>4. ASSUME NEW r \in Requests, Deallocate(r)
      PROVE  Allocator!Release(r)
  <2>1. /\ model_instance[r] # NoNode
        /\ caller' = [caller EXCEPT ![r] = "released"]
        /\ allocation_result' = allocation_result
    BY <1>4 DEF Deallocate
  <2>2. caller[r] = "holding" /\ allocation_result[r] # NoNode
    BY <2>1 DEF IndInv, GrantsKnown
  <2>. QED
    BY <1>0, <2>1, <2>2, ZenonT(40) DEF Allocator!Release
<1>5. ASSUME NEW r \in Requests, DeallocateUnknown(r)
      PROVE  UNCHANGED Allocator!vars
  BY <1>1, <1>5 DEF DeallocateUnknown, vars
<1>6. ASSUME NEW e \in loading_requests, Skip(e)
      PROVE  UNCHANGED Allocator!vars
  BY <1>1, <1>6 DEF Skip
<1>7. ASSUME NEW e \in loading_requests, NEW n \in Nodes, Place(e, n)
      PROVE  Allocator!Grant(e.req, n)
  <2>1. /\ e.req \in Requests
        /\ allocation_result[e.req] = NoNode
        /\ caller[e.req] = "waiting"
        /\ n \in Known
        /\ free_gpu[n] >= NumGpus[e.req]
    BY <1>7, PlaceRequest
  <2>2. /\ allocation_result' = [allocation_result EXCEPT ![e.req] = n]
        /\ caller' = caller
    BY <1>7 DEF Place
  <2>3. {q \in Requests : [r \in Requests |-> owner(r)][q] = n} = Holders(n)
    BY <1>0 DEF Holders, Holds
  <2>4. Allocator!OwnedGpus(n) = GpusOf(Holders(n))
    BY <2>3 DEF Allocator!OwnedGpus, GpusOf
  <2>5. Cardinality(Allocator!OwnedGpus(n)) = GpusInUse(n)
    BY <2>4 DEF GpusInUse
  <2>6. GpusInUse(n) + NumGpus[e.req] <= TotalGpus[n]
    <3>1. /\ free_gpu[n] + GpusInUse(n) = TotalGpus[n]
          /\ free_gpu[n] \in Int
      BY <2>1 DEF IndInv, GpuConservation, TypeOK
    <3>2. GpusInUse(n) \in Nat /\ NumGpus[e.req] \in Nat
      BY <2>1, GpusInUseType
    <3>. QED
      BY <2>1, <3>1, <3>2
  <2>6a. \A S : Allocator!Cardinality(S) = Cardinality(S)
    BY DEF Allocator!Cardinality, Cardinality, Allocator!IsFiniteSet,
           IsFiniteSet
  <2>6b. Allocator!Cardinality(Allocator!OwnedGpus(n)) + NumGpus[e.req]
             <= TotalGpus[n]
    BY <2>5, <2>6, <2>6a
  <2>7. /\ [r \in Requests |-> owner(r)][e.req] = NoNode
        /\ e.req \notin {r \in Requests : caller[r] = "released"}
    BY <2>1
  <2>8. [r \in Requests |-> owner(r)]' =
            [[r \in Requests |-> owner(r)] EXCEPT ![e.req] = n]
    BY <1>0, <2>1, <2>2
  <2>9. {r \in Requests : caller[r] = "released"}' =
            {r \in Requests : caller[r] = "released"}
    BY <2>2
  <2>. QED
    BY <2>6b, <2>7, <2>8, <2>9 DEF Allocator!Grant
<1>8. ASSUME NEW n \in Nodes, NodeJoins(n) \/ NodeLeaves(n)
      PROVE  UNCHANGED Allocator!vars
  BY <1>1, <1>8 DEF NodeJoins, NodeLeaves
<1>9. ASSUME NEW e \in loading_requests
      PROVE  e.req \in Requests
  BY EntryReq DEF IndInv
<1>. QED
  BY <1>2, <1>3, <1>4, <1>5, <1>6, <1>7, <1>8, <1>9 DEF Next, Allocator!Next

\* The scheduler implements the abstract allocator.
THEOREM Refinement == Spec => ImplementsAllocator
BY AllocatorInit, AllocatorStep, Invariance, PTL
   DEF Spec, Allocator!Spec, ImplementsAllocator

-----------------------------------------------------------------------------
(* The storage-aware scheduler *)

(***************************************************************************)
(* The inductive invariant                                                 *)
(***************************************************************************)

\* What the control loop has in its hands at each of its points: a request
\* while a pass goes on, and nodes that the scheduler knows.
LoopInv ==
    LET at == loop.at IN
    /\ loops = IF at \in {"none", "dead"} THEN 0 ELSE 1
    /\ starts = 0 => at = "none"
    /\ loop.todo = <<>> <=>
           at \in {"none", "asleep", "update", "write", "dead"}
    /\ at \in {"lock", "status"} => loop.nodes # <<>>
    /\ at \in {"migrate", "moved"} => loop.plan # <<>>
    /\ at \in {"evict", "migrate", "moved"} => loop.node \in Known
    /\ ToSet(loop.nodes) \subseteq Known
    /\ \A k \in DOMAIN loop.plan : loop.plan[k].target \in Known
    /\ \A o \in loop.options :
           /\ o.node \in Known
           /\ \A k \in DOMAIN o.plan : o.plan[k].target \in Known

\* Futures are set to nodes of worker_nodes and recorded instances agree with
\* them, for instances that are started by migration too.
CallersInv ==
    /\ \A r \in Requests :
           /\ allocation_result[r] # NoNode => /\ allocation_result[r] \in Known
                                               /\ caller[r] # "new"
           /\ caller[r] \in {"migrating", "holding", "released"} =>
                  allocation_result[r] # NoNode
           /\ model_instance[r] # NoNode =>
                  model_instance[r] = allocation_result[r]
           /\ caller[r] = "holding" => model_instance[r] # NoNode
    /\ loop.at = "migrate" => /\ loop.inst \in Requests
                              /\ caller[loop.inst] = "migrating"
                              /\ allocation_result[loop.inst] = Move.target

\* The queues hold requests that were made, each once and under its model.
QueuesInv ==
    /\ clock > 0
    /\ \A m \in Models :
           LET queue == model_loading_queues[m] IN
           /\ IsInjective(queue)
           /\ \A i \in DOMAIN queue : /\ ModelOf[queue[i]] = m
                                      /\ caller[queue[i]] # "new"
                                      /\ request_time[queue[i]] > 0
           /\ queue # <<>> => m \in ToSet(model_order)

SameSize == \A r, q \in Requests : NumGpus[r] = NumGpus[q]

\* The copy that is about to be written back counts no GPU as free that an
\* instance holds.
WriteInv ==
    loop.at = "write" /\ SameSize =>
        \A n \in Known : loop.seen[n] + GpusInUse(n) <= TotalGpus[n]

\* Without migration no one else runs between the look at a node and the
\* grant: the options have room, are timed rightly and are all there are.
PlainInv ==
    ~enable_migration =>
        /\ loop.at \notin {"lock", "status", "migrate", "moved", "write"}
        /\ ~loop.contended /\ loop.plan = <<>>
        /\ \A o \in loop.options : o.plan = <<>>
        /\ \A n \in Known : free_gpu[n] >= 0
        /\ loop.at = "schedule" =>
               /\ \A o \in loop.options :
                      /\ Fits(Current, o.node) /\ Stored(Model, o.node)
                      /\ o.latency = Latency(Model, o.node)
               /\ \A n \in Known \ ToSet(loop.nodes) :
                      Stored(Model, n) /\ Fits(Current, n) =>
                          \E o \in loop.options : o.node = n
        /\ loop.at = "evict" =>
               /\ Fits(Current, loop.node) /\ Stored(Model, loop.node)
               /\ \A n \in Known :
                      Stored(Model, n) /\ Fits(Current, n) =>
                          Latency(Model, loop.node) <= Latency(Model, n)

\* No other request of the model was ever made.
Alone(r) == \A q \in Requests :
                ModelOf[q] = ModelOf[r] /\ request_time[q] > 0 => q = r

\* The requests of a pass are different ones; one that is alone is where it
\* was when the pass began, and still waits.
Todo(k) == loop.todo[k].req
TodoInv ==
    /\ \A k, l \in DOMAIN loop.todo : Todo(k) = Todo(l) => k = l
    /\ \A k \in DOMAIN loop.todo :
           /\ caller[Todo(k)] # "new" /\ request_time[Todo(k)] > 0
           /\ running /\ Alone(Todo(k)) /\ ~(k = 1 /\ loop.at = "load") =>
                  /\ loop.todo[k].idx = 1
                  /\ model_loading_queues[ModelOf[Todo(k)]] = <<Todo(k)>>
                  /\ ModelOf[Todo(k)] \in ToSet(model_order)
                  /\ allocation_result[Todo(k)] = NoNode

\* A request that is alone in its queue has not been served.
AloneInv ==
    \A r \in Requests : Alone(r) /\ Queued(r) => allocation_result[r] = NoNode

\* Without migration no GPU is lost.
ConservedInv == ~enable_migration => GpuConservation

SAIndInv ==
    /\ SATypeOK /\ LoopInv /\ CallersInv /\ QueuesInv /\ TodoInv /\ AloneInv
    /\ ConservedInv /\ FreeIsFree /\ WriteInv /\ PlainInv

(***************************************************************************)
(* Types                                                                   *)
(***************************************************************************)

\* The loop has nothing in its hands when it sleeps.
LEMMA AsleepType ==
    /\ Asleep \in LoopRecords
    /\ Asleep.at = "asleep" /\ Asleep.todo = <<>> /\ Asleep.nodes = <<>>
    /\ Asleep.options = {} /\ Asleep.plan = <<>> /\ Asleep.node = NoNode
    /\ Asleep.inst = NoNode /\ Asleep.contended = FALSE
    /\ Asleep.seen \in [Nodes -> Int]
<1>1. \A S : << >> \in Seq(S)
  OBVIOUS
<1>2. [n \in Nodes |-> 0] \in [Nodes -> Int]
  OBVIOUS
<1>. QED
  BY <1>1, <1>2 DEF Asleep, LoopRecords

\* A request in the middle of a pass.
LEMMA CurrentType ==
    ASSUME SATypeOK, loop.todo # <<>>
    PROVE  /\ Current \in Requests /\ Model \in Models
           /\ Head(loop.todo).idx \in Nat \ {0}
           /\ Head(loop.todo) = loop.todo[1] /\ 1 \in DOMAIN loop.todo
           /\ Tail(loop.todo) \in Seq(QueueEntry)
           /\ NumGpus[Current] \in Nat
<1>1. loop.todo \in Seq(QueueEntry)
  BY DEF SATypeOK, LoopRecords
<1>2. /\ Head(loop.todo) \in QueueEntry /\ Tail(loop.todo) \in Seq(QueueEntry)
      /\ Head(loop.todo) = loop.todo[1] /\ 1 \in DOMAIN loop.todo
  BY <1>1
<1>. QED
  BY <1>2, RequestsAssumption DEF Current, Model, QueueEntry

\* The fields of the loop's record keep their types, one by one.
LEMMA LoopFields ==
    ASSUME loop \in LoopRecords
    PROVE  /\ \A v \in {"none", "asleep", "info", "schedule", "lock",
                        "status", "evict", "migrate", "moved", "load",
                        "update", "write", "dead"} :
                  [loop EXCEPT !.at = v] \in LoopRecords
           /\ \A v \in Seq(QueueEntry) : [loop EXCEPT !.todo = v] \in LoopRecords
           /\ loop.at \in {"none", "asleep", "info", "schedule", "lock",
                           "status", "evict", "migrate", "moved", "load",
                           "update", "write", "dead"}
           /\ loop.todo \in Seq(QueueEntry)
           /\ loop.nodes \in Seq(Nodes)
           /\ loop.options \in SUBSET Option
           /\ loop.plan \in Seq([source : Requests, target : Nodes])
           /\ loop.node \in Nodes \cup {NoNode}
           /\ loop.inst \in Requests \cup {NoNode}
           /\ loop.seen \in [Nodes -> Int]
           /\ loop.contended \in BOOLEAN
BY DEF LoopRecords

\* A node has been dealt with.
LEMMA NextNodeType ==
    ASSUME SATypeOK, loop.nodes # <<>>
    PROVE  /\ NextNode \in LoopRecords
           /\ NextNode.at = "schedule" /\ NextNode.nodes = Tail(loop.nodes)
           /\ NextNode.todo = loop.todo /\ NextNode.options = loop.options
           /\ NextNode.plan = loop.plan
           /\ NextNode.contended = loop.contended
           /\ Node \in Nodes /\ Node \in ToSet(loop.nodes)
           /\ Node = loop.nodes[1]
           /\ ToSet(loop.nodes) = {Node} \cup ToSet(Tail(loop.nodes))
<1>1. loop \in LoopRecords /\ loop.nodes \in Seq(Nodes)
  BY LoopFields DEF SATypeOK
<1>2. Tail(loop.nodes) \in Seq(Nodes) /\ Node \in Nodes /\ Node = loop.nodes[1]
  BY <1>1 DEF Node
<1>3. loop.nodes = <<Node>> \o Tail(loop.nodes)
  BY <1>1 DEF Node
<1>4. ToSet(loop.nodes) = {Node} \cup ToSet(Tail(loop.nodes))
  <2>1. \A e \in Nodes, s \in Seq(Nodes) :
            ToSet(<<e>> \o s) = {e} \cup ToSet(s)
    BY PrependElements
  <2>2. ToSet(<<Node>> \o Tail(loop.nodes)) = {Node} \cup ToSet(Tail(loop.nodes))
    BY <1>2, <2>1, Zenon
  <2>. QED
    BY <1>3, <2>2, Zenon
<1>5. Asleep.seen \in [Nodes -> Int]
  BY AsleepType
<1>6. NextNode \in LoopRecords
  BY <1>1, <1>2, <1>5 DEF NextNode, LoopRecords
<1>7. /\ NextNode.at = "schedule" /\ NextNode.nodes = Tail(loop.nodes)
      /\ NextNode.todo = loop.todo /\ NextNode.options = loop.options
      /\ NextNode.plan = loop.plan
      /\ NextNode.contended = loop.contended
  BY <1>1 DEF NextNode, LoopRecords
<1>. QED
  BY <1>2, <1>4, <1>6, <1>7

\* A request has been dealt with: it is the next one's turn, or the pass ends.
LEMMA NextRequestType ==
    ASSUME SATypeOK, loop.todo # <<>>
    PROVE  /\ NextRequest \in LoopRecords
           /\ NextRequest.options = {} /\ NextRequest.plan = <<>>
           /\ NextRequest.contended = loop.contended
           /\ \/ /\ NextRequest.at = "update" /\ NextRequest.todo = <<>>
                 /\ NextRequest.nodes = <<>>
              \/ /\ NextRequest.at = "schedule"
                 /\ NextRequest.todo = Tail(loop.todo)
                 /\ NextRequest.todo # <<>>
                 /\ NextRequest.nodes = worker_nodes
<1>1. /\ loop.todo \in Seq(QueueEntry) /\ loop.contended \in BOOLEAN
      /\ worker_nodes \in Seq(Nodes)
  BY LoopFields DEF SATypeOK
<1>2. Tail(loop.todo) \in Seq(QueueEntry)
  BY <1>1
<1>3. Len(loop.todo) # 1 => Tail(loop.todo) # <<>>
  <2>1. Len(Tail(loop.todo)) = Len(loop.todo) - 1 /\ Len(loop.todo) \in Nat
    BY <1>1, HeadTailProperties
  <2>2. Len(<<>>) = 0
    OBVIOUS
  <2>3. Tail(loop.todo) = <<>> => Len(Tail(loop.todo)) = 0
    BY <2>2
  <2>. QED
    BY <2>1, <2>3
<1>4. Asleep \in LoopRecords
  BY AsleepType
<1>5. /\ Asleep.todo = <<>> /\ Asleep.nodes = <<>> /\ Asleep.options = {}
      /\ Asleep.plan = <<>>
  BY AsleepType
<1> HIDE DEF Asleep
<1>6. CASE Len(loop.todo) = 1
  <2> DEFINE rec == [Asleep EXCEPT !.at = "update",
                                   !.contended = loop.contended]
  <2>1. NextRequest = rec
    BY <1>6 DEF NextRequest
  <2>2. /\ rec \in LoopRecords
        /\ rec.options = {} /\ rec.plan = <<>>
        /\ rec.contended = loop.contended
        /\ rec.at = "update" /\ rec.todo = <<>> /\ rec.nodes = <<>>
    BY <1>1, <1>4, <1>5 DEF LoopRecords
  <2>. QED
    BY <2>1, <2>2
<1>7. CASE Len(loop.todo) # 1
  <2> DEFINE rec == [Asleep EXCEPT !.at = "schedule",
                         !.contended = loop.contended,
                         !.todo = Tail(loop.todo), !.nodes = worker_nodes]
  <2>1. NextRequest = rec
    BY <1>7 DEF NextRequest
  <2>2. /\ rec \in LoopRecords
        /\ rec.options = {} /\ rec.plan = <<>>
        /\ rec.contended = loop.contended
        /\ rec.at = "schedule" /\ rec.todo = Tail(loop.todo)
        /\ rec.nodes = worker_nodes
    BY <1>1, <1>2, <1>4, <1>5 DEF LoopRecords
  <2>. QED
    BY <1>3, <1>7, <2>1, <2>2
<1>. QED
  BY <1>6, <1>7

\* _get_worker_nodes() adds nodes that Ray lists and only those.
LEMMA WorkerNodes ==
    ASSUME SATypeOK, GetWorkerNodes
    PROVE  /\ worker_nodes' \in Seq(Nodes) /\ free_gpu' \in [Nodes -> Int]
           /\ Known \subseteq Known'
           /\ Known' \subseteq Known \cup ray_nodes
           /\ \A n \in Known : free_gpu'[n] = free_gpu[n]
           /\ \A n \in Known' \ Known : free_gpu'[n] = TotalGpus[n]
<1>1. PICK joined \in SetToSeqs(ray_nodes \ Known) :
          worker_nodes' = worker_nodes \o joined
  BY DEF GetWorkerNodes
<1>2. IsFiniteSet(ray_nodes \ Known)
  BY NodesAssumption, FS_Subset DEF SATypeOK
<1>3. joined \in Seq(ray_nodes \ Known)
  BY <1>2, EnumerationIsSeq
<1>4. /\ worker_nodes \in Seq(Nodes)
      /\ joined \in Seq(Nodes)
  BY <1>3 DEF SATypeOK
<1>5. /\ Len(worker_nodes') = Len(worker_nodes) + Len(joined)
      /\ \A i \in 1 .. Len(worker_nodes) + Len(joined) :
            worker_nodes'[i] = IF i <= Len(worker_nodes)
                               THEN worker_nodes[i]
                               ELSE joined[i - Len(worker_nodes)]
      /\ worker_nodes' \in Seq(Nodes)
  BY <1>1, <1>4, ConcatProperties
<1>6. Known \subseteq Known'
  <2> SUFFICES ASSUME NEW i \in DOMAIN worker_nodes
               PROVE  worker_nodes[i] \in ToSet(worker_nodes')
    BY DEF Known, ToSet
  <2>1. i \in DOMAIN worker_nodes' /\ worker_nodes'[i] = worker_nodes[i]
    BY <1>4, <1>5
  <2>. QED
    BY <2>1 DEF ToSet
<1>7. Known' \subseteq Known \cup ray_nodes
  <2> SUFFICES ASSUME NEW i \in DOMAIN worker_nodes'
               PROVE  worker_nodes'[i] \in ToSet(worker_nodes) \cup ray_nodes
    BY DEF Known, ToSet
  <2>1. CASE i <= Len(worker_nodes)
    <3>1. i \in DOMAIN worker_nodes /\ worker_nodes'[i] = worker_nodes[i]
      BY <1>4, <1>5, <2>1
    <3>. QED
      BY <3>1 DEF ToSet
  <2>2. CASE ~(i <= Len(worker_nodes))
    <3>1. /\ i - Len(worker_nodes) \in 1 .. Len(joined)
          /\ worker_nodes'[i] = joined[i - Len(worker_nodes)]
      BY <1>4, <1>5, <2>2
    <3>. QED
      BY <1>3, <3>1
  <2>. QED
    BY <2>1, <2>2
<1>8. Known' \subseteq Nodes
  BY <1>5, ToSetMember DEF Known
<1>9. /\ free_gpu' \in [Nodes -> Int]
      /\ \A n \in Nodes : free_gpu'[n] = IF n \in ray_nodes \ Known
                                         THEN TotalGpus[n] ELSE free_gpu[n]
  BY NodesAssumption DEF GetWorkerNodes, SATypeOK
<1>10. Known \subseteq Nodes
  BY <1>6, <1>8
<1>11. /\ \A n \in Known : free_gpu'[n] = free_gpu[n]
       /\ \A n \in Known' \ Known : free_gpu'[n] = TotalGpus[n]
  BY <1>7, <1>8, <1>9, <1>10
<1>. QED
  BY <1>5, <1>6, <1>7, <1>9, <1>11

\* What a pass collects: each queued request once, at its place in the queue
\* of its model.
LEMMA SnapshotEntries ==
    ASSUME SATypeOK, QueuesInv
    PROVE  /\ Snapshot \subseteq QueueEntry
           /\ \A e \in Snapshot :
                 LET queue == model_loading_queues[ModelOf[e.req]] IN
                 /\ e.idx \in DOMAIN queue /\ queue[e.idx] = e.req
           /\ \A d, e \in Snapshot : d.req = e.req => d = e
           /\ IsFiniteSet(Snapshot)
<1>1. ASSUME NEW e \in Snapshot
      PROVE  /\ e \in QueueEntry
             /\ e.idx \in DOMAIN model_loading_queues[ModelOf[e.req]]
             /\ model_loading_queues[ModelOf[e.req]][e.idx] = e.req
  <2>1. PICK m \in Models : \E i \in DOMAIN model_loading_queues[m] :
            e = [req |-> model_loading_queues[m][i], idx |-> i]
    BY DEF Snapshot
  <2>2. PICK i \in DOMAIN model_loading_queues[m] :
            e = [req |-> model_loading_queues[m][i], idx |-> i]
    BY <2>1
  <2>3. /\ e.req = model_loading_queues[m][i] /\ e.idx = i
        /\ model_loading_queues[m] \in Seq(Requests)
    BY <2>2 DEF SATypeOK
  <2>4. e.req \in Requests /\ e.idx \in Nat \ {0}
    BY <2>3
  <2>5. ModelOf[e.req] = m
    BY <2>3 DEF QueuesInv
  <2>6. e \in QueueEntry
    BY <2>2, <2>3, <2>4 DEF QueueEntry
  <2>. QED
    BY <2>3, <2>5, <2>6
<1>2. ASSUME NEW d \in Snapshot, NEW e \in Snapshot, d.req = e.req
      PROVE  d = e
  <2>1. ModelOf[d.req] \in Models /\ d.req \in Requests
    BY <1>1, RequestsAssumption DEF QueueEntry
  <2>2. IsInjective(model_loading_queues[ModelOf[d.req]])
    BY <2>1 DEF QueuesInv
  <2>3. d.idx = e.idx
    <3>1. /\ d.idx \in DOMAIN model_loading_queues[ModelOf[d.req]]
          /\ model_loading_queues[ModelOf[d.req]][d.idx] = d.req
      BY <1>1
    <3>2. /\ e.idx \in DOMAIN model_loading_queues[ModelOf[d.req]]
          /\ model_loading_queues[ModelOf[d.req]][e.idx] = d.req
      BY <1>1, <1>2
    <3>. QED
      BY <2>2, <3>1, <3>2 DEF IsInjective
  <2>. QED
    BY <1>1, <1>2, <2>3 DEF QueueEntry
<1>3. IsFiniteSet(Snapshot)
  <2> DEFINE f == [e \in Snapshot |-> e.req]
  <2>1. f \in Injection(Snapshot, Requests)
    <3>1. f \in [Snapshot -> Requests]
      BY <1>1 DEF QueueEntry
    <3>2. \A d, e \in Snapshot : f[d] = f[e] => d = e
      BY <1>2
    <3>. QED
      BY <3>1, <3>2 DEF Injection, IsInjective
  <2>. QED
    BY <2>1, FS_Injection, RequestsAssumption
<1>. QED
  BY <1>1, <1>2, <1>3

\* The nodes the scheduler knows are nodes.
LEMMA KnownNodes ==
    ASSUME SATypeOK
    PROVE  Known \subseteq Nodes
BY ToSetMember DEF SATypeOK, Known

\* A loading time is a number.
LEMMA LatencyType ==
    ASSUME SATypeOK, NEW m \in Models, NEW n \in Nodes
    PROVE  Latency(m, n) \in Nat
<1>1. info \in StoreInfo
  BY StoreInfosAssumption DEF SATypeOK
<1>2. info.wait[n] \in Nat
  BY <1>1 DEF StoreInfo
<1>3. DiskTime[m][n] \in Nat /\ PcieTime[m][n] \in Nat
  BY TimesAssumption
<1>. QED
  BY <1>2, <1>3 DEF Latency

\* The plans for a node move instances of Requests to nodes that are known.
LEMMA PlanType ==
    ASSUME SATypeOK, NEW A \in SUBSET Requests, NEW plan \in Plans(A)
    PROVE  /\ plan \in Seq([source : Requests, target : Nodes])
           /\ \A k \in DOMAIN plan : plan[k].target \in Known
<1>1. PICK k \in 1 .. Cardinality(A) :
          plan \in [1 .. k -> [source : A, target : Known]]
  BY DEF Plans
<1>2. IsFiniteSet(A)
  BY FS_Subset, RequestsAssumption
<1>3. k \in Nat
  BY <1>2, FS_CardinalityType
<1> DEFINE Moves == [source : Requests, target : Nodes]
<1>4. \A S, m : m \in Nat => [1 .. m -> S] \subseteq Seq(S)
  OBVIOUS
<1>5. [source : A, target : Known] \subseteq Moves
  BY KnownNodes
<1>6. /\ \A l \in 1 .. k : plan[l] \in [source : A, target : Known]
      /\ DOMAIN plan = 1 .. k
  BY <1>1, Zenon
<1>7. \A l \in DOMAIN plan : plan[l].target \in Known
  <2>1. \A e \in [source : A, target : Known] : e.target \in Known
    OBVIOUS
  <2>. QED
    BY <1>6, <2>1, Zenon
<1>8. plan \in [1 .. k -> Moves]
  <2> HIDE DEF Moves
  <2>1. \A S, T : S \subseteq T => [1 .. k -> S] \subseteq [1 .. k -> T]
    OBVIOUS
  <2>. QED
    BY <1>1, <1>5, <2>1, Zenon
<1>. QED
  BY <1>3, <1>4, <1>7, <1>8, Zenon

\* What a new option does to the loop's record.
LEMMA OfferType ==
    ASSUME SATypeOK, loop.nodes # <<>>, NEW o \in Option
    PROVE  LET offer == [NextNode EXCEPT !.options = @ \cup {o}] IN
           /\ offer \in LoopRecords
           /\ offer.at = "schedule" /\ offer.nodes = Tail(loop.nodes)
           /\ offer.todo = loop.todo
           /\ offer.options = loop.options \cup {o}
           /\ offer.plan = loop.plan
           /\ offer.contended = loop.contended
<1>1. /\ NextNode \in LoopRecords
      /\ NextNode.at = "schedule" /\ NextNode.nodes = Tail(loop.nodes)
      /\ NextNode.todo = loop.todo /\ NextNode.options = loop.options
      /\ NextNode.plan = loop.plan
      /\ NextNode.contended = loop.contended
  BY NextNodeType
<1> HIDE DEF NextNode
<1>. QED
  BY <1>1 DEF LoopRecords

\* A request looks at the node: both are there.
LEMMA ChecksType ==
    ASSUME SATypeOK, LoopInv, Checks \/ loop.at \in {"lock", "status"}
    PROVE  /\ loop.todo # <<>> /\ loop.nodes # <<>>
           /\ Current \in Requests /\ Model \in Models
           /\ Node \in Known /\ Node \in Nodes
<1>1. loop.todo # <<>> /\ loop.nodes # <<>>
  BY DEF LoopInv, Checks
<1>2. Node \in Known
  BY <1>1, NextNodeType DEF LoopInv
<1>. QED
  BY <1>1, <1>2, CurrentType, KnownNodes

\* The option of a node that has room, with no plan.
LEMMA PlainOption ==
    ASSUME SATypeOK, LoopInv, Checks
    PROVE  [node |-> Node, latency |-> Latency(Model, Node), plan |-> <<>>]
               \in Option
<1>1. Node \in Nodes /\ Latency(Model, Node) \in Nat
  BY ChecksType, LatencyType
<1>2. \A S : <<>> \in Seq(S)
  OBVIOUS
<1>. QED
  BY <1>1, <1>2 DEF Option

\* The option of a node where instances move away first.
LEMMA PlannedOption ==
    ASSUME SATypeOK, LoopInv, loop.at = "status",
           NEW A \in SUBSET Requests, NEW plan \in Plans(A),
           NEW time \in MoveTimes
    PROVE  [node |-> Node, latency |-> Latency(Model, Node) + time,
            plan |-> plan] \in Option
<1>1. Node \in Nodes /\ Latency(Model, Node) \in Nat
  BY ChecksType, LatencyType
<1>2. time \in Nat
  BY TimesAssumption
<1>3. plan \in Seq([source : Requests, target : Nodes])
  BY PlanType
<1>. QED
  BY <1>1, <1>2, <1>3 DEF Option

\* A step of the loop that touches nothing but its own record.
LEMMA QuietType ==
    ASSUME SATypeOK, UNCHANGED <<otherVars, instVars, queueVars, nodeVars>>,
           info' \in StoreInfos, loop' \in LoopRecords, loops' \in 0 .. 1
    PROVE  SATypeOK'
BY DEF SATypeOK, otherVars, instVars, queueVars, nodeVars

\* The control loop task that dies was there.
LEMMA DiesType ==
    ASSUME SATypeOK, LoopInv, loop.at \notin {"none", "dead"}, Dies
    PROVE  /\ loop' \in LoopRecords /\ loops' = 0
           /\ loop'.at = "dead" /\ loop'.todo = <<>> /\ loop'.nodes = <<>>
           /\ loop'.options = {} /\ loop'.plan = <<>>
           /\ loop'.contended = FALSE
<1>1. loops = 1
  BY DEF LoopInv
<1>2. loops' = 0
  BY <1>1 DEF Dies
<1>3. /\ Asleep \in LoopRecords /\ Asleep.todo = <<>> /\ Asleep.nodes = <<>>
      /\ Asleep.options = {} /\ Asleep.plan = <<>> /\ Asleep.contended = FALSE
  BY AsleepType
<1>4. loop' = [Asleep EXCEPT !.at = "dead"]
  BY DEF Dies
<1> HIDE DEF Asleep
<1>. QED
  BY <1>2, <1>3, <1>4 DEF LoopRecords

\* The initial state has the right types.
LEMMA SAInitType == SAInit => SATypeOK
<1> SUFFICES ASSUME SAInit
             PROVE  SATypeOK
  OBVIOUS
<1>1. Init
  BY DEF SAInit
<1>2. TypeOK
  BY <1>1, InitType
<1>3. loops = 0 /\ starts = 0 /\ loading_requests = {}
  BY <1>1 DEF Init
<1>4. caller \in [Requests -> {"new", "waiting", "migrating", "holding",
                               "released"}]
  BY <1>1 DEF Init
<1>5. loop \in LoopRecords
  <2>1. loop = [Asleep EXCEPT !.at = "none"]
    BY DEF SAInit
  <2>2. Asleep \in LoopRecords
    BY AsleepType
  <2> HIDE DEF Asleep
  <2>. QED
    BY <2>1, <2>2 DEF LoopRecords
<1>6. enable_migration \in BOOLEAN /\ info \in StoreInfos
  BY DEF SAInit
<1>. QED
  BY <1>2, <1>3, <1>4, <1>5, <1>6 DEF TypeOK, SATypeOK

\* The inherited operations preserve the types.
LEMMA InheritedType ==
    ASSUME SATypeOK, LoopInv,
           \/ SAStart \/ SAShutdown \/ SALoopExit
           \/ \E r \in Requests : \/ SAAllocate(r) \/ SARecordInstance(r)
                                  \/ SADeallocate(r)
           \/ \E n \in Flaky : SANodeJoins(n) \/ SANodeLeaves(n)
    PROVE  SATypeOK'
<1> USE RequestsAssumption, NodesAssumption
<1>0. Asleep \in LoopRecords /\ [Asleep EXCEPT !.at = "none"] \in LoopRecords
  <2>1. Asleep \in LoopRecords
    BY AsleepType
  <2> HIDE DEF Asleep
  <2>. QED
    BY <2>1 DEF LoopRecords
<1> HIDE DEF Asleep
<1>1. CASE SAStart
  <2>1. /\ starts < MaxStarts /\ starts \in 0 .. 1 /\ ~running
        /\ starts' = starts + 1 /\ loops' = loops + 1 /\ running' = TRUE
    BY <1>1 DEF SAStart, Start, SATypeOK
  <2>2. starts = 0
    BY <1>1, <2>1 DEF SAStart
  <2>3. loops = 0
    BY <2>2 DEF LoopInv
  <2>4. starts' \in 0 .. 1 /\ loops' \in 0 .. 1
    BY <2>1, <2>2, <2>3
  <2>5. /\ loop' = Asleep
        /\ UNCHANGED <<model_order, model_loading_queues, request_time,
                       clock, allocation_result, model_instance, caller,
                       worker_nodes, free_gpu, ray_nodes, loading_requests,
                       enable_migration, info>>
    BY <1>1 DEF SAStart, Start
  <2>. QED
    BY <1>0, <2>1, <2>4, <2>5 DEF SATypeOK
<1>2. CASE SAShutdown
  <2>1. <<>> \in Seq(Models) /\ <<>> \in Seq(Requests)
    OBVIOUS
  <2>2. /\ model_order' \in Seq(Models)
        /\ model_loading_queues' \in [Models -> Seq(Requests)]
    BY <1>2, <2>1 DEF SAShutdown, Shutdown
  <2>3. UNCHANGED <<loops, starts, request_time, clock, allocation_result,
                    model_instance, caller, worker_nodes, free_gpu, ray_nodes,
                    loading_requests, enable_migration, info, loop>>
        /\ running' = FALSE
    BY <1>2 DEF SAShutdown, Shutdown
  <2>. QED
    BY <2>2, <2>3 DEF SATypeOK
<1>3. CASE SALoopExit
  <2>1. loops' = loops - 1 /\ loops > 0 /\ loop' = [Asleep EXCEPT !.at = "none"]
    BY <1>3 DEF SALoopExit, LoopExit
  <2>2. loops' \in 0 .. 1
    BY <2>1 DEF SATypeOK
  <2>3. UNCHANGED <<running, starts, model_order, model_loading_queues,
                    request_time, clock, allocation_result, model_instance,
                    caller, worker_nodes, free_gpu, ray_nodes,
                    loading_requests, enable_migration, info>>
    BY <1>3 DEF SALoopExit, LoopExit
  <2>. QED
    BY <1>0, <2>1, <2>2, <2>3 DEF SATypeOK
<1>4. ASSUME NEW r \in Requests, SAAllocate(r)
      PROVE  SATypeOK'
  BY <1>4 DEF SAAllocate, Allocate, SATypeOK
<1>5. ASSUME NEW r \in Requests, SARecordInstance(r)
      PROVE  SATypeOK'
  BY <1>5 DEF SARecordInstance, RecordInstance, SATypeOK
<1>6. ASSUME NEW r \in Requests, SADeallocate(r)
      PROVE  SATypeOK'
  BY <1>6 DEF SADeallocate, Deallocate, SATypeOK
<1>7. ASSUME NEW n \in Flaky, SANodeJoins(n) \/ SANodeLeaves(n)
      PROVE  SATypeOK'
  <2>1. n \in Nodes
    BY FlakyAssumption
  <2>. QED
    BY <1>7, <2>1 DEF SANodeJoins, SANodeLeaves, NodeJoins, NodeLeaves,
                      SATypeOK
<1>. QED
  BY <1>1, <1>2, <1>3, <1>4, <1>5, <1>6, <1>7

\* A pass begins: the requests, each once, and the nodes.
LEMMA BeginPassView ==
    ASSUME SATypeOK, QueuesInv, SABeginPass
    PROVE  /\ loop' \in LoopRecords
           /\ loop'.at = "info" /\ loop'.todo # <<>>
           /\ loop'.nodes = loop.nodes /\ loop'.options = loop.options
           /\ loop'.plan = loop.plan /\ loop'.contended = loop.contended
           /\ \A k \in DOMAIN loop'.todo : loop'.todo[k] \in Snapshot
           /\ \A k, l \in DOMAIN loop'.todo :
                 loop'.todo[k].req = loop'.todo[l].req => k = l
<1>1. PICK todo \in SetToSeqs(Snapshot) :
          loop' = [loop EXCEPT !.at = "info", !.todo = todo]
  BY DEF SABeginPass
<1>2. IsFiniteSet(Snapshot) /\ Snapshot \subseteq QueueEntry
  BY SnapshotEntries
<1>3. todo \in Seq(Snapshot)
  BY <1>2, EnumerationIsSeq
<1>4. todo \in Seq(QueueEntry)
  BY <1>2, <1>3
<1>5. /\ Cardinality(Snapshot) \in Nat
      /\ todo \in [1 .. Cardinality(Snapshot) -> Snapshot]
      /\ \A i, j \in 1 .. Cardinality(Snapshot) : todo[i] = todo[j] => i = j
  <2>1. Cardinality(Snapshot) \in Nat
    BY <1>2, FS_CardinalityType
  <2>. QED
    BY <2>1 DEF SetToSeqs
<1>6. todo # <<>>
  <2>1. Snapshot # {}
    BY DEF SABeginPass
  <2>2. Cardinality(Snapshot) # 0
    BY <1>2, <2>1, FS_EmptySet
  <2>3. Len(todo) = Cardinality(Snapshot)
    BY <1>3, <1>5
  <2>. QED
    BY <2>2, <2>3
<1>7. \A k, l \in DOMAIN todo : todo[k].req = todo[l].req => k = l
  <2> SUFFICES ASSUME NEW k \in DOMAIN todo, NEW l \in DOMAIN todo,
                      todo[k].req = todo[l].req
               PROVE  k = l
    OBVIOUS
  <2>1. todo[k] \in Snapshot /\ todo[l] \in Snapshot
    BY <1>5
  <2>2. todo[k] = todo[l]
    BY <2>1, SnapshotEntries
  <2>. QED
    BY <1>5, <2>2
<1>8. \A k \in DOMAIN todo : todo[k] \in Snapshot
  BY <1>5
<1>9. loop \in LoopRecords
  BY DEF SATypeOK
<1>10. /\ loop' \in LoopRecords
       /\ loop'.at = "info" /\ loop'.todo = todo
       /\ loop'.nodes = loop.nodes /\ loop'.options = loop.options
       /\ loop'.plan = loop.plan /\ loop'.contended = loop.contended
  BY <1>1, <1>4, <1>9 DEF LoopRecords
<1>. QED
  BY <1>6, <1>7, <1>8, <1>10

\* The lock is waited for or taken, or there is nothing to move.
LEMMA LockView ==
    ASSUME SATypeOK, LoopInv, TryMigration \/ TakeLock
    PROVE  /\ loop' \in LoopRecords
           /\ loop'.todo = loop.todo /\ loop'.options = loop.options
           /\ loop'.plan = loop.plan
           /\ \/ loop'.at \in {"lock", "status"} /\ loop'.nodes = loop.nodes
              \/ loop' = NextNode
<1>1. loop \in LoopRecords /\ free_gpu \in [Nodes -> Int]
  BY DEF SATypeOK
<1>2. loop.nodes # <<>>
  BY ChecksType DEF TryMigration, TakeLock
<1>3. /\ NextNode \in LoopRecords
      /\ NextNode.todo = loop.todo /\ NextNode.options = loop.options
      /\ NextNode.plan = loop.plan
  BY <1>2, NextNodeType
<1> HIDE DEF NextNode
<1>4. loop.seen \in [Nodes -> Int]
  BY LoopFields, <1>1
<1>5. \/ loop' = [loop EXCEPT !.at = "lock", !.seen = free_gpu]
      \/ loop' = NextNode
      \/ loop' = [loop EXCEPT !.at = "status", !.contended = TRUE,
                              !.seen = free_gpu]
      \/ loop' = [loop EXCEPT !.at = "status", !.contended = TRUE,
                              !.seen = loop.seen]
  BY DEF TryMigration, TakeLock, LockTaken
<1>6. CASE loop' = [loop EXCEPT !.at = "lock", !.seen = free_gpu]
  BY <1>1, <1>6 DEF LoopRecords
<1>7. CASE loop' = NextNode
  BY <1>3, <1>7
<1>8. CASE loop' = [loop EXCEPT !.at = "status", !.contended = TRUE,
                                !.seen = free_gpu]
  BY <1>1, <1>8 DEF LoopRecords
<1>9. CASE loop' = [loop EXCEPT !.at = "status", !.contended = TRUE,
                                !.seen = loop.seen]
  BY <1>1, <1>4, <1>9 DEF LoopRecords
<1>. QED
  BY <1>5, <1>6, <1>7, <1>8, <1>9

\* The plans are known: the node is an option or is not.
LEMMA PlanView ==
    ASSUME SATypeOK, LoopInv, NEW A \in SUBSET Requests, PlanMigration(A)
    PROVE  /\ loop' \in LoopRecords
           /\ loop'.at = "schedule" /\ loop'.nodes = Tail(loop.nodes)
           /\ loop'.todo = loop.todo /\ loop'.plan = loop.plan
           /\ loop'.contended = loop.contended
           /\ \/ loop'.options = loop.options
              \/ \E o \in Option :
                    /\ loop'.options = loop.options \cup {o}
                    /\ o.node \in Known
                    /\ \A k \in DOMAIN o.plan : o.plan[k].target \in Known
<1>0. loop.at = "status"
  BY DEF PlanMigration
<1>1. loop.nodes # <<>> /\ Node \in Known
  BY <1>0, ChecksType
<1>2. CASE loop' = NextNode
  BY <1>1, <1>2, NextNodeType
<1>3. CASE loop' # NextNode
  <2>1. PICK plan \in Plans(A), time \in MoveTimes :
           loop' = [NextNode EXCEPT !.options = @ \cup
                       {[node |-> Node, latency |-> Latency(Model, Node) + time,
                         plan |-> plan]}]
    BY <1>3 DEF PlanMigration
  <2> DEFINE o == [node |-> Node, latency |-> Latency(Model, Node) + time,
                   plan |-> plan]
  <2>2. o \in Option
    BY <1>0, PlannedOption
  <2>3. \A k \in DOMAIN plan : plan[k].target \in Known
    BY PlanType
  <2>4. /\ o.node \in Known
        /\ \A k \in DOMAIN o.plan : o.plan[k].target \in Known
    BY <1>1, <2>3
  <2> HIDE DEF o
  <2>5. loop' = [NextNode EXCEPT !.options = @ \cup {o}]
    BY <2>1 DEF o
  <2>6. /\ loop' \in LoopRecords
        /\ loop'.at = "schedule" /\ loop'.nodes = Tail(loop.nodes)
        /\ loop'.todo = loop.todo /\ loop'.plan = loop.plan
        /\ loop'.contended = loop.contended
        /\ loop'.options = loop.options \cup {o}
    BY <1>1, <2>2, <2>5, OfferType
  <2>. QED
    BY <2>2, <2>4, <2>6
<1>. QED
  BY <1>2, <1>3

\* A node with room is an option.
LEMMA OfferView ==
    ASSUME SATypeOK, LoopInv, OfferNode
    PROVE  LET o == [node |-> Node, latency |-> Latency(Model, Node),
                     plan |-> <<>>]
           IN  /\ o \in Option
               /\ loop' \in LoopRecords
               /\ loop'.at = "schedule" /\ loop'.nodes = Tail(loop.nodes)
               /\ loop'.todo = loop.todo /\ loop'.plan = loop.plan
               /\ loop'.contended = loop.contended
               /\ loop'.options = loop.options \cup {o}
<1> DEFINE o == [node |-> Node, latency |-> Latency(Model, Node),
                 plan |-> <<>>]
<1>0. Checks
  BY DEF OfferNode
<1>1. loop.nodes # <<>>
  BY <1>0, ChecksType
<1>2. o \in Option
  BY <1>0, PlainOption
<1>3. loop' = [NextNode EXCEPT !.options = @ \cup {o}]
  BY DEF OfferNode
<1> HIDE DEF o
<1>4. /\ loop' \in LoopRecords
      /\ loop'.at = "schedule" /\ loop'.nodes = Tail(loop.nodes)
      /\ loop'.todo = loop.todo /\ loop'.plan = loop.plan
      /\ loop'.contended = loop.contended
      /\ loop'.options = loop.options \cup {o}
  BY <1>1, <1>2, <1>3, OfferType
<1>. QED
  BY <1>2, <1>4 DEF o

\* The fastest option is taken.
LEMMA DecideView ==
    ASSUME SATypeOK, Decide
    PROVE  \E o \in loop.options :
               /\ \A p \in loop.options \ {o} : Faster(o, p)
               /\ loop' \in LoopRecords
               /\ loop'.at = "evict" /\ loop'.todo = loop.todo
               /\ loop'.nodes = loop.nodes /\ loop'.options = {}
               /\ loop'.plan = o.plan /\ loop'.node = o.node
               /\ loop'.contended = loop.contended
<1>1. PICK o \in loop.options :
          /\ \A p \in loop.options \ {o} : Faster(o, p)
          /\ loop' = [loop EXCEPT !.at = "evict", !.node = o.node,
                                  !.plan = o.plan, !.options = {}]
  BY DEF Decide
<1>2. loop \in LoopRecords /\ loop.options \in SUBSET Option
  BY LoopFields DEF SATypeOK
<1>3. /\ o.node \in Nodes
      /\ o.plan \in Seq([source : Requests, target : Nodes])
  BY <1>2 DEF Option
<1>4. /\ loop' \in LoopRecords
      /\ loop'.at = "evict" /\ loop'.todo = loop.todo
      /\ loop'.nodes = loop.nodes /\ loop'.options = {}
      /\ loop'.plan = o.plan /\ loop'.node = o.node
      /\ loop'.contended = loop.contended
  BY <1>1, <1>2, <1>3 DEF LoopRecords
<1>. QED
  BY <1>1, <1>4

\* The steps of a migration: the first move of the plan is under way.
LEMMA MoveType ==
    ASSUME SATypeOK, loop.plan # <<>>
    PROVE  /\ Move.source \in Requests /\ Move.target \in Nodes
           /\ Move = loop.plan[1] /\ 1 \in DOMAIN loop.plan
           /\ Tail(loop.plan) \in Seq([source : Requests, target : Nodes])
           /\ \A k \in DOMAIN Tail(loop.plan) :
                 /\ k + 1 \in DOMAIN loop.plan
                 /\ Tail(loop.plan)[k] = loop.plan[k + 1]
<1> DEFINE Moves == [source : Requests, target : Nodes]
<1>1. loop.plan \in Seq(Moves)
  BY LoopFields DEF SATypeOK
<1> HIDE DEF Moves
<1>2. /\ Move \in Moves
      /\ Move = loop.plan[1] /\ 1 \in DOMAIN loop.plan
      /\ Tail(loop.plan) \in Seq(Moves)
  BY <1>1 DEF Move
<1>3. \A k \in DOMAIN Tail(loop.plan) :
         /\ k + 1 \in DOMAIN loop.plan
         /\ Tail(loop.plan)[k] = loop.plan[k + 1]
  BY <1>1, <1>2, HeadTailProperties
<1>4. Move.source \in Requests /\ Move.target \in Nodes
  BY <1>2 DEF Moves
<1>. QED
  BY <1>2, <1>3, <1>4 DEF Moves

\* What the steps of a migration do to the loop's record.
LEMMA MigrateView ==
    ASSUME SATypeOK, LoopInv, CallersInv, Migrate
    PROVE  /\ loop.plan # <<>>
           /\ loop' \in LoopRecords
           /\ loop'.todo = loop.todo /\ loop'.nodes = loop.nodes
           /\ loop'.options = loop.options /\ loop'.node = loop.node
           /\ loop.at \in {"evict", "migrate", "moved"}
           /\ loop'.at \in {"evict", "migrate", "moved"}
           /\ \/ loop'.plan = loop.plan
              \/ loop'.at = "evict" /\ loop'.plan = Tail(loop.plan)
<1>1. loop \in LoopRecords
  BY DEF SATypeOK
<1>2. loop.plan # <<>>
  BY DEF Migrate, StartMigration, MarkResource, MoveInstance, MigrationFails,
         MigrationReturns, LoopInv
<1>3. Tail(loop.plan) \in Seq([source : Requests, target : Nodes])
  BY <1>2, MoveType
<1>4. ASSUME NEW r \in Requests,
             loop' = [loop EXCEPT !.at = "migrate", !.inst = r,
                                  !.contended = FALSE]
      PROVE  /\ loop' \in LoopRecords
             /\ loop'.todo = loop.todo /\ loop'.nodes = loop.nodes
             /\ loop'.options = loop.options /\ loop'.node = loop.node
             /\ loop'.at = "migrate" /\ loop'.plan = loop.plan
  BY <1>1, <1>4 DEF LoopRecords
<1>5. ASSUME loop' = [loop EXCEPT !.at = "moved"]
      PROVE  /\ loop' \in LoopRecords
             /\ loop'.todo = loop.todo /\ loop'.nodes = loop.nodes
             /\ loop'.options = loop.options /\ loop'.node = loop.node
             /\ loop'.at = "moved" /\ loop'.plan = loop.plan
  BY <1>1, <1>5 DEF LoopRecords
<1>6. ASSUME loop' = [loop EXCEPT !.at = "evict", !.plan = Tail(@),
                                  !.inst = NoNode]
      PROVE  /\ loop' \in LoopRecords
             /\ loop'.todo = loop.todo /\ loop'.nodes = loop.nodes
             /\ loop'.options = loop.options /\ loop'.node = loop.node
             /\ loop'.at = "evict" /\ loop'.plan = Tail(loop.plan)
  <2>1. NoNode \in Requests \cup {NoNode}
    OBVIOUS
  <2>. QED
    BY <1>1, <1>3, <1>6, <2>1 DEF LoopRecords
<1>7. ASSUME NEW r \in Requests, StartMigration(r)
      PROVE  /\ loop.at = "evict"
             /\ loop' = [loop EXCEPT !.at = "migrate", !.inst = r,
                                     !.contended = FALSE]
  BY <1>7 DEF StartMigration
<1>8. MarkResource => loop' = loop /\ loop.at = "migrate"
  BY DEF MarkResource
<1>9. MoveInstance => /\ loop' = [loop EXCEPT !.at = "moved"]
                      /\ loop.at = "migrate"
  BY DEF MoveInstance
<1>10. MigrationFails \/ MigrationReturns =>
          /\ loop' = [loop EXCEPT !.at = "evict", !.plan = Tail(@),
                                  !.inst = NoNode]
          /\ loop.at \in {"migrate", "moved"}
  BY DEF MigrationFails, MigrationReturns
<1>. QED
  BY <1>1, <1>2, <1>4, <1>5, <1>6, <1>7, <1>8, <1>9, <1>10 DEF Migrate

\* What the end of a request and of a pass do to the loop's record.
LEMMA ConcludeView ==
    ASSUME SATypeOK, Grant \/ UpdateNodes \/ WriteNodes
    PROVE  /\ loop' \in LoopRecords
           /\ Grant => /\ loop'.at = "load" /\ loop'.todo = loop.todo
                       /\ loop'.nodes = loop.nodes
                       /\ loop'.options = loop.options
                       /\ loop'.plan = loop.plan
                       /\ loop'.contended = FALSE
           /\ UpdateNodes => \/ loop' = Asleep
                             \/ /\ loop'.at = "write" /\ loop.contended
                                /\ loop'.todo = loop.todo
                                /\ loop'.nodes = loop.nodes
                                /\ loop'.options = loop.options
                                /\ loop'.plan = loop.plan
                                /\ loop'.contended = loop.contended
                                /\ loop'.seen = free_gpu
           /\ WriteNodes => loop' = Asleep
<1>1. loop \in LoopRecords /\ free_gpu \in [Nodes -> Int]
  BY DEF SATypeOK
<1>2. Asleep \in LoopRecords
  BY AsleepType
<1> HIDE DEF Asleep
<1>3. ASSUME Grant
      PROVE  /\ loop' \in LoopRecords
             /\ loop'.at = "load" /\ loop'.todo = loop.todo
             /\ loop'.nodes = loop.nodes
             /\ loop'.options = loop.options
             /\ loop'.plan = loop.plan
             /\ loop'.contended = FALSE
  <2>1. loop' = [loop EXCEPT !.at = "load", !.contended = FALSE]
    BY <1>3 DEF Grant
  <2>. QED
    BY <1>1, <2>1 DEF LoopRecords
<1>4. ASSUME UpdateNodes, loop' # Asleep
      PROVE  /\ loop' \in LoopRecords
             /\ loop'.at = "write" /\ loop.contended
             /\ loop'.todo = loop.todo
             /\ loop'.nodes = loop.nodes
             /\ loop'.options = loop.options
             /\ loop'.plan = loop.plan
             /\ loop'.contended = loop.contended
             /\ loop'.seen = free_gpu
  <2>1. /\ loop' = [loop EXCEPT !.at = "write", !.seen = free_gpu]
        /\ loop.contended
    BY <1>4 DEF UpdateNodes
  <2>. QED
    BY <1>1, <2>1 DEF LoopRecords
<1>5. WriteNodes => loop' = Asleep
  BY DEF WriteNodes
<1>. QED
  BY <1>2, <1>3, <1>4, <1>5

\* The steps of the control loop preserve the types.
LEMMA LoopStepType ==
    ASSUME SATypeOK, LoopInv, CallersInv, QueuesInv, LoopStep
    PROVE  SATypeOK'
<1> USE RequestsAssumption
<1>0. info \in StoreInfos /\ loops \in 0 .. 1 /\ loop \in LoopRecords
  BY DEF SATypeOK
<1>1. CASE SABeginPass
  <2>1. worker_nodes' \in Seq(Nodes) /\ free_gpu' \in [Nodes -> Int]
    BY <1>1, WorkerNodes DEF SABeginPass
  <2>2. loop' \in LoopRecords
    BY <1>1, BeginPassView
  <2>3. UNCHANGED <<otherVars, instVars, queueVars, loops, info>>
    BY <1>1 DEF SABeginPass
  <2>. QED
    BY <2>1, <2>2, <2>3 DEF SATypeOK, otherVars, instVars, queueVars
<1>2. CASE ReceiveInfo
  <2>1. /\ UNCHANGED <<otherVars, instVars, queueVars, nodeVars, loops>>
        /\ info' \in StoreInfos
        /\ loop' = [loop EXCEPT !.at = "schedule", !.nodes = worker_nodes,
                                !.options = {}]
        /\ worker_nodes \in Seq(Nodes)
    BY <1>2 DEF ReceiveInfo, SATypeOK
  <2>2. loop' \in LoopRecords
    BY <1>0, <2>1 DEF LoopRecords
  <2>. QED
    BY <1>0, <2>1, <2>2, QuietType
<1>3. CASE SkipNode
  <2>1. loop' = NextNode /\ loop.nodes # <<>>
    BY <1>3 DEF SkipNode, Checks
  <2>2. loop' \in LoopRecords
    BY <2>1, NextNodeType
  <2>. QED
    BY <1>0, <1>3, <2>2, QuietType DEF SkipNode
<1>4. CASE NodeNotMeasured \/ RouterGone \/ GrantNoEntry
  <2>1. Dies /\ loop.at \notin {"none", "dead"}
    BY <1>4 DEF NodeNotMeasured, RouterGone, GrantNoEntry, Checks, Granting
  <2>2. loop' \in LoopRecords /\ loops' \in 0 .. 1
    BY <2>1, DiesType
  <2>3. UNCHANGED <<otherVars, instVars, queueVars, nodeVars, info>>
    BY <1>4 DEF NodeNotMeasured, RouterGone, GrantNoEntry
  <2>. QED
    BY <1>0, <2>2, <2>3, QuietType
<1>5. CASE OfferNode
  BY <1>0, <1>5, OfferView, QuietType DEF OfferNode
<1>6. CASE TryMigration \/ TakeLock
  <2>1. UNCHANGED <<otherVars, instVars, queueVars, nodeVars, loops, info>>
    BY <1>6 DEF TryMigration, TakeLock
  <2>. QED
    BY <1>0, <1>6, <2>1, LockView, QuietType
<1>7. CASE Decide
  BY <1>0, <1>7, DecideView, QuietType DEF Decide
<1>8. CASE NoOption \/ LoadReturns
  <2>1. /\ UNCHANGED <<otherVars, instVars, queueVars, nodeVars, loops, info>>
        /\ loop' = NextRequest /\ loop.at \in {"schedule", "load"}
    BY <1>8 DEF NoOption, LoadReturns
  <2>2. loop.todo # <<>>
    BY <2>1 DEF LoopInv
  <2>. QED
    BY <1>0, <2>1, <2>2, NextRequestType, QuietType
<1>9. ASSUME NEW A \in SUBSET Requests, PlanMigration(A)
      PROVE  SATypeOK'
  <2>1. UNCHANGED <<otherVars, instVars, queueVars, nodeVars, loops, info>>
    BY <1>9 DEF PlanMigration
  <2>. QED
    BY <1>0, <1>9, <2>1, PlanView, QuietType
<1>10. CASE Migrate
  <2>1. loop' \in LoopRecords /\ loop.plan # <<>>
    BY <1>10, MigrateView
  <2>2. Move.source \in Requests /\ Move.target \in Nodes
    BY <2>1, MoveType
  <2>3. ASSUME NEW r \in Requests, StartMigration(r)
        PROVE  SATypeOK'
    <3>1. free_gpu' = [free_gpu EXCEPT ![Move.target] = @ - NumGpus[Current]]
      BY <2>3 DEF StartMigration
    <3>2. NumGpus[Current] \in Int
      <4>1. loop.todo # <<>>
        BY <2>3 DEF StartMigration, LoopInv
      <4>. QED
        BY <4>1, CurrentType
    <3>3. free_gpu' \in [Nodes -> Int]
      BY <2>2, <3>1, <3>2 DEF SATypeOK
    <3>4. /\ caller' = [caller EXCEPT ![r] = "migrating"]
          /\ allocation_result' = [allocation_result EXCEPT ![r] = Move.target]
          /\ UNCHANGED <<otherVars, queueVars, model_instance, worker_nodes,
                         loops, info>>
      BY <2>3 DEF StartMigration
    <3>. QED
      BY <2>1, <2>2, <3>3, <3>4 DEF SATypeOK, otherVars, queueVars
  <2>4. CASE MarkResource
    BY <2>1, <2>2, <2>4 DEF MarkResource, SATypeOK, otherVars, queueVars,
                            nodeVars
  <2>5. CASE MoveInstance
    <3>1. /\ free_gpu' = [free_gpu EXCEPT ![model_instance[Move.source]] =
                              @ + NumGpus[Move.source]]
          /\ model_instance' = [model_instance EXCEPT ![Move.source] = NoNode]
          /\ caller' = [caller EXCEPT ![Move.source] = "released",
                                      ![loop.inst] = "holding"]
          /\ UNCHANGED <<otherVars, queueVars, allocation_result,
                         worker_nodes, loops, info>>
      BY <2>5 DEF MoveInstance
    <3>2. NumGpus[Move.source] \in Int
      BY <2>2
    <3>3. free_gpu' \in [Nodes -> Int]
      <4>1. model_instance[Move.source] \in Nodes
        BY <2>2, <2>5 DEF MoveInstance, CallersInv, SATypeOK
      <4>. QED
        BY <3>1, <3>2, <4>1 DEF SATypeOK
    <3>. QED
      BY <2>1, <2>2, <3>1, <3>3 DEF SATypeOK, otherVars, queueVars
  <2>6. CASE MigrationFails
    <3>1. /\ free_gpu' = [free_gpu EXCEPT ![Move.target] =
                              @ + NumGpus[Current]]
          /\ caller' = [caller EXCEPT ![loop.inst] = "released"]
          /\ UNCHANGED <<otherVars, queueVars, allocation_result,
                         model_instance, worker_nodes, loops, info>>
      BY <2>6 DEF MigrationFails
    <3>2. NumGpus[Current] \in Int
      <4>1. loop.todo # <<>>
        BY <2>6 DEF MigrationFails, LoopInv
      <4>. QED
        BY <4>1, CurrentType
    <3>3. free_gpu' \in [Nodes -> Int]
      BY <2>2, <3>1, <3>2 DEF SATypeOK
    <3>. QED
      BY <2>1, <3>1, <3>3 DEF SATypeOK, otherVars, queueVars
  <2>7. CASE MigrationReturns
    BY <1>0, <2>1, <2>7, QuietType DEF MigrationReturns
  <2>. QED
    BY <1>10, <2>3, <2>4, <2>5, <2>6, <2>7 DEF Migrate
<1>11. ASSUME Grant \/ GrantTwice
       PROVE  SATypeOK'
  <2>1. loop.todo # <<>>
    BY <1>11 DEF Grant, GrantTwice, Granting, LoopInv
  <2>2. Current \in Requests /\ Model \in Models /\ NumGpus[Current] \in Nat
    BY <2>1, CurrentType
  <2>3. model_loading_queues' \in [Models -> Seq(Requests)]
    <3>1. Index \in DOMAIN model_loading_queues[Model]
      <4>1. Index \in Nat \ {0} /\ model_loading_queues[Model] \in Seq(Requests)
        BY <2>1, <2>2, CurrentType DEF Index, SATypeOK
      <4>. QED
        BY <1>11, <4>1 DEF Grant, GrantTwice
    <3>2. RemoveAt(model_loading_queues[Model], Index) \in Seq(Requests)
      BY <2>2, <3>1, RemoveAtProperties DEF SATypeOK
    <3>3. model_loading_queues' =
              [model_loading_queues EXCEPT ![Model] =
                  RemoveAt(model_loading_queues[Model], Index)]
      BY <1>11 DEF Grant, GrantTwice, Popped
    <3>. QED
      BY <3>2, <3>3 DEF SATypeOK
  <2>4. CASE Grant
    <3>1. loop' \in LoopRecords
      BY <2>4, ConcludeView
    <3>2. /\ allocation_result' = [allocation_result EXCEPT ![Current] =
                                       loop.node]
          /\ free_gpu' = [free_gpu EXCEPT ![loop.node] = @ - NumGpus[Current]]
          /\ UNCHANGED <<otherVars, model_order, model_instance, caller,
                         worker_nodes, loops, info>>
      BY <2>4 DEF Grant
    <3>3. loop.node \in Nodes
      BY <2>4, KnownNodes DEF LoopInv, Grant, Granting
    <3>4. free_gpu' \in [Nodes -> Int]
      BY <2>2, <3>2, <3>3 DEF SATypeOK
    <3>. QED
      BY <2>3, <3>1, <3>2, <3>3, <3>4 DEF SATypeOK, otherVars
  <2>5. CASE GrantTwice
    <3>1. loop' \in LoopRecords /\ loops' \in 0 .. 1
      BY <2>5, DiesType DEF GrantTwice, Granting
    <3>2. UNCHANGED <<otherVars, instVars, model_order, nodeVars, info>>
      BY <2>5 DEF GrantTwice
    <3>. QED
      BY <2>3, <3>1, <3>2 DEF SATypeOK, otherVars, instVars, nodeVars
  <2>. QED
    BY <1>11, <2>4, <2>5
<1>12. CASE UpdateNodes
  BY <1>0, <1>12, ConcludeView, QuietType DEF UpdateNodes
<1>13. CASE WriteNodes
  <2>1. free_gpu' \in [Nodes -> Int]
    BY <1>0, <1>13, LoopFields DEF WriteNodes, SATypeOK
  <2>2. /\ loop' \in LoopRecords
        /\ UNCHANGED <<otherVars, instVars, queueVars, worker_nodes, loops,
                       info>>
    BY <1>13, ConcludeView DEF WriteNodes
  <2>. QED
    BY <2>1, <2>2 DEF SATypeOK, otherVars, instVars, queueVars
<1>. QED
  BY <1>1, <1>2, <1>3, <1>4, <1>5, <1>6, <1>7, <1>8, <1>9, <1>10, <1>11,
     <1>12, <1>13 DEF LoopStep, Prepare, Conclude

\* Every step preserves the types.
LEMMA SATypeStep ==
    ASSUME SATypeOK, LoopInv, CallersInv, QueuesInv, [SANext]_saVars
    PROVE  SATypeOK'
<1>1. CASE UNCHANGED saVars
  BY <1>1 DEF saVars, vars, SATypeOK
<1>2. CASE LoopStep
  BY <1>2, LoopStepType
<1>3. CASE SANext /\ ~LoopStep
  <2>1. \/ SAStart \/ SAShutdown \/ SALoopExit
        \/ \E r \in Requests : \/ SAAllocate(r) \/ SARecordInstance(r)
                               \/ SADeallocate(r)
        \/ \E n \in Flaky : SANodeJoins(n) \/ SANodeLeaves(n)
    BY <1>3 DEF SANext
  <2>. QED
    BY <2>1, InheritedType
<1>. QED
  BY <1>1, <1>2, <1>3

(***************************************************************************)
(* The control loop                                                        *)
(***************************************************************************)

\* A step after which the loop has nothing in its hands.
LEMMA IdleLoop ==
    ASSUME loop'.at \in {"none", "asleep", "update", "write", "dead"},
           loops' = IF loop'.at \in {"none", "dead"} THEN 0 ELSE 1,
           starts' = 0 => loop'.at = "none",
           loop'.todo = <<>>, loop'.nodes = <<>>, loop'.options = {},
           loop'.plan = <<>>
    PROVE  LoopInv'
<1>1. ToSet(loop'.nodes) = {}
  BY EmptyElements
<1>2. DOMAIN loop'.plan = {}
  OBVIOUS
<1>. QED
  BY <1>1, <1>2 DEF LoopInv

\* The inherited operations leave the loop alone, but for its start and end.
LEMMA InheritedLoop ==
    ASSUME SATypeOK, LoopInv,
           \/ SAStart \/ SAShutdown \/ SALoopExit
           \/ \E r \in Requests : \/ SAAllocate(r) \/ SARecordInstance(r)
                                  \/ SADeallocate(r)
           \/ \E n \in Flaky : SANodeJoins(n) \/ SANodeLeaves(n)
    PROVE  LoopInv'
<1>1. ASSUME UNCHANGED <<loop, loops, starts, worker_nodes>>
      PROVE  LoopInv'
  BY <1>1 DEF LoopInv, Known
<1>2. /\ Asleep \in LoopRecords /\ Asleep.at = "asleep" /\ Asleep.todo = <<>>
      /\ Asleep.nodes = <<>> /\ Asleep.options = {} /\ Asleep.plan = <<>>
  BY AsleepType
<1> HIDE DEF Asleep
<1>3. CASE SAStart
  <2>1. /\ loops' = loops + 1 /\ starts' = starts + 1 /\ loop' = Asleep
        /\ starts \in 0 .. 1 /\ starts < MaxStarts
    BY <1>3 DEF SAStart, Start, SATypeOK
  <2>2. starts = 0 /\ loops = 0
    BY <1>3, <2>1 DEF SAStart, LoopInv
  <2>3. loops' = 1 /\ starts' = 1
    BY <2>1, <2>2
  <2>4. /\ loop'.at = "asleep" /\ loop'.todo = <<>> /\ loop'.nodes = <<>>
        /\ loop'.options = {} /\ loop'.plan = <<>>
    BY <1>2, <2>1
  <2>. QED
    BY <2>3, <2>4, IdleLoop
<1>4. CASE SALoopExit
  <2>1. /\ loops' = loops - 1 /\ loop.at = "asleep"
        /\ loop' = [Asleep EXCEPT !.at = "none"] /\ starts' = starts
    BY <1>4 DEF SALoopExit, LoopExit
  <2>2. loops' = 0
    BY <2>1 DEF LoopInv
  <2>3. /\ loop'.at = "none" /\ loop'.todo = <<>> /\ loop'.nodes = <<>>
        /\ loop'.options = {} /\ loop'.plan = <<>>
    BY <1>2, <2>1 DEF LoopRecords
  <2>4. starts' = 0 => loop'.at = "none"
    BY <2>3
  <2>. QED
    BY <2>2, <2>3, <2>4, IdleLoop
<1>5. CASE SAShutdown
  BY <1>1, <1>5 DEF SAShutdown, Shutdown
<1>6. CASE \E r \in Requests : \/ SAAllocate(r) \/ SARecordInstance(r)
                               \/ SADeallocate(r)
  BY <1>1, <1>6 DEF SAAllocate, Allocate, SARecordInstance, RecordInstance,
                    SADeallocate, Deallocate
<1>7. CASE \E n \in Flaky : SANodeJoins(n) \/ SANodeLeaves(n)
  BY <1>1, <1>7 DEF SANodeJoins, NodeJoins, SANodeLeaves, NodeLeaves
<1>. QED
  BY <1>3, <1>4, <1>5, <1>6, <1>7

\* A step in the middle of a pass: what the loop then holds is known.
LEMMA BusyLoop ==
    ASSUME LoopInv, UNCHANGED <<loops, starts>>,
           loop.at \notin {"none", "dead"},
           loop'.at \in {"info", "schedule", "lock", "status", "evict",
                         "migrate", "moved", "load"},
           loop'.todo # <<>>,
           loop'.at \in {"lock", "status"} => loop'.nodes # <<>>,
           loop'.at \in {"migrate", "moved"} => loop'.plan # <<>>,
           loop'.at \in {"evict", "migrate", "moved"} => loop'.node \in Known',
           ToSet(loop'.nodes) \subseteq Known',
           \A k \in DOMAIN loop'.plan : loop'.plan[k].target \in Known',
           \A o \in loop'.options :
               /\ o.node \in Known'
               /\ \A k \in DOMAIN o.plan : o.plan[k].target \in Known'
    PROVE  LoopInv'
<1>1. loops' = 1 /\ (starts' = 0 => FALSE)
  BY DEF LoopInv
<1>. QED
  BY <1>1 DEF LoopInv

\* The steps of the control loop keep LoopInv.
LEMMA LoopStepLoop ==
    ASSUME SATypeOK, LoopInv, CallersInv, QueuesInv, LoopStep
    PROVE  LoopInv'
<1>0. loop \in LoopRecords /\ worker_nodes \in Seq(Nodes)
  BY DEF SATypeOK
<1>a. ASSUME worker_nodes' = worker_nodes
      PROVE  Known' = Known
  BY <1>a DEF Known
<1>b. /\ ToSet(loop.nodes) \subseteq Known
      /\ \A k \in DOMAIN loop.plan : loop.plan[k].target \in Known
      /\ \A o \in loop.options :
             /\ o.node \in Known
             /\ \A k \in DOMAIN o.plan : o.plan[k].target \in Known
      /\ starts = 0 => loop.at = "none"
      /\ loop.at \notin {"none", "dead"} => loops = 1
      /\ loop.todo = <<>> <=>
             loop.at \in {"none", "asleep", "update", "write", "dead"}
  BY DEF LoopInv
<1>c. ASSUME loop.nodes # <<>>
      PROVE  ToSet(Tail(loop.nodes)) \subseteq ToSet(loop.nodes)
  BY <1>c, NextNodeType
<1>1. CASE SABeginPass
  <2>1. Known \subseteq Known'
    BY <1>1, WorkerNodes DEF SABeginPass
  <2>2. /\ loop'.at = "info" /\ loop'.todo # <<>>
        /\ loop'.nodes = loop.nodes /\ loop'.options = loop.options
        /\ loop'.plan = loop.plan
    BY <1>1, BeginPassView
  <2>3. loop.at = "asleep" /\ UNCHANGED <<loops, starts>>
    BY <1>1 DEF SABeginPass, otherVars
  <2>. QED
    BY <1>b, <2>1, <2>2, <2>3, BusyLoop
<1>2. CASE ReceiveInfo
  <2>1. /\ loop.at = "info" /\ UNCHANGED <<loops, starts, worker_nodes>>
        /\ loop' = [loop EXCEPT !.at = "schedule", !.nodes = worker_nodes,
                                !.options = {}]
    BY <1>2 DEF ReceiveInfo, otherVars, nodeVars
  <2>2. /\ loop'.at = "schedule" /\ loop'.nodes = worker_nodes
        /\ loop'.options = {} /\ loop'.todo = loop.todo
        /\ loop'.plan = loop.plan
    BY <1>0, <2>1 DEF LoopRecords
  <2>3. Known' = Known /\ ToSet(loop'.nodes) = Known
    BY <1>a, <2>1, <2>2 DEF Known
  <2>. QED
    BY <1>b, <2>1, <2>2, <2>3, BusyLoop
<1>3. CASE SkipNode \/ TryMigration \/ TakeLock
  <2>1. /\ UNCHANGED <<loops, starts, worker_nodes>>
        /\ Checks \/ loop.at = "lock"
    BY <1>3 DEF SkipNode, TryMigration, TakeLock, otherVars, nodeVars
  <2>2. loop.todo # <<>> /\ loop.nodes # <<>>
    BY <2>1, ChecksType
  <2>3. /\ NextNode.at = "schedule" /\ NextNode.nodes = Tail(loop.nodes)
        /\ NextNode.todo = loop.todo /\ NextNode.options = loop.options
        /\ NextNode.plan = loop.plan
    BY <2>2, NextNodeType
  <2> HIDE DEF NextNode
  <2>4. SkipNode => loop' = NextNode
    BY DEF SkipNode
  <2>5. /\ loop'.todo = loop.todo /\ loop'.options = loop.options
        /\ loop'.plan = loop.plan
        /\ \/ loop'.at \in {"lock", "status"} /\ loop'.nodes = loop.nodes
           \/ loop'.at = "schedule" /\ loop'.nodes = Tail(loop.nodes)
    BY <1>3, <2>3, <2>4, LockView
  <2>6. loop.at \notin {"none", "dead"}
    BY <2>1 DEF Checks
  <2>7. Known' = Known /\ ToSet(loop'.nodes) \subseteq Known
    BY <1>a, <1>b, <1>c, <2>1, <2>2, <2>5
  <2>. QED
    BY <1>b, <2>1, <2>2, <2>5, <2>6, <2>7, BusyLoop
<1>4. CASE NodeNotMeasured \/ RouterGone \/ GrantNoEntry \/ GrantTwice
  <2>1. Dies /\ loop.at \notin {"none", "dead"} /\ starts' = starts
    BY <1>4 DEF NodeNotMeasured, RouterGone, GrantNoEntry, GrantTwice, Checks,
                Granting, otherVars
  <2>2. /\ loops' = 0 /\ loop'.at = "dead" /\ loop'.todo = <<>>
        /\ loop'.nodes = <<>> /\ loop'.options = {} /\ loop'.plan = <<>>
    BY <2>1, DiesType
  <2>3. starts' # 0
    BY <1>b, <2>1
  <2>. QED
    BY <2>2, <2>3, IdleLoop
<1>5. CASE OfferNode
  <2> DEFINE o == [node |-> Node, latency |-> Latency(Model, Node),
                   plan |-> <<>>]
  <2>1. /\ UNCHANGED <<loops, starts, worker_nodes>> /\ Checks
    BY <1>5 DEF OfferNode, otherVars, nodeVars
  <2>2. loop.todo # <<>> /\ loop.nodes # <<>> /\ Node \in Known
    BY <2>1, ChecksType
  <2>3. o.node = Node /\ DOMAIN o.plan = {}
    OBVIOUS
  <2>4. /\ loop'.at = "schedule" /\ loop'.nodes = Tail(loop.nodes)
        /\ loop'.todo = loop.todo /\ loop'.plan = loop.plan
        /\ loop'.options = loop.options \cup {o}
    BY <1>5, OfferView
  <2> HIDE DEF o
  <2>5. loop.at = "schedule"
    BY <2>1 DEF Checks
  <2>6. Known' = Known /\ ToSet(loop'.nodes) \subseteq Known
    BY <1>a, <1>b, <1>c, <2>1, <2>2, <2>4
  <2>7. \A p \in loop'.options :
           /\ p.node \in Known'
           /\ \A k \in DOMAIN p.plan : p.plan[k].target \in Known'
    BY <1>b, <2>2, <2>3, <2>4, <2>6
  <2>. QED
    BY <1>b, <2>1, <2>2, <2>4, <2>5, <2>6, <2>7, BusyLoop
<1>6. CASE Decide
  <2>1. PICK o \in loop.options :
               /\ loop'.at = "evict" /\ loop'.todo = loop.todo
               /\ loop'.nodes = loop.nodes /\ loop'.options = {}
               /\ loop'.plan = o.plan /\ loop'.node = o.node
    BY <1>6, DecideView
  <2>2. UNCHANGED <<loops, starts, worker_nodes>> /\ loop.at = "schedule"
    BY <1>6 DEF Decide, otherVars, nodeVars
  <2>. QED
    BY <1>a, <1>b, <2>1, <2>2, BusyLoop
<1>7. CASE NoOption \/ LoadReturns
  <2>1. /\ UNCHANGED <<loops, starts, worker_nodes>> /\ loop' = NextRequest
        /\ loop.at \in {"schedule", "load"}
    BY <1>7 DEF NoOption, LoadReturns, otherVars, nodeVars
  <2>2. loop.todo # <<>>
    BY <1>b, <2>1
  <2>3. /\ loop'.options = {} /\ loop'.plan = <<>>
        /\ \/ /\ loop'.at = "update" /\ loop'.todo = <<>>
              /\ loop'.nodes = <<>>
           \/ /\ loop'.at = "schedule"
              /\ loop'.todo # <<>>
              /\ loop'.nodes = worker_nodes
    BY <2>1, <2>2, NextRequestType
  <2>4. CASE loop'.at = "update"
    BY <1>b, <2>1, <2>3, <2>4, IdleLoop
  <2>5. CASE loop'.at = "schedule"
    <3>1. Known' = Known /\ ToSet(loop'.nodes) \subseteq Known
      BY <1>a, <2>1, <2>3, <2>5 DEF Known
    <3>2. DOMAIN loop'.plan = {}
      BY <2>3
    <3>. QED
      BY <2>1, <2>3, <2>5, <3>1, <3>2, BusyLoop
  <2>. QED
    BY <2>3, <2>4, <2>5
<1>8. ASSUME NEW A \in SUBSET Requests, PlanMigration(A)
      PROVE  LoopInv'
  <2>1. UNCHANGED <<loops, starts, worker_nodes>> /\ loop.at = "status"
    BY <1>8 DEF PlanMigration, otherVars, nodeVars
  <2>2. loop.todo # <<>> /\ loop.nodes # <<>>
    BY <2>1, ChecksType
  <2>3. /\ loop'.at = "schedule" /\ loop'.nodes = Tail(loop.nodes)
        /\ loop'.todo = loop.todo /\ loop'.plan = loop.plan
        /\ \/ loop'.options = loop.options
           \/ \E o \in Option :
                 /\ loop'.options = loop.options \cup {o}
                 /\ o.node \in Known
                 /\ \A k \in DOMAIN o.plan : o.plan[k].target \in Known
    BY <1>8, PlanView
  <2>4. Known' = Known /\ ToSet(loop'.nodes) \subseteq Known
    BY <1>a, <1>b, <1>c, <2>1, <2>2, <2>3
  <2>5. \A p \in loop'.options :
           /\ p.node \in Known'
           /\ \A k \in DOMAIN p.plan : p.plan[k].target \in Known'
    BY <1>b, <2>3, <2>4
  <2>. QED
    BY <1>b, <2>1, <2>2, <2>3, <2>4, <2>5, BusyLoop
<1>9. CASE Migrate
  <2>1. UNCHANGED <<loops, starts, worker_nodes>>
    BY <1>9 DEF Migrate, StartMigration, MarkResource, MoveInstance,
                MigrationFails, MigrationReturns, otherVars, nodeVars
  <2>2. /\ loop.plan # <<>>
        /\ loop'.todo = loop.todo /\ loop'.nodes = loop.nodes
        /\ loop'.options = loop.options /\ loop'.node = loop.node
        /\ loop.at \in {"evict", "migrate", "moved"}
        /\ loop'.at \in {"evict", "migrate", "moved"}
        /\ \/ loop'.plan = loop.plan
           \/ loop'.at = "evict" /\ loop'.plan = Tail(loop.plan)
    BY <1>9, MigrateView
  <2>3. \A k \in DOMAIN loop'.plan : loop'.plan[k].target \in Known
    BY <1>b, <2>2, MoveType
  <2>4. loop.node \in Known
    BY <2>2 DEF LoopInv
  <2>. QED
    BY <1>a, <1>b, <2>1, <2>2, <2>3, <2>4, BusyLoop
<1>10. CASE Grant
  <2>1. /\ UNCHANGED <<loops, starts, worker_nodes>> /\ loop.at = "evict"
    BY <1>10 DEF Grant, Granting, otherVars
  <2>2. /\ loop'.at = "load" /\ loop'.todo = loop.todo
        /\ loop'.nodes = loop.nodes /\ loop'.options = loop.options
        /\ loop'.plan = loop.plan
    BY <1>10, ConcludeView
  <2>. QED
    BY <1>a, <1>b, <2>1, <2>2, BusyLoop
<1>11. CASE UpdateNodes \/ WriteNodes
  <2>1. /\ UNCHANGED <<loops, starts, worker_nodes>>
        /\ loop.at \in {"update", "write"}
    BY <1>11 DEF UpdateNodes, WriteNodes, otherVars, nodeVars
  <2>2. /\ Asleep.at = "asleep" /\ Asleep.todo = <<>>
        /\ Asleep.nodes = <<>> /\ Asleep.options = {} /\ Asleep.plan = <<>>
    BY AsleepType
  <2> HIDE DEF Asleep
  <2>3. CASE loop' = Asleep
    BY <1>b, <2>1, <2>2, <2>3, IdleLoop
  <2>4. CASE loop' # Asleep
    <3>1. /\ loop'.at = "write" /\ loop'.todo = loop.todo
          /\ loop'.nodes = loop.nodes /\ loop'.options = loop.options
          /\ loop'.plan = loop.plan /\ loop.at = "update"
      BY <1>11, <2>4, ConcludeView DEF UpdateNodes
    <3>. QED
      BY <1>a, <1>b, <2>1, <3>1 DEF LoopInv
  <2>. QED
    BY <2>3, <2>4
<1>. QED
  BY <1>1, <1>2, <1>3, <1>4, <1>5, <1>6, <1>7, <1>8, <1>9, <1>10, <1>11
     DEF LoopStep, Prepare, Conclude

\* Every step keeps LoopInv.
LEMMA LoopInvStep ==
    ASSUME SATypeOK, LoopInv, CallersInv, QueuesInv, [SANext]_saVars
    PROVE  LoopInv'
<1>1. CASE UNCHANGED saVars
  BY <1>1 DEF saVars, vars, LoopInv, Known
<1>2. CASE LoopStep
  BY <1>2, LoopStepLoop
<1>3. CASE SANext /\ ~LoopStep
  <2>1. \/ SAStart \/ SAShutdown \/ SALoopExit
        \/ \E r \in Requests : \/ SAAllocate(r) \/ SARecordInstance(r)
                               \/ SADeallocate(r)
        \/ \E n \in Flaky : SANodeJoins(n) \/ SANodeLeaves(n)
    BY <1>3 DEF SANext
  <2>. QED
    BY <2>1, InheritedLoop
<1>. QED
  BY <1>1, <1>2, <1>3

\* worker_nodes changes only where a pass begins, and nodes are only added.
LEMMA KnownStep ==
    ASSUME SATypeOK, [SANext]_saVars
    PROVE  /\ Known \subseteq Known'
           /\ SABeginPass \/ worker_nodes' = worker_nodes
<1>1. SABeginPass => Known \subseteq Known'
  BY WorkerNodes DEF SABeginPass
<1>2. ~SABeginPass => worker_nodes' = worker_nodes
  BY DEF SANext, SAStart, Start, SAShutdown, Shutdown, SALoopExit, LoopExit,
         SAAllocate, Allocate, SARecordInstance, RecordInstance,
         SADeallocate, Deallocate, SANodeJoins, NodeJoins, SANodeLeaves,
         NodeLeaves, LoopStep, ReceiveInfo, Prepare, SkipNode,
         NodeNotMeasured, OfferNode, TryMigration, TakeLock, RouterGone,
         Decide, NoOption, PlanMigration, Migrate, StartMigration,
         MarkResource, MoveInstance, MigrationFails, MigrationReturns,
         Conclude, Grant, GrantNoEntry, GrantTwice, LoadReturns, UpdateNodes,
         WriteNodes, nodeVars, saVars, vars
<1>. QED
  BY <1>1, <1>2 DEF Known

\* The steps that set no future and move no caller.
LEMMA QuietCallers ==
    ASSUME SATypeOK, CallersInv, [SANext]_saVars, UNCHANGED instVars,
           loop'.at = "migrate" => loop' = loop
    PROVE  CallersInv'
<1>1. Known \subseteq Known'
  BY KnownStep
<1>2. CASE loop' = loop
  BY <1>1, <1>2 DEF CallersInv, instVars, Move
<1>3. CASE loop'.at # "migrate"
  BY <1>1, <1>3 DEF CallersInv, instVars
<1>. QED
  BY <1>2, <1>3

\* Every step keeps futures, callers and recorded instances in agreement.
LEMMA CallersStep ==
    ASSUME SATypeOK, LoopInv, CallersInv, QueuesInv, TodoInv,
           [SANext]_saVars
    PROVE  CallersInv'
<1>0. /\ allocation_result \in [Requests -> Nodes \cup {NoNode}]
      /\ model_instance \in [Requests -> Nodes \cup {NoNode}]
      /\ caller \in [Requests -> {"new", "waiting", "migrating", "holding",
                                  "released"}]
      /\ loop \in LoopRecords
      /\ Known \subseteq Nodes /\ NoNode \notin Nodes
  BY KnownNodes, NodesAssumption DEF SATypeOK
<1>1. Known \subseteq Known'
  BY KnownStep
<1>a. /\ \A r \in Requests :
           /\ allocation_result[r] # NoNode => /\ allocation_result[r] \in Known
                                               /\ caller[r] # "new"
           /\ caller[r] \in {"migrating", "holding", "released"} =>
                  allocation_result[r] # NoNode
           /\ model_instance[r] # NoNode =>
                  model_instance[r] = allocation_result[r]
           /\ caller[r] = "holding" => model_instance[r] # NoNode
      /\ loop.at = "migrate" => /\ loop.inst \in Requests
                                /\ caller[loop.inst] = "migrating"
                                /\ allocation_result[loop.inst] = Move.target
  BY DEF CallersInv
<1>2. ASSUME UNCHANGED instVars, loop'.at = "migrate" => loop' = loop
      PROVE  CallersInv'
  BY <1>2, QuietCallers
<1>b. Asleep \in LoopRecords /\ Asleep.at = "asleep"
  BY AsleepType
<1>3. CASE SAStart \/ SALoopExit
  <2>1. /\ UNCHANGED instVars
        /\ loop' = Asleep \/ loop' = [Asleep EXCEPT !.at = "none"]
    BY <1>3 DEF SAStart, Start, SALoopExit, LoopExit, instVars
  <2> HIDE DEF Asleep
  <2>2. loop'.at # "migrate"
    BY <1>b, <2>1 DEF LoopRecords
  <2>. QED
    BY <1>2, <2>1, <2>2
<1>4. CASE \/ SAShutdown \/ UNCHANGED saVars
           \/ \E n \in Flaky : SANodeJoins(n) \/ SANodeLeaves(n)
  BY <1>2, <1>4 DEF SAShutdown, Shutdown, SANodeJoins, NodeJoins,
                    SANodeLeaves, NodeLeaves, saVars, vars, instVars
<1>5. ASSUME NEW r \in Requests, SAAllocate(r)
      PROVE  CallersInv'
  <2>1. /\ caller[r] = "new" /\ caller' = [caller EXCEPT ![r] = "waiting"]
        /\ UNCHANGED <<allocation_result, model_instance, loop>>
    BY <1>5 DEF SAAllocate, Allocate
  <2>. QED
    BY <1>0, <1>1, <1>a, <2>1 DEF CallersInv, Move
<1>6. ASSUME NEW r \in Requests, SARecordInstance(r)
      PROVE  CallersInv'
  <2>1. /\ caller[r] = "waiting" /\ allocation_result[r] # NoNode
        /\ caller' = [caller EXCEPT ![r] = "holding"]
        /\ model_instance' = [model_instance EXCEPT ![r] =
                                  allocation_result[r]]
        /\ UNCHANGED <<allocation_result, loop>>
    BY <1>6 DEF SARecordInstance, RecordInstance
  <2>. QED
    BY <1>0, <1>1, <1>a, <2>1 DEF CallersInv, Move
<1>7. ASSUME NEW r \in Requests, SADeallocate(r)
      PROVE  CallersInv'
  <2>1. /\ caller[r] = "holding"
        /\ caller' = [caller EXCEPT ![r] = "released"]
        /\ model_instance' = [model_instance EXCEPT ![r] = NoNode]
        /\ UNCHANGED <<allocation_result, loop>>
    BY <1>7 DEF SADeallocate, Deallocate
  <2>. QED
    BY <1>0, <1>1, <1>a, <2>1 DEF CallersInv, Move
<1>8. CASE SABeginPass
  BY <1>2, <1>8, BeginPassView DEF SABeginPass
<1>9. CASE ReceiveInfo
  <2>1. /\ loop' = [loop EXCEPT !.at = "schedule", !.nodes = worker_nodes,
                                !.options = {}]
        /\ UNCHANGED instVars
    BY <1>9 DEF ReceiveInfo
  <2>. QED
    BY <1>0, <1>2, <2>1 DEF LoopRecords
<1>10. CASE SkipNode \/ TryMigration \/ TakeLock
  <2>1. /\ UNCHANGED instVars
        /\ Checks \/ loop.at = "lock"
    BY <1>10 DEF SkipNode, TryMigration, TakeLock
  <2>2. NextNode.at = "schedule"
    BY <2>1, ChecksType, NextNodeType
  <2> HIDE DEF NextNode
  <2>3. loop'.at # "migrate"
    BY <1>10, <2>2, LockView DEF SkipNode
  <2>. QED
    BY <1>2, <2>1, <2>3
<1>11. CASE NodeNotMeasured \/ RouterGone \/ GrantNoEntry \/ GrantTwice
  <2>1. /\ Dies /\ loop.at \notin {"none", "dead"}
        /\ UNCHANGED instVars
    BY <1>11 DEF NodeNotMeasured, RouterGone, GrantNoEntry, GrantTwice,
                 Checks, Granting
  <2>. QED
    BY <1>2, <2>1, DiesType
<1>12. CASE OfferNode
  BY <1>2, <1>12, OfferView DEF OfferNode
<1>13. CASE Decide
  BY <1>2, <1>13, DecideView DEF Decide
<1>14. CASE NoOption \/ LoadReturns
  <2>1. /\ UNCHANGED instVars /\ loop' = NextRequest /\ loop.todo # <<>>
    BY <1>14 DEF NoOption, LoadReturns, LoopInv
  <2>. QED
    BY <1>2, <2>1, NextRequestType
<1>15. ASSUME NEW A \in SUBSET Requests, PlanMigration(A)
       PROVE  CallersInv'
  BY <1>2, <1>15, PlanView DEF PlanMigration
<1>16. CASE UpdateNodes \/ WriteNodes
  <2>1. UNCHANGED instVars /\ (loop' = Asleep \/ loop'.at = "write")
    BY <1>16, ConcludeView DEF UpdateNodes, WriteNodes
  <2>. QED
    BY <1>2, <1>b, <2>1
<1>17. CASE MigrationReturns
  <2>1. /\ loop' = [loop EXCEPT !.at = "evict", !.plan = Tail(@),
                                !.inst = NoNode]
        /\ UNCHANGED instVars
    BY <1>17 DEF MigrationReturns
  <2>2. loop'.at = "evict"
    BY <1>0, <2>1 DEF LoopRecords
  <2>. QED
    BY <1>2, <2>1, <2>2
<1>18. ASSUME NEW r \in Requests, StartMigration(r)
       PROVE  CallersInv'
  <2>1. /\ caller[r] = "new" /\ loop.plan # <<>>
        /\ caller' = [caller EXCEPT ![r] = "migrating"]
        /\ allocation_result' = [allocation_result EXCEPT ![r] = Move.target]
        /\ model_instance' = model_instance
        /\ loop' = [loop EXCEPT !.at = "migrate", !.inst = r,
                                !.contended = FALSE]
    BY <1>18 DEF StartMigration
  <2>2. Move.target \in Known /\ Move.target # NoNode
    <3>1. Move = loop.plan[1] /\ 1 \in DOMAIN loop.plan
      BY <2>1, MoveType
    <3>2. Move.target \in Known
      BY <3>1 DEF LoopInv
    <3>. QED
      BY <1>0, <3>2
  <2>3. loop'.inst = r /\ loop'.plan = loop.plan
    BY <1>0, <2>1 DEF LoopRecords
  <2>4. Move' = Move
    BY <2>3 DEF Move
  <2>5. model_instance[r] = NoNode /\ allocation_result[r] = NoNode
    BY <1>a, <2>1
  <2>6. \A q \in Requests :
           /\ allocation_result'[q] = IF q = r THEN Move.target
                                      ELSE allocation_result[q]
           /\ caller'[q] = IF q = r THEN "migrating" ELSE caller[q]
    BY <1>0, <2>1
  <2> HIDE DEF Move
  <2>7. \A q \in Requests :
           /\ allocation_result'[q] # NoNode =>
                 allocation_result'[q] \in Known' /\ caller'[q] # "new"
           /\ caller'[q] \in {"migrating", "holding", "released"} =>
                  allocation_result'[q] # NoNode
           /\ model_instance'[q] # NoNode =>
                  model_instance'[q] = allocation_result'[q]
           /\ caller'[q] = "holding" => model_instance'[q] # NoNode
    BY <1>1, <1>a, <2>1, <2>2, <2>5, <2>6
  <2>. QED
    BY <2>3, <2>4, <2>6, <2>7 DEF CallersInv
<1>19. CASE MarkResource
  <2>1. /\ loop.at = "migrate" /\ loop' = loop
        /\ model_instance' = [model_instance EXCEPT ![loop.inst] =
                                  Move.target]
        /\ UNCHANGED <<caller, allocation_result>>
    BY <1>19 DEF MarkResource
  <2>2. Move' = Move
    BY <2>1 DEF Move
  <2> HIDE DEF Move
  <2>3. \A q \in Requests :
           model_instance'[q] = IF q = loop.inst THEN Move.target
                                ELSE model_instance[q]
    BY <1>0, <2>1
  <2>4. allocation_result[loop.inst] = Move.target /\ loop.inst \in Requests
        /\ caller[loop.inst] = "migrating"
    BY <1>a, <2>1
  <2>5. \A q \in Requests :
           /\ allocation_result'[q] # NoNode =>
                 allocation_result'[q] \in Known' /\ caller'[q] # "new"
           /\ caller'[q] \in {"migrating", "holding", "released"} =>
                  allocation_result'[q] # NoNode
           /\ model_instance'[q] # NoNode =>
                  model_instance'[q] = allocation_result'[q]
           /\ caller'[q] = "holding" => model_instance'[q] # NoNode
    BY <1>1, <1>a, <2>1, <2>3, <2>4
  <2>. QED
    BY <2>1, <2>2, <2>4, <2>5 DEF CallersInv
<1>20. CASE MoveInstance
  <2>1. /\ loop.at = "migrate" /\ model_instance[loop.inst] # NoNode
        /\ caller[Move.source] = "holding"
        /\ model_instance' = [model_instance EXCEPT ![Move.source] = NoNode]
        /\ caller' = [caller EXCEPT ![Move.source] = "released",
                                    ![loop.inst] = "holding"]
        /\ loop' = [loop EXCEPT !.at = "moved"]
        /\ allocation_result' = allocation_result
    BY <1>20 DEF MoveInstance
  <2>2. loop'.at = "moved"
    BY <1>0, <2>1 DEF LoopRecords
  <2>3. loop.inst \in Requests /\ caller[loop.inst] = "migrating"
    BY <1>a, <2>1
  <2>4. Move.source \in Requests
    <3>1. loop.plan # <<>>
      BY <2>1 DEF LoopInv
    <3>. QED
      BY <3>1, MoveType
  <2> HIDE DEF Move
  <2>5. \A q \in Requests :
           /\ caller'[q] = IF q = loop.inst THEN "holding"
                           ELSE IF q = Move.source THEN "released"
                           ELSE caller[q]
           /\ model_instance'[q] = IF q = Move.source THEN NoNode
                                   ELSE model_instance[q]
    BY <1>0, <2>1, <2>3, <2>4
  <2>6. loop.inst # Move.source
    BY <2>1, <2>3
  <2>7. ASSUME NEW q \in Requests
        PROVE  /\ allocation_result'[q] # NoNode =>
                      allocation_result'[q] \in Known' /\ caller'[q] # "new"
               /\ caller'[q] \in {"migrating", "holding", "released"} =>
                      allocation_result'[q] # NoNode
               /\ model_instance'[q] # NoNode =>
                      model_instance'[q] = allocation_result'[q]
               /\ caller'[q] = "holding" => model_instance'[q] # NoNode
    <3>1. CASE q = loop.inst
      BY <1>1, <1>a, <2>1, <2>3, <2>5, <2>6, <3>1
    <3>a. /\ allocation_result'[q] = allocation_result[q]
          /\ allocation_result[q] # NoNode =>
                 allocation_result[q] \in Known /\ caller[q] # "new"
          /\ caller[q] \in {"migrating", "holding", "released"} =>
                 allocation_result[q] # NoNode
          /\ model_instance[q] # NoNode =>
                 model_instance[q] = allocation_result[q]
          /\ caller[q] = "holding" => model_instance[q] # NoNode
      BY <1>a, <2>1
    <3>2. CASE q = Move.source
      <4>1. caller'[q] = "released" /\ model_instance'[q] = NoNode
        BY <2>5, <2>6, <3>2
      <4>2. caller[q] = "holding"
        BY <2>1, <3>2
      <4>. QED
        BY <1>1, <3>a, <4>1, <4>2
    <3>3. CASE q # loop.inst /\ q # Move.source
      <4>1. caller'[q] = caller[q] /\ model_instance'[q] = model_instance[q]
        BY <2>5, <3>3
      <4>. QED
        BY <1>1, <3>a, <4>1
    <3>. QED
      BY <3>1, <3>2, <3>3
  <2>. QED
    BY <2>2, <2>7 DEF CallersInv
<1>21. CASE MigrationFails
  <2>1. /\ loop.at = "migrate"
        /\ caller' = [caller EXCEPT ![loop.inst] = "released"]
        /\ loop' = [loop EXCEPT !.at = "evict", !.plan = Tail(@),
                                !.inst = NoNode]
        /\ UNCHANGED <<allocation_result, model_instance>>
    BY <1>21 DEF MigrationFails
  <2>2. loop'.at = "evict"
    BY <1>0, <2>1 DEF LoopRecords
  <2>3. loop.inst \in Requests /\ caller[loop.inst] = "migrating"
    BY <1>a, <2>1
  <2>. QED
    BY <1>0, <1>1, <1>a, <2>1, <2>2, <2>3 DEF CallersInv
<1>22. CASE Grant
  <2>1. /\ allocation_result[Current] = NoNode
        /\ allocation_result' = [allocation_result EXCEPT ![Current] =
                                     loop.node]
        /\ UNCHANGED <<caller, model_instance>> /\ loop.at = "evict"
    BY <1>22 DEF Grant, Granting
  <2>2. loop'.at = "load"
    BY <1>22, ConcludeView
  <2>3. loop.node \in Known /\ loop.todo # <<>>
    BY <2>1 DEF LoopInv
  <2>4. Current \in Requests /\ caller[Current] # "new"
    BY <2>3, CurrentType DEF TodoInv, Todo, Current
  <2> HIDE DEF Current
  <2>5. \A q \in Requests :
           allocation_result'[q] = IF q = Current THEN loop.node
                                   ELSE allocation_result[q]
    BY <1>0, <2>1
  <2>6. model_instance[Current] = NoNode
    BY <1>a, <2>1, <2>4
  <2>7. loop.node # NoNode
    BY <1>0, <2>3
  <2>. QED
    BY <1>1, <1>a, <2>1, <2>2, <2>3, <2>4, <2>5, <2>6, <2>7 DEF CallersInv
<1>. QED
  BY <1>3, <1>4, <1>5, <1>6, <1>7, <1>8, <1>9, <1>10, <1>11, <1>12, <1>13,
     <1>14, <1>15, <1>16, <1>17, <1>18, <1>19, <1>20, <1>21, <1>22
     DEF SANext, LoopStep, Prepare, Migrate, Conclude

(***************************************************************************)
(* The books                                                               *)
(***************************************************************************)

\* Who holds what stays.
LEMMA InUseSame ==
    ASSUME \A q \in Requests, n \in Nodes : Holds(q, n)' <=> Holds(q, n)
    PROVE  \A n \in Nodes : GpusInUse(n)' = GpusInUse(n)
<1>1. \A n \in Nodes : Holders(n)' = Holders(n)
  BY DEF Holders
<1>. QED
  BY <1>1 DEF GpusInUse

\* A request that held no node is given k.
LEMMA InUseMore ==
    ASSUME NEW r \in Requests, NEW k \in Nodes,
           \A n \in Nodes : ~Holds(r, n),
           \A n \in Nodes : Holds(r, n)' <=> n = k,
           \A q \in Requests \ {r}, n \in Nodes : Holds(q, n)' <=> Holds(q, n)
    PROVE  /\ GpusInUse(k)' = GpusInUse(k) + NumGpus[r]
           /\ \A n \in Nodes \ {k} : GpusInUse(n)' = GpusInUse(n)
<1>1. \A n \in Nodes \ {k} : Holders(n)' = Holders(n)
  BY DEF Holders
<1>2. /\ Holders(k) \in SUBSET Requests /\ r \notin Holders(k)
      /\ Holders(k)' = Holders(k) \cup {r}
  BY DEF Holders
<1>3. Cardinality(GpusOf(Holders(k) \cup {r})) =
          Cardinality(GpusOf(Holders(k))) + NumGpus[r]
  BY <1>2, GpusOfAdd
<1>. QED
  BY <1>1, <1>2, <1>3 DEF GpusInUse

\* The request that held k gives it back.
LEMMA InUseLess ==
    ASSUME NEW r \in Requests, NEW k \in Nodes,
           \A n \in Nodes : ~Holds(r, n)',
           \A n \in Nodes : Holds(r, n) <=> n = k,
           \A q \in Requests \ {r}, n \in Nodes : Holds(q, n)' <=> Holds(q, n)
    PROVE  /\ GpusInUse(k)' \in Nat
           /\ GpusInUse(k)' = GpusInUse(k) - NumGpus[r]
           /\ \A n \in Nodes \ {k} : GpusInUse(n)' = GpusInUse(n)
<1>1. \A n \in Nodes \ {k} : Holders(n)' = Holders(n)
  BY DEF Holders
<1>2. /\ Holders(k)' \in SUBSET Requests /\ r \notin Holders(k)'
      /\ Holders(k) = Holders(k)' \cup {r}
  BY DEF Holders
<1>3. Cardinality(GpusOf(Holders(k)' \cup {r})) =
          Cardinality(GpusOf(Holders(k)')) + NumGpus[r]
  BY <1>2, GpusOfAdd
<1>4. GpusInUse(k)' \in Nat
  BY <1>2, GpusOfFinite, FS_CardinalityType DEF GpusInUse
<1>5. GpusInUse(k) = GpusInUse(k)' + NumGpus[r]
  BY <1>2, <1>3 DEF GpusInUse
<1>6. NumGpus[r] \in Nat
  BY RequestsAssumption
<1>. QED
  BY <1>1, <1>4, <1>5, <1>6 DEF GpusInUse

\* No instance is on a node the scheduler does not know.
LEMMA UnknownUnused ==
    ASSUME CallersInv, NEW n \in Nodes \ Known
    PROVE  GpusInUse(n) = 0
<1>1. \A r \in Requests : ~Holds(r, n)
  BY NodesAssumption DEF CallersInv, Holds
<1>2. GpusOf(Holders(n)) = {}
  BY <1>1 DEF GpusOf, Holders
<1>. QED
  BY <1>2, FS_EmptySet DEF GpusInUse

\* What a step does to the books: nothing, or it takes g GPUs of k for an
\* instance of r, or gives them back.
BookStays ==
    /\ UNCHANGED <<free_gpu, worker_nodes>>
    /\ \A n \in Nodes : GpusInUse(n)' = GpusInUse(n)

BookTakes(r, k, g) ==
    /\ UNCHANGED worker_nodes
    /\ free_gpu' = [free_gpu EXCEPT ![k] = @ - g]
    /\ GpusInUse(k)' = GpusInUse(k) + NumGpus[r]
    /\ \A n \in Nodes \ {k} : GpusInUse(n)' = GpusInUse(n)

BookGives(r, k, g) ==
    /\ UNCHANGED worker_nodes
    /\ free_gpu' = [free_gpu EXCEPT ![k] = @ + g]
    /\ GpusInUse(k)' \in Nat
    /\ GpusInUse(k)' = GpusInUse(k) - NumGpus[r]
    /\ \A n \in Nodes \ {k} : GpusInUse(n)' = GpusInUse(n)

\* g is what an instance of r needs; with migration it may be what another
\* request needs.
Sized(r, g) == \/ g = NumGpus[r]
               \/ enable_migration /\ \E q \in Requests : g = NumGpus[q]

\* Every step does one of these to the books, adds nodes or writes the copy
\* back.
LEMMA BookSteps ==
    ASSUME SATypeOK, LoopInv, CallersInv, QueuesInv, TodoInv, PlainInv,
           [SANext]_saVars
    PROVE  \/ BookStays
           \/ SABeginPass
           \/ WriteNodes
           \/ \E r \in Requests, k \in Known, g \in Nat :
                 /\ Sized(r, g)
                 /\ \/ BookGives(r, k, g)
                    \/ /\ BookTakes(r, k, g) /\ loop.at = "evict"
                       /\ enable_migration \/ free_gpu[k] >= g
<1> USE NodesAssumption
<1> DEFINE G == \/ BookStays
                \/ SABeginPass
                \/ WriteNodes
                \/ \E r \in Requests, k \in Known, g \in Nat :
                      /\ Sized(r, g)
                      /\ \/ BookGives(r, k, g)
                         \/ /\ BookTakes(r, k, g) /\ loop.at = "evict"
                            /\ enable_migration \/ free_gpu[k] >= g
<1>0. /\ allocation_result \in [Requests -> Nodes \cup {NoNode}]
      /\ caller \in [Requests -> {"new", "waiting", "migrating", "holding",
                                  "released"}]
      /\ Known \subseteq Nodes /\ NoNode \notin Nodes
      /\ \A r \in Requests : NumGpus[r] \in Nat
      /\ enable_migration \in BOOLEAN
  BY KnownNodes, RequestsAssumption DEF SATypeOK
<1>a. /\ \A r \in Requests :
           /\ allocation_result[r] # NoNode => /\ allocation_result[r] \in Known
                                               /\ caller[r] # "new"
           /\ caller[r] \in {"migrating", "holding", "released"} =>
                  allocation_result[r] # NoNode
           /\ model_instance[r] # NoNode =>
                  model_instance[r] = allocation_result[r]
           /\ caller[r] = "holding" => model_instance[r] # NoNode
      /\ loop.at = "migrate" => /\ loop.inst \in Requests
                                /\ caller[loop.inst] = "migrating"
                                /\ allocation_result[loop.inst] = Move.target
  BY DEF CallersInv
<1>1. ASSUME UNCHANGED <<allocation_result, caller, free_gpu, worker_nodes>>
      PROVE  G
  <2>1. \A q \in Requests, n \in Nodes : Holds(q, n)' <=> Holds(q, n)
    BY <1>1 DEF Holds
  <2>2. \A n \in Nodes : GpusInUse(n)' = GpusInUse(n)
    BY <2>1, InUseSame
  <2>. QED
    BY <1>1, <2>2 DEF BookStays
\* An instance gives back what it held.
<1>2. ASSUME NEW r \in Requests, NEW k \in Known, NEW g \in Nat, Sized(r, g),
             caller[r] # "released", allocation_result[r] = k,
             allocation_result' = allocation_result,
             worker_nodes' = worker_nodes,
             caller'[r] = "released",
             \A q \in Requests \ {r} :
                 caller'[q] = "released" <=> caller[q] = "released",
             free_gpu' = [free_gpu EXCEPT ![k] = @ + g]
      PROVE  G
  <2>1. /\ \A n \in Nodes : ~Holds(r, n)'
        /\ \A n \in Nodes : Holds(r, n) <=> n = k
        /\ \A q \in Requests \ {r}, n \in Nodes : Holds(q, n)' <=> Holds(q, n)
    BY <1>2 DEF Holds
  <2>2. k \in Nodes
    BY <1>0
  <2>3. /\ GpusInUse(k)' \in Nat
        /\ GpusInUse(k)' = GpusInUse(k) - NumGpus[r]
        /\ \A n \in Nodes \ {k} : GpusInUse(n)' = GpusInUse(n)
    BY <2>1, <2>2, InUseLess
  <2>. QED
    BY <1>2, <2>3 DEF BookGives
\* An instance is given a node.
<1>3. ASSUME NEW r \in Requests, NEW k \in Known, NEW g \in Nat, Sized(r, g),
             allocation_result[r] = NoNode, caller'[r] # "released",
             allocation_result' = [allocation_result EXCEPT ![r] = k],
             worker_nodes' = worker_nodes,
             \A q \in Requests \ {r} :
                 caller'[q] = "released" <=> caller[q] = "released",
             free_gpu' = [free_gpu EXCEPT ![k] = @ - g],
             loop.at = "evict", enable_migration \/ free_gpu[k] >= g
      PROVE  G
  <2>1. k \in Nodes
    BY <1>0
  <2>2. \A q \in Requests :
           allocation_result'[q] = IF q = r THEN k ELSE allocation_result[q]
    BY <1>0, <1>3
  <2>3. /\ \A n \in Nodes : ~Holds(r, n)
        /\ \A n \in Nodes : Holds(r, n)' <=> n = k
        /\ \A q \in Requests \ {r}, n \in Nodes : Holds(q, n)' <=> Holds(q, n)
    BY <1>0, <1>3, <2>2 DEF Holds
  <2>4. /\ GpusInUse(k)' = GpusInUse(k) + NumGpus[r]
        /\ \A n \in Nodes \ {k} : GpusInUse(n)' = GpusInUse(n)
    BY <2>1, <2>3, InUseMore
  <2>. QED
    BY <1>3, <2>4 DEF BookTakes
<1>4. SABeginPass \/ WriteNodes => G
  OBVIOUS
<1>s. SUFFICES G
  OBVIOUS
<1> HIDE DEF G
<1>5. CASE \/ SAStart \/ SAShutdown \/ SALoopExit \/ UNCHANGED saVars
           \/ \E n \in Flaky : SANodeJoins(n) \/ SANodeLeaves(n)
  <2>1. UNCHANGED <<allocation_result, caller, free_gpu, worker_nodes>>
    BY <1>5 DEF SAStart, Start, SAShutdown, Shutdown, SALoopExit, LoopExit,
                SANodeJoins, NodeJoins, SANodeLeaves, NodeLeaves, saVars, vars
  <2>. QED
    BY <1>1, <2>1
<1>6. ASSUME NEW r \in Requests, SAAllocate(r) \/ SARecordInstance(r)
      PROVE  G
  <2>1. /\ UNCHANGED <<allocation_result, free_gpu, worker_nodes>>
        /\ \A q \in Requests : caller'[q] = "released" <=> caller[q] = "released"
    BY <1>0, <1>6 DEF SAAllocate, Allocate, SARecordInstance, RecordInstance
  <2>2. \A q \in Requests, n \in Nodes : Holds(q, n)' <=> Holds(q, n)
    BY <2>1 DEF Holds
  <2>3. \A n \in Nodes : GpusInUse(n)' = GpusInUse(n)
    BY <2>2, InUseSame
  <2>. QED
    BY <2>1, <2>3 DEF BookStays, G
<1>7. ASSUME NEW r \in Requests, SADeallocate(r)
      PROVE  G
  <2>1. /\ caller[r] = "holding" /\ model_instance[r] # NoNode
        /\ free_gpu' = IF model_instance[r] \in Known
                       THEN [free_gpu EXCEPT ![model_instance[r]] =
                                 @ + NumGpus[r]]
                       ELSE free_gpu
        /\ caller' = [caller EXCEPT ![r] = "released"]
        /\ UNCHANGED <<allocation_result, worker_nodes>>
    BY <1>7 DEF SADeallocate, Deallocate
  <2>2. model_instance[r] = allocation_result[r] /\ allocation_result[r] \in Known
    BY <1>a, <2>1
  <2>3. /\ caller'[r] = "released"
        /\ \A q \in Requests \ {r} :
              caller'[q] = "released" <=> caller[q] = "released"
    BY <1>0, <2>1
  <2>4. Sized(r, NumGpus[r]) /\ NumGpus[r] \in Nat
    BY <1>0 DEF Sized
  <2>5. free_gpu' = [free_gpu EXCEPT ![allocation_result[r]] =
                         free_gpu[allocation_result[r]] + NumGpus[r]]
    BY <2>1, <2>2
  <2>. QED
    BY <1>2, <2>1, <2>2, <2>3, <2>4, <2>5
<1>8. CASE Prepare \/ ReceiveInfo
  <2>1. UNCHANGED <<allocation_result, caller, free_gpu, worker_nodes>>
    BY <1>8 DEF Prepare, ReceiveInfo, SkipNode, NodeNotMeasured, OfferNode,
                TryMigration, TakeLock, RouterGone, Decide, NoOption,
                PlanMigration, instVars, nodeVars
  <2>. QED
    BY <1>1, <2>1
<1>9. CASE \/ MarkResource \/ MigrationReturns \/ GrantNoEntry \/ GrantTwice
           \/ LoadReturns \/ UpdateNodes
  <2>1. UNCHANGED <<allocation_result, caller, free_gpu, worker_nodes>>
    BY <1>9 DEF MarkResource, MigrationReturns, GrantNoEntry, GrantTwice,
                LoadReturns, UpdateNodes, instVars, nodeVars
  <2>. QED
    BY <1>1, <2>1
<1>10. ASSUME NEW r \in Requests, StartMigration(r)
       PROVE  G
  <2>1. /\ caller[r] = "new" /\ loop.plan # <<>> /\ loop.at = "evict"
        /\ caller' = [caller EXCEPT ![r] = "migrating"]
        /\ allocation_result' = [allocation_result EXCEPT ![r] = Move.target]
        /\ free_gpu' = [free_gpu EXCEPT ![Move.target] = @ - NumGpus[Current]]
        /\ worker_nodes' = worker_nodes
    BY <1>10 DEF StartMigration, otherVars
  <2>2. Move.target \in Known
    <3>1. Move = loop.plan[1] /\ 1 \in DOMAIN loop.plan
      BY <2>1, MoveType
    <3>. QED
      BY <3>1 DEF LoopInv
  <2>3. Current \in Requests
    <3>1. loop.todo # <<>>
      BY <2>1 DEF LoopInv
    <3>. QED
      BY <3>1, CurrentType
  <2>4. enable_migration
    BY <1>0, <2>1 DEF PlainInv
  <2>5. Sized(r, NumGpus[Current]) /\ NumGpus[Current] \in Nat
    BY <1>0, <2>3, <2>4 DEF Sized
  <2>6. allocation_result[r] = NoNode
    BY <1>a, <2>1
  <2>7. /\ caller'[r] # "released"
        /\ \A q \in Requests \ {r} :
              caller'[q] = "released" <=> caller[q] = "released"
    BY <1>0, <2>1
  <2> HIDE DEF Move, Current
  <2>. QED
    BY <1>3, <2>1, <2>2, <2>4, <2>5, <2>6, <2>7
<1>11. CASE MoveInstance
  <2>1. /\ loop.at = "migrate" /\ model_instance[loop.inst] # NoNode
        /\ caller[Move.source] = "holding"
        /\ free_gpu' = [free_gpu EXCEPT ![model_instance[Move.source]] =
                            @ + NumGpus[Move.source]]
        /\ caller' = [caller EXCEPT ![Move.source] = "released",
                                    ![loop.inst] = "holding"]
        /\ UNCHANGED <<allocation_result, worker_nodes>>
    BY <1>11 DEF MoveInstance
  <2>2. loop.inst \in Requests /\ caller[loop.inst] = "migrating"
    BY <1>a, <2>1
  <2>3. Move.source \in Requests
    <3>1. loop.plan # <<>>
      BY <2>1 DEF LoopInv
    <3>. QED
      BY <3>1, MoveType
  <2> DEFINE src == Move.source
             k == allocation_result[src]
  <2>4. k \in Known /\ model_instance[src] = k
    BY <1>a, <2>1, <2>3
  <2> HIDE DEF Move
  <2>5. /\ caller'[src] = "released"
        /\ \A q \in Requests \ {src} :
              caller'[q] = "released" <=> caller[q] = "released"
    BY <1>0, <2>1, <2>2, <2>3
  <2>6. Sized(src, NumGpus[src]) /\ NumGpus[src] \in Nat
    BY <1>0, <2>3 DEF Sized
  <2>7. free_gpu' = [free_gpu EXCEPT ![k] = free_gpu[k] + NumGpus[src]]
    BY <2>1, <2>4
  <2>8. caller[src] # "released"
    BY <2>1
  <2>9. allocation_result' = allocation_result /\ worker_nodes' = worker_nodes
    BY <2>1
  <2>10. src \in Requests
    BY <2>3
  <2> HIDE DEF src
  <2>. QED
    BY <1>2, <2>4, <2>5, <2>6, <2>7, <2>8, <2>9, <2>10
<1>12. CASE MigrationFails
  <2>1. /\ loop.at = "migrate"
        /\ caller' = [caller EXCEPT ![loop.inst] = "released"]
        /\ free_gpu' = [free_gpu EXCEPT ![Move.target] = @ + NumGpus[Current]]
        /\ UNCHANGED <<allocation_result, worker_nodes>>
    BY <1>12 DEF MigrationFails
  <2>2. /\ loop.inst \in Requests /\ caller[loop.inst] = "migrating"
        /\ allocation_result[loop.inst] = Move.target
    BY <1>a, <2>1
  <2>3. Current \in Requests
    <3>1. loop.todo # <<>>
      BY <2>1 DEF LoopInv
    <3>. QED
      BY <3>1, CurrentType
  <2> HIDE DEF Move, Current
  <2>4. Move.target \in Known
    BY <1>a, <2>2
  <2>5. enable_migration
    BY <1>0, <2>1 DEF PlainInv
  <2>6. Sized(loop.inst, NumGpus[Current]) /\ NumGpus[Current] \in Nat
    BY <1>0, <2>3, <2>5 DEF Sized
  <2>7. /\ caller'[loop.inst] = "released"
        /\ \A q \in Requests \ {loop.inst} :
              caller'[q] = "released" <=> caller[q] = "released"
    BY <1>0, <2>1, <2>2
  <2>. QED
    BY <1>2, <2>1, <2>2, <2>4, <2>6, <2>7
<1>13. CASE Grant
  <2>1. /\ allocation_result[Current] = NoNode /\ loop.at = "evict"
        /\ allocation_result' = [allocation_result EXCEPT ![Current] =
                                     loop.node]
        /\ free_gpu' = [free_gpu EXCEPT ![loop.node] = @ - NumGpus[Current]]
        /\ UNCHANGED <<caller, worker_nodes>>
    BY <1>13 DEF Grant, Granting
  <2>2. loop.node \in Known /\ loop.todo # <<>>
    BY <2>1 DEF LoopInv
  <2>3. Current \in Requests
    BY <2>2, CurrentType
  <2>4. enable_migration \/ free_gpu[loop.node] >= NumGpus[Current]
    BY <2>1 DEF PlainInv, Fits
  <2> HIDE DEF Current
  <2>5. Sized(Current, NumGpus[Current]) /\ NumGpus[Current] \in Nat
    BY <1>0, <2>3 DEF Sized
  <2>6. caller'[Current] # "released"
    BY <1>a, <2>1, <2>3
  <2>7. \A q \in Requests \ {Current} :
           caller'[q] = "released" <=> caller[q] = "released"
    BY <2>1
  <2>. QED
    BY <1>3, <2>1, <2>2, <2>3, <2>4, <2>5, <2>6, <2>7
<1>. QED
  BY <1>4, <1>5, <1>6, <1>7, <1>8, <1>9, <1>10, <1>11, <1>12, <1>13
     DEF SANext, LoopStep, Migrate, Conclude

\* Whether migration is on is decided when the scheduler is made.
LEMMA MigrationStays ==
    ASSUME [SANext]_saVars
    PROVE  enable_migration' = enable_migration
BY DEF SANext, SAStart, Start, SAShutdown, Shutdown, SALoopExit, LoopExit,
       SAAllocate, Allocate, SARecordInstance, RecordInstance, SADeallocate,
       Deallocate, SANodeJoins, NodeJoins, SANodeLeaves, NodeLeaves, LoopStep,
       SABeginPass, ReceiveInfo, Prepare, SkipNode, NodeNotMeasured,
       OfferNode, TryMigration, TakeLock, RouterGone, Decide, NoOption,
       PlanMigration, Migrate, StartMigration, MarkResource, MoveInstance,
       MigrationFails, MigrationReturns, Conclude, Grant, GrantNoEntry,
       GrantTwice, LoadReturns, UpdateNodes, WriteNodes, otherVars, saVars

\* A pass begins with the books right for the nodes that are new.
LEMMA MergedBooks ==
    ASSUME SATypeOK, CallersInv, SABeginPass
    PROVE  /\ \A n \in Nodes : GpusInUse(n)' = GpusInUse(n)
           /\ \A n \in Known : free_gpu'[n] = free_gpu[n]
           /\ \A n \in Known' \ Known :
                 /\ free_gpu'[n] = TotalGpus[n] /\ GpusInUse(n) = 0
                 /\ n \in Nodes
<1>1. UNCHANGED <<allocation_result, caller>>
  BY DEF SABeginPass, instVars
<1>2. \A q \in Requests, n \in Nodes : Holds(q, n)' <=> Holds(q, n)
  BY <1>1 DEF Holds
<1>3. \A n \in Nodes : GpusInUse(n)' = GpusInUse(n)
  BY <1>2, InUseSame
<1>4. /\ \A n \in Known : free_gpu'[n] = free_gpu[n]
      /\ \A n \in Known' \ Known : free_gpu'[n] = TotalGpus[n]
      /\ worker_nodes' \in Seq(Nodes)
  BY WorkerNodes DEF SABeginPass
<1>5. Known' \subseteq Nodes
  BY <1>4, ToSetMember DEF Known
<1>6. \A n \in Nodes \ Known : GpusInUse(n) = 0
  BY UnknownUnused
<1>. QED
  BY <1>3, <1>4, <1>5, <1>6

\* Without migration no GPU is lost and none is taken that is not there.
LEMMA ConservedStep ==
    ASSUME SATypeOK, LoopInv, CallersInv, QueuesInv, TodoInv, PlainInv,
           ConservedInv, [SANext]_saVars, ~enable_migration
    PROVE  /\ GpuConservation'
           /\ \A n \in Known' : free_gpu'[n] >= 0
<1>0. /\ free_gpu \in [Nodes -> Int] /\ Known \subseteq Nodes
      /\ \A n \in Nodes : GpusInUse(n) \in Nat
      /\ \A r \in Requests : NumGpus[r] \in Nat
      /\ \A n \in Nodes : TotalGpus[n] \in Nat
  BY KnownNodes, GpusInUseType, RequestsAssumption, NodesAssumption
     DEF SATypeOK
<1>1. /\ \A n \in Known : free_gpu[n] + GpusInUse(n) = TotalGpus[n]
      /\ \A n \in Known : free_gpu[n] >= 0
  BY DEF ConservedInv, GpuConservation, PlainInv
<1>2. SUFFICES \A n \in Known' : /\ free_gpu'[n] + GpusInUse(n)' = TotalGpus[n]
                                 /\ free_gpu'[n] >= 0
  BY DEF GpuConservation
<1>3. CASE BookStays
  BY <1>0, <1>1, <1>3 DEF BookStays, Known
<1>4. CASE SABeginPass
  <2>1. /\ \A n \in Nodes : GpusInUse(n)' = GpusInUse(n)
        /\ \A n \in Known : free_gpu'[n] = free_gpu[n]
        /\ \A n \in Known' \ Known :
              /\ free_gpu'[n] = TotalGpus[n] /\ GpusInUse(n) = 0
              /\ n \in Nodes
    BY <1>4, MergedBooks
  <2>. QED
    BY <1>0, <1>1, <2>1
<1>5. CASE WriteNodes
  BY <1>5 DEF WriteNodes, PlainInv
<1>6. ASSUME NEW r \in Requests, NEW k \in Known, NEW g \in Nat, Sized(r, g),
             BookGives(r, k, g)
      PROVE  \A n \in Known' : /\ free_gpu'[n] + GpusInUse(n)' = TotalGpus[n]
                               /\ free_gpu'[n] >= 0
  <2>1. /\ Known' = Known /\ g = NumGpus[r]
        /\ free_gpu' = [free_gpu EXCEPT ![k] = @ + g]
        /\ GpusInUse(k)' \in Nat
        /\ GpusInUse(k)' = GpusInUse(k) - NumGpus[r]
        /\ \A n \in Nodes \ {k} : GpusInUse(n)' = GpusInUse(n)
    BY <1>6 DEF BookGives, Sized, Known
  <2>2. \A n \in Nodes : free_gpu'[n] = IF n = k THEN free_gpu[k] + g
                                        ELSE free_gpu[n]
    BY <1>0, <2>1
  <2>3. k \in Nodes /\ NumGpus[r] \in Nat
    BY <1>0
  <2>4. ASSUME NEW n \in Known
        PROVE  /\ free_gpu'[n] + GpusInUse(n)' = TotalGpus[n]
               /\ free_gpu'[n] >= 0
    <3>1. CASE n = k
      BY <1>0, <1>1, <2>1, <2>2, <2>3, <3>1
    <3>2. CASE n # k
      BY <1>0, <1>1, <2>1, <2>2, <3>2
    <3>. QED
      BY <3>1, <3>2
  <2>. QED
    BY <2>1, <2>4
<1>7. ASSUME NEW r \in Requests, NEW k \in Known, NEW g \in Nat, Sized(r, g),
             BookTakes(r, k, g), free_gpu[k] >= g
      PROVE  \A n \in Known' : /\ free_gpu'[n] + GpusInUse(n)' = TotalGpus[n]
                               /\ free_gpu'[n] >= 0
  <2>1. /\ Known' = Known /\ g = NumGpus[r]
        /\ free_gpu' = [free_gpu EXCEPT ![k] = @ - g]
        /\ GpusInUse(k)' = GpusInUse(k) + NumGpus[r]
        /\ \A n \in Nodes \ {k} : GpusInUse(n)' = GpusInUse(n)
    BY <1>7 DEF BookTakes, Sized, Known
  <2>2. \A n \in Nodes : free_gpu'[n] = IF n = k THEN free_gpu[k] - g
                                        ELSE free_gpu[n]
    BY <1>0, <2>1
  <2>3. k \in Nodes /\ NumGpus[r] \in Nat
    BY <1>0
  <2>4. ASSUME NEW n \in Known
        PROVE  /\ free_gpu'[n] + GpusInUse(n)' = TotalGpus[n]
               /\ free_gpu'[n] >= 0
    <3>1. CASE n = k
      BY <1>0, <1>1, <1>7, <2>1, <2>2, <2>3, <3>1
    <3>2. CASE n # k
      BY <1>0, <1>1, <2>1, <2>2, <3>2
    <3>. QED
      BY <3>1, <3>2
  <2>. QED
    BY <2>1, <2>4
<1>. QED
  BY <1>3, <1>4, <1>5, <1>6, <1>7, BookSteps

\* The loop comes to write its copy back only from where it made it.
LEMMA WriteEntered ==
    ASSUME SATypeOK, LoopInv, CallersInv, QueuesInv, [SANext]_saVars,
           loop'.at = "write"
    PROVE  \/ /\ UNCHANGED <<free_gpu, worker_nodes, allocation_result, caller>>
              /\ loop'.seen = free_gpu
           \/ /\ loop' = loop /\ loop.at = "write"
              /\ ~SABeginPass /\ ~WriteNodes
<1> DEFINE G == \/ /\ UNCHANGED <<free_gpu, worker_nodes, allocation_result,
                                  caller>>
                   /\ loop'.seen = free_gpu
                \/ /\ loop' = loop /\ loop.at = "write"
                   /\ ~SABeginPass /\ ~WriteNodes
<1>a. Asleep \in LoopRecords /\ Asleep.at = "asleep" /\ loop \in LoopRecords
  BY AsleepType DEF SATypeOK
<1>1. ASSUME loop' = loop
      PROVE  G
  <2>1. ~SABeginPass
    BY <1>1 DEF SABeginPass
  <2>2. WriteNodes => loop'.at = "asleep"
    BY <1>a DEF WriteNodes
  <2>. QED
    BY <1>1, <2>1, <2>2
<1>2. loop'.at # "asleep" /\ loop'.at # "none" /\ loop'.at # "schedule"
  OBVIOUS
<1>s. SUFFICES G
  OBVIOUS
<1> HIDE DEF G
<1>3. CASE SAStart \/ SALoopExit \/ WriteNodes
  <2>1. loop' = Asleep \/ loop' = [Asleep EXCEPT !.at = "none"]
    BY <1>3 DEF SAStart, SALoopExit, WriteNodes
  <2> HIDE DEF Asleep
  <2>2. loop'.at \in {"asleep", "none"}
    BY <1>a, <2>1 DEF LoopRecords
  <2>. QED
    BY <1>2, <2>2
<1>4. CASE \/ SAShutdown \/ UNCHANGED saVars \/ MarkResource
           \/ \E r \in Requests : \/ SAAllocate(r) \/ SARecordInstance(r)
                                  \/ SADeallocate(r)
           \/ \E n \in Flaky : SANodeJoins(n) \/ SANodeLeaves(n)
  <2>1. loop' = loop
    BY <1>4 DEF SAShutdown, SAAllocate, SARecordInstance, SADeallocate,
                SANodeJoins, SANodeLeaves, MarkResource, saVars
  <2>. QED
    BY <1>1, <2>1
<1>5. CASE SABeginPass
  BY <1>5, BeginPassView
<1>6. CASE ReceiveInfo
  <2>1. loop' = [loop EXCEPT !.at = "schedule", !.nodes = worker_nodes,
                             !.options = {}]
    BY <1>6 DEF ReceiveInfo
  <2>. QED
    BY <1>a, <2>1 DEF LoopRecords
<1>7. CASE SkipNode \/ TryMigration \/ TakeLock
  <2>1. Checks \/ loop.at = "lock"
    BY <1>7 DEF SkipNode, TryMigration, TakeLock
  <2>2. NextNode.at = "schedule"
    BY <2>1, ChecksType, NextNodeType
  <2> HIDE DEF NextNode
  <2>. QED
    BY <1>2, <1>7, <2>2, LockView DEF SkipNode
<1>8. CASE NodeNotMeasured \/ RouterGone \/ GrantNoEntry \/ GrantTwice
  <2>1. Dies /\ loop.at \notin {"none", "dead"}
    BY <1>8 DEF NodeNotMeasured, RouterGone, GrantNoEntry, GrantTwice, Checks,
                Granting
  <2>. QED
    BY <2>1, DiesType
<1>9. CASE OfferNode
  BY <1>9, OfferView
<1>10. CASE Decide
  BY <1>10, DecideView
<1>11. CASE NoOption \/ LoadReturns
  <2>1. loop' = NextRequest /\ loop.todo # <<>>
    BY <1>11 DEF NoOption, LoadReturns, LoopInv
  <2>. QED
    BY <2>1, NextRequestType
<1>12. ASSUME NEW A \in SUBSET Requests, PlanMigration(A)
       PROVE  G
  BY <1>12, PlanView
<1>13. CASE Migrate
  BY <1>13, MigrateView
<1>14. CASE Grant
  BY <1>14, ConcludeView
<1>15. CASE UpdateNodes
  <2>1. UNCHANGED <<free_gpu, worker_nodes, allocation_result, caller>>
    BY <1>15 DEF UpdateNodes, nodeVars, instVars
  <2>2. loop' = Asleep \/ loop'.seen = free_gpu
    BY <1>15, ConcludeView
  <2> HIDE DEF Asleep
  <2>. QED
    BY <1>2, <1>a, <2>1, <2>2 DEF G
<1>. QED
  BY <1>3, <1>4, <1>5, <1>6, <1>7, <1>8, <1>9, <1>10, <1>11, <1>12, <1>13,
     <1>14, <1>15 DEF SANext, LoopStep, Prepare, Conclude

\* With migration as well, no GPU is counted free that an instance holds, and
\* the copy that is written back counts none.
LEMMA FreeStep ==
    ASSUME SATypeOK, LoopInv, CallersInv, QueuesInv, TodoInv, PlainInv,
           FreeIsFree, WriteInv, [SANext]_saVars, SameSize
    PROVE  /\ \A n \in Known' : free_gpu'[n] + GpusInUse(n)' <= TotalGpus[n]
           /\ loop'.at = "write" =>
                 \A n \in Known' : loop'.seen[n] + GpusInUse(n)' <= TotalGpus[n]
<1>0. /\ free_gpu \in [Nodes -> Int] /\ Known \subseteq Nodes
      /\ loop.seen \in [Nodes -> Int]
      /\ \A n \in Nodes : GpusInUse(n) \in Nat
      /\ \A r \in Requests : NumGpus[r] \in Nat
      /\ \A n \in Nodes : TotalGpus[n] \in Nat
  BY KnownNodes, GpusInUseType, RequestsAssumption, NodesAssumption,
     LoopFields DEF SATypeOK
<1>1. \A n \in Known : free_gpu[n] + GpusInUse(n) <= TotalGpus[n]
  BY DEF FreeIsFree, SameSize
<1>2. \A r \in Requests, g \in Nat : Sized(r, g) => g = NumGpus[r]
  BY DEF Sized, SameSize
<1>a. loop.at = "write" =>
          \A n \in Known : loop.seen[n] + GpusInUse(n) <= TotalGpus[n]
  BY DEF WriteInv
<1>b. loop'.at = "write" =>
         \/ /\ UNCHANGED <<free_gpu, worker_nodes, allocation_result, caller>>
            /\ loop'.seen = free_gpu
         \/ /\ loop' = loop /\ loop.at = "write"
            /\ ~SABeginPass /\ ~WriteNodes
  BY WriteEntered
<1>c. ASSUME UNCHANGED <<free_gpu, worker_nodes, allocation_result, caller>>,
             loop'.seen = free_gpu
      PROVE  \A n \in Known' : loop'.seen[n] + GpusInUse(n)' <= TotalGpus[n]
  <2>1. \A q \in Requests, n \in Nodes : Holds(q, n)' <=> Holds(q, n)
    BY <1>c DEF Holds
  <2>2. \A n \in Nodes : GpusInUse(n)' = GpusInUse(n)
    BY <2>1, InUseSame
  <2>. QED
    BY <1>0, <1>1, <1>c, <2>2 DEF Known
<1>d. loop.at = "write" /\ loop' = loop /\ Known' = Known
      /\ (\A n \in Known : GpusInUse(n)' <= GpusInUse(n) /\ GpusInUse(n)' \in Nat)
         => \A n \in Known' : loop'.seen[n] + GpusInUse(n)' <= TotalGpus[n]
  BY <1>0, <1>a
<1> DEFINE G == /\ \A n \in Known' : free_gpu'[n] + GpusInUse(n)' <= TotalGpus[n]
                /\ loop'.at = "write" =>
                      \A n \in Known' :
                          loop'.seen[n] + GpusInUse(n)' <= TotalGpus[n]
<1>3. CASE BookStays
  <2>1. Known' = Known /\ free_gpu' = free_gpu
        /\ \A n \in Nodes : GpusInUse(n)' = GpusInUse(n)
    BY <1>3 DEF BookStays, Known
  <2>2. \A n \in Known : GpusInUse(n)' <= GpusInUse(n) /\ GpusInUse(n)' \in Nat
    BY <1>0, <2>1
  <2>3. \A n \in Known' : free_gpu'[n] + GpusInUse(n)' <= TotalGpus[n]
    BY <1>0, <1>1, <2>1
  <2>. QED
    BY <1>b, <1>c, <1>d, <2>1, <2>2, <2>3
<1>4. CASE SABeginPass
  <2>1. /\ \A n \in Nodes : GpusInUse(n)' = GpusInUse(n)
        /\ \A n \in Known : free_gpu'[n] = free_gpu[n]
        /\ \A n \in Known' \ Known :
              /\ free_gpu'[n] = TotalGpus[n] /\ GpusInUse(n) = 0
              /\ n \in Nodes
    BY <1>4, MergedBooks
  <2>2. loop'.at = "info"
    BY <1>4, BeginPassView
  <2>3. \A n \in Known' : free_gpu'[n] + GpusInUse(n)' <= TotalGpus[n]
    BY <1>0, <1>1, <2>1
  <2>. QED
    BY <2>2, <2>3
<1>5. CASE WriteNodes
  <2>1. /\ loop.at = "write" /\ loop' = Asleep
        /\ UNCHANGED <<allocation_result, caller, worker_nodes>>
        /\ free_gpu' = [n \in Nodes |-> IF n \in Known THEN loop.seen[n]
                                        ELSE free_gpu[n]]
    BY <1>5 DEF WriteNodes, instVars
  <2>2. \A q \in Requests, n \in Nodes : Holds(q, n)' <=> Holds(q, n)
    BY <2>1 DEF Holds
  <2>3. \A n \in Nodes : GpusInUse(n)' = GpusInUse(n)
    BY <2>2, InUseSame
  <2>4. loop'.at = "asleep"
    BY <2>1, AsleepType
  <2>5. \A n \in Known' : free_gpu'[n] + GpusInUse(n)' <= TotalGpus[n]
    <3>1. Known' = Known
      BY <2>1 DEF Known
    <3>2. \A n \in Known : free_gpu'[n] = loop.seen[n]
      BY <1>0, <2>1
    <3>. QED
      BY <1>0, <1>a, <2>1, <2>3, <3>1, <3>2
  <2>. QED
    BY <2>4, <2>5
<1>6. ASSUME NEW r \in Requests, NEW k \in Known, NEW g \in Nat, Sized(r, g),
             BookGives(r, k, g)
      PROVE  G
  <2>1. /\ Known' = Known /\ g = NumGpus[r]
        /\ free_gpu' = [free_gpu EXCEPT ![k] = @ + g]
        /\ GpusInUse(k)' \in Nat
        /\ GpusInUse(k)' = GpusInUse(k) - NumGpus[r]
        /\ \A n \in Nodes \ {k} : GpusInUse(n)' = GpusInUse(n)
        /\ worker_nodes' = worker_nodes
    BY <1>2, <1>6 DEF BookGives, Known
  <2>2. \A n \in Nodes : free_gpu'[n] = IF n = k THEN free_gpu[k] + g
                                        ELSE free_gpu[n]
    BY <1>0, <2>1
  <2>3. k \in Nodes /\ NumGpus[r] \in Nat
    BY <1>0
  <2>4. ASSUME NEW n \in Known
        PROVE  /\ free_gpu'[n] + GpusInUse(n)' <= TotalGpus[n]
               /\ GpusInUse(n)' <= GpusInUse(n) /\ GpusInUse(n)' \in Nat
    <3>1. CASE n = k
      BY <1>0, <1>1, <2>1, <2>2, <2>3, <3>1
    <3>2. CASE n # k
      BY <1>0, <1>1, <2>1, <2>2, <3>2
    <3>. QED
      BY <3>1, <3>2
  <2>5. \A n \in Known' : free_gpu'[n] + GpusInUse(n)' <= TotalGpus[n]
    BY <2>1, <2>4
  <2>6. \A n \in Known : GpusInUse(n)' <= GpusInUse(n) /\ GpusInUse(n)' \in Nat
    BY <2>4
  <2>. QED
    BY <1>b, <1>c, <1>d, <2>1, <2>5, <2>6
<1>7. ASSUME NEW r \in Requests, NEW k \in Known, NEW g \in Nat, Sized(r, g),
             BookTakes(r, k, g), loop.at = "evict"
      PROVE  G
  <2>1. /\ Known' = Known /\ g = NumGpus[r]
        /\ free_gpu' = [free_gpu EXCEPT ![k] = @ - g]
        /\ GpusInUse(k)' = GpusInUse(k) + NumGpus[r]
        /\ \A n \in Nodes \ {k} : GpusInUse(n)' = GpusInUse(n)
    BY <1>2, <1>7 DEF BookTakes, Known
  <2>2. \A n \in Nodes : free_gpu'[n] = IF n = k THEN free_gpu[k] - g
                                        ELSE free_gpu[n]
    BY <1>0, <2>1
  <2>3. k \in Nodes /\ NumGpus[r] \in Nat
    BY <1>0
  <2>4. ASSUME NEW n \in Known
        PROVE  free_gpu'[n] + GpusInUse(n)' <= TotalGpus[n]
    <3>1. CASE n = k
      BY <1>0, <1>1, <2>1, <2>2, <2>3, <3>1
    <3>2. CASE n # k
      BY <1>0, <1>1, <2>1, <2>2, <3>2
    <3>. QED
      BY <3>1, <3>2
  <2>5. \A n \in Known' : free_gpu'[n] + GpusInUse(n)' <= TotalGpus[n]
    BY <2>1, <2>4
  <2>. QED
    BY <1>7, <1>b, <1>c, <2>5
<1>. QED
  BY <1>3, <1>4, <1>5, <1>6, <1>7, BookSteps

(***************************************************************************)
(* Without migration                                                       *)
(***************************************************************************)

\* What a pass compares does not change while it does.
LEMMA SameView ==
    ASSUME loop'.todo = loop.todo, UNCHANGED <<info, free_gpu>>
    PROVE  /\ Current' = Current /\ Model' = Model
           /\ \A n : Fits(Current, n)' <=> Fits(Current, n)
           /\ \A n : Stored(Model, n)' <=> Stored(Model, n)
           /\ \A n : Latency(Model, n)' = Latency(Model, n)
<1>1. Current' = Current
  BY DEF Current
<1>2. Model' = Model
  BY <1>1 DEF Model
<1> HIDE DEF Current, Model
<1>3. \A n : Fits(Current, n)' <=> Fits(Current, n)
  BY <1>1 DEF Fits
<1>4. \A n : Stored(Model, n)' <=> Stored(Model, n)
  BY <1>2 DEF Stored
<1>5. \A n : Latency(Model, n)' = Latency(Model, n)
  BY <1>2 DEF Latency
<1>. QED
  BY <1>1, <1>2, <1>3, <1>4, <1>5

\* The loop is neither looking for a node nor about to grant one.
LEMMA PlainIdle ==
    ASSUME loop'.at \notin {"lock", "status", "migrate", "moved", "write",
                            "schedule", "evict"},
           ~loop'.contended, loop'.plan = <<>>,
           \A o \in loop'.options : o.plan = <<>>,
           ~enable_migration' => \A n \in Known' : free_gpu'[n] >= 0
    PROVE  PlainInv'
BY DEF PlainInv

\* Without migration the loop does not lose the event loop between the look
\* at a node and the grant.
LEMMA PlainStep ==
    ASSUME SATypeOK, LoopInv, CallersInv, QueuesInv, TodoInv, PlainInv,
           ConservedInv, [SANext]_saVars
    PROVE  PlainInv'
<1>0. enable_migration' = enable_migration /\ enable_migration \in BOOLEAN
  BY MigrationStays DEF SATypeOK
<1> SUFFICES ASSUME ~enable_migration
             PROVE  PlainInv'
  BY <1>0 DEF PlainInv
<1>a. /\ loop.at \notin {"lock", "status", "migrate", "moved", "write"}
      /\ ~loop.contended /\ loop.plan = <<>>
      /\ \A o \in loop.options : o.plan = <<>>
      /\ loop.at = "schedule" =>
             /\ \A o \in loop.options :
                    /\ Fits(Current, o.node) /\ Stored(Model, o.node)
                    /\ o.latency = Latency(Model, o.node)
             /\ \A n \in Known \ ToSet(loop.nodes) :
                    Stored(Model, n) /\ Fits(Current, n) =>
                        \E o \in loop.options : o.node = n
      /\ loop.at = "evict" =>
             /\ Fits(Current, loop.node) /\ Stored(Model, loop.node)
             /\ \A n \in Known :
                    Stored(Model, n) /\ Fits(Current, n) =>
                        Latency(Model, loop.node) <= Latency(Model, n)
  BY DEF PlainInv
<1>b. \A n \in Known' : free_gpu'[n] >= 0
  BY ConservedStep
<1>c. /\ Asleep \in LoopRecords /\ Asleep.at = "asleep" /\ Asleep.plan = <<>>
      /\ Asleep.options = {} /\ Asleep.contended = FALSE
      /\ loop \in LoopRecords
  BY AsleepType DEF SATypeOK
\* The loop looks for a node with the options it has.
<1>d. ASSUME loop'.at = "schedule", ~loop'.contended, loop'.plan = <<>>,
             \A o \in loop'.options :
                 /\ o.plan = <<>>
                 /\ Fits(Current, o.node)' /\ Stored(Model, o.node)'
                 /\ o.latency = Latency(Model, o.node)',
             \A n \in Known' \ ToSet(loop'.nodes) :
                 Stored(Model, n)' /\ Fits(Current, n)' =>
                     \E o \in loop'.options : o.node = n
      PROVE  PlainInv'
  BY <1>b, <1>d DEF PlainInv
<1>1. CASE SAStart \/ SALoopExit
  <2>1. loop' = Asleep \/ loop' = [Asleep EXCEPT !.at = "none"]
    BY <1>1 DEF SAStart, SALoopExit
  <2> HIDE DEF Asleep
  <2>2. /\ loop'.at \in {"asleep", "none"} /\ ~loop'.contended
        /\ loop'.plan = <<>> /\ loop'.options = {}
    BY <1>c, <2>1 DEF LoopRecords
  <2>. QED
    BY <1>b, <2>2, PlainIdle
<1>2. CASE \/ SAShutdown
           \/ \E r \in Requests : \/ SAAllocate(r) \/ SARecordInstance(r)
                                  \/ SADeallocate(r)
  <2>1. loop' = loop /\ Suspended
    BY <1>2 DEF SAShutdown, SAAllocate, SARecordInstance, SADeallocate,
                Unlocked
  <2>2. loop.at \notin {"schedule", "evict"}
    BY <1>a, <2>1 DEF Suspended
  <2>. QED
    BY <1>a, <1>b, <2>1, <2>2, PlainIdle
<1>3. CASE \/ UNCHANGED saVars
           \/ \E n \in Flaky : SANodeJoins(n) \/ SANodeLeaves(n)
  <2>1. UNCHANGED <<loop, info, free_gpu, worker_nodes, enable_migration>>
    BY <1>3 DEF saVars, vars, SANodeJoins, NodeJoins, SANodeLeaves, NodeLeaves
  <2>. QED
    BY <2>1 DEF PlainInv, Current, Model, Fits, Stored, Latency, Known
<1>4. CASE SABeginPass
  <2>1. /\ loop'.at = "info" /\ loop'.options = loop.options
        /\ loop'.plan = loop.plan /\ loop'.contended = loop.contended
    BY <1>4, BeginPassView
  <2>. QED
    BY <1>a, <1>b, <2>1, PlainIdle
<1>5. CASE ReceiveInfo
  <2>1. /\ loop' = [loop EXCEPT !.at = "schedule", !.nodes = worker_nodes,
                                !.options = {}]
        /\ worker_nodes' = worker_nodes
    BY <1>5 DEF ReceiveInfo, nodeVars
  <2>2. /\ loop'.at = "schedule" /\ loop'.nodes = worker_nodes
        /\ loop'.options = {} /\ loop'.plan = loop.plan
        /\ loop'.contended = loop.contended
    BY <1>c, <2>1 DEF LoopRecords
  <2>3. Known' = ToSet(loop'.nodes)
    BY <2>1, <2>2 DEF Known
  <2>. QED
    BY <1>a, <1>d, <2>2, <2>3
<1>6. CASE SkipNode
  <2>1. /\ loop' = NextNode /\ Checks
        /\ ~Stored(Model, Node) \/ ~Fits(Current, Node)
        /\ UNCHANGED <<info, free_gpu, worker_nodes>>
    BY <1>6 DEF SkipNode, nodeVars
  <2>2. loop.nodes # <<>> /\ loop.at = "schedule"
    BY <2>1 DEF Checks
  <2>3. /\ loop'.at = "schedule" /\ loop'.nodes = Tail(loop.nodes)
        /\ loop'.todo = loop.todo /\ loop'.options = loop.options
        /\ loop'.plan = loop.plan /\ loop'.contended = loop.contended
        /\ ToSet(loop.nodes) = {Node} \cup ToSet(Tail(loop.nodes))
    BY <2>1, <2>2, NextNodeType
  <2>4. /\ Current' = Current /\ Model' = Model
        /\ \A n : Fits(Current, n)' <=> Fits(Current, n)
        /\ \A n : Stored(Model, n)' <=> Stored(Model, n)
        /\ \A n : Latency(Model, n)' = Latency(Model, n)
    BY <2>1, <2>3, SameView
  <2>5. Known' = Known
    BY <2>1 DEF Known
  <2>6. \A o \in loop'.options :
            /\ o.plan = <<>>
            /\ Fits(Current, o.node)' /\ Stored(Model, o.node)'
            /\ o.latency = Latency(Model, o.node)'
    BY <1>a, <2>2, <2>3, <2>4
  <2>7. \A n \in Known' \ ToSet(loop'.nodes) :
            Stored(Model, n)' /\ Fits(Current, n)' =>
                \E o \in loop'.options : o.node = n
    BY <1>a, <2>1, <2>2, <2>3, <2>4, <2>5
  <2>. QED
    BY <1>a, <1>d, <2>3, <2>6, <2>7
<1>7. CASE OfferNode
  <2> DEFINE o == [node |-> Node, latency |-> Latency(Model, Node),
                   plan |-> <<>>]
  <2>1. /\ Checks /\ Stored(Model, Node) /\ Fits(Current, Node)
        /\ UNCHANGED <<info, free_gpu, worker_nodes>>
    BY <1>7 DEF OfferNode, nodeVars
  <2>2. loop.nodes # <<>> /\ loop.at = "schedule"
    BY <2>1 DEF Checks
  <2>3. /\ loop'.at = "schedule" /\ loop'.nodes = Tail(loop.nodes)
        /\ loop'.todo = loop.todo /\ loop'.options = loop.options \cup {o}
        /\ loop'.plan = loop.plan /\ loop'.contended = loop.contended
        /\ ToSet(loop.nodes) = {Node} \cup ToSet(Tail(loop.nodes))
    BY <1>7, <2>2, OfferView, NextNodeType
  <2>4. /\ Current' = Current /\ Model' = Model
        /\ \A n : Fits(Current, n)' <=> Fits(Current, n)
        /\ \A n : Stored(Model, n)' <=> Stored(Model, n)
        /\ \A n : Latency(Model, n)' = Latency(Model, n)
    BY <2>1, <2>3, SameView
  <2>5. Known' = Known
    BY <2>1 DEF Known
  <2>6. o.node = Node /\ o.latency = Latency(Model, Node) /\ o.plan = <<>>
    OBVIOUS
  <2> HIDE DEF o
  <2>7. \A p \in loop'.options :
            /\ p.plan = <<>>
            /\ Fits(Current, p.node)' /\ Stored(Model, p.node)'
            /\ p.latency = Latency(Model, p.node)'
    BY <1>a, <2>1, <2>2, <2>3, <2>4, <2>6
  <2>8. \A n \in Known' \ ToSet(loop'.nodes) :
            Stored(Model, n)' /\ Fits(Current, n)' =>
                \E p \in loop'.options : p.node = n
    BY <1>a, <2>1, <2>2, <2>3, <2>4, <2>5, <2>6
  <2>. QED
    BY <1>a, <1>d, <2>3, <2>7, <2>8
<1>8. CASE Decide
  <2>1. PICK o \in loop.options :
               /\ \A p \in loop.options \ {o} : Faster(o, p)
               /\ loop'.at = "evict" /\ loop'.todo = loop.todo
               /\ loop'.nodes = loop.nodes /\ loop'.options = {}
               /\ loop'.plan = o.plan /\ loop'.node = o.node
               /\ loop'.contended = loop.contended
    BY <1>8, DecideView
  <2>2. /\ loop.at = "schedule" /\ loop.nodes = <<>>
        /\ UNCHANGED <<info, free_gpu, worker_nodes>>
    BY <1>8 DEF Decide, nodeVars
  <2>3. /\ Current' = Current /\ Model' = Model
        /\ \A n : Fits(Current, n)' <=> Fits(Current, n)
        /\ \A n : Stored(Model, n)' <=> Stored(Model, n)
        /\ \A n : Latency(Model, n)' = Latency(Model, n)
    BY <2>1, <2>2, SameView
  <2>4. Known' = Known /\ ToSet(loop.nodes) = {}
    BY <2>2, EmptyElements DEF Known
  <2>5. \A p \in loop.options : o.latency <= p.latency
    <3>1. \A p \in loop.options : p.latency \in Nat
      BY <1>c, LoopFields DEF Option
    <3>2. \A p \in loop.options : p = o \/ Faster(o, p)
      BY <2>1
    <3>. QED
      BY <3>1, <3>2 DEF Faster
  <2>6. \A n \in Known : Stored(Model, n) /\ Fits(Current, n) =>
                             Latency(Model, o.node) <= Latency(Model, n)
    <3> SUFFICES ASSUME NEW n \in Known, Stored(Model, n), Fits(Current, n)
                 PROVE  Latency(Model, o.node) <= Latency(Model, n)
      OBVIOUS
    <3>1. PICK p \in loop.options : p.node = n
      BY <1>a, <2>2, <2>4
    <3>. QED
      BY <1>a, <2>2, <2>5, <3>1
  <2>7. Fits(Current, o.node) /\ Stored(Model, o.node) /\ o.plan = <<>>
    BY <1>a, <2>2
  <2>. QED
    BY <1>a, <1>b, <2>1, <2>3, <2>4, <2>6, <2>7 DEF PlainInv
<1>9. CASE NoOption \/ LoadReturns
  <2>1. /\ loop' = NextRequest /\ loop.todo # <<>>
        /\ worker_nodes' = worker_nodes
    BY <1>9 DEF NoOption, LoadReturns, LoopInv, nodeVars
  <2>2. /\ loop'.options = {} /\ loop'.plan = <<>> /\ ~loop'.contended
        /\ \/ loop'.at = "update"
           \/ loop'.at = "schedule" /\ loop'.nodes = worker_nodes
    BY <1>a, <2>1, NextRequestType
  <2>3. CASE loop'.at = "update"
    BY <1>b, <2>2, <2>3, PlainIdle
  <2>4. CASE loop'.at = "schedule"
    <3>1. Known' = ToSet(loop'.nodes)
      BY <2>1, <2>2, <2>4 DEF Known
    <3>. QED
      BY <1>d, <2>2, <2>4, <3>1
  <2>. QED
    BY <2>2, <2>3, <2>4
<1>10. CASE NodeNotMeasured \/ RouterGone \/ GrantNoEntry \/ GrantTwice
  <2>1. Dies /\ loop.at \notin {"none", "dead"}
    BY <1>10 DEF NodeNotMeasured, RouterGone, GrantNoEntry, GrantTwice,
                 Checks, Granting
  <2>2. /\ loop'.at = "dead" /\ loop'.options = {} /\ loop'.plan = <<>>
        /\ loop'.contended = FALSE
    BY <2>1, DiesType
  <2>. QED
    BY <1>b, <2>2, PlainIdle
<1>11. CASE Grant
  <2>1. /\ loop'.at = "load" /\ loop'.options = loop.options
        /\ loop'.plan = loop.plan /\ loop'.contended = FALSE
    BY <1>11, ConcludeView
  <2>. QED
    BY <1>a, <1>b, <2>1, PlainIdle
<1>12. CASE UpdateNodes
  <2>1. loop' = Asleep
    BY <1>12, <1>a DEF UpdateNodes
  <2> HIDE DEF Asleep
  <2>. QED
    BY <1>b, <1>c, <2>1, PlainIdle
<1>13. ~ (\/ TryMigration \/ TakeLock \/ WriteNodes \/ Migrate
          \/ \E A \in SUBSET Requests : PlanMigration(A))
  BY <1>a DEF TryMigration, TakeLock, WriteNodes, Migrate, StartMigration,
              MarkResource, MoveInstance, MigrationFails, MigrationReturns,
              PlanMigration
<1>. QED
  BY <1>1, <1>2, <1>3, <1>4, <1>5, <1>6, <1>7, <1>8, <1>9, <1>10, <1>11,
     <1>12, <1>13 DEF SANext, LoopStep, Prepare, Conclude

(***************************************************************************)
(* The queues                                                              *)
(***************************************************************************)

\* Requests come only with allocate_resource.
LEMMA RequestsStay ==
    ASSUME SATypeOK, [SANext]_saVars, clock > 0
    PROVE  /\ \A q \in Requests : caller[q] # "new" => caller'[q] # "new"
           /\ \A q \in Requests : request_time[q] > 0 => request_time'[q] > 0
           /\ clock' > 0
           /\ \/ UNCHANGED <<request_time, clock>>
              \/ \E r \in Requests : SAAllocate(r)
<1>0. /\ caller \in [Requests -> {"new", "waiting", "migrating", "holding",
                                  "released"}]
      /\ request_time \in [Requests -> Nat] /\ clock \in Nat
  BY DEF SATypeOK
<1>1. ~(\E r \in Requests : SAAllocate(r)) => UNCHANGED <<request_time, clock>>
  BY DEF SANext, SAStart, Start, SAShutdown, Shutdown, SALoopExit, LoopExit,
       SARecordInstance, RecordInstance, SADeallocate,
       Deallocate, SANodeJoins, NodeJoins, SANodeLeaves, NodeLeaves, LoopStep,
       SABeginPass, ReceiveInfo, Prepare, SkipNode, NodeNotMeasured,
       OfferNode, TryMigration, TakeLock, RouterGone, Decide, NoOption,
       PlanMigration, Migrate, StartMigration, MarkResource, MoveInstance,
       MigrationFails, MigrationReturns, Conclude, Grant, GrantNoEntry,
       GrantTwice, LoadReturns, UpdateNodes, WriteNodes, otherVars, saVars,
       vars
<1>2. ASSUME NEW r \in Requests, SAAllocate(r)
      PROVE  /\ \A q \in Requests : request_time[q] > 0 => request_time'[q] > 0
             /\ clock' > 0
  <2>1. /\ request_time' = [request_time EXCEPT ![r] = clock]
        /\ clock' = clock + 1
    BY <1>2 DEF SAAllocate, Allocate
  <2>2. \A q \in Requests : request_time'[q] = IF q = r THEN clock
                                               ELSE request_time[q]
    BY <1>0, <2>1
  <2>. QED
    BY <1>0, <2>1, <2>2
<1>3. \A q \in Requests : caller[q] # "new" => caller'[q] # "new"
  <2>1. \/ caller' = caller
        \/ \E r \in Requests : \E v \in {"waiting", "migrating", "holding",
                                         "released"} :
              caller' = [caller EXCEPT ![r] = v]
        \/ MoveInstance
        \/ MigrationFails
    BY DEF SANext, SAStart, Start, SAShutdown, Shutdown, SALoopExit, LoopExit,
       SAAllocate, Allocate, SARecordInstance, RecordInstance, SADeallocate,
       Deallocate, SANodeJoins, NodeJoins, SANodeLeaves, NodeLeaves, LoopStep,
       SABeginPass, ReceiveInfo, Prepare, SkipNode, NodeNotMeasured,
       OfferNode, TryMigration, TakeLock, RouterGone, Decide, NoOption,
       PlanMigration, Migrate, StartMigration, MarkResource,
       MigrationReturns, Conclude, Grant, GrantNoEntry,
       GrantTwice, LoadReturns, UpdateNodes, WriteNodes, instVars, saVars,
       vars
  <2>2. CASE MoveInstance
    BY <1>0, <2>2 DEF MoveInstance
  <2>3. CASE MigrationFails
    BY <1>0, <2>3 DEF MigrationFails
  <2>. QED
    BY <1>0, <2>1, <2>2, <2>3
<1>. QED
  BY <1>0, <1>1, <1>2, <1>3

\* What a step does to the queues: nothing, drops them, adds a request or
\* removes an entry.
LEMMA QueueSteps ==
    ASSUME [SANext]_saVars
    PROVE  \/ UNCHANGED <<model_order, model_loading_queues>>
           \/ SAShutdown
           \/ \E r \in Requests : SAAllocate(r)
           \/ Grant \/ GrantTwice
BY DEF SANext, SAStart, Start, SALoopExit, LoopExit,
       SARecordInstance, RecordInstance, SADeallocate,
       Deallocate, SANodeJoins, NodeJoins, SANodeLeaves, NodeLeaves, LoopStep,
       SABeginPass, ReceiveInfo, Prepare, SkipNode, NodeNotMeasured,
       OfferNode, TryMigration, TakeLock, RouterGone, Decide, NoOption,
       PlanMigration, Migrate, StartMigration, MarkResource, MoveInstance,
       MigrationFails, MigrationReturns, Conclude, GrantNoEntry,
       LoadReturns, UpdateNodes, WriteNodes, queueVars, saVars, vars

\* An entry is removed from one queue.
LEMMA RemovedEntry ==
    ASSUME SATypeOK, LoopInv, QueuesInv, Grant \/ GrantTwice
    PROVE  /\ Model \in Models /\ Index \in DOMAIN model_loading_queues[Model]
           /\ IsInjective(model_loading_queues'[Model])
           /\ ToSet(model_loading_queues'[Model]) =
                  ToSet(model_loading_queues[Model])
                      \ {model_loading_queues[Model][Index]}
           /\ \A m \in Models \ {Model} :
                 model_loading_queues'[m] = model_loading_queues[m]
           /\ model_order' = model_order
           /\ Model \in ToSet(model_order)
<1>1. loop.todo # <<>>
  BY DEF Grant, GrantTwice, Granting, LoopInv
<1>2. Model \in Models /\ Index \in Nat \ {0}
  BY <1>1, CurrentType DEF Index
<1>3. model_loading_queues[Model] \in Seq(Requests)
  BY <1>2 DEF SATypeOK
<1>4. Index \in DOMAIN model_loading_queues[Model]
  BY <1>2, <1>3 DEF Grant, GrantTwice
<1>5. IsInjective(model_loading_queues[Model])
  BY <1>2 DEF QueuesInv
<1>6. LET s == RemoveAt(model_loading_queues[Model], Index) IN
      /\ IsInjective(s)
      /\ ToSet(s) = ToSet(model_loading_queues[Model])
                        \ {model_loading_queues[Model][Index]}
  BY <1>3, <1>4, <1>5, RemoveAtElements
<1>7. model_loading_queues' = [model_loading_queues EXCEPT ![Model] =
                                   RemoveAt(model_loading_queues[Model], Index)]
  BY DEF Grant, GrantTwice, Popped
<1>8. model_loading_queues \in [Models -> Seq(Requests)]
  BY DEF SATypeOK
<1> HIDE DEF Model, Index
<1>9. /\ model_loading_queues'[Model] =
             RemoveAt(model_loading_queues[Model], Index)
      /\ \A m \in Models \ {Model} :
             model_loading_queues'[m] = model_loading_queues[m]
  BY <1>2, <1>7, <1>8
<1>10. model_order' = model_order /\ Model \in ToSet(model_order)
  BY DEF Grant, GrantTwice
<1>. QED
  BY <1>2, <1>4, <1>6, <1>9, <1>10

\* The queues stay in order.
LEMMA QueuesStep ==
    ASSUME SATypeOK, LoopInv, CallersInv, QueuesInv, SATypeOK',
           [SANext]_saVars
    PROVE  QueuesInv'
<1> DEFINE q == model_loading_queues
<1>0. /\ q \in [Models -> Seq(Requests)] /\ q' \in [Models -> Seq(Requests)]
      /\ model_order \in Seq(Models)
      /\ \A r \in Requests : ModelOf[r] \in Models
  BY RequestsAssumption DEF SATypeOK
<1>1. clock > 0
  BY DEF QueuesInv
<1>2. /\ \A r \in Requests : caller[r] # "new" => caller'[r] # "new"
      /\ \A r \in Requests : request_time[r] > 0 => request_time'[r] > 0
      /\ clock' > 0
  BY <1>1, RequestsStay
<1>3. \A m \in Models :
         /\ IsInjective(q[m])
         /\ \A i \in DOMAIN q[m] : /\ ModelOf[q[m][i]] = m
                                   /\ caller[q[m][i]] # "new"
                                   /\ request_time[q[m][i]] > 0
         /\ q[m] # <<>> => m \in ToSet(model_order)
  BY DEF QueuesInv
<1>4. \A m \in Models : \A e \in ToSet(q[m]) :
         /\ e \in Requests /\ ModelOf[e] = m
         /\ caller'[e] # "new" /\ request_time'[e] > 0
  BY <1>0, <1>2, <1>3, ToSetMember DEF ToSet
<1>5. SUFFICES ASSUME NEW m \in Models
               PROVE  /\ IsInjective(q'[m])
                      /\ \A e \in ToSet(q'[m]) :
                            /\ ModelOf[e] = m
                            /\ caller'[e] # "new" /\ request_time'[e] > 0
                      /\ q'[m] # <<>> => m \in ToSet(model_order')
  <2>1. \A m \in Models : \A i \in DOMAIN q'[m] : q'[m][i] \in ToSet(q'[m])
    BY DEF ToSet
  <2> HIDE DEF q
  <2>2. \A m \in Models :
           /\ IsInjective(q'[m])
           /\ \A i \in DOMAIN q'[m] : /\ ModelOf[q'[m][i]] = m
                                      /\ caller'[q'[m][i]] # "new"
                                      /\ request_time'[q'[m][i]] > 0
           /\ q'[m] # <<>> => m \in ToSet(model_order')
    BY <1>5, <2>1
  <2>. QED
    BY <1>2, <2>2 DEF QueuesInv, q
<1>6. CASE UNCHANGED <<model_order, model_loading_queues>>
  BY <1>3, <1>4, <1>6
<1>7. CASE SAShutdown
  <2>1. q'[m] = <<>>
    BY <1>7 DEF SAShutdown, Shutdown
  <2>. QED
    BY <2>1, EmptyElements
<1>8. ASSUME NEW r \in Requests, SAAllocate(r)
      PROVE  /\ IsInjective(q'[m])
             /\ \A e \in ToSet(q'[m]) :
                   /\ ModelOf[e] = m
                   /\ caller'[e] # "new" /\ request_time'[e] > 0
             /\ q'[m] # <<>> => m \in ToSet(model_order')
  <2>1. /\ caller[r] = "new" /\ caller' = [caller EXCEPT ![r] = "waiting"]
        /\ q' = [q EXCEPT ![ModelOf[r]] = Append(q[ModelOf[r]], r)]
        /\ request_time' = [request_time EXCEPT ![r] = clock]
        /\ model_order' = IF ModelOf[r] \in ToSet(model_order)
                          THEN model_order
                          ELSE Append(model_order, ModelOf[r])
    BY <1>8 DEF SAAllocate, Allocate
  <2>2. caller'[r] = "waiting" /\ request_time'[r] > 0
    BY <1>1, <2>1 DEF SATypeOK
  <2>3. ToSet(model_order') = ToSet(model_order) \cup {ModelOf[r]}
    <3>1. ToSet(Append(model_order, ModelOf[r])) =
              ToSet(model_order) \cup {ModelOf[r]}
      BY <1>0, AppendElements
    <3>. QED
      BY <2>1, <3>1
  <2>4. CASE m # ModelOf[r]
    <3>1. q'[m] = q[m]
      BY <1>0, <2>1, <2>4
    <3>. QED
      BY <1>3, <1>4, <2>3, <3>1
  <2>5. CASE m = ModelOf[r]
    <3>1. q'[m] = Append(q[m], r)
      BY <1>0, <2>1, <2>5
    <3>2. r \notin ToSet(q[m])
      BY <1>3, <2>1 DEF ToSet
    <3>3. q[m] \in Seq(Requests) /\ IsInjective(q[m])
      BY <1>0, <1>3
    <3>4. /\ ToSet(Append(q[m], r)) = ToSet(q[m]) \cup {r}
          /\ IsInjective(Append(q[m], r))
      BY <3>2, <3>3, AppendElements
    <3> HIDE DEF q
    <3>. QED
      BY <1>4, <2>2, <2>3, <2>5, <3>1, <3>4
  <2>. QED
    BY <2>4, <2>5
<1>9. CASE Grant \/ GrantTwice
  <2>1. /\ Model \in Models
        /\ IsInjective(q'[Model])
        /\ ToSet(q'[Model]) \subseteq ToSet(q[Model])
        /\ \A k \in Models \ {Model} : q'[k] = q[k]
        /\ model_order' = model_order
        /\ Model \in ToSet(model_order)
    BY <1>9, RemovedEntry
  <2> HIDE DEF q, Model
  <2>2. CASE m = Model
    BY <1>4, <2>1, <2>2
  <2>3. CASE m # Model
    <3>1. q'[m] = q[m]
      BY <2>1, <2>3
    <3>. QED
      BY <1>3, <1>4, <2>1, <3>1
  <2>. QED
    BY <2>2, <2>3
<1>. QED
  BY <1>6, <1>7, <1>8, <1>9, QueueSteps

\* A request that is alone is the only one its queue can hold.
LEMMA AloneQueue ==
    ASSUME SATypeOK, QueuesInv, NEW r \in Requests, Alone(r),
           NEW i \in DOMAIN model_loading_queues[ModelOf[r]]
    PROVE  model_loading_queues[ModelOf[r]] = <<r>> /\ i = 1
<1> DEFINE s == model_loading_queues[ModelOf[r]]
<1>1. ModelOf[r] \in Models
  BY RequestsAssumption
<1>2. s \in Seq(Requests) /\ IsInjective(s)
  BY <1>1 DEF SATypeOK, QueuesInv
<1>3. \A j \in DOMAIN s : s[j] = r
  BY <1>1, <1>2 DEF QueuesInv, Alone
<1>4. i \in 1 .. Len(s) /\ 1 \in 1 .. Len(s) /\ Len(s) \in 1 .. Len(s)
  BY <1>2
<1>5. i = 1 /\ Len(s) = 1
  <2>1. \A a, b \in DOMAIN s : a = b
    BY <1>2, <1>3 DEF IsInjective
  <2>2. DOMAIN s = 1 .. Len(s)
    BY <1>2
  <2> HIDE DEF s
  <2>. QED
    BY <1>4, <2>1, <2>2
<1>6. s[1] = r
  BY <1>2, <1>3, <1>4
<1> HIDE DEF s
<1>7. s = <<r>>
  BY <1>2, <1>5, <1>6
<1>. QED
  BY <1>5, <1>7 DEF s

\* Requests do not become alone.
LEMMA AloneStep ==
    ASSUME SATypeOK, QueuesInv, [SANext]_saVars, NEW r \in Requests, Alone(r)'
    PROVE  Alone(r)
BY RequestsStay DEF Alone, QueuesInv

\* A new request is not of the model of one that is alone.
LEMMA AloneAllocate ==
    ASSUME SATypeOK, QueuesInv, NEW r \in Requests, Alone(r)',
           caller[r] # "new", NEW q \in Requests, SAAllocate(q)
    PROVE  ModelOf[q] # ModelOf[r]
<1>1. /\ request_time' = [request_time EXCEPT ![q] = clock]
      /\ caller[q] = "new"
  BY DEF SAAllocate, Allocate
<1>2. request_time'[q] > 0
  BY <1>1 DEF SATypeOK, QueuesInv
<1>3. ModelOf[q] = ModelOf[r] => q = r
  BY <1>2 DEF Alone
<1>. QED
  BY <1>1, <1>3

\* What sets a future: the grant, or a migration.
LEMMA FutureActions ==
    ASSUME [SANext]_saVars
    PROVE  \/ allocation_result' = allocation_result
           \/ \E r \in Requests : StartMigration(r)
           \/ Grant
BY DEF SANext, SAStart, Start, SAShutdown, Shutdown, SALoopExit, LoopExit,
       SAAllocate, Allocate, SARecordInstance, RecordInstance, SADeallocate,
       Deallocate, SANodeJoins, NodeJoins, SANodeLeaves, NodeLeaves, LoopStep,
       SABeginPass, ReceiveInfo, Prepare, SkipNode, NodeNotMeasured,
       OfferNode, TryMigration, TakeLock, RouterGone, Decide, NoOption,
       PlanMigration, Migrate, MarkResource, MoveInstance,
       MigrationFails, MigrationReturns, Conclude, GrantNoEntry,
       GrantTwice, LoadReturns, UpdateNodes, WriteNodes, instVars, saVars,
       vars

\* The future that is set is that of the current request, or of an instance
\* that is new.
LEMMA FutureSteps ==
    ASSUME SATypeOK, LoopInv, [SANext]_saVars
    PROVE  \A r \in Requests :
               allocation_result'[r] # allocation_result[r] =>
                   caller[r] = "new" \/ (Grant /\ r = Current)
<1>0. allocation_result \in [Requests -> Nodes \cup {NoNode}]
  BY DEF SATypeOK
<1>1. \/ allocation_result' = allocation_result
      \/ \E r \in Requests : StartMigration(r)
      \/ Grant
  BY FutureActions
<1>2. ASSUME NEW q \in Requests, StartMigration(q)
      PROVE  \A r \in Requests :
                allocation_result'[r] # allocation_result[r] =>
                    caller[r] = "new"
  BY <1>0, <1>2 DEF StartMigration
<1>3. ASSUME Grant
      PROVE  \A r \in Requests :
                allocation_result'[r] # allocation_result[r] => r = Current
  BY <1>0, <1>3 DEF Grant
<1>. QED
  BY <1>1, <1>2, <1>3

\* The scheduler is started only where no pass goes on.
LEMMA RunningSteps ==
    ASSUME SATypeOK, LoopInv, [SANext]_saVars, running'
    PROVE  \/ running
           \/ loop' = Asleep /\ loop.at = "none"
<1>1. \/ running' = running
      \/ SAStart \/ SAShutdown
  BY DEF SANext, SALoopExit, LoopExit,
       SAAllocate, Allocate, SARecordInstance, RecordInstance, SADeallocate,
       Deallocate, SANodeJoins, NodeJoins, SANodeLeaves, NodeLeaves, LoopStep,
       SABeginPass, ReceiveInfo, Prepare, SkipNode, NodeNotMeasured,
       OfferNode, TryMigration, TakeLock, RouterGone, Decide, NoOption,
       PlanMigration, Migrate, StartMigration, MarkResource, MoveInstance,
       MigrationFails, MigrationReturns, Conclude, Grant, GrantNoEntry,
       GrantTwice, LoadReturns, UpdateNodes, WriteNodes, otherVars, saVars,
       vars
<1>2. ~SAShutdown
  BY DEF SAShutdown, Shutdown
<1>3. CASE SAStart
  <2>1. starts \in 0 .. 1 /\ starts < MaxStarts /\ loop' = Asleep
    BY <1>3 DEF SAStart, Start, SATypeOK
  <2>2. starts = 0
    BY <1>3, <2>1 DEF SAStart
  <2>. QED
    BY <2>1, <2>2 DEF LoopInv
<1>. QED
  BY <1>1, <1>2, <1>3

\* A request comes to a queue only with allocate_resource.
LEMMA QueuedStep ==
    ASSUME SATypeOK, LoopInv, QueuesInv, [SANext]_saVars,
           NEW r \in Requests, Queued(r)'
    PROVE  Queued(r) \/ SAAllocate(r)
<1> DEFINE q == model_loading_queues
           k == ModelOf[r]
<1>0. k \in Models /\ q \in [Models -> Seq(Requests)]
  BY RequestsAssumption DEF SATypeOK
<1>1. r \in ToSet(q'[k])
  BY DEF Queued, ToSet
<1>2. r \in ToSet(q[k]) => Queued(r)
  BY DEF Queued, ToSet
<1>3. CASE UNCHANGED <<model_order, model_loading_queues>>
  BY <1>1, <1>2, <1>3
<1>4. CASE SAShutdown
  <2>1. q'[k] = <<>>
    BY <1>0, <1>4 DEF SAShutdown, Shutdown
  <2>. QED
    BY <1>1, <2>1, EmptyElements
<1>5. ASSUME NEW p \in Requests, SAAllocate(p), p # r
      PROVE  Queued(r)
  <2>1. q' = [q EXCEPT ![ModelOf[p]] = Append(q[ModelOf[p]], p)]
    BY <1>5 DEF SAAllocate, Allocate
  <2>2. CASE ModelOf[p] # k
    BY <1>0, <1>1, <1>2, <2>1, <2>2
  <2>3. CASE ModelOf[p] = k
    <3>1. q'[k] = Append(q[k], p)
      BY <1>0, <2>1, <2>3
    <3>2. ToSet(Append(q[k], p)) = ToSet(q[k]) \cup {p}
      BY <1>0, AppendElements
    <3>. QED
      BY <1>1, <1>2, <1>5, <3>1, <3>2
  <2>. QED
    BY <2>2, <2>3
<1>6. CASE Grant \/ GrantTwice
  <2>1. /\ ToSet(q'[Model]) \subseteq ToSet(q[Model])
        /\ \A m \in Models \ {Model} : q'[m] = q[m]
    BY <1>6, RemovedEntry
  <2> HIDE DEF q, Model
  <2>2. r \in ToSet(q[k])
    BY <1>0, <1>1, <2>1
  <2>. QED
    BY <1>2, <2>2
<1>. QED
  BY <1>3, <1>4, <1>5, <1>6, QueueSteps

\* Every step keeps a request that is alone and queued from having been
\* served.
LEMMA AloneInvStep ==
    ASSUME SATypeOK, LoopInv, CallersInv, QueuesInv, AloneInv, [SANext]_saVars
    PROVE  AloneInv'
<1> SUFFICES ASSUME NEW r \in Requests, Alone(r)', Queued(r)'
             PROVE  allocation_result'[r] = NoNode
  BY DEF AloneInv
<1>1. Alone(r)
  BY AloneStep
<1>2. CASE SAAllocate(r)
  <2>1. caller[r] = "new" /\ allocation_result' = allocation_result
    BY <1>2 DEF SAAllocate, Allocate
  <2>. QED
    BY <2>1 DEF CallersInv
<1>3. CASE ~SAAllocate(r)
  <2>1. Queued(r)
    BY <1>3, QueuedStep
  <2>2. PICK i \in DOMAIN model_loading_queues[ModelOf[r]] :
            model_loading_queues[ModelOf[r]][i] = r
    BY <2>1 DEF Queued
  <2>3. ModelOf[r] \in Models
    BY RequestsAssumption
  <2>4. allocation_result[r] = NoNode /\ caller[r] # "new"
    BY <1>1, <2>1, <2>2, <2>3 DEF AloneInv, QueuesInv
  <2>5. ~(Grant /\ r = Current)
    <3> SUFFICES ASSUME Grant, r = Current
                 PROVE  FALSE
      OBVIOUS
    <3>1. /\ Index \in DOMAIN model_loading_queues[ModelOf[r]]
          /\ ToSet(model_loading_queues'[ModelOf[r]]) =
                 ToSet(model_loading_queues[ModelOf[r]])
                     \ {model_loading_queues[ModelOf[r]][Index]}
      BY RemovedEntry DEF Model
    <3>2. model_loading_queues[ModelOf[r]] = <<r>> /\ Index = 1
      BY <1>1, <3>1, AloneQueue
    <3>3. model_loading_queues[ModelOf[r]][Index] = r
      BY <3>2
    <3>4. r \in ToSet(model_loading_queues'[ModelOf[r]])
      BY DEF Queued, ToSet
    <3>. QED
      BY <3>1, <3>3, <3>4
  <2>. QED
    BY <2>4, <2>5, FutureSteps
<1>. QED
  BY <1>2, <1>3

\* A request of a pass that is alone waits as it did when the pass began.
Settled(r) ==
    /\ model_loading_queues[ModelOf[r]] = <<r>>
    /\ ModelOf[r] \in ToSet(model_order)
    /\ allocation_result[r] = NoNode

\* It does so until it is granted.
LEMMA SettledStep ==
    ASSUME SATypeOK, LoopInv, CallersInv, QueuesInv, TodoInv, [SANext]_saVars,
           NEW r \in Requests, running', Alone(r)', caller[r] # "new",
           Settled(r), request_time[r] > 0, ~(r = Current /\ (Grant \/ GrantTwice))
    PROVE  Settled(r)'
<1> DEFINE q == model_loading_queues
           k == ModelOf[r]
<1>0. k \in Models /\ q \in [Models -> Seq(Requests)]
      /\ model_order \in Seq(Models)
  BY RequestsAssumption DEF SATypeOK
<1>1. Alone(r)
  BY AloneStep
<1>2. allocation_result'[r] = NoNode
  BY FutureSteps DEF Settled
<1>3. CASE UNCHANGED <<model_order, model_loading_queues>>
  BY <1>2, <1>3 DEF Settled
<1>4. ~SAShutdown
  BY DEF SAShutdown, Shutdown
<1>5. ASSUME NEW p \in Requests, SAAllocate(p)
      PROVE  Settled(r)'
  <2>1. /\ q' = [q EXCEPT ![ModelOf[p]] = Append(q[ModelOf[p]], p)]
        /\ model_order' = IF ModelOf[p] \in ToSet(model_order)
                          THEN model_order
                          ELSE Append(model_order, ModelOf[p])
        /\ ModelOf[p] \in Models
    BY <1>5, RequestsAssumption DEF SAAllocate, Allocate
  <2>2. ModelOf[p] # k
    BY <1>5, AloneAllocate
  <2>3. q'[k] = q[k]
    BY <1>0, <2>1, <2>2
  <2>4. k \in ToSet(model_order')
    <3>1. ToSet(Append(model_order, ModelOf[p])) =
              ToSet(model_order) \cup {ModelOf[p]}
      BY <1>0, <2>1, AppendElements
    <3>. QED
      BY <2>1, <3>1 DEF Settled
  <2>. QED
    BY <1>2, <2>3, <2>4 DEF Settled
<1>6. CASE Grant \/ GrantTwice
  <2>1. /\ \A m \in Models \ {Model} : q'[m] = q[m]
        /\ model_order' = model_order
    BY <1>6, RemovedEntry
  <2>2. loop.todo # <<>>
    BY <1>6 DEF Grant, GrantTwice, Granting, LoopInv
  <2>3. Current \in Requests /\ request_time[Current] > 0
    BY <2>2, CurrentType DEF TodoInv, Todo, Current
  <2>4. r # Current
    BY <1>6
  <2>5. Model # k
    BY <1>1, <2>3, <2>4 DEF Alone, Model
  <2> HIDE DEF q, Model
  <2>6. q'[k] = q[k]
    BY <1>0, <2>1, <2>5
  <2>. QED
    BY <1>2, <2>1, <2>6 DEF Settled, q
<1>. QED
  BY <1>3, <1>4, <1>5, <1>6, QueueSteps

\* What a step does to the requests of the pass: they stay, the first is dealt
\* with, the pass ends or another begins.
LEMMA TodoSteps ==
    ASSUME SATypeOK, LoopInv, CallersInv, QueuesInv, [SANext]_saVars
    PROVE  \/ loop'.todo = <<>>
           \/ loop'.todo = loop.todo /\ (loop.at = "load" => loop'.at = "load")
           \/ /\ loop'.todo = Tail(loop.todo) /\ loop.todo # <<>>
              /\ loop'.at = "schedule"
           \/ SABeginPass
<1> DEFINE Goal ==
             \/ loop'.todo = <<>>
             \/ loop'.todo = loop.todo /\ (loop.at = "load" => loop'.at = "load")
             \/ /\ loop'.todo = Tail(loop.todo) /\ loop.todo # <<>>
                /\ loop'.at = "schedule"
             \/ SABeginPass
<1>s. SUFFICES Goal
  OBVIOUS
<1>0. /\ loop \in LoopRecords
      /\ loop.todo = <<>> <=>
             loop.at \in {"none", "asleep", "update", "write", "dead"}
  BY DEF SATypeOK, LoopInv
<1>a. Asleep.todo = <<>> /\ Asleep \in LoopRecords
  BY AsleepType
<1>1. CASE loop' = loop
  BY <1>1
<1>2. CASE SAStart \/ SALoopExit
  <2>1. loop' = Asleep \/ loop' = [Asleep EXCEPT !.at = "none"]
    BY <1>2 DEF SAStart, SALoopExit
  <2> HIDE DEF Asleep
  <2>2. loop'.todo = <<>>
    BY <1>a, <2>1 DEF LoopRecords
  <2>. QED
    BY <2>2
<1>3. CASE ReceiveInfo
  <2>1. /\ loop' = [loop EXCEPT !.at = "schedule", !.nodes = worker_nodes,
                                !.options = {}]
        /\ loop.at = "info"
    BY <1>3 DEF ReceiveInfo
  <2>2. loop'.todo = loop.todo
    BY <1>0, <2>1 DEF LoopRecords
  <2>. QED
    BY <2>1, <2>2
<1>4. CASE SkipNode
  <2>1. loop' = NextNode /\ Checks
    BY <1>4 DEF SkipNode
  <2>2. NextNode.todo = loop.todo /\ loop.at = "schedule"
    BY <2>1, NextNodeType DEF Checks
  <2> HIDE DEF NextNode
  <2>3. loop'.todo = loop.todo
    BY <2>1, <2>2
  <2>. QED
    BY <2>2, <2>3
<1>5. CASE TryMigration \/ TakeLock
  <2>1. loop'.todo = loop.todo
    BY <1>5, LockView
  <2>2. loop.at # "load"
    BY <1>5 DEF TryMigration, TakeLock, Checks
  <2>. QED
    BY <2>1, <2>2
<1>6. CASE NodeNotMeasured \/ RouterGone \/ GrantNoEntry \/ GrantTwice
  <2>1. Dies /\ loop.at \notin {"none", "dead"}
    BY <1>6 DEF NodeNotMeasured, RouterGone, GrantNoEntry, GrantTwice, Checks,
                Granting
  <2>2. loop'.todo = <<>>
    BY <2>1, DiesType
  <2>. QED
    BY <2>2
<1>7. CASE OfferNode
  <2>1. loop'.todo = loop.todo
    BY <1>7, OfferView
  <2>2. loop.at # "load"
    BY <1>7 DEF OfferNode, Checks
  <2>. QED
    BY <2>1, <2>2
<1>8. CASE Decide
  <2>1. loop'.todo = loop.todo
    BY <1>8, DecideView
  <2>2. loop.at # "load"
    BY <1>8 DEF Decide
  <2>. QED
    BY <2>1, <2>2
<1>9. CASE NoOption \/ LoadReturns
  <2>1. loop' = NextRequest /\ loop.at \in {"schedule", "load"}
    BY <1>9 DEF NoOption, LoadReturns
  <2>2. loop.todo # <<>>
    BY <1>0, <2>1
  <2>3. \/ loop'.todo = <<>>
        \/ loop'.at = "schedule" /\ loop'.todo = Tail(loop.todo)
    BY <2>1, <2>2, NextRequestType
  <2>. QED
    BY <2>2, <2>3
<1>10. ASSUME NEW A \in SUBSET Requests, PlanMigration(A)
       PROVE  Goal
  <2>1. loop'.todo = loop.todo
    BY <1>10, PlanView
  <2>2. loop.at # "load"
    BY <1>10 DEF PlanMigration
  <2>. QED
    BY <2>1, <2>2
<1>11. CASE Migrate
  <2>1. loop'.todo = loop.todo /\ loop.at \in {"evict", "migrate", "moved"}
    BY <1>11, MigrateView
  <2>. QED
    BY <2>1
<1>12. CASE Grant
  <2>1. loop'.todo = loop.todo /\ loop'.at = "load"
    BY <1>12, ConcludeView
  <2>. QED
    BY <2>1
<1>13. CASE UpdateNodes \/ WriteNodes
  <2>1. loop'.todo = loop.todo \/ loop' = Asleep
    BY <1>13, ConcludeView
  <2>2. loop.at \in {"update", "write"}
    BY <1>13 DEF UpdateNodes, WriteNodes
  <2> HIDE DEF Asleep
  <2>. QED
    BY <1>0, <1>a, <2>1, <2>2
<1>14. CASE SABeginPass
  BY <1>14
<1> HIDE DEF Goal
<1>15. CASE LoopStep
  BY <1>3, <1>4, <1>5, <1>6, <1>7, <1>8, <1>9, <1>10, <1>11, <1>12, <1>13,
     <1>14, <1>15 DEF LoopStep, Prepare, Conclude
<1>16. CASE ~LoopStep
  <2>1. loop' = loop \/ SAStart \/ SALoopExit
    BY <1>16 DEF SANext, SAShutdown, SAAllocate, SARecordInstance,
                 SADeallocate, SANodeJoins, SANodeLeaves, saVars
  <2>. QED
    BY <1>1, <1>2, <2>1
<1>. QED
  BY <1>15, <1>16

\* A request of the pass that is alone is settled after the step, unless it is
\* the first and is granted now or has been.
LEMMA EntryStep ==
    ASSUME SATypeOK, LoopInv, CallersInv, QueuesInv, TodoInv, [SANext]_saVars,
           NEW k \in DOMAIN loop.todo, NEW r \in Requests, r = Todo(k)
    PROVE  /\ caller'[r] # "new" /\ request_time'[r] > 0
           /\ running' /\ Alone(r)' /\ ~(k = 1 /\ loop.at = "load")
                 /\ ~(k = 1 /\ (Grant \/ GrantTwice)) =>
                  loop.todo[k].idx = 1 /\ Settled(r)'
<1>1. clock > 0
  BY DEF QueuesInv
<1>2. caller[r] # "new" /\ request_time[r] > 0
  BY DEF TodoInv
<1>3. caller'[r] # "new" /\ request_time'[r] > 0
  BY <1>1, <1>2, RequestsStay
<1>4. ASSUME running', Alone(r)', ~(k = 1 /\ loop.at = "load"),
             ~(k = 1 /\ (Grant \/ GrantTwice))
      PROVE  loop.todo[k].idx = 1 /\ Settled(r)'
  <2>1. loop.todo # <<>>
    OBVIOUS
  <2>2. running
    <3>1. loop.at # "none"
      BY <2>1 DEF LoopInv
    <3>. QED
      BY <1>4, <3>1, RunningSteps
  <2>3. Alone(r)
    BY <1>4, AloneStep
  <2>4. loop.todo[k].idx = 1 /\ Settled(r)
    BY <1>4, <2>2, <2>3 DEF TodoInv, Settled
  <2>5. r = Current => k = 1
    <3>1. /\ Current = Todo(1) /\ 1 \in DOMAIN loop.todo
      BY <2>1, CurrentType DEF Current, Todo
    <3>. QED
      BY <3>1 DEF TodoInv
  <2>6. ~(r = Current /\ (Grant \/ GrantTwice))
    BY <1>4, <2>5
  <2>7. Settled(r)'
    BY <1>2, <1>4, <2>4, <2>6, SettledStep
  <2>. QED
    BY <2>4, <2>7
<1>. QED
  BY <1>3, <1>4

\* The requests of a pass that begins are those in the queues.
LEMMA BegunEntries ==
    ASSUME SATypeOK, QueuesInv, AloneInv, SABeginPass,
           NEW k \in DOMAIN loop'.todo
    PROVE  /\ Todo(k)' \in Requests
           /\ caller'[Todo(k)'] # "new" /\ request_time'[Todo(k)'] > 0
           /\ Alone(Todo(k)') =>
                  loop'.todo[k].idx = 1 /\ Settled(Todo(k)')
<1> DEFINE e == loop'.todo[k]
           r == e.req
           s == model_loading_queues[ModelOf[r]]
<1>1. UNCHANGED <<caller, request_time>>
  BY DEF SABeginPass, instVars, otherVars
<1>2. e \in Snapshot
  BY BeginPassView
<1>3. /\ r \in Requests
      /\ e.idx \in DOMAIN s /\ s[e.idx] = r
  BY <1>2, SnapshotEntries DEF QueueEntry
<1>4. ModelOf[r] \in Models
  BY <1>3, RequestsAssumption
<1>5. s \in Seq(Requests)
  BY <1>4 DEF SATypeOK
<1>6. caller[r] # "new" /\ request_time[r] > 0 /\ s # <<>>
  <2>1. caller[s[e.idx]] # "new" /\ request_time[s[e.idx]] > 0
    BY <1>3, <1>4 DEF QueuesInv
  <2>. QED
    BY <1>3, <2>1
<1>7. ModelOf[r] \in ToSet(model_order)
  BY <1>4, <1>6 DEF QueuesInv
<1>8. ASSUME Alone(r)
      PROVE  e.idx = 1 /\ Settled(r)
  <2>1. s = <<r>> /\ e.idx = 1
    BY <1>3, <1>8, AloneQueue
  <2>2. Queued(r)
    BY <1>3 DEF Queued
  <2>3. allocation_result[r] = NoNode
    BY <1>3, <1>8, <2>2 DEF AloneInv
  <2>. QED
    BY <1>7, <2>1, <2>3 DEF Settled
<1>9. Todo(k)' = r
  BY DEF Todo
<1>. QED
  BY <1>1, <1>3, <1>6, <1>8, <1>9

\* Every step keeps the requests of a pass different and those that are alone
\* where they were.
LEMMA TodoStep ==
    ASSUME SATypeOK, LoopInv, CallersInv, QueuesInv, TodoInv, AloneInv,
           [SANext]_saVars
    PROVE  TodoInv'
<1> DEFINE ok(k) ==
             /\ caller[Todo(k)] # "new" /\ request_time[Todo(k)] > 0
             /\ running /\ Alone(Todo(k)) /\ ~(k = 1 /\ loop.at = "load") =>
                  loop.todo[k].idx = 1 /\ Settled(Todo(k))
<1>0. SUFFICES /\ \A k, l \in DOMAIN loop'.todo :
                     loop'.todo[k].req = loop'.todo[l].req => k = l
               /\ \A k \in DOMAIN loop'.todo : ok(k)'
  BY DEF TodoInv, Todo, Settled
<1>1. /\ loop.todo \in Seq(QueueEntry) /\ clock > 0
      /\ \A k, l \in DOMAIN loop.todo :
             loop.todo[k].req = loop.todo[l].req => k = l
  BY LoopFields DEF SATypeOK, QueuesInv, TodoInv, Todo
<1>a. ASSUME NEW k \in DOMAIN loop.todo
      PROVE  \E r \in Requests : r = Todo(k)
  <2>1. loop.todo[k] \in QueueEntry
    BY <1>1
  <2>. QED
    BY <2>1 DEF Todo, QueueEntry
<1>2. CASE loop'.todo = <<>>
  BY <1>2
<1>3. CASE /\ loop'.todo = loop.todo /\ loop'.todo # <<>>
           /\ loop.at = "load" => loop'.at = "load"
  <2>1. ASSUME NEW k \in DOMAIN loop.todo
        PROVE  ok(k)'
    <3>0. PICK r \in Requests : r = Todo(k)
      BY <1>a
    <3>1. /\ caller'[r] # "new" /\ request_time'[r] > 0
          /\ running' /\ Alone(r)' /\ ~(k = 1 /\ loop.at = "load")
                /\ ~(k = 1 /\ (Grant \/ GrantTwice)) =>
                 loop.todo[k].idx = 1 /\ Settled(r)'
      BY <3>0, EntryStep
    <3>2. Todo(k)' = r /\ loop'.todo[k] = loop.todo[k]
      BY <1>3, <3>0 DEF Todo
    <3>3. Grant => loop'.at = "load"
      BY ConcludeView
    <3>4. ~GrantTwice
      <4>1. GrantTwice => Dies /\ loop.at = "evict"
        BY DEF GrantTwice, Granting
      <4>. QED
        BY <1>3, <4>1, DiesType
    <3>. QED
      BY <1>3, <3>1, <3>2, <3>3, <3>4
  <2> HIDE DEF ok
  <2>. QED
    BY <1>1, <1>3, <2>1
<1>4. CASE /\ loop'.todo = Tail(loop.todo) /\ loop.todo # <<>>
           /\ loop'.at = "schedule"
  <2>1. \A k \in DOMAIN loop'.todo :
           /\ k + 1 \in DOMAIN loop.todo /\ k + 1 # 1
           /\ loop'.todo[k] = loop.todo[k + 1] /\ k \in Nat
    BY <1>1, <1>4
  <2>2. ASSUME NEW k \in DOMAIN loop'.todo
        PROVE  ok(k)'
    <3>0. PICK r \in Requests : r = Todo(k + 1)
      BY <1>a, <2>1
    <3>1. /\ caller'[r] # "new" /\ request_time'[r] > 0
          /\ running' /\ Alone(r)' =>
                 loop.todo[k + 1].idx = 1 /\ Settled(r)'
      BY <2>1, <3>0, EntryStep
    <3>2. Todo(k)' = r /\ loop'.todo[k] = loop.todo[k + 1]
      BY <2>1, <3>0 DEF Todo
    <3>. QED
      BY <3>1, <3>2
  <2>3. ASSUME NEW k \in DOMAIN loop'.todo, NEW l \in DOMAIN loop'.todo,
               loop'.todo[k].req = loop'.todo[l].req
        PROVE  k = l
    <3>1. /\ k + 1 \in DOMAIN loop.todo /\ l + 1 \in DOMAIN loop.todo
          /\ loop.todo[k + 1].req = loop.todo[l + 1].req
          /\ k \in Nat /\ l \in Nat
      BY <2>1, <2>3
    <3>2. k + 1 = l + 1
      BY <1>1, <3>1
    <3>. QED
      BY <3>1, <3>2
  <2> HIDE DEF ok
  <2>. QED
    BY <2>2, <2>3
<1>5. CASE SABeginPass
  <2>1. UNCHANGED <<model_loading_queues, model_order, allocation_result,
                    request_time>>
    BY <1>5 DEF SABeginPass, queueVars, instVars, otherVars
  <2>2. ASSUME NEW k \in DOMAIN loop'.todo
        PROVE  ok(k)'
    <3>1. /\ Todo(k)' \in Requests
          /\ caller'[Todo(k)'] # "new" /\ request_time'[Todo(k)'] > 0
          /\ Alone(Todo(k)') => loop'.todo[k].idx = 1 /\ Settled(Todo(k)')
      BY <1>5, <2>2, BegunEntries
    <3>2. Alone(Todo(k))' => Alone(Todo(k)')
      BY <2>1 DEF Alone
    <3>3. Settled(Todo(k)') => Settled(Todo(k))'
      BY <2>1 DEF Settled
    <3>. QED
      BY <3>1, <3>2, <3>3
  <2>. QED
    BY <1>5, <2>2, BeginPassView
<1>. QED
  BY <1>2, <1>3, <1>4, <1>5, TodoSteps

(***************************************************************************)
(* The invariant of the specification                                      *)
(***************************************************************************)

\* The invariant holds before the scheduler is started: it knows no node and
\* no request was made.
LEMMA SAInitInd == SAInit => SAIndInv
<1> SUFFICES ASSUME SAInit
             PROVE  SAIndInv
  OBVIOUS
<1>1. /\ running = FALSE /\ loops = 0 /\ starts = 0 /\ clock = 1
      /\ model_loading_queues = [m \in Models |-> <<>>]
      /\ request_time = [r \in Requests |-> 0]
      /\ allocation_result = [r \in Requests |-> NoNode]
      /\ model_instance = [r \in Requests |-> NoNode]
      /\ caller = [r \in Requests |-> "new"]
      /\ worker_nodes = <<>>
  BY DEF SAInit, Init
<1>2. SATypeOK
  BY SAInitType
<1>3. /\ loop.at = "none" /\ loop.todo = <<>> /\ loop.nodes = <<>>
      /\ loop.options = {} /\ loop.plan = <<>> /\ ~loop.contended
  <2>1. loop = [Asleep EXCEPT !.at = "none"]
    BY DEF SAInit
  <2>2. /\ Asleep \in LoopRecords /\ Asleep.todo = <<>>
        /\ Asleep.nodes = <<>> /\ Asleep.options = {} /\ Asleep.plan = <<>>
        /\ Asleep.contended = FALSE
    BY AsleepType
  <2> HIDE DEF Asleep
  <2>. QED
    BY <2>1, <2>2 DEF LoopRecords
<1>4. Known = {}
  BY <1>1, EmptyElements DEF Known
<1>5. LoopInv
  <2>1. ToSet(loop.nodes) = {}
    BY <1>3, EmptyElements
  <2>2. DOMAIN loop.plan = {}
    BY <1>3
  <2>. QED
    BY <1>1, <1>3, <2>1, <2>2 DEF LoopInv
<1>6. CallersInv
  BY <1>1, <1>3 DEF CallersInv
<1>7. QueuesInv
  <2>1. \A m \in Models : model_loading_queues[m] = <<>>
    BY <1>1
  <2>2. IsInjective(<<>>) /\ DOMAIN <<>> = {}
    BY DEF IsInjective
  <2>. QED
    BY <1>1, <2>1, <2>2 DEF QueuesInv
<1>8. TodoInv
  <2>1. DOMAIN loop.todo = {}
    BY <1>3
  <2>. QED
    BY <2>1 DEF TodoInv
<1>9. AloneInv
  BY <1>1 DEF AloneInv
<1>10. ConservedInv /\ FreeIsFree /\ WriteInv
  BY <1>4 DEF ConservedInv, GpuConservation, FreeIsFree, WriteInv
<1>11. PlainInv
  BY <1>3, <1>4 DEF PlainInv
<1>. QED
  BY <1>2, <1>5, <1>6, <1>7, <1>8, <1>9, <1>10, <1>11 DEF SAIndInv

\* Every step preserves it.
LEMMA SAStepInd == SAIndInv /\ [SANext]_saVars => SAIndInv'
<1> SUFFICES ASSUME SAIndInv, [SANext]_saVars
             PROVE  SAIndInv'
  OBVIOUS
<1>0. /\ SATypeOK /\ LoopInv /\ CallersInv /\ QueuesInv /\ TodoInv /\ AloneInv
      /\ ConservedInv /\ FreeIsFree /\ WriteInv /\ PlainInv
  BY DEF SAIndInv
<1>1. SATypeOK'
  BY <1>0, SATypeStep
<1>2. LoopInv'
  BY <1>0, LoopInvStep
<1>3. CallersInv'
  BY <1>0, CallersStep
<1>4. QueuesInv'
  BY <1>0, <1>1, QueuesStep
<1>5. TodoInv'
  BY <1>0, TodoStep
<1>6. AloneInv'
  BY <1>0, AloneInvStep
<1>7. ConservedInv'
  <2>1. ~enable_migration' => ~enable_migration
    BY MigrationStays
  <2>2. ~enable_migration => GpuConservation'
    BY <1>0, ConservedStep
  <2>. QED
    BY <2>1, <2>2 DEF ConservedInv
<1>8. FreeIsFree' /\ WriteInv'
  <2>1. ASSUME SameSize
        PROVE  /\ \A n \in Known' : free_gpu'[n] + GpusInUse(n)' <= TotalGpus[n]
               /\ loop'.at = "write" =>
                     \A n \in Known' :
                         loop'.seen[n] + GpusInUse(n)' <= TotalGpus[n]
    BY <1>0, <2>1, FreeStep
  <2>2. SameSize' <=> SameSize
    BY DEF SameSize
  <2>3. FreeIsFree'
    BY <2>1 DEF FreeIsFree, SameSize
  <2>4. WriteInv'
    BY <2>1, <2>2 DEF WriteInv
  <2>. QED
    BY <2>3, <2>4
<1>9. PlainInv'
  BY <1>0, PlainStep
<1>. QED
  BY <1>1, <1>2, <1>3, <1>4, <1>5, <1>6, <1>7, <1>8, <1>9 DEF SAIndInv

\* What the control loop holds between its awaits stays right whoever runs
\* in between.
THEOREM SAInvariance == SASpec => []SAIndInv
BY SAInitInd, SAStepInd, PTL DEF SASpec

\* Without migration no node runs more than it has.
LEMMA PlainBooks ==
    ASSUME SATypeOK, CallersInv, ConservedInv, PlainInv
    PROVE  ConservedWithoutMigration
<1> SUFFICES ASSUME ~enable_migration
             PROVE  GpuConservation /\ NoOvercommit
  BY DEF ConservedWithoutMigration
<1>1. GpuConservation
  BY DEF ConservedInv
<1>2. ASSUME NEW n \in Nodes
      PROVE  GpusInUse(n) <= TotalGpus[n]
  <2>0. TotalGpus[n] \in Nat /\ free_gpu[n] \in Int /\ GpusInUse(n) \in Nat
    BY NodesAssumption, GpusInUseType DEF SATypeOK
  <2>1. CASE n \in Known
    <3>1. free_gpu[n] + GpusInUse(n) = TotalGpus[n] /\ free_gpu[n] >= 0
      BY <1>1, <2>1 DEF GpuConservation, PlainInv
    <3>. QED
      BY <2>0, <3>1
  <2>2. CASE n \notin Known
    <3>1. GpusInUse(n) = 0
      BY <2>2, UnknownUnused
    <3>. QED
      BY <2>0, <3>1
  <2>. QED
    BY <2>1, <2>2
<1>. QED
  BY <1>1, <1>2 DEF NoOvercommit

\* The books of the scheduler balance (BooksBalance): without migration every
\* GPU of a node is free or held by one instance; with migration, if all
\* instances are of one size, none is counted free that an instance holds.
THEOREM BooksAlwaysBalance == SASpec => []BooksBalance
<1>1. SAIndInv => BooksBalance
  BY PlainBooks DEF SAIndInv, BooksBalance
<1>. QED
  BY <1>1, SAInvariance, PTL

(***************************************************************************)
(* The action properties                                                   *)
(***************************************************************************)

\* Without migration a future is set by the grant only.
LEMMA PlainFutures ==
    ASSUME SATypeOK, LoopInv, PlainInv, [SANext]_saVars, ~enable_migration,
           NEW r \in Requests, allocation_result'[r] # allocation_result[r]
    PROVE  Grant /\ r = Current
<1>1. ASSUME NEW q \in Requests, StartMigration(q)
      PROVE  FALSE
  BY <1>1 DEF StartMigration, PlainInv
<1>2. Grant
  BY <1>1, FutureActions
<1>3. allocation_result' = [allocation_result EXCEPT ![Current] = loop.node]
  BY <1>2 DEF Grant
<1>4. allocation_result \in [Requests -> Nodes \cup {NoNode}]
  BY DEF SATypeOK
<1>5. r = Current
  BY <1>3, <1>4
<1>. QED
  BY <1>2, <1>5

\* The node a request is granted is the fastest that has room.
LEMMA FastestStep ==
    ASSUME SAIndInv, [SANext]_saVars, NEW r \in Requests, Grants(r),
           ~enable_migration
    PROVE  LET m == ModelOf[r]
           IN  /\ Stored(m, allocation_result'[r])
               /\ \A n \in Known :
                      Stored(m, n) /\ Fits(r, n) =>
                          Latency(m, allocation_result'[r]) <= Latency(m, n)
<1>1. Grant /\ r = Current
  BY PlainFutures DEF SAIndInv, Grants
<1>2. /\ allocation_result' = [allocation_result EXCEPT ![Current] = loop.node]
      /\ loop.at = "evict"
  BY <1>1 DEF Grant, Granting
<1>3. allocation_result'[r] = loop.node
  BY <1>1, <1>2 DEF SAIndInv, SATypeOK
<1>4. /\ Stored(Model, loop.node)
      /\ \A n \in Known :
             Stored(Model, n) /\ Fits(Current, n) =>
                 Latency(Model, loop.node) <= Latency(Model, n)
  BY <1>2 DEF SAIndInv, PlainInv
<1>5. Model = ModelOf[r]
  BY <1>1 DEF Model
<1>. QED
  BY <1>1, <1>3, <1>4, <1>5

\* Without migration every request gets, of the nodes that have room when its
\* GPUs are taken, the one that loads its model fastest (FastestNode).
THEOREM FastestNodeGranted == SASpec => FastestNode
<1> DEFINE A == \A r \in Requests :
                    Grants(r) /\ ~enable_migration =>
                        LET m == ModelOf[r]
                        IN  /\ Stored(m, allocation_result'[r])
                            /\ \A n \in Known :
                                   Stored(m, n) /\ Fits(r, n) =>
                                       Latency(m, allocation_result'[r])
                                           <= Latency(m, n)
<1>1. SAIndInv /\ [SANext]_saVars => A
  BY FastestStep
<1> HIDE DEF A
<1>2. SASpec => [][A]_saVars
  BY <1>1, SAInvariance, PTL DEF SASpec
<1>. QED
  BY <1>2 DEF FastestNode, A

\* The removal by index of a request that is alone finds it.
LEMMA SingleStep ==
    ASSUME SAIndInv, GrantNoEntry \/ GrantTwice
    PROVE  \/ ~running
           \/ \E r \in Requests : /\ r # Current
                                  /\ ModelOf[r] = Model
                                  /\ request_time[r] > 0
<1> SUFFICES ASSUME running, Alone(Current)
             PROVE  FALSE
  BY DEF Alone, Model
<1>1. loop.at = "evict" /\ loop.todo # <<>>
  BY DEF GrantNoEntry, GrantTwice, Granting, SAIndInv, LoopInv
<1>2. /\ 1 \in DOMAIN loop.todo /\ Head(loop.todo) = loop.todo[1]
  BY <1>1, CurrentType DEF SAIndInv
<1>3. Todo(1) = Current /\ Index = loop.todo[1].idx
  BY <1>2 DEF Todo, Current, Index
<1>4. /\ Index = 1
      /\ model_loading_queues[Model] = <<Current>>
      /\ Model \in ToSet(model_order)
      /\ allocation_result[Current] = NoNode
  BY <1>1, <1>2, <1>3 DEF SAIndInv, TodoInv, Model
<1>5. Len(model_loading_queues[Model]) = 1
  BY <1>4
<1>. QED
  BY <1>4, <1>5 DEF GrantNoEntry, GrantTwice

\* The removal by index (line 194) fails only for a request whose model had
\* another one, or after a shutdown (SingleRequestsAreSafe).
THEOREM SingleRequestsFound == SASpec => SingleRequestsAreSafe
<1> DEFINE A == GrantNoEntry \/ GrantTwice =>
                    \/ ~running
                    \/ \E r \in Requests : /\ r # Current
                                           /\ ModelOf[r] = Model
                                           /\ request_time[r] > 0
<1>1. SAIndInv => A
  BY SingleStep
<1> HIDE DEF A
<1>2. SASpec => [][A]_saVars
  BY <1>1, SAInvariance, PTL DEF SASpec
<1>. QED
  BY <1>2 DEF SingleRequestsAreSafe, A

(***************************************************************************)
(* The abstract allocator                                                  *)
(***************************************************************************)

\* Without migration a request gets its node with the grant and gives it back
\* with deallocate_resource; nothing else concerns the allocator.
LEMMA PlainSteps ==
    ASSUME SATypeOK, LoopInv, PlainInv, [SANext]_saVars, ~enable_migration
    PROVE  \/ /\ allocation_result' = allocation_result
              /\ \A q \in Requests :
                    caller'[q] = "released" <=> caller[q] = "released"
           \/ \E r \in Requests : SADeallocate(r)
           \/ Grant
<1> DEFINE G == \/ /\ allocation_result' = allocation_result
                   /\ \A q \in Requests :
                         caller'[q] = "released" <=> caller[q] = "released"
                \/ \E r \in Requests : SADeallocate(r)
                \/ Grant
<1>1. CASE UNCHANGED <<allocation_result, caller>>
  BY <1>1
<1>2. ASSUME NEW r \in Requests, SAAllocate(r) \/ SARecordInstance(r)
      PROVE  G
  BY <1>2 DEF SAAllocate, Allocate, SARecordInstance, RecordInstance, SATypeOK
<1>3. ~Migrate
  <2>1. Migrate => \/ loop.at \in {"migrate", "moved"}
                   \/ loop.at = "evict" /\ loop.plan # <<>>
    BY DEF Migrate, StartMigration, MarkResource, MoveInstance,
           MigrationFails, MigrationReturns
  <2>. QED
    BY <2>1 DEF PlainInv
<1>4. \/ UNCHANGED <<allocation_result, caller>>
      \/ \E r \in Requests : \/ SAAllocate(r) \/ SARecordInstance(r)
                             \/ SADeallocate(r)
      \/ Grant
  BY <1>3 DEF SANext, SAStart, Start, SAShutdown, Shutdown, SALoopExit,
       LoopExit, SANodeJoins, NodeJoins, SANodeLeaves, NodeLeaves, LoopStep,
       SABeginPass, ReceiveInfo, Prepare, SkipNode, NodeNotMeasured,
       OfferNode, TryMigration, TakeLock, RouterGone, Decide, NoOption,
       PlanMigration, Conclude, GrantNoEntry, GrantTwice, LoadReturns,
       UpdateNodes, WriteNodes, instVars, saVars, vars
<1>5. G
  BY <1>1, <1>2, <1>4
<1>. QED
  BY <1>5

\* Without migration every step is one of the allocator's, or none.
LEMMA PlainAllocatorStep ==
    ASSUME SAIndInv, [SANext]_saVars, ~enable_migration
    PROVE  [Allocator!Next]_Allocator!vars
<1> DEFINE owner(r) == IF caller[r] = "released" THEN NoNode
                       ELSE allocation_result[r]
<1> USE RequestsAssumption, NodesAssumption
<1>0. /\ allocation_result \in [Requests -> Nodes \cup {NoNode}]
      /\ caller \in [Requests -> {"new", "waiting", "migrating", "holding",
                                  "released"}]
  BY DEF SAIndInv, SATypeOK
<1>1. ASSUME allocation_result' = allocation_result,
             \A q \in Requests :
                 caller'[q] = "released" <=> caller[q] = "released"
      PROVE  UNCHANGED Allocator!vars
  BY <1>1 DEF Allocator!vars
<1>2. ASSUME NEW r \in Requests, SADeallocate(r)
      PROVE  Allocator!Release(r)
  <2>1. /\ caller[r] = "holding"
        /\ caller' = [caller EXCEPT ![r] = "released"]
        /\ allocation_result' = allocation_result
    BY <1>2 DEF SADeallocate, Deallocate
  <2>2. allocation_result[r] # NoNode
    BY <2>1 DEF SAIndInv, CallersInv
  <2>. QED
    BY <1>0, <2>1, <2>2 DEF Allocator!Release
<1>3. ASSUME Grant
      PROVE  \E c \in Requests, n \in Nodes : Allocator!Grant(c, n)
  <2>a. loop.at = "evict"
    BY <1>3 DEF Grant, Granting
  <2>b. loop.node \in Known /\ loop.todo # <<>>
    BY <2>a DEF SAIndInv, LoopInv
  <2>c. PICK c \in Requests, n \in Nodes : c = Current /\ n = loop.node
    BY <2>b, CurrentType, KnownNodes DEF SAIndInv
  <2>1. /\ allocation_result[c] = NoNode
        /\ allocation_result' = [allocation_result EXCEPT ![c] = n]
        /\ caller' = caller
    BY <1>3, <2>c DEF Grant
  <2>2. n \in Known
    BY <2>b, <2>c
  <2>3. c \in Requests /\ n \in Nodes
    OBVIOUS
  <2>4. free_gpu[n] >= NumGpus[c]
    BY <2>a, <2>c DEF SAIndInv, PlainInv, Fits
  <2>5. caller[c] # "released"
    BY <2>1, <2>3 DEF SAIndInv, CallersInv
  <2>6. {q \in Requests : [r \in Requests |-> owner(r)][q] = n} = Holders(n)
    BY <1>0, <2>3 DEF Holders, Holds
  <2>7. Allocator!OwnedGpus(n) = GpusOf(Holders(n))
    BY <2>6 DEF Allocator!OwnedGpus, GpusOf
  <2>8. Cardinality(Allocator!OwnedGpus(n)) = GpusInUse(n)
    BY <2>7 DEF GpusInUse
  <2>9. GpusInUse(n) + NumGpus[c] <= TotalGpus[n]
    <3>1. free_gpu[n] + GpusInUse(n) = TotalGpus[n] /\ free_gpu[n] \in Int
      BY <2>2, <2>3 DEF SAIndInv, ConservedInv, GpuConservation, SATypeOK
    <3>2. GpusInUse(n) \in Nat /\ NumGpus[c] \in Nat
      BY <2>3, GpusInUseType
    <3>. QED
      BY <2>4, <3>1, <3>2
  <2>10. \A S : Allocator!Cardinality(S) = Cardinality(S)
    BY DEF Allocator!Cardinality, Cardinality, Allocator!IsFiniteSet,
           IsFiniteSet
  <2>11. Allocator!Cardinality(Allocator!OwnedGpus(n)) + NumGpus[c]
             <= TotalGpus[n]
    BY <2>8, <2>9, <2>10
  <2>12. /\ [r \in Requests |-> owner(r)][c] = NoNode
         /\ c \notin {r \in Requests : caller[r] = "released"}
    BY <2>1, <2>3, <2>5
  <2>13. [r \in Requests |-> owner(r)]' =
            [[r \in Requests |-> owner(r)] EXCEPT ![c] = n]
    BY <1>0, <2>1, <2>3, <2>5
  <2>14. {r \in Requests : caller[r] = "released"}' =
            {r \in Requests : caller[r] = "released"}
    BY <2>1
  <2>15. Allocator!Grant(c, n)
    BY <2>11, <2>12, <2>13, <2>14 DEF Allocator!Grant
  <2>. QED
    BY <2>15
<1>4. \/ /\ allocation_result' = allocation_result
         /\ \A q \in Requests :
               caller'[q] = "released" <=> caller[q] = "released"
      \/ \E r \in Requests : SADeallocate(r)
      \/ Grant
  BY PlainSteps DEF SAIndInv
<1>5. CASE Grant
  <2>1. Allocator!Next
    BY <1>3, <1>5 DEF Allocator!Next
  <2>. QED
    BY <2>1
<1>6. CASE \E r \in Requests : SADeallocate(r)
  <2>1. PICK r \in Requests : SADeallocate(r)
    BY <1>6
  <2>2. Allocator!Release(r)
    BY <1>2, <2>1
  <2>3. Allocator!Next
    BY <2>2 DEF Allocator!Next
  <2>. QED
    BY <2>3
<1>7. CASE /\ allocation_result' = allocation_result
           /\ \A q \in Requests :
                 caller'[q] = "released" <=> caller[q] = "released"
  BY <1>1, <1>7
<1>. QED
  BY <1>4, <1>5, <1>6, <1>7

\* Without migration the scheduler implements the abstract allocator, step by
\* step (ImplementsUnlessMigrating), even when it removes the wrong entry from
\* a queue or its control loop dies.
THEOREM AllocatesUnlessMigrating == SASpec => ImplementsUnlessMigrating
<1>1. SAIndInv /\ [SANext]_saVars =>
          [enable_migration \/ Allocator!Next]_(Allocator!vars)
  BY PlainAllocatorStep
<1>. QED
  BY <1>1, SAInvariance, PTL DEF SASpec, ImplementsUnlessMigrating
=============================================================================
