---------------------- MODULE RoundRobinRouterProofs -----------------------
(***************************************************************************)
(* Proofs about RoundRobinRouter, for every set of calls, of instances and *)
(* of auto-scaling configs, whatever may fail.                             *)
(***************************************************************************)
EXTENDS RoundRobinRouter, SequenceLemmas

(***************************************************************************)
(* The inductive invariant                                                 *)
(*                                                                         *)
(* NoOverload alone is not inductive: the load balancer compares not the   *)
(* calls on an instance but its concurrency with max_queue_length, and     *)
(* concurrency only bounds the calls because no inference call is on an    *)
(* instance whose concurrency a fine-tuning call overwrites, and no call   *)
(* at all on one whose handle is made anew.                                *)
(***************************************************************************)

OnInstance(i) == {c \in Inferences : On(c, i)}

\* The concurrency of a handle covers the inference calls on its instance.
ConcurrencyCovers ==
    \A i \in Instances : Cardinality(OnInstance(i)) <= concurrency[i]

\* No call was given an instance that is not ready yet.
StartingIsIdle ==
    \A i \in Instances :
        task[i] \in {"allocating", "loading", "failed"} =>
            \A c \in Calls : ~On(c, i)

IndInv ==
    /\ TypeOK
    /\ Exclusive
    /\ DemandCovered
    /\ NoOverload
    /\ ConcurrencyCovers
    /\ NoOrphan
    /\ StartingIsIdle
    /\ WaitingIsPending
    /\ InstanceBudget

(***************************************************************************)
(* Type correctness                                                        *)
(***************************************************************************)

InflightInferences == {c \in Inferences : InFlight(c)}
InflightFineTunings == {c \in FineTunings : InFlight(c)}

\* Sets of calls and of instances are finite.
LEMMA FiniteCalls ==
    /\ \A S \in SUBSET Calls : IsFiniteSet(S) /\ Cardinality(S) \in Nat
    /\ \A S \in SUBSET Instances : IsFiniteSet(S) /\ Cardinality(S) \in Nat
BY CallsAssumption, InstancesAssumption, FS_Subset, FS_CardinalityType

\* A count that covers the calls in flight is positive when one of them ends.
LEMMA CountPositive ==
    ASSUME TypeOK, DemandCovered, NEW c \in Calls, InFlight(c)
    PROVE  /\ c \in Inferences => request_count - 1 \in Nat
           /\ c \in FineTunings => fine_tuning_count - 1 \in Nat
<1>1. ASSUME NEW S \in SUBSET Calls, c \in S
      PROVE  Cardinality(S) >= 1
  BY <1>1, FiniteCalls, FS_EmptySet
<1>2. /\ InflightInferences \in SUBSET Calls
      /\ InflightFineTunings \in SUBSET Calls
  BY DEF InflightInferences, InflightFineTunings, Calls
<1>3. /\ Cardinality(InflightInferences) <= request_count
      /\ Cardinality(InflightFineTunings) <= fine_tuning_count
  BY DEF DemandCovered, InflightInferences, InflightFineTunings
<1>4. /\ Cardinality(InflightInferences) \in Nat
      /\ Cardinality(InflightFineTunings) \in Nat
  BY <1>2, FiniteCalls
<1>5. request_count \in Nat /\ fine_tuning_count \in Nat
  BY DEF TypeOK
<1>6. ASSUME c \in Inferences
      PROVE  request_count - 1 \in Nat
  <2>1. c \in InflightInferences
    BY <1>6 DEF InflightInferences
  <2>2. Cardinality(InflightInferences) >= 1
    BY <1>1, <1>2, <2>1
  <2>. QED
    BY <1>3, <1>4, <1>5, <2>2
<1>7. ASSUME c \in FineTunings
      PROVE  fine_tuning_count - 1 \in Nat
  <2>1. c \in InflightFineTunings
    BY <1>7 DEF InflightFineTunings
  <2>2. Cardinality(InflightFineTunings) >= 1
    BY <1>1, <1>2, <2>1
  <2>. QED
    BY <1>3, <1>4, <1>5, <2>2
<1>. QED
  BY <1>6, <1>7

\* The round-robin choice is one of the ready instances.
LEMMA ChoiceIsReady ==
    ASSUME TypeOK, ready_instances # <<>>
    PROVE  Choice \in Ready /\ Choice \in Instances
<1>1. /\ ready_instances \in Seq(Instances)
      /\ Len(ready_instances) \in Nat \ {0}
      /\ round_robin_index \in Nat
  BY InstancesAssumption DEF TypeOK
<1>2. (round_robin_index % Len(ready_instances)) + 1
          \in 1 .. Len(ready_instances)
  BY <1>1
<1>. QED
  BY <1>1, <1>2, ToSetMember DEF Choice, Ready

\* What update of the round-robin index keeps it below its bound.
LEMMA NextIndexType == TypeOK => NextIndex \in 0 .. Period - 1
BY InstancesAssumption DEF TypeOK, NextIndex

\* add_requests() keeps the concurrency of every handle a natural number, and
\* gives one request back unless it is 0 or beyond max_queue_length.
LEMMA AddRequestsType ==
    ASSUME TypeOK, NEW j
    PROVE  /\ AddRequests(j, -1) \in [Instances -> Nat]
           /\ \A i \in Instances :
                 /\ i # j => AddRequests(j, -1)[i] = concurrency[i]
                 /\ AddRequests(j, -1)[i] \in {concurrency[i], concurrency[i] - 1}
<1> DEFINE less(i) == IF \/ concurrency[i] + (-1) > max_queue_length[i]
                         \/ concurrency[i] + (-1) < 0
                      THEN concurrency[i] ELSE concurrency[i] + (-1)
<1>1. AddRequests(j, -1) = [concurrency EXCEPT ![j] = less(j)]
  BY DEF AddRequests
<1>2. ASSUME NEW i \in Instances
      PROVE  less(i) \in Nat /\ less(i) \in {concurrency[i], concurrency[i] - 1}
  <2>1. concurrency[i] \in Nat /\ max_queue_length[i] \in Nat
    BY DEF TypeOK
  <2>. QED
    BY <2>1
<1> HIDE DEF less
<1>3. AddRequests(j, -1) =
          [i \in Instances |-> IF i = j THEN less(i) ELSE concurrency[i]]
  BY <1>1 DEF TypeOK
<1>4. AddRequests(j, -1) \in [Instances -> Nat]
  BY <1>2, <1>3 DEF TypeOK
<1>. QED
  BY <1>2, <1>3, <1>4

\* The initial state has the right types.
LEMMA InitType == Init => TypeOK
<1>1. <<>> \in Seq(Calls) /\ <<>> \in Seq(Instances)
  OBVIOUS
<1>2. 0 \in 0 .. Period - 1
  BY InstancesAssumption
<1> SUFFICES ASSUME Init
             PROVE  TypeOK
  OBVIOUS
<1>3. /\ request_queue \in Seq(Calls)
      /\ ready_instances \in Seq(Instances)
      /\ round_robin_index \in 0 .. Period - 1
      /\ lb_request \in Calls \cup {NoCall}
  BY <1>1, <1>2 DEF Init
<1>4. /\ task \in [Instances -> {"none", "allocating", "loading", "failed",
                                "serving", "deleting", "stopping", "killed"}]
      /\ call \in [Calls -> {"new", "waiting", "assigned", "executing",
                            "done", "lost"}]
      /\ allocation \in [Calls -> Instances \cup {NoInstance}]
      /\ scaler \in {"deciding", "stopping"}
  BY DEF Init
<1>5. /\ max_queue_length \in [Instances -> Nat]
      /\ concurrency \in [Instances -> Nat]
      /\ request_count \in Nat
      /\ fine_tuning_count \in Nat
      /\ idle_time \in Nat
  BY DEF Init
<1>6. /\ started \in BOOLEAN
      /\ running \in BOOLEAN
      /\ auto_scaling_config \in Configs
      /\ loaded_lora_adapters \in SUBSET Adapters
      /\ starting_instances \in SUBSET Instances
      /\ deleting_instances \in SUBSET Instances
      /\ condemned \in SUBSET Instances
  BY DEF Init
<1>. QED
  BY <1>3, <1>4, <1>5, <1>6 DEF TypeOK

\* Every step preserves the types.
LEMMA NextType ==
    ASSUME TypeOK, DemandCovered, NoOrphan, [Next]_vars
    PROVE  TypeOK'
<1> USE CallsAssumption, ConfigsAssumption
<1> USE DEF configVars, balancerVars, instanceVars, countVars, callVars
<1>1. CASE Start
  BY <1>1 DEF Start, TypeOK
<1>2. ASSUME NEW cfg \in Configs, UpdateConfig(cfg)
      PROVE  TypeOK'
  BY <1>2 DEF UpdateConfig, TypeOK
<1>3. ASSUME NEW adapters \in SUBSET Adapters, UpdateAdapters(adapters)
      PROVE  TypeOK'
  BY <1>3 DEF UpdateAdapters, TypeOK
<1>4. CASE ShutdownRaises
  <2>1. /\ Head(request_queue) \in Calls
        /\ Tail(request_queue) \in Seq(Calls)
    BY <1>4, HeadTailProperties DEF ShutdownRaises, TypeOK
  <2>. QED
    BY <1>4, <2>1 DEF ShutdownRaises, TypeOK
<1>5. CASE Shutdown
  <2>1. Ready \subseteq Instances
    BY ToSetMember DEF Ready, TypeOK
  <2>. QED
    BY <1>5, <2>1 DEF Shutdown, TypeOK
<1>6. ASSUME NEW c \in Inferences, Inference(c)
      PROVE  TypeOK'
  <2>1. c \in Calls
    BY DEF Calls
  <2>2. Append(request_queue, c) \in Seq(Calls)
    BY <2>1, AppendProperties DEF TypeOK
  <2>. QED
    BY <1>6, <2>1, <2>2 DEF Inference, Enqueue, TypeOK
<1>7. ASSUME NEW c \in FineTunings, FineTuning(c)
      PROVE  TypeOK'
  <2>1. c \in Calls
    BY DEF Calls
  <2>2. Append(request_queue, c) \in Seq(Calls)
    BY <2>1, AppendProperties DEF TypeOK
  <2>. QED
    BY <1>7, <2>1, <2>2 DEF FineTuning, Enqueue, TypeOK
<1>8. ASSUME NEW c \in Calls, Resume(c)
      PROVE  TypeOK'
  BY <1>8 DEF Resume, TypeOK
<1>9. ASSUME NEW c \in Calls, ResumeNotFound(c) \/ Fail(c)
      PROVE  TypeOK'
  BY <1>9 DEF ResumeNotFound, Fail, TypeOK
<1>10. ASSUME NEW c \in Calls, Finish(c)
       PROVE  TypeOK'
  <2>1. InFlight(c)
    BY <1>10 DEF Finish, InFlight
  <2>2. /\ c \in Inferences => request_count - 1 \in Nat
        /\ c \in FineTunings => fine_tuning_count - 1 \in Nat
    BY <2>1, CountPositive
  <2>3. request_count' \in Nat /\ fine_tuning_count' \in Nat
    BY <1>10, <2>2 DEF Finish, TypeOK, Calls
  <2>5. AddRequests(allocation[c], -1) \in [Instances -> Nat]
    BY AddRequestsType
  <2>. QED
    BY <1>10, <2>3, <2>5 DEF Finish, TypeOK
<1>11. CASE LbTake
  <2>1. /\ Head(request_queue) \in Calls
        /\ Tail(request_queue) \in Seq(Calls)
    BY <1>11, HeadTailProperties DEF LbTake, TypeOK
  <2>. QED
    BY <1>11, <2>1 DEF LbTake, TypeOK
<1>12. CASE LbAssign
  <2>1. request_queue # <<>> => /\ Head(request_queue) \in Calls
                                /\ Tail(request_queue) \in Seq(Calls)
    BY HeadTailProperties DEF TypeOK
  <2>2. Choice \in Instances /\ lb_request \in Calls
    BY <1>12, ChoiceIsReady DEF LbAssign, TypeOK
  <2>3. request_queue' \in Seq(Calls) /\ lb_request' \in Calls \cup {NoCall}
    BY <1>12, <2>1 DEF LbAssign, TypeOK
  <2>4. /\ concurrency' \in [Instances -> Nat]
        /\ call' \in [Calls -> {"new", "waiting", "assigned", "executing",
                                "done", "lost"}]
        /\ allocation' \in [Calls -> Instances \cup {NoInstance}]
    BY <1>12, <2>2 DEF LbAssign, TypeOK
  <2>5. round_robin_index' \in 0 .. Period - 1
    BY <1>12, NextIndexType DEF LbAssign
  <2>. QED
    BY <1>12, <2>3, <2>4, <2>5 DEF LbAssign, TypeOK
<1>13. CASE LbFull
  BY <1>13, NextIndexType DEF LbFull, TypeOK
<1>14. CASE IdleTick
  BY <1>14 DEF IdleTick, TypeOK
<1>15. CASE AwaitReady
  BY <1>15 DEF AwaitReady, TypeOK
<1>16. CASE StopInstance
  <2>1. /\ Front(ready_instances) \in Seq(Instances)
        /\ Last(ready_instances) \in Instances
    BY <1>16, FrontElements, ToSetMember DEF StopInstance, TypeOK, NoOrphan
  <2>. QED
    BY <1>16, <2>1 DEF StopInstance, TypeOK
<1>17. ASSUME NEW i \in Instances, ScaleUp(i)
       PROVE  TypeOK'
  <2>1. auto_scaling_config.target \in Nat
    BY DEF TypeOK, Config
  <2>. QED
    BY <1>17, <2>1 DEF ScaleUp, TypeOK
<1>18. ASSUME NEW i \in Instances, Loaded(i)
       PROVE  TypeOK'
  <2>1. Append(ready_instances, i) \in Seq(Instances)
    BY AppendProperties DEF TypeOK
  <2>. QED
    BY <1>18, <2>1 DEF Loaded, TypeOK
<1>19. ASSUME NEW i \in Instances, ShutdownInstance(i)
       PROVE  TypeOK'
  <2>1. ready_instances' \in Seq(Instances)
    BY <1>19, RemoveAtElements DEF ShutdownInstance, TypeOK, NoOrphan
  <2>2. task' \in [Instances -> {"none", "allocating", "loading", "failed",
                                 "serving", "deleting", "stopping", "killed"}]
    BY <1>19 DEF ShutdownInstance, TypeOK
  <2>. QED
    BY <1>19, <2>1, <2>2 DEF ShutdownInstance, TypeOK
<1>20. ASSUME NEW i \in Instances,
              \/ Allocated(i) \/ LoadFails(i) \/ FinishInstance(i)
              \/ Kill(i) \/ Deallocated(i)
       PROVE  TypeOK'
  BY <1>20 DEF Allocated, LoadFails, FinishInstance, Kill, Deallocated, TypeOK
<1>21. CASE UNCHANGED vars
  BY <1>21 DEF vars, TypeOK
<1>. QED
  BY <1>1, <1>2, <1>3, <1>4, <1>5, <1>6, <1>7, <1>8, <1>9, <1>10, <1>11,
     <1>12, <1>13, <1>14, <1>15, <1>16, <1>17, <1>18, <1>19, <1>20, <1>21
     DEF Next

(***************************************************************************)
(* The queue of calls                                                      *)
(***************************************************************************)

\* WaitingIsPending without the concatenation: the call the load balancer holds
\* is not in the queue, and the calls that wait are it and those of the queue.
QueueIsWaiting ==
    /\ IsInjective(request_queue)
    /\ lb_request \notin ToSet(request_queue)
    /\ \A c \in Calls :
          call[c] = "waiting" <=> c = lb_request \/ c \in ToSet(request_queue)

\* What Pending holds, given the two places it is made of.
LEMMA PendingElements ==
    ASSUME NEW q \in Seq(Calls), NEW l \in Calls \cup {NoCall}
    PROVE  LET p == (IF l = NoCall THEN <<>> ELSE <<l>>) \o q
           IN  /\ IsInjective(p) <=> IsInjective(q) /\ l \notin ToSet(q)
               /\ \A c \in Calls : c \in ToSet(p) <=> c = l \/ c \in ToSet(q)
               /\ ToSet(p) \subseteq Calls
<1> DEFINE p == (IF l = NoCall THEN <<>> ELSE <<l>>) \o q
<1>1. CASE l = NoCall
  <2>1. p = q
    BY <1>1, ConcatEmptySeq
  <2>2. ToSet(q) \subseteq Calls
    BY ToSetMember
  <2>. QED
    BY <1>1, <2>1, <2>2, CallsAssumption
<1>2. CASE l # NoCall
  <2>1. p = <<l>> \o q /\ l \in Calls
    BY <1>2
  <2>2. /\ ToSet(<<l>> \o q) = {l} \cup ToSet(q)
        /\ IsInjective(<<l>> \o q) <=> IsInjective(q) /\ l \notin ToSet(q)
    BY <2>1, PrependElements
  <2>3. ToSet(q) \subseteq Calls
    BY ToSetMember
  <2> HIDE DEF p
  <2>. QED
    BY <2>1, <2>2, <2>3 DEF p
<1>. QED
  BY <1>1, <1>2

\* The two forms of the invariant say the same.
LEMMA QueueFromPending ==
    ASSUME TypeOK, WaitingIsPending
    PROVE  QueueIsWaiting
<1> DEFINE p == (IF lb_request = NoCall THEN <<>> ELSE <<lb_request>>)
                    \o request_queue
<1>1. /\ request_queue \in Seq(Calls)
      /\ lb_request \in Calls \cup {NoCall}
  BY DEF TypeOK
<1>2. /\ IsInjective(p) <=> /\ IsInjective(request_queue)
                            /\ lb_request \notin ToSet(request_queue)
      /\ \A c \in Calls :
            c \in ToSet(p) <=> c = lb_request \/ c \in ToSet(request_queue)
  BY <1>1, PendingElements
<1>3. IsInjective(p) /\ ToSet(p) = {c \in Calls : call[c] = "waiting"}
  BY DEF WaitingIsPending, Pending
<1> HIDE DEF p
<1>. QED
  BY <1>2, <1>3 DEF QueueIsWaiting

\* A call that waits is in one place only, once the queue holds those that wait.
LEMMA PendingFromQueue ==
    ASSUME TypeOK', QueueIsWaiting'
    PROVE  WaitingIsPending'
<1> DEFINE p == (IF lb_request' = NoCall THEN <<>> ELSE <<lb_request'>>)
                    \o request_queue'
<1>1. /\ request_queue' \in Seq(Calls)
      /\ lb_request' \in Calls \cup {NoCall}
  BY DEF TypeOK
<1>2. /\ IsInjective(p) <=> /\ IsInjective(request_queue')
                            /\ lb_request' \notin ToSet(request_queue')
      /\ \A c \in Calls :
            c \in ToSet(p) <=> c = lb_request' \/ c \in ToSet(request_queue')
      /\ ToSet(p) \subseteq Calls
  BY <1>1, PendingElements
<1>3. Pending' = p
  BY DEF Pending
<1> HIDE DEF p
<1>4. IsInjective(p)
  BY <1>2 DEF QueueIsWaiting
<1>5. ToSet(p) = {c \in Calls : call'[c] = "waiting"}
  BY <1>2 DEF QueueIsWaiting
<1>. QED
  BY <1>3, <1>4, <1>5 DEF WaitingIsPending

\* A step that leaves the queue and the load balancer alone and makes no call
\* start or stop to wait keeps the queue right.
LEMMA QueueUntouched ==
    ASSUME QueueIsWaiting, UNCHANGED <<request_queue, lb_request>>,
           \A c \in Calls : call'[c] = "waiting" <=> call[c] = "waiting"
    PROVE  QueueIsWaiting'
BY DEF QueueIsWaiting

\* Every step keeps the queue right.
LEMMA QueueStep ==
    ASSUME TypeOK, QueueIsWaiting, [Next]_vars
    PROVE  QueueIsWaiting'
<1> USE CallsAssumption
<1> USE DEF configVars, balancerVars, instanceVars, countVars, callVars
<1> DEFINE same == /\ UNCHANGED <<request_queue, lb_request>>
                   /\ \A c \in Calls : call'[c] = "waiting" <=> call[c] = "waiting"
<1>0. /\ request_queue \in Seq(Calls)
      /\ ToSet(request_queue) \subseteq Calls
      /\ IsInjective(request_queue)
      /\ DOMAIN call = Calls
  BY ToSetMember DEF TypeOK, QueueIsWaiting
<1>1. CASE ShutdownRaises
  <2> DEFINE h == Head(request_queue)
  <2>1. /\ request_queue # <<>>
        /\ request_queue' = Tail(request_queue)
        /\ lb_request' = lb_request
        /\ call' = [call EXCEPT ![h] = "lost"]
    BY <1>1 DEF ShutdownRaises
  <2>2. /\ IsInjective(Tail(request_queue))
        /\ h \in ToSet(request_queue)
        /\ ToSet(Tail(request_queue)) = ToSet(request_queue) \ {h}
    BY <1>0, <2>1, TailElements
  <2> HIDE DEF h
  <2>3. \A c \in Calls : call'[c] = IF c = h THEN "lost" ELSE call[c]
    BY <1>0, <2>1
  <2>. QED
    BY <1>0, <2>1, <2>2, <2>3 DEF QueueIsWaiting
<1>2. ASSUME NEW c \in Calls, Enqueue(c), UNCHANGED lb_request
      PROVE  QueueIsWaiting'
  <2>1. /\ request_queue' = Append(request_queue, c)
        /\ call[c] = "new"
        /\ \A d \in Calls : call'[d] = IF d = c THEN "waiting" ELSE call[d]
    BY <1>0, <1>2 DEF Enqueue
  <2>2. c \notin ToSet(request_queue) /\ c # lb_request
    BY <2>1 DEF QueueIsWaiting
  <2>3. /\ IsInjective(Append(request_queue, c))
        /\ ToSet(Append(request_queue, c)) = ToSet(request_queue) \cup {c}
    BY <1>0, <2>2, AppendElements
  <2>. QED
    BY <1>2, <2>1, <2>2, <2>3 DEF QueueIsWaiting
<1>3. CASE LbTake
  <2> DEFINE h == Head(request_queue)
  <2>1. /\ request_queue # <<>>
        /\ request_queue' = Tail(request_queue)
        /\ lb_request = NoCall
        /\ lb_request' = h
        /\ call' = call
    BY <1>3 DEF LbTake
  <2>2. /\ IsInjective(Tail(request_queue))
        /\ h \in ToSet(request_queue)
        /\ ToSet(Tail(request_queue)) = ToSet(request_queue) \ {h}
    BY <1>0, <2>1, TailElements
  <2> HIDE DEF h
  <2>. QED
    BY <1>0, <2>1, <2>2 DEF QueueIsWaiting
<1>4. CASE LbAssign
  <2>1. /\ lb_request \in Calls
        /\ call' = [call EXCEPT ![lb_request] = "assigned"]
    BY <1>4 DEF LbAssign, TypeOK
  <2>2. \A c \in Calls : call'[c] = IF c = lb_request THEN "assigned" ELSE call[c]
    BY <1>0, <2>1
  <2>3. CASE request_queue = <<>>
    <3>1. lb_request' = NoCall /\ request_queue' = request_queue
      BY <1>4, <2>3 DEF LbAssign
    <3>2. ToSet(request_queue) = {}
      BY <2>3, EmptyElements
    <3>. QED
      BY <1>0, <2>2, <3>1, <3>2 DEF QueueIsWaiting
  <2>4. CASE request_queue # <<>>
    <3> DEFINE h == Head(request_queue)
    <3>1. lb_request' = h /\ request_queue' = Tail(request_queue)
      BY <1>4, <2>4 DEF LbAssign
    <3>2. /\ IsInjective(Tail(request_queue))
          /\ h \in ToSet(request_queue)
          /\ ToSet(Tail(request_queue)) = ToSet(request_queue) \ {h}
      BY <1>0, <2>4, TailElements
    <3> HIDE DEF h
    <3>. QED
      BY <1>0, <2>1, <2>2, <3>1, <3>2 DEF QueueIsWaiting
  <2>. QED
    BY <2>3, <2>4
<1>5. ASSUME NEW c \in Calls,
             Resume(c) \/ ResumeNotFound(c) \/ Finish(c) \/ Fail(c)
      PROVE  same
  <2>1. /\ call[c] \in {"assigned", "executing"}
        /\ \E v \in {"executing", "done", "lost"} :
              call' = [call EXCEPT ![c] = v]
        /\ UNCHANGED <<request_queue, lb_request>>
    BY <1>5 DEF Resume, ResumeNotFound, Finish, Fail
  <2>. QED
    BY <1>0, <2>1
<1>6. ASSUME Start \/ Shutdown \/ LbFull \/ IdleTick \/ AwaitReady \/ StopInstance
      PROVE  same
  BY <1>6 DEF Start, Shutdown, LbFull, IdleTick, AwaitReady, StopInstance
<1>7. ASSUME \/ \E cfg \in Configs : UpdateConfig(cfg)
             \/ \E adapters \in SUBSET Adapters : UpdateAdapters(adapters)
      PROVE  same
  BY <1>7 DEF UpdateConfig, UpdateAdapters
<1>8. ASSUME NEW i \in Instances,
             \/ ScaleUp(i) \/ Allocated(i) \/ Loaded(i) \/ LoadFails(i)
             \/ FinishInstance(i) \/ ShutdownInstance(i) \/ Kill(i)
             \/ Deallocated(i)
      PROVE  same
  BY <1>8 DEF ScaleUp, Allocated, Loaded, LoadFails, FinishInstance,
              ShutdownInstance, Kill, Deallocated
<1>9. ASSUME UNCHANGED vars
      PROVE  same
  BY <1>9 DEF vars
<1>10. ASSUME NEW c \in Inferences, Inference(c)
       PROVE  QueueIsWaiting'
  BY <1>2, <1>10 DEF Inference, Calls
<1>11. ASSUME NEW c \in FineTunings, FineTuning(c)
       PROVE  QueueIsWaiting'
  BY <1>2, <1>11 DEF FineTuning, Calls
<1>12. same => QueueIsWaiting'
  BY QueueUntouched
<1> HIDE DEF same
<1>. QED
  BY <1>1, <1>3, <1>4, <1>5, <1>6, <1>7, <1>8, <1>9, <1>10, <1>11, <1>12
     DEF Next

(***************************************************************************)
(* The kinds of calls and their counts                                     *)
(***************************************************************************)

\* How a step changes the calls that are in flight, and the counts with them.
FlightStays ==
    /\ \A c \in Calls : InFlight(c)' <=> InFlight(c)
    /\ UNCHANGED countVars

FlightGains(c) ==
    /\ ~InFlight(c)
    /\ \A d \in Calls : InFlight(d)' <=> InFlight(d) \/ d = c
    /\ \/ /\ c \in Inferences
          /\ fine_tuning_count = 0
          /\ request_count' = request_count + 1
          /\ UNCHANGED fine_tuning_count
       \/ /\ c \in FineTunings
          /\ request_count = 0
          /\ fine_tuning_count' = fine_tuning_count + 1
          /\ UNCHANGED request_count

FlightLoses(c) ==
    /\ InFlight(c)
    /\ \A d \in Calls : InFlight(d)' <=> InFlight(d) /\ d # c
    /\ \/ UNCHANGED countVars
       \/ /\ c \in Inferences
          /\ request_count' = request_count - 1
          /\ UNCHANGED fine_tuning_count
       \/ /\ c \in FineTunings
          /\ fine_tuning_count' = fine_tuning_count - 1
          /\ UNCHANGED request_count

\* A step begins one call, ends one call, or leaves those in flight as they are.
LEMMA FlightStep ==
    ASSUME TypeOK, QueueIsWaiting, [Next]_vars
    PROVE  \/ FlightStays
           \/ \E c \in Calls : FlightGains(c) \/ FlightLoses(c)
<1> USE CallsAssumption
<1> USE DEF configVars, balancerVars, instanceVars, countVars, callVars
<1>0. DOMAIN call = Calls
  BY DEF TypeOK
<1>1. CASE ShutdownRaises
  <2> DEFINE h == Head(request_queue)
  <2>1. /\ request_queue \in Seq(Calls)
        /\ IsInjective(request_queue)
        /\ request_queue # <<>>
        /\ UNCHANGED countVars
        /\ call' = [call EXCEPT ![h] = "lost"]
    BY <1>1 DEF ShutdownRaises, TypeOK, QueueIsWaiting
  <2>2. h \in ToSet(request_queue)
    BY <2>1, TailElements
  <2>3. h \in Calls
    BY <2>1, <2>2, ToSetMember
  <2> HIDE DEF h
  <2>4. call[h] = "waiting"
    BY <2>2, <2>3 DEF QueueIsWaiting
  <2>5. FlightLoses(h)
    BY <1>0, <2>1, <2>3, <2>4 DEF FlightLoses, InFlight
  <2>. QED
    BY <2>3, <2>5
<1>2. ASSUME NEW c \in Inferences, Inference(c)
      PROVE  FlightGains(c) /\ c \in Calls
  BY <1>0, <1>2 DEF Inference, Enqueue, FlightGains, InFlight, Calls
<1>3. ASSUME NEW c \in FineTunings, FineTuning(c)
      PROVE  FlightGains(c) /\ c \in Calls
  BY <1>0, <1>3 DEF FineTuning, Enqueue, FlightGains, InFlight, Calls
<1>4. ASSUME NEW c \in Calls, Resume(c)
      PROVE  FlightStays
  BY <1>0, <1>4 DEF Resume, FlightStays, InFlight
<1>5. ASSUME NEW c \in Calls, ResumeNotFound(c) \/ Fail(c)
      PROVE  FlightLoses(c)
  BY <1>0, <1>5 DEF ResumeNotFound, Fail, FlightLoses, InFlight
<1>6. ASSUME NEW c \in Calls, Finish(c)
      PROVE  FlightLoses(c)
  <2>1. call[c] = "executing" /\ call' = [call EXCEPT ![c] = "done"]
    BY <1>6 DEF Finish
  <2>2. /\ InFlight(c)
        /\ \A d \in Calls : InFlight(d)' <=> InFlight(d) /\ d # c
    BY <1>0, <2>1 DEF InFlight
  <2>. QED
    BY <1>6, <2>2 DEF Finish, FlightLoses, Calls
<1>7. CASE LbAssign
  <2>1. /\ lb_request \in Calls
        /\ call' = [call EXCEPT ![lb_request] = "assigned"]
        /\ UNCHANGED countVars
    BY <1>7 DEF LbAssign, TypeOK
  <2>2. call[lb_request] = "waiting"
    BY <2>1 DEF QueueIsWaiting
  <2>. QED
    BY <1>0, <2>1, <2>2 DEF FlightStays, InFlight
<1>8. ASSUME UNCHANGED <<call, countVars>>
      PROVE  FlightStays
  BY <1>8 DEF FlightStays, InFlight
<1>9. CASE \/ Start \/ Shutdown \/ LbTake \/ LbFull \/ IdleTick \/ AwaitReady
           \/ StopInstance
  BY <1>8, <1>9 DEF Start, Shutdown, LbTake, LbFull, IdleTick, AwaitReady,
                    StopInstance
<1>10. CASE \/ \E cfg \in Configs : UpdateConfig(cfg)
            \/ \E adapters \in SUBSET Adapters : UpdateAdapters(adapters)
  BY <1>8, <1>10 DEF UpdateConfig, UpdateAdapters
<1>11. ASSUME NEW i \in Instances,
              \/ ScaleUp(i) \/ Allocated(i) \/ Loaded(i) \/ LoadFails(i)
              \/ FinishInstance(i) \/ ShutdownInstance(i) \/ Kill(i)
              \/ Deallocated(i)
       PROVE  FlightStays
  BY <1>8, <1>11 DEF ScaleUp, Allocated, Loaded, LoadFails, FinishInstance,
                     ShutdownInstance, Kill, Deallocated
<1>12. CASE UNCHANGED vars
  BY <1>8, <1>12 DEF vars
<1>. QED
  BY <1>1, <1>2, <1>3, <1>4, <1>5, <1>6, <1>7, <1>9, <1>10, <1>11, <1>12
     DEF Next

\* A count that is 0 means that no call of its kind is in flight.
LEMMA NoneInFlight ==
    ASSUME TypeOK, DemandCovered
    PROVE  /\ request_count = 0 => \A c \in Inferences : ~InFlight(c)
           /\ fine_tuning_count = 0 => \A c \in FineTunings : ~InFlight(c)
<1>1. ASSUME NEW c \in Calls, InFlight(c)
      PROVE  /\ c \in Inferences => request_count - 1 \in Nat
             /\ c \in FineTunings => fine_tuning_count - 1 \in Nat
  BY <1>1, CountPositive
<1>. QED
  BY <1>1 DEF Calls

\* Inference and fine-tuning exclude each other after every step.
LEMMA ExclusiveStep ==
    ASSUME TypeOK, QueueIsWaiting, DemandCovered, Exclusive, [Next]_vars
    PROVE  Exclusive'
<1>1. \A c \in Inferences, d \in FineTunings : c # d /\ c \in Calls /\ d \in Calls
  BY CallsAssumption DEF Calls
<1>2. CASE FlightStays
  BY <1>1, <1>2 DEF FlightStays, Exclusive
<1>3. ASSUME NEW c \in Calls, FlightGains(c)
      PROVE  Exclusive'
  BY <1>1, <1>3, NoneInFlight, CallsAssumption DEF FlightGains, Exclusive
<1>4. ASSUME NEW c \in Calls, FlightLoses(c)
      PROVE  Exclusive'
  BY <1>1, <1>4 DEF FlightLoses, Exclusive
<1>. QED
  BY <1>2, <1>3, <1>4, FlightStep

\* Counting the calls of a kind K that are in flight before and after a step.
LEMMA FlightCount ==
    ASSUME NEW K \in SUBSET Calls, NEW S \in SUBSET K, NEW T \in SUBSET K,
           NEW c \in Calls
    PROVE  /\ T = S \cup {c} /\ c \notin S =>
                  Cardinality(T) = Cardinality(S) + 1
           /\ T = S \ {c} /\ c \in S =>
                  Cardinality(T) = Cardinality(S) - 1
           /\ T \subseteq S => Cardinality(T) <= Cardinality(S)
<1>1. IsFiniteSet(S) /\ S \in SUBSET Calls
  BY FiniteCalls
<1>. QED
  BY <1>1, FS_AddElement, FS_RemoveElement, FS_Subset

\* The counts cover the demand after every step.
LEMMA DemandStep ==
    ASSUME TypeOK, QueueIsWaiting, DemandCovered, [Next]_vars
    PROVE  DemandCovered'
<1> DEFINE I == InflightInferences
           F == InflightFineTunings
           I1 == {c \in Inferences : InFlight(c)'}
           F1 == {c \in FineTunings : InFlight(c)'}
<1>0. /\ Inferences \in SUBSET Calls
      /\ FineTunings \in SUBSET Calls
      /\ I \in SUBSET Inferences /\ I1 \in SUBSET Inferences
      /\ F \in SUBSET FineTunings /\ F1 \in SUBSET FineTunings
      /\ Inferences \cap FineTunings = {}
  BY CallsAssumption DEF Calls, InflightInferences, InflightFineTunings
<1>1. /\ Cardinality(I) <= request_count
      /\ Cardinality(F) <= fine_tuning_count
  BY DEF DemandCovered, InflightInferences, InflightFineTunings
<1>2. /\ Cardinality(I) \in Nat /\ Cardinality(I1) \in Nat
      /\ Cardinality(F) \in Nat /\ Cardinality(F1) \in Nat
  <2>1. /\ I \in SUBSET Calls /\ I1 \in SUBSET Calls
        /\ F \in SUBSET Calls /\ F1 \in SUBSET Calls
    BY <1>0
  <2>. QED
    BY <2>1, FiniteCalls
<1>3. request_count \in Nat /\ fine_tuning_count \in Nat
  BY DEF TypeOK
<1>4. SUFFICES /\ Cardinality(I1) <= request_count'
               /\ Cardinality(F1) <= fine_tuning_count'
  BY DEF DemandCovered
<1>5. CASE FlightStays
  <2>1. I1 = I /\ F1 = F
    BY <1>0, <1>5 DEF FlightStays, InflightInferences, InflightFineTunings
  <2>2. request_count' = request_count /\ fine_tuning_count' = fine_tuning_count
    BY <1>5 DEF FlightStays, countVars
  <2>. QED
    BY <1>1, <2>1, <2>2
<1>6. ASSUME NEW c \in Calls, FlightGains(c)
      PROVE  /\ Cardinality(I1) <= request_count'
             /\ Cardinality(F1) <= fine_tuning_count'
  <2>1. CASE c \in Inferences
    <3>1. I1 = I \cup {c} /\ c \notin I /\ F1 = F
      BY <1>0, <1>6, <2>1
         DEF FlightGains, InflightInferences, InflightFineTunings
    <3>2. request_count' = request_count + 1 /\ fine_tuning_count' = fine_tuning_count
      BY <1>0, <1>6, <2>1 DEF FlightGains
    <3>3. Cardinality(I1) = Cardinality(I) + 1
      BY <1>0, <3>1, FlightCount
    <3> HIDE DEF I, F, I1, F1
    <3>. QED
      BY <1>1, <1>2, <1>3, <3>1, <3>2, <3>3
  <2>2. CASE c \in FineTunings
    <3>1. F1 = F \cup {c} /\ c \notin F /\ I1 = I
      BY <1>0, <1>6, <2>2
         DEF FlightGains, InflightInferences, InflightFineTunings
    <3>2. fine_tuning_count' = fine_tuning_count + 1 /\ request_count' = request_count
      BY <1>0, <1>6, <2>2 DEF FlightGains
    <3>3. Cardinality(F1) = Cardinality(F) + 1
      BY <1>0, <3>1, FlightCount
    <3> HIDE DEF I, F, I1, F1
    <3>. QED
      BY <1>1, <1>2, <1>3, <3>1, <3>2, <3>3
  <2>. QED
    BY <2>1, <2>2 DEF Calls
<1>7. ASSUME NEW c \in Calls, FlightLoses(c)
      PROVE  /\ Cardinality(I1) <= request_count'
             /\ Cardinality(F1) <= fine_tuning_count'
  <2>1. I1 = I \ {c} /\ F1 = F \ {c}
    BY <1>0, <1>7 DEF FlightLoses, InflightInferences, InflightFineTunings
  <2>2. InFlight(c)
    BY <1>7 DEF FlightLoses
  <2>3. /\ c \in I => Cardinality(I1) = Cardinality(I) - 1
        /\ c \in F => Cardinality(F1) = Cardinality(F) - 1
        /\ Cardinality(I1) <= Cardinality(I)
        /\ Cardinality(F1) <= Cardinality(F)
    BY <1>0, <2>1, FlightCount
  <2>4. /\ c \in Inferences => c \in I
        /\ c \in FineTunings => c \in F
    BY <2>2 DEF InflightInferences, InflightFineTunings
  <2> HIDE DEF I, F, I1, F1
  <2>5. CASE UNCHANGED countVars
    <3>1. request_count' = request_count /\ fine_tuning_count' = fine_tuning_count
      BY <2>5 DEF countVars
    <3>. QED
      BY <1>1, <1>2, <1>3, <2>3, <3>1
  <2>6. CASE c \in Inferences /\ request_count' = request_count - 1
                 /\ UNCHANGED fine_tuning_count
    BY <1>1, <1>2, <1>3, <2>3, <2>4, <2>6
  <2>7. CASE c \in FineTunings /\ fine_tuning_count' = fine_tuning_count - 1
                 /\ UNCHANGED request_count
    BY <1>1, <1>2, <1>3, <2>3, <2>4, <2>7
  <2>. QED
    BY <1>7, <2>5, <2>6, <2>7 DEF FlightLoses
<1>. QED
  BY <1>5, <1>6, <1>7, FlightStep

(***************************************************************************)
(* The calls on an instance                                                *)
(***************************************************************************)

\* How a step changes the calls that are on an instance, its concurrency and
\* its max_queue_length.
LoadStays ==
    /\ \A c \in Calls, i \in Instances : On(c, i)' <=> On(c, i)
    /\ UNCHANGED <<concurrency, max_queue_length>>

LoadAssigned(c, i) ==
    /\ call[c] = "waiting"
    /\ i \in Ready
    /\ concurrency[i] + 1 <= max_queue_length[i]
    /\ \A d \in Calls, j \in Instances :
          On(d, j)' <=> On(d, j) \/ (d = c /\ j = i)
    /\ concurrency' = [concurrency EXCEPT ![i] = @ + 1]
    /\ UNCHANGED max_queue_length

LoadOverwritten(c) ==
    /\ c \in FineTunings /\ InFlight(c)
    /\ \A d \in Calls, i \in Instances : On(d, i)' <=> On(d, i)
    /\ concurrency' \in [Instances -> Nat]
    /\ UNCHANGED max_queue_length

LoadEnds(c) ==
    /\ InFlight(c)
    /\ \A d \in Calls, i \in Instances : On(d, i)' <=> On(d, i) /\ d # c
    /\ \/ UNCHANGED concurrency
       \/ On(c, allocation[c]) /\ concurrency' = AddRequests(allocation[c], -1)
    /\ UNCHANGED max_queue_length

LoadSized(i) ==
    /\ task[i] = "none" /\ task'[i] = "allocating"
    /\ \A c \in Calls : ~On(c, i)
    /\ \A c \in Calls, j \in Instances : On(c, j)' <=> On(c, j)
    /\ \A j \in Instances :
          j # i => /\ concurrency'[j] = concurrency[j]
                   /\ max_queue_length'[j] = max_queue_length[j]

\* A step changes the load of one instance, in one of these ways, or of none.
LEMMA LoadStep ==
    ASSUME TypeOK, QueueIsWaiting, [Next]_vars
    PROVE  \/ LoadStays
           \/ \E c \in Calls, i \in Instances : LoadAssigned(c, i)
           \/ \E c \in Calls : LoadOverwritten(c) \/ LoadEnds(c)
           \/ \E i \in Instances : LoadSized(i)
<1> USE CallsAssumption
<1> USE DEF configVars, balancerVars, instanceVars, countVars, callVars
<1>0. DOMAIN call = Calls /\ DOMAIN allocation = Calls
  BY DEF TypeOK
<1>1. CASE ShutdownRaises
  <2> DEFINE h == Head(request_queue)
  <2>1. /\ request_queue \in Seq(Calls)
        /\ IsInjective(request_queue)
        /\ request_queue # <<>>
        /\ UNCHANGED <<allocation, concurrency, max_queue_length>>
        /\ call' = [call EXCEPT ![h] = "lost"]
    BY <1>1 DEF ShutdownRaises, TypeOK, QueueIsWaiting
  <2>2. h \in ToSet(request_queue)
    BY <2>1, TailElements
  <2>3. h \in Calls
    BY <2>1, <2>2, ToSetMember
  <2> HIDE DEF h
  <2>4. call[h] = "waiting"
    BY <2>2, <2>3 DEF QueueIsWaiting
  <2>5. LoadStays
    BY <1>0, <2>1, <2>3, <2>4 DEF LoadStays, On
  <2>. QED
    BY <2>5
<1>2. ASSUME NEW c \in Calls, Enqueue(c),
             UNCHANGED <<allocation, concurrency, max_queue_length>>
      PROVE  LoadStays
  BY <1>0, <1>2 DEF Enqueue, LoadStays, On
<1>3. ASSUME NEW c \in Inferences, Inference(c)
      PROVE  LoadStays
  BY <1>2, <1>3 DEF Inference, Calls
<1>4. ASSUME NEW c \in FineTunings, FineTuning(c)
      PROVE  LoadStays
  BY <1>2, <1>4 DEF FineTuning, Calls
<1>5. ASSUME NEW c \in Calls, Resume(c)
      PROVE  LoadStays \/ LoadOverwritten(c)
  <2>1. /\ \A d \in Calls, i \in Instances : On(d, i)' <=> On(d, i)
        /\ InFlight(c)
        /\ UNCHANGED max_queue_length
    BY <1>0, <1>5 DEF Resume, On, InFlight
  <2>2. concurrency' \in [Instances -> Nat]
    BY <1>5 DEF Resume, TypeOK
  <2>3. c \notin FineTunings => UNCHANGED concurrency
    BY <1>5 DEF Resume
  <2>. QED
    BY <2>1, <2>2, <2>3 DEF LoadStays, LoadOverwritten
<1>6. ASSUME NEW c \in Calls, ResumeNotFound(c) \/ Fail(c)
      PROVE  LoadEnds(c)
  BY <1>0, <1>6 DEF ResumeNotFound, Fail, LoadEnds, On, InFlight
<1>7. ASSUME NEW c \in Calls, Finish(c)
      PROVE  LoadEnds(c)
  <2>1. /\ call[c] = "executing"
        /\ call' = [call EXCEPT ![c] = "done"]
        /\ concurrency' = AddRequests(allocation[c], -1)
        /\ UNCHANGED <<allocation, max_queue_length>>
    BY <1>7 DEF Finish
  <2>. QED
    BY <1>0, <2>1 DEF LoadEnds, On, InFlight
<1>8. CASE LbAssign
  <2>1. /\ lb_request \in Calls
        /\ Choice \in Ready /\ Choice \in Instances
        /\ call' = [call EXCEPT ![lb_request] = "assigned"]
        /\ allocation' = [allocation EXCEPT ![lb_request] = Choice]
        /\ concurrency' = [concurrency EXCEPT ![Choice] = @ + 1]
        /\ concurrency[Choice] + 1 <= max_queue_length[Choice]
        /\ UNCHANGED max_queue_length
    BY <1>8, ChoiceIsReady DEF LbAssign, HasRoom, TypeOK
  <2>2. call[lb_request] = "waiting"
    BY <2>1 DEF QueueIsWaiting
  <2>3. \A d \in Calls, j \in Instances :
            On(d, j)' <=> On(d, j) \/ (d = lb_request /\ j = Choice)
    BY <1>0, <2>1, <2>2 DEF On
  <2>4. LoadAssigned(lb_request, Choice)
    BY <2>1, <2>2, <2>3 DEF LoadAssigned
  <2>. QED
    BY <2>1, <2>4
<1>9. ASSUME NEW i \in Instances, ScaleUp(i)
      PROVE  LoadSized(i)
  <2>1. /\ task[i] = "none"
        /\ \A c \in Calls : ~On(c, i)
        /\ UNCHANGED <<call, allocation>>
    BY <1>9 DEF ScaleUp, Fresh
  <2>2. task'[i] = "allocating"
    BY <1>9 DEF ScaleUp, TypeOK
  <2>3. \A j \in Instances :
            j # i => /\ concurrency'[j] = concurrency[j]
                     /\ max_queue_length'[j] = max_queue_length[j]
    BY <1>9 DEF ScaleUp, TypeOK
  <2>. QED
    BY <2>1, <2>2, <2>3 DEF LoadSized, On
<1>10. ASSUME UNCHANGED <<call, allocation, concurrency, max_queue_length>>
       PROVE  LoadStays
  BY <1>10 DEF LoadStays, On
<1>11. CASE \/ Start \/ Shutdown \/ LbTake \/ LbFull \/ IdleTick \/ AwaitReady
            \/ StopInstance
  BY <1>10, <1>11 DEF Start, Shutdown, LbTake, LbFull, IdleTick, AwaitReady,
                      StopInstance
<1>12. CASE \/ \E cfg \in Configs : UpdateConfig(cfg)
            \/ \E adapters \in SUBSET Adapters : UpdateAdapters(adapters)
  BY <1>10, <1>12 DEF UpdateConfig, UpdateAdapters
<1>13. ASSUME NEW i \in Instances,
              \/ Allocated(i) \/ Loaded(i) \/ LoadFails(i) \/ FinishInstance(i)
              \/ ShutdownInstance(i) \/ Kill(i) \/ Deallocated(i)
       PROVE  LoadStays
  BY <1>10, <1>13 DEF Allocated, Loaded, LoadFails, FinishInstance,
                      ShutdownInstance, Kill, Deallocated
<1>14. CASE UNCHANGED vars
  BY <1>10, <1>14 DEF vars
<1>. QED
  BY <1>1, <1>3, <1>4, <1>5, <1>6, <1>7, <1>8, <1>9, <1>11, <1>12, <1>13,
     <1>14 DEF Next

\* No instance is overloaded after a step, and its concurrency still covers
\* the inference calls on it.
LEMMA OverloadStep ==
    ASSUME TypeOK, TypeOK', QueueIsWaiting, Exclusive, NoOverload,
           ConcurrencyCovers, [Next]_vars
    PROVE  NoOverload' /\ ConcurrencyCovers'
<1>1. SUFFICES ASSUME NEW i \in Instances
               PROVE  /\ Cardinality(OnInstance(i)') <= max_queue_length'[i]
                      /\ Cardinality(OnInstance(i)') <= concurrency'[i]
  BY DEF NoOverload, ConcurrencyCovers, OnInstance
<1> DEFINE S == OnInstance(i)
           T == OnInstance(i)'
<1>2. /\ Inferences \in SUBSET Calls
      /\ S \in SUBSET Inferences
      /\ T \in SUBSET Inferences
      /\ Inferences \cap FineTunings = {}
  BY CallsAssumption DEF Calls, OnInstance
<1>3. Cardinality(S) \in Nat /\ Cardinality(T) \in Nat
  BY <1>2, FiniteCalls
<1>4. /\ Cardinality(S) <= max_queue_length[i]
      /\ Cardinality(S) <= concurrency[i]
  BY DEF NoOverload, ConcurrencyCovers, OnInstance
<1>5. /\ max_queue_length[i] \in Nat /\ concurrency[i] \in Nat
      /\ max_queue_length'[i] \in Nat /\ concurrency'[i] \in Nat
  BY DEF TypeOK
<1>6. /\ S = {c \in Inferences : On(c, i)}
      /\ T = {c \in Inferences : On(c, i)'}
  BY DEF OnInstance
<1>7. T = {} => Cardinality(T) = 0
  BY FS_EmptySet
<1> HIDE DEF S, T
<1>8. ASSUME LoadStays
      PROVE  /\ Cardinality(T) <= max_queue_length'[i]
             /\ Cardinality(T) <= concurrency'[i]
  <2>1. T = S
    BY <1>2, <1>6, <1>8 DEF LoadStays
  <2>2. concurrency'[i] = concurrency[i] /\ max_queue_length'[i] = max_queue_length[i]
    BY <1>8 DEF LoadStays
  <2>. QED
    BY <1>4, <2>1, <2>2
<1>9. ASSUME NEW c \in Calls, NEW j \in Instances, LoadAssigned(c, j)
      PROVE  /\ Cardinality(T) <= max_queue_length'[i]
             /\ Cardinality(T) <= concurrency'[i]
  <2>1. /\ max_queue_length'[i] = max_queue_length[i]
        /\ concurrency'[i] = IF i = j THEN concurrency[i] + 1 ELSE concurrency[i]
    BY <1>9 DEF LoadAssigned, TypeOK
  <2>2. CASE c \in Inferences /\ i = j
    <3>1. T = S \cup {c} /\ c \notin S
      BY <1>2, <1>6, <1>9, <2>2 DEF LoadAssigned, On
    <3>2. Cardinality(T) = Cardinality(S) + 1
      BY <1>2, <3>1, FlightCount
    <3>3. concurrency[i] + 1 <= max_queue_length[i]
      BY <1>9, <2>2 DEF LoadAssigned
    <3>. QED
      BY <1>3, <1>4, <1>5, <2>1, <2>2, <3>2, <3>3
  <2>3. CASE ~ (c \in Inferences /\ i = j)
    <3>1. T = S
      BY <1>2, <1>6, <1>9, <2>3 DEF LoadAssigned
    <3>. QED
      BY <1>3, <1>4, <1>5, <2>1, <3>1
  <2>. QED
    BY <2>2, <2>3
<1>10. ASSUME NEW c \in FineTunings, InFlight(c)
       PROVE  S = {}
  BY <1>6, <1>10 DEF Exclusive, InFlight, On
<1>11. ASSUME NEW c \in Calls, LoadOverwritten(c)
       PROVE  /\ Cardinality(T) <= max_queue_length'[i]
              /\ Cardinality(T) <= concurrency'[i]
  <2>1. S = {}
    BY <1>10, <1>11 DEF LoadOverwritten
  <2>2. T = S
    BY <1>2, <1>6, <1>11 DEF LoadOverwritten
  <2>. QED
    BY <1>5, <1>7, <2>1, <2>2
<1>12. ASSUME NEW c \in Calls, LoadEnds(c)
       PROVE  /\ Cardinality(T) <= max_queue_length'[i]
              /\ Cardinality(T) <= concurrency'[i]
  <2>1. T = S \ {c}
    BY <1>2, <1>6, <1>12 DEF LoadEnds
  <2>2. /\ Cardinality(T) <= Cardinality(S)
        /\ c \in S => Cardinality(T) = Cardinality(S) - 1
    BY <1>2, <2>1, FlightCount
  <2>3. max_queue_length'[i] = max_queue_length[i]
    BY <1>12 DEF LoadEnds
  <2>4. CASE c \in FineTunings
    <3>1. S = {}
      BY <1>10, <1>12, <2>4 DEF LoadEnds
    <3>. QED
      BY <1>5, <1>7, <2>1, <3>1
  <2>5. CASE c \in Inferences /\ On(c, i)
    <3>1. concurrency'[i] \in {concurrency[i], concurrency[i] - 1}
      BY <1>12, AddRequestsType DEF LoadEnds
    <3>2. c \in S
      BY <1>6, <2>5
    <3>. QED
      BY <1>3, <1>4, <1>5, <2>2, <2>3, <3>1, <3>2
  <2>6. CASE c \in Inferences /\ ~On(c, i)
    <3>1. concurrency'[i] = concurrency[i]
      <4>1. CASE UNCHANGED concurrency
        BY <4>1
      <4>2. CASE On(c, allocation[c]) /\ concurrency' = AddRequests(allocation[c], -1)
        <5>1. i # allocation[c]
          BY <2>6, <4>2
        <5>. QED
          BY <4>2, <5>1, AddRequestsType
      <4>. QED
        BY <1>12, <4>1, <4>2 DEF LoadEnds
    <3>. QED
      BY <1>3, <1>4, <1>5, <2>2, <2>3, <3>1
  <2>. QED
    BY <2>4, <2>5, <2>6 DEF Calls
<1>13. ASSUME NEW j \in Instances, LoadSized(j)
       PROVE  /\ Cardinality(T) <= max_queue_length'[i]
              /\ Cardinality(T) <= concurrency'[i]
  <2>1. T = S
    BY <1>2, <1>6, <1>13 DEF LoadSized
  <2>2. CASE i = j
    <3>1. S = {}
      BY <1>2, <1>6, <1>13, <2>2 DEF LoadSized
    <3>. QED
      BY <1>5, <1>7, <2>1, <3>1
  <2>3. CASE i # j
    <3>1. /\ concurrency'[i] = concurrency[i]
          /\ max_queue_length'[i] = max_queue_length[i]
      BY <1>13, <2>3 DEF LoadSized
    <3>. QED
      BY <1>4, <2>1, <3>1
  <2>. QED
    BY <2>2, <2>3
<1>14. /\ Cardinality(T) <= max_queue_length'[i]
       /\ Cardinality(T) <= concurrency'[i]
  BY <1>8, <1>9, <1>11, <1>12, <1>13, LoadStep
<1>. QED
  BY <1>14 DEF T

(***************************************************************************)
(* The instances                                                           *)
(***************************************************************************)

\* An instance is in the dicts that go with where its task is.
InDicts(i, up, starting, deleting, at) ==
    /\ i \in up <=> at = "serving"
    /\ i \in starting <=> at \in {"allocating", "loading", "failed"}
    /\ i \in deleting <=> at = "deleting"

\* NoOrphan, instance by instance.
LEMMA OrphanForm ==
    /\ TypeOK => (NoOrphan <=>
          /\ IsInjective(ready_instances)
          /\ \A i \in Instances :
                InDicts(i, Ready, starting_instances, deleting_instances, task[i]))
    /\ TypeOK' => (NoOrphan' <=>
          /\ IsInjective(ready_instances')
          /\ \A i \in Instances :
                InDicts(i, Ready', starting_instances', deleting_instances',
                        task'[i]))
<1>1. TypeOK => ToSet(ready_instances) \subseteq Instances
  BY ToSetMember DEF TypeOK
<1>2. TypeOK' => ToSet(ready_instances') \subseteq Instances
  BY ToSetMember DEF TypeOK
<1>. QED
  BY <1>1, <1>2 DEF NoOrphan, InDicts, Ready, TypeOK

\* How a step changes the dicts: not at all, or for one instance i.
DictsStay ==
    UNCHANGED <<ready_instances, starting_instances, deleting_instances, task>>

OneMoves(i) ==
    /\ IsInjective(ready_instances')
    /\ InDicts(i, Ready', starting_instances', deleting_instances', task'[i])
    /\ \A j \in Instances \ {i} :
          /\ task'[j] = task[j]
          /\ j \in Ready' <=> j \in Ready
          /\ j \in starting_instances' <=> j \in starting_instances
          /\ j \in deleting_instances' <=> j \in deleting_instances

\* A step moves one instance between the dicts, or none.
LEMMA DictsStep ==
    ASSUME TypeOK, NoOrphan, [Next]_vars
    PROVE  DictsStay \/ \E i \in Instances : OneMoves(i)
<1> USE DEF configVars, balancerVars, instanceVars, countVars, callVars
<1>0. /\ ready_instances \in Seq(Instances)
      /\ IsInjective(ready_instances)
      /\ Ready \subseteq Instances
      /\ \A i \in Instances :
            InDicts(i, Ready, starting_instances, deleting_instances, task[i])
      /\ DOMAIN task = Instances
  BY OrphanForm, ToSetMember DEF TypeOK, Ready, NoOrphan
<1>1. CASE StopInstance
  <2> DEFINE l == Last(ready_instances)
  <2>1. /\ ready_instances # <<>>
        /\ ready_instances' = Front(ready_instances)
        /\ deleting_instances' = deleting_instances \cup {l}
        /\ task' = [task EXCEPT ![l] = "deleting"]
        /\ starting_instances' = starting_instances
    BY <1>1 DEF StopInstance
  <2>2. /\ IsInjective(Front(ready_instances))
        /\ l \in Ready
        /\ ToSet(Front(ready_instances)) = Ready \ {l}
    BY <1>0, <2>1, FrontElements DEF Ready
  <2> HIDE DEF l
  <2>3. Ready' = Ready \ {l}
    BY <2>1, <2>2 DEF Ready
  <2>4. l \in Instances /\ task[l] = "serving"
    BY <1>0, <2>2 DEF InDicts
  <2>5. OneMoves(l)
    BY <1>0, <2>1, <2>2, <2>3, <2>4 DEF OneMoves, InDicts
  <2>. QED
    BY <2>4, <2>5
<1>2. ASSUME NEW i \in Instances, ScaleUp(i)
      PROVE  OneMoves(i)
  BY <1>0, <1>2 DEF ScaleUp, Fresh, OneMoves, InDicts, Ready
<1>3. ASSUME NEW i \in Instances, Allocated(i) \/ LoadFails(i)
      PROVE  OneMoves(i)
  BY <1>0, <1>3 DEF Allocated, LoadFails, OneMoves, InDicts, Ready
<1>4. ASSUME NEW i \in Instances, Loaded(i)
      PROVE  OneMoves(i)
  <2>1. /\ task[i] = "loading"
        /\ task' = [task EXCEPT ![i] = "serving"]
        /\ ready_instances' = Append(ready_instances, i)
        /\ starting_instances' = starting_instances \ {i}
        /\ deleting_instances' = deleting_instances
    BY <1>4 DEF Loaded
  <2>2. i \notin Ready
    BY <1>0, <2>1 DEF InDicts
  <2>3. /\ IsInjective(ready_instances')
        /\ Ready' = Ready \cup {i}
    BY <1>0, <2>1, <2>2, AppendElements DEF Ready
  <2>. QED
    BY <1>0, <2>1, <2>3 DEF OneMoves, InDicts
<1>5. ASSUME NEW i \in Instances, FinishInstance(i)
      PROVE  OneMoves(i)
  BY <1>0, <1>5 DEF FinishInstance, OneMoves, InDicts, Ready
<1>6. ASSUME NEW i \in Instances, ShutdownInstance(i)
      PROVE  DictsStay \/ OneMoves(i)
  <2>1. CASE i \notin Ready
    <3>1. \A k \in DOMAIN ready_instances : ready_instances[k] # i
      BY <2>1 DEF Ready, ToSet
    <3>. QED
      BY <1>6, <3>1 DEF ShutdownInstance, DictsStay
  <2>2. CASE i \in Ready
    <3>1. PICK k \in DOMAIN ready_instances :
              /\ ready_instances[k] = i
              /\ ready_instances' = RemoveAt(ready_instances, k)
      BY <1>6, <2>2 DEF ShutdownInstance
    <3>2. /\ task' = [task EXCEPT ![i] = "stopping"]
          /\ UNCHANGED <<starting_instances, deleting_instances>>
      BY <1>6, <2>2 DEF ShutdownInstance
    <3>3. /\ IsInjective(ready_instances')
          /\ Ready' = Ready \ {i}
      BY <1>0, <3>1, RemoveAtElements DEF Ready
    <3>4. task[i] = "serving"
      BY <1>0, <2>2 DEF InDicts
    <3>. QED
      BY <1>0, <3>2, <3>3, <3>4 DEF OneMoves, InDicts
  <2>. QED
    BY <2>1, <2>2
<1>7. ASSUME NEW i \in Instances, Kill(i) \/ Deallocated(i)
      PROVE  OneMoves(i)
  BY <1>0, <1>7 DEF Kill, Deallocated, OneMoves, InDicts, Ready
<1>8. CASE \/ Start \/ ShutdownRaises \/ Shutdown \/ LbTake \/ LbAssign
           \/ LbFull \/ IdleTick \/ AwaitReady
  BY <1>8 DEF Start, ShutdownRaises, Shutdown, LbTake, LbAssign, LbFull,
              IdleTick, AwaitReady, DictsStay
<1>9. CASE \/ \E cfg \in Configs : UpdateConfig(cfg)
           \/ \E adapters \in SUBSET Adapters : UpdateAdapters(adapters)
  BY <1>9 DEF UpdateConfig, UpdateAdapters, DictsStay
<1>10. ASSUME NEW c, Inference(c) \/ FineTuning(c)
       PROVE  DictsStay
  BY <1>10 DEF Inference, FineTuning, DictsStay
<1>11. ASSUME NEW c, Resume(c) \/ ResumeNotFound(c) \/ Finish(c) \/ Fail(c)
       PROVE  DictsStay
  BY <1>11 DEF Resume, ResumeNotFound, Finish, Fail, DictsStay
<1>12. CASE UNCHANGED vars
  BY <1>12 DEF vars, DictsStay
<1>. QED
  BY <1>1, <1>2, <1>3, <1>4, <1>5, <1>6, <1>7, <1>8, <1>9, <1>10, <1>11,
     <1>12 DEF Next

\* No instance is orphaned by a step.
LEMMA OrphanStep ==
    ASSUME TypeOK, TypeOK', NoOrphan, [Next]_vars
    PROVE  NoOrphan'
<1>1. /\ IsInjective(ready_instances)
      /\ \A i \in Instances :
            InDicts(i, Ready, starting_instances, deleting_instances, task[i])
  BY OrphanForm
<1>2. CASE DictsStay
  BY <1>1, <1>2 DEF DictsStay, NoOrphan, Ready
<1>3. ASSUME NEW i \in Instances, OneMoves(i)
      PROVE  NoOrphan'
  BY <1>1, <1>3, OrphanForm DEF OneMoves, InDicts
<1>. QED
  BY <1>2, <1>3, DictsStep

\* An instance whose task starts it was being started before, or is created by
\* the step, when no call is on it.
LEMMA StartingStep ==
    ASSUME TypeOK, [Next]_vars, NEW i \in Instances,
           task'[i] \in {"allocating", "loading", "failed"}
    PROVE  \/ task[i] \in {"allocating", "loading", "failed"}
           \/ /\ \A c \in Calls : ~On(c, i)
              /\ UNCHANGED <<call, allocation>>
<1> USE DEF configVars, balancerVars, instanceVars, countVars, callVars
<1>0. DOMAIN task = Instances
  BY DEF TypeOK
<1>1. ASSUME NEW j \in Instances, ScaleUp(j)
      PROVE  \/ task'[i] = task[i]
             \/ /\ \A c \in Calls : ~On(c, i)
                /\ UNCHANGED <<call, allocation>>
  BY <1>0, <1>1 DEF ScaleUp, Fresh
<1>2. ASSUME NEW j \in Instances,
             \/ Allocated(j) \/ Loaded(j) \/ LoadFails(j) \/ FinishInstance(j)
             \/ ShutdownInstance(j) \/ Kill(j) \/ Deallocated(j)
      PROVE  \/ task'[i] = task[i]
             \/ task[i] \in {"allocating", "loading", "failed"}
  BY <1>0, <1>2 DEF Allocated, Loaded, LoadFails, FinishInstance,
                    ShutdownInstance, Kill, Deallocated
<1>3. CASE StopInstance
  <2>1. task' = [task EXCEPT ![Last(ready_instances)] = "deleting"]
    BY <1>3 DEF StopInstance
  <2>. QED
    BY <1>0, <2>1
<1>4. CASE \/ Start \/ ShutdownRaises \/ Shutdown \/ LbTake \/ LbAssign
           \/ LbFull \/ IdleTick \/ AwaitReady
  BY <1>4 DEF Start, ShutdownRaises, Shutdown, LbTake, LbAssign, LbFull,
              IdleTick, AwaitReady
<1>5. CASE \/ \E cfg \in Configs : UpdateConfig(cfg)
           \/ \E adapters \in SUBSET Adapters : UpdateAdapters(adapters)
  BY <1>5 DEF UpdateConfig, UpdateAdapters
<1>6. ASSUME NEW c, Inference(c) \/ FineTuning(c)
      PROVE  task' = task
  BY <1>6 DEF Inference, FineTuning
<1>7. ASSUME NEW c, Resume(c) \/ ResumeNotFound(c) \/ Finish(c) \/ Fail(c)
      PROVE  task' = task
  BY <1>7 DEF Resume, ResumeNotFound, Finish, Fail
<1>8. CASE UNCHANGED vars
  BY <1>8 DEF vars
<1>. QED
  BY <1>1, <1>2, <1>3, <1>4, <1>5, <1>6, <1>7, <1>8 DEF Next

\* No call gets on an instance before it is ready.
LEMMA StartingIdleStep ==
    ASSUME TypeOK, QueueIsWaiting, NoOrphan, StartingIsIdle, [Next]_vars
    PROVE  StartingIsIdle'
<1> SUFFICES ASSUME NEW i \in Instances,
                    task'[i] \in {"allocating", "loading", "failed"},
                    NEW c \in Calls
             PROVE  ~On(c, i)'
  BY DEF StartingIsIdle
<1>1. CASE UNCHANGED <<call, allocation>> /\ \A d \in Calls : ~On(d, i)
  BY <1>1 DEF On
<1>2. CASE task[i] \in {"allocating", "loading", "failed"}
  <2>1. ~On(c, i) /\ i \notin Ready
    BY <1>2 DEF StartingIsIdle, NoOrphan
  <2>2. CASE LoadStays
    BY <2>1, <2>2 DEF LoadStays
  <2>3. ASSUME NEW d \in Calls, NEW j \in Instances, LoadAssigned(d, j)
        PROVE  ~On(c, i)'
    BY <2>1, <2>3 DEF LoadAssigned
  <2>4. ASSUME NEW d \in Calls, LoadOverwritten(d) \/ LoadEnds(d)
        PROVE  ~On(c, i)'
    BY <2>1, <2>4 DEF LoadOverwritten, LoadEnds
  <2>5. ASSUME NEW j \in Instances, LoadSized(j)
        PROVE  ~On(c, i)'
    BY <2>1, <2>5 DEF LoadSized
  <2>. QED
    BY <2>2, <2>3, <2>4, <2>5, LoadStep
<1>. QED
  BY <1>1, <1>2, StartingStep

(***************************************************************************)
(* The number of instances                                                 *)
(***************************************************************************)

\* What the auto scaler wants never exceeds the limit of its config.
LEMMA DesiredIsLimited ==
    ASSUME TypeOK
    PROVE  Desired \in Int /\ Desired <= auto_scaling_config.max_instances
<1> DEFINE a == auto_scaling_config.max_instances
           b == auto_scaling_config.min_instances
           n == request_count + fine_tuning_count + auto_scaling_config.target - 1
           d == n \div auto_scaling_config.target
<1>1. /\ a \in Int /\ b \in Int
      /\ auto_scaling_config.target \in Nat \ {0}
      /\ request_count \in Nat /\ fine_tuning_count \in Nat
  BY ConfigsAssumption DEF TypeOK, Config
<1>2. n \in Int
  BY <1>1
<1>3. d \in Int
  BY <1>1, <1>2
<1>4. Desired = Min({a, Max({b, d})})
  BY DEF Desired
<1> HIDE DEF a, b, d, n
<1>5. Max({b, d}) \in Int
  <2>1. \E x \in {b, d} : \A y \in {b, d} : x >= y
    BY <1>1, <1>3
  <2>. QED
    BY <1>1, <1>3, <2>1 DEF Max
<1> DEFINE m == Max({b, d})
<1> HIDE DEF m
<1>6. \E x \in {a, m} : \A y \in {a, m} : x <= y
  BY <1>1, <1>5 DEF m
<1>7. Min({a, m}) \in {a, m} /\ \A y \in {a, m} : Min({a, m}) <= y
  BY <1>6 DEF Min
<1>8. Min({a, m}) \in Int /\ Min({a, m}) <= a
  BY <1>1, <1>5, <1>7 DEF m
<1>9. Desired = Min({a, m})
  BY <1>4 DEF m
<1>. QED
  BY <1>8, <1>9 DEF a

\* Every step keeps the number of instances within the limits.
LEMMA BudgetStep ==
    ASSUME TypeOK, NoOrphan, InstanceBudget, [Next]_vars
    PROVE  InstanceBudget'
<1> USE ConfigsAssumption
<1> USE DEF configVars, balancerVars, instanceVars, countVars, callVars
<1>0. /\ ready_instances \in Seq(Instances)
      /\ IsInjective(ready_instances)
      /\ Len(ready_instances) \in Nat
      /\ starting_instances \in SUBSET Instances
      /\ IsFiniteSet(starting_instances)
      /\ Cardinality(starting_instances) \in Nat
  BY FiniteCalls DEF TypeOK, NoOrphan
<1>1. PICK cfg \in Configs : NumRunning <= cfg.max_instances
  BY DEF InstanceBudget
<1>2. cfg.max_instances \in Nat
  BY DEF Config
<1>3. ASSUME NumRunning' \in Int, NumRunning' <= NumRunning
      PROVE  InstanceBudget'
  <2>1. NumRunning \in Int
    BY <1>0 DEF NumRunning
  <2>2. NumRunning' <= cfg.max_instances
    BY <1>1, <1>2, <1>3, <2>1
  <2>. QED
    BY <2>2 DEF InstanceBudget
<1>4. ASSUME UNCHANGED <<ready_instances, starting_instances>>
      PROVE  InstanceBudget'
  BY <1>1, <1>4 DEF InstanceBudget, NumRunning
<1>5. ASSUME NEW i \in Instances, ScaleUp(i)
      PROVE  InstanceBudget'
  <2>1. /\ Desired > NumRunning
        /\ starting_instances' = starting_instances \cup {i}
        /\ ready_instances' = ready_instances
        /\ auto_scaling_config \in Configs
    BY <1>5 DEF ScaleUp, TypeOK
  <2>2. /\ Cardinality(starting_instances') <= Cardinality(starting_instances) + 1
        /\ Cardinality(starting_instances') \in Nat
    <3>1. Cardinality(starting_instances \cup {i}) =
              IF i \in starting_instances THEN Cardinality(starting_instances)
              ELSE Cardinality(starting_instances) + 1
      BY <1>0, FS_AddElement
    <3>. QED
      BY <1>0, <2>1, <3>1
  <2>3. auto_scaling_config.max_instances \in Nat
    BY <2>1 DEF Config
  <2>4. NumRunning' <= auto_scaling_config.max_instances
    BY <1>0, <2>1, <2>2, <2>3, DesiredIsLimited DEF NumRunning
  <2>. QED
    BY <2>1, <2>4 DEF InstanceBudget
<1>6. ASSUME NEW i \in Instances, Loaded(i)
      PROVE  InstanceBudget'
  <2>1. /\ task[i] = "loading"
        /\ ready_instances' = Append(ready_instances, i)
        /\ starting_instances' = starting_instances \ {i}
    BY <1>6 DEF Loaded
  <2>2. i \in starting_instances
    BY <2>1 DEF NoOrphan
  <2>3. Cardinality(starting_instances') = Cardinality(starting_instances) - 1
    BY <1>0, <2>1, <2>2, FS_RemoveElement
  <2>4. Len(ready_instances') = Len(ready_instances) + 1
    BY <1>0, <2>1, AppendElements
  <2>. QED
    BY <1>0, <1>3, <2>3, <2>4 DEF NumRunning
<1>7. CASE StopInstance
  <2>1. /\ ready_instances # <<>>
        /\ ready_instances' = Front(ready_instances)
        /\ starting_instances' = starting_instances
    BY <1>7 DEF StopInstance
  <2>2. Len(ready_instances') = Len(ready_instances) - 1
    BY <1>0, <2>1, FrontElements
  <2>. QED
    BY <1>0, <1>3, <2>1, <2>2 DEF NumRunning
<1>8. ASSUME NEW i \in Instances, ShutdownInstance(i)
      PROVE  InstanceBudget'
  <2>1. starting_instances' = starting_instances
    BY <1>8 DEF ShutdownInstance
  <2>2. CASE ready_instances' = ready_instances
    BY <1>4, <2>1, <2>2
  <2>3. ASSUME NEW k \in DOMAIN ready_instances,
               ready_instances' = RemoveAt(ready_instances, k)
        PROVE  InstanceBudget'
    <3>1. Len(ready_instances') = Len(ready_instances) - 1
      BY <1>0, <2>3, RemoveAtElements
    <3>. QED
      BY <1>0, <1>3, <2>1, <3>1 DEF NumRunning
  <2>. QED
    BY <1>8, <2>2, <2>3 DEF ShutdownInstance
<1>9. ASSUME NEW i \in Instances,
             \/ Allocated(i) \/ LoadFails(i) \/ FinishInstance(i) \/ Kill(i)
             \/ Deallocated(i)
      PROVE  InstanceBudget'
  BY <1>4, <1>9 DEF Allocated, LoadFails, FinishInstance, Kill, Deallocated
<1>10. CASE \/ Start \/ ShutdownRaises \/ Shutdown \/ LbTake \/ LbAssign
            \/ LbFull \/ IdleTick \/ AwaitReady
  BY <1>4, <1>10 DEF Start, ShutdownRaises, Shutdown, LbTake, LbAssign, LbFull,
                     IdleTick, AwaitReady
<1>11. CASE \/ \E new \in Configs : UpdateConfig(new)
            \/ \E adapters \in SUBSET Adapters : UpdateAdapters(adapters)
  BY <1>4, <1>11 DEF UpdateConfig, UpdateAdapters
<1>12. ASSUME NEW c, Inference(c) \/ FineTuning(c)
       PROVE  InstanceBudget'
  BY <1>4, <1>12 DEF Inference, FineTuning
<1>13. ASSUME NEW c, Resume(c) \/ ResumeNotFound(c) \/ Finish(c) \/ Fail(c)
       PROVE  InstanceBudget'
  BY <1>4, <1>13 DEF Resume, ResumeNotFound, Finish, Fail
<1>14. CASE UNCHANGED vars
  BY <1>4, <1>14 DEF vars
<1>. QED
  BY <1>5, <1>6, <1>7, <1>8, <1>9, <1>10, <1>11, <1>12, <1>13, <1>14 DEF Next

(***************************************************************************)
(* The theorems                                                            *)
(***************************************************************************)

\* The router starts in the invariant.
LEMMA InitInv == Init => IndInv
<1> SUFFICES ASSUME Init
             PROVE  IndInv
  OBVIOUS
<1>1. TypeOK
  BY InitType
<1>2. /\ \A c \in Calls : call[c] = "new"
      /\ request_queue = <<>> /\ lb_request = NoCall /\ ready_instances = <<>>
      /\ \A i \in Instances : /\ task[i] = "none" /\ concurrency[i] = 0
                              /\ max_queue_length[i] = 0
      /\ starting_instances = {} /\ deleting_instances = {}
      /\ request_count = 0 /\ fine_tuning_count = 0
      /\ auto_scaling_config \in Configs
  BY DEF Init
<1>3. /\ \A c \in Calls : ~InFlight(c)
      /\ \A c \in Calls, i \in Instances : ~On(c, i)
  BY <1>2 DEF InFlight, On
<1>4. /\ {c \in Inferences : InFlight(c)} = {}
      /\ {c \in FineTunings : InFlight(c)} = {}
      /\ \A i \in Instances : {c \in Inferences : On(c, i)} = {}
  BY <1>3 DEF Calls
<1>5. Exclusive
  BY <1>3 DEF Exclusive, Calls
<1>6. DemandCovered
  BY <1>2, <1>4, FS_EmptySet DEF DemandCovered
<1>7. NoOverload /\ ConcurrencyCovers
  <2>1. \A i \in Instances : Cardinality({c \in Inferences : On(c, i)}) = 0
    BY <1>4, FS_EmptySet
  <2>. QED
    BY <1>2, <2>1 DEF NoOverload, ConcurrencyCovers, OnInstance
<1>8. NoOrphan
  BY <1>2, EmptyElements DEF NoOrphan, Ready
<1>9. StartingIsIdle
  BY <1>3 DEF StartingIsIdle
<1>10. WaitingIsPending
  <2>1. Pending = <<>>
    BY <1>2 DEF Pending
  <2>. QED
    BY <1>2, <2>1, EmptyElements DEF WaitingIsPending
<1>11. InstanceBudget
  <2>1. NumRunning = 0
    BY <1>2, FS_EmptySet DEF NumRunning
  <2>2. auto_scaling_config.max_instances \in Nat
    BY <1>2, ConfigsAssumption DEF Config
  <2>. QED
    BY <1>2, <2>1, <2>2 DEF InstanceBudget
<1>. QED
  BY <1>1, <1>5, <1>6, <1>7, <1>8, <1>9, <1>10, <1>11 DEF IndInv

\* Every step keeps the invariant.
LEMMA NextInv == IndInv /\ [Next]_vars => IndInv'
<1> SUFFICES ASSUME IndInv, [Next]_vars
             PROVE  IndInv'
  OBVIOUS
<1> USE DEF IndInv
<1>1. QueueIsWaiting
  BY QueueFromPending
<1>2. TypeOK'
  BY NextType
<1>3. Exclusive'
  BY <1>1, ExclusiveStep
<1>4. DemandCovered'
  BY <1>1, DemandStep
<1>5. NoOverload' /\ ConcurrencyCovers'
  BY <1>1, <1>2, OverloadStep
<1>6. NoOrphan'
  BY <1>2, OrphanStep
<1>7. StartingIsIdle'
  BY <1>1, StartingIdleStep
<1>8. WaitingIsPending'
  BY <1>1, <1>2, QueueStep, PendingFromQueue
<1>9. InstanceBudget'
  BY BudgetStep
<1>. QED
  BY <1>2, <1>3, <1>4, <1>5, <1>6, <1>7, <1>8, <1>9

\* The inductive invariant always holds.
THEOREM Invariance == Spec => []IndInv
BY InitInv, NextInv, PTL DEF Spec

\* The counts, the queue, the dicts of instances and their tasks always agree.
THEOREM RouterAlwaysConsistent == Spec => []RouterIsConsistent
<1>1. IndInv => RouterIsConsistent
  BY DEF IndInv, RouterIsConsistent
<1>. QED
  BY <1>1, Invariance, PTL

\* The demand is never underestimated, and no instance too many is created.
THEOREM CountsAlwaysRight == Spec => []CountsAreRight
<1>1. IndInv => CountsAreRight
  BY DEF IndInv, CountsAreRight
<1>. QED
  BY <1>1, Invariance, PTL

(***************************************************************************)
(* Refinement                                                              *)
(***************************************************************************)

\* What ModelService knows of where a call is.
PhaseOf(at) == CASE at \in {"assigned", "executing"} -> "sent"
                 [] at \in {"done", "lost"} -> "ended"
                 [] OTHER -> at

Phases == [c \in Calls |-> PhaseOf(call[c])]

\* The variables of ModelService, in those of the router.
LEMMA ServiceVars ==
    /\ Service!vars = <<Ready, max_queue_length, Phases, allocation>>
    /\ Service!vars' = <<Ready', max_queue_length', Phases', allocation'>>
BY DEF Service!vars, Phases, PhaseOf

\* The phases of the calls that matter.
LEMMA PhaseValues ==
    ASSUME TypeOK, NEW c \in Calls
    PROVE  /\ Phases[c] = "new" <=> call[c] = "new"
           /\ Phases[c] = "waiting" <=> call[c] = "waiting"
           /\ Phases[c] = "sent" <=> call[c] \in {"assigned", "executing"}
           /\ Phases[c] \in {"waiting", "sent"} <=> InFlight(c)
<1>1. call[c] \in {"new", "waiting", "assigned", "executing", "done", "lost"}
  BY DEF TypeOK
<1>2. Phases[c] = PhaseOf(call[c])
  BY DEF Phases
<1>. QED
  BY <1>1, <1>2 DEF PhaseOf, InFlight

\* A step that moves one call changes its phase alone.
LEMMA PhaseChange ==
    ASSUME TypeOK, NEW c \in Calls, NEW at, call' = [call EXCEPT ![c] = at]
    PROVE  Phases' = [Phases EXCEPT ![c] = PhaseOf(at)]
<1>1. \A d \in Calls : call'[d] = IF d = c THEN at ELSE call[d]
  BY DEF TypeOK
<1>2. \A d \in Calls :
          PhaseOf(call'[d]) = IF d = c THEN PhaseOf(at) ELSE PhaseOf(call[d])
  BY <1>1
<1>. QED
  BY <1>2 DEF Phases

\* The calls ModelService counts on an instance.
LEMMA AtInstance ==
    ASSUME TypeOK, NEW i \in Instances
    PROVE  Service!At(i) = {c \in Calls : On(c, i)}
<1>1. Service!At(i) = {c \in Calls : allocation[c] = i /\ Phases[c] = "sent"}
  BY DEF Service!At, Service!Calls, Calls, Phases, PhaseOf
<1>. QED
  BY <1>1, PhaseValues DEF On

\* The router starts as the service does.
LEMMA ServiceInit == Init => Service!Init
<1> SUFFICES ASSUME Init
             PROVE  Service!Init
  OBVIOUS
<1>1. Ready = {}
  BY EmptyElements DEF Init, Ready
<1>2. Phases = [c \in Calls |-> "new"]
  BY DEF Init, Phases, PhaseOf
<1>. QED
  BY <1>1, <1>2 DEF Init, Service!Init, Service!Calls, Calls, Phases, PhaseOf

\* A call ends: answered, lost, or forgotten by shutdown.
LEMMA EndStep ==
    ASSUME TypeOK, NEW c \in Calls, InFlight(c), NEW at \in {"done", "lost"},
           call' = [call EXCEPT ![c] = at],
           UNCHANGED <<ready_instances, max_queue_length, allocation>>
    PROVE  Service!End(c)
<1>1. Phases[c] \in {"waiting", "sent"}
  BY PhaseValues
<1>2. Phases' = [Phases EXCEPT ![c] = "ended"]
  BY PhaseChange DEF PhaseOf
<1>3. Ready' = Ready /\ max_queue_length' = max_queue_length /\ allocation' = allocation
  BY DEF Ready
<1>. QED
  BY <1>1, <1>2, <1>3 DEF Service!End, Phases, PhaseOf

\* A call is accepted while none of the other kind is in flight.
LEMMA SubmitStep ==
    ASSUME TypeOK, NEW c \in Calls, call[c] = "new",
           \A d \in Service!OtherKind(c) : d \in Calls /\ ~InFlight(d),
           call' = [call EXCEPT ![c] = "waiting"],
           UNCHANGED <<ready_instances, max_queue_length, allocation>>
    PROVE  Service!Submit(c)
<1>1. Phases[c] = "new"
  BY PhaseValues
<1>2. \A d \in Service!OtherKind(c) : Phases[d] \notin {"waiting", "sent"}
  BY PhaseValues
<1>3. Phases' = [Phases EXCEPT ![c] = "waiting"]
  BY PhaseChange DEF PhaseOf
<1>4. Ready' = Ready /\ max_queue_length' = max_queue_length /\ allocation' = allocation
  BY DEF Ready
<1>. QED
  BY <1>1, <1>2, <1>3, <1>4 DEF Service!Submit, Phases, PhaseOf

\* The load balancer sends the call it holds to an instance with room.
LEMMA SendStep ==
    ASSUME IndInv, QueueIsWaiting, LbAssign
    PROVE  \E c \in Calls, i \in Instances : Service!Send(c, i)
<1> USE DEF IndInv
<1>0. PICK c \in Calls, i \in Instances :
          c = lb_request /\ i = Choice /\ i \in Ready
  BY ChoiceIsReady DEF LbAssign, TypeOK
<1>1. /\ concurrency[i] + 1 <= max_queue_length[i]
      /\ call' = [call EXCEPT ![c] = "assigned"]
      /\ allocation' = [allocation EXCEPT ![c] = i]
      /\ max_queue_length' = max_queue_length
      /\ ready_instances' = ready_instances
  BY <1>0 DEF LbAssign, HasRoom, instanceVars
<1>2. call[c] = "waiting"
  BY <1>0 DEF QueueIsWaiting
<1>3. Phases[c] = "waiting"
  BY <1>1, <1>2, PhaseValues
<1>4. Phases' = [Phases EXCEPT ![c] = "sent"]
  BY <1>1, PhaseChange DEF PhaseOf
<1>5. Ready' = Ready
  BY <1>1 DEF Ready
<1>6. ASSUME c \in Inferences
      PROVE  Cardinality(Service!At(i)) < max_queue_length[i]
  <2>1. \A d \in FineTunings : ~On(d, i)
    BY <1>2, <1>6 DEF Exclusive, InFlight, On
  <2>2. Service!At(i) = OnInstance(i)
    BY <1>1, <2>1, AtInstance DEF OnInstance, Calls
  <2>3. OnInstance(i) \in SUBSET Calls
    BY DEF OnInstance, Calls
  <2>4. Cardinality(OnInstance(i)) \in Nat
    BY <2>3, FiniteCalls
  <2>5. Cardinality(OnInstance(i)) <= concurrency[i]
    BY <1>1 DEF ConcurrencyCovers
  <2>6. concurrency[i] \in Nat /\ max_queue_length[i] \in Nat
    BY <1>1 DEF TypeOK
  <2>. QED
    BY <1>1, <2>2, <2>4, <2>5, <2>6
<1>7. \A S : Service!Cardinality(S) = Cardinality(S)
  BY DEF Service!Cardinality, Cardinality, Service!IsFiniteSet, IsFiniteSet
<1>8. c \in Inferences =>
          Service!Cardinality(Service!At(i)) < max_queue_length[i]
  BY <1>6, <1>7
<1>. QED
  BY <1>0, <1>1, <1>3, <1>4, <1>5, <1>8 DEF Service!Send, Phases, PhaseOf

\* Every step of the router is a step of ModelService or leaves it alone.
LEMMA ServiceStep ==
    ASSUME IndInv, [Next]_vars
    PROVE  [Service!Next]_Service!vars
<1> USE CallsAssumption DEF IndInv
<1> USE DEF configVars, balancerVars, instanceVars, countVars, callVars
<1>0. /\ QueueIsWaiting
      /\ Service!Calls = Calls
      /\ IsInjective(ready_instances)
      /\ ready_instances \in Seq(Instances)
      /\ Ready \subseteq Instances
  BY QueueFromPending, ToSetMember
     DEF Service!Calls, Calls, NoOrphan, TypeOK, Ready
<1>1. ASSUME UNCHANGED <<ready_instances, max_queue_length, call, allocation>>
      PROVE  UNCHANGED Service!vars
  BY <1>1, ServiceVars DEF Ready, Phases
<1>2. ASSUME UNCHANGED <<max_queue_length, call, allocation>>
      PROVE  /\ Phases' = Phases
             /\ UNCHANGED <<max_queue_length, allocation>>
  BY <1>2 DEF Phases
<1>3. ASSUME NEW i \in Ready, Ready' = Ready \ {i},
             UNCHANGED <<max_queue_length, call, allocation>>
      PROVE  Service!Next
  <2>1. Service!GoesDown(i)
    BY <1>2, <1>3 DEF Service!GoesDown, Phases, PhaseOf
  <2>. QED
    BY <1>0, <2>1 DEF Service!Next
<1>4. CASE ShutdownRaises
  <2> DEFINE h == Head(request_queue)
  <2>1. /\ request_queue \in Seq(Calls)
        /\ IsInjective(request_queue)
        /\ request_queue # <<>>
        /\ UNCHANGED <<ready_instances, max_queue_length, allocation>>
        /\ call' = [call EXCEPT ![h] = "lost"]
    BY <1>0, <1>4 DEF ShutdownRaises, TypeOK, QueueIsWaiting
  <2>2. h \in ToSet(request_queue)
    BY <2>1, TailElements
  <2>3. h \in Calls
    BY <2>1, <2>2, ToSetMember
  <2> HIDE DEF h
  <2>4. PICK c \in Calls : c = h
    BY <2>3
  <2>5. InFlight(c)
    BY <1>0, <2>2, <2>4 DEF QueueIsWaiting, InFlight
  <2>6. call' = [call EXCEPT ![c] = "lost"]
    BY <2>1, <2>4
  <2>7. Service!End(c)
    BY <2>1, <2>5, <2>6, EndStep
  <2>. QED
    BY <1>0, <2>7 DEF Service!Next
<1>5. ASSUME NEW c \in Inferences, Inference(c)
      PROVE  Service!Next
  <2>1. /\ c \in Calls /\ call[c] = "new" /\ fine_tuning_count = 0
        /\ call' = [call EXCEPT ![c] = "waiting"]
        /\ UNCHANGED <<ready_instances, max_queue_length, allocation>>
    BY <1>5 DEF Inference, Enqueue, Calls
  <2>2. \A d \in Service!OtherKind(c) : d \in Calls /\ ~InFlight(d)
    BY <2>1, NoneInFlight DEF Service!OtherKind, Calls
  <2>3. Service!Submit(c)
    BY <2>1, <2>2, SubmitStep
  <2>. QED
    BY <1>0, <2>1, <2>3 DEF Service!Next
<1>6. ASSUME NEW c \in FineTunings, FineTuning(c)
      PROVE  Service!Next
  <2>1. /\ c \in Calls /\ call[c] = "new" /\ request_count = 0
        /\ call' = [call EXCEPT ![c] = "waiting"]
        /\ UNCHANGED <<ready_instances, max_queue_length, allocation>>
    BY <1>6 DEF FineTuning, Enqueue, Calls
  <2>2. c \notin Inferences
    BY <1>6
  <2>3. \A d \in Service!OtherKind(c) : d \in Calls /\ ~InFlight(d)
    BY <2>1, <2>2, NoneInFlight DEF Service!OtherKind, Calls
  <2>4. Service!Submit(c)
    BY <2>1, <2>3, SubmitStep
  <2>. QED
    BY <1>0, <2>1, <2>4 DEF Service!Next
<1>7. ASSUME NEW c \in Calls, Resume(c)
      PROVE  UNCHANGED Service!vars
  <2>1. /\ call[c] = "assigned"
        /\ call' = [call EXCEPT ![c] = "executing"]
        /\ UNCHANGED <<ready_instances, max_queue_length, allocation>>
    BY <1>7 DEF Resume
  <2>2. Phases' = [Phases EXCEPT ![c] = "sent"]
    BY <2>1, PhaseChange DEF PhaseOf
  <2>3. Phases[c] = "sent"
    BY <2>1, PhaseValues
  <2>4. Phases' = Phases
    BY <2>2, <2>3 DEF Phases
  <2>. QED
    BY <2>1, <2>4, ServiceVars DEF Ready
<1>8. ASSUME NEW c \in Calls, ResumeNotFound(c) \/ Fail(c) \/ Finish(c)
      PROVE  Service!Next
  <2>1. /\ InFlight(c)
        /\ \E at \in {"done", "lost"} : call' = [call EXCEPT ![c] = at]
        /\ UNCHANGED <<ready_instances, max_queue_length, allocation>>
    BY <1>8 DEF ResumeNotFound, Fail, Finish, InFlight
  <2>2. Service!End(c)
    BY <2>1, EndStep
  <2>. QED
    BY <1>0, <2>2 DEF Service!Next
<1>9. CASE LbAssign
  <2>1. \E c \in Calls, i \in Instances : Service!Send(c, i)
    BY <1>0, <1>9, SendStep
  <2>. QED
    BY <1>0, <2>1 DEF Service!Next
<1>10. CASE StopInstance
  <2>1. /\ ready_instances # <<>>
        /\ ready_instances' = Front(ready_instances)
        /\ UNCHANGED <<max_queue_length, call, allocation>>
    BY <1>10 DEF StopInstance
  <2>2. /\ Last(ready_instances) \in Ready
        /\ Ready' = Ready \ {Last(ready_instances)}
    BY <1>0, <2>1, FrontElements DEF Ready
  <2>. QED
    BY <1>3, <2>1, <2>2
<1>11. ASSUME NEW i \in Instances, ShutdownInstance(i)
       PROVE  Service!Next \/ UNCHANGED Service!vars
  <2>1. UNCHANGED <<max_queue_length, call, allocation>>
    BY <1>11 DEF ShutdownInstance
  <2>2. CASE ready_instances' = ready_instances
    BY <1>1, <2>1, <2>2
  <2>3. ASSUME NEW k \in DOMAIN ready_instances, ready_instances[k] = i,
               ready_instances' = RemoveAt(ready_instances, k)
        PROVE  Service!Next
    <3>1. Ready' = Ready \ {i}
      BY <1>0, <2>3, RemoveAtElements DEF Ready
    <3>2. i \in Ready
      BY <2>3 DEF Ready, ToSet
    <3>. QED
      BY <1>3, <2>1, <3>1, <3>2
  <2>. QED
    BY <1>11, <2>2, <2>3 DEF ShutdownInstance
<1>12. ASSUME NEW i \in Instances, ScaleUp(i)
       PROVE  Service!Next
  <2>1. /\ task[i] = "none"
        /\ \A c \in Calls : ~On(c, i)
        /\ UNCHANGED <<ready_instances, call, allocation>>
    BY <1>12 DEF ScaleUp, Fresh
  <2>2. PICK n \in Nat : max_queue_length' = [max_queue_length EXCEPT ![i] = n]
    <3>1. auto_scaling_config.target \in Nat
      BY ConfigsAssumption DEF TypeOK, Config
    <3>. QED
      BY <1>12, <3>1 DEF ScaleUp
  <2>3. max_queue_length'[i] = n
    BY <2>2 DEF TypeOK
  <2>4. i \notin Ready
    BY <2>1 DEF NoOrphan
  <2>5. Service!At(i) = {}
    BY <2>1, AtInstance
  <2>6. Ready' = Ready /\ Phases' = Phases /\ allocation' = allocation
    BY <2>1 DEF Ready, Phases
  <2>7. Service!Size(i)
    BY <2>2, <2>3, <2>4, <2>5, <2>6 DEF Service!Size, Phases, PhaseOf
  <2>. QED
    BY <2>7 DEF Service!Next
<1>13. ASSUME NEW i \in Instances, Loaded(i)
       PROVE  Service!Next
  <2>1. /\ task[i] = "loading"
        /\ ready_instances' = Append(ready_instances, i)
        /\ UNCHANGED <<max_queue_length, call, allocation>>
    BY <1>13 DEF Loaded
  <2>2. i \notin Ready /\ \A c \in Calls : ~On(c, i)
    BY <2>1 DEF NoOrphan, StartingIsIdle
  <2>3. Service!At(i) = {}
    BY <2>2, AtInstance
  <2>4. Ready' = Ready \cup {i}
    BY <1>0, <2>1, AppendElements DEF Ready
  <2>5. Service!ComesUp(i)
    BY <1>2, <2>1, <2>2, <2>3, <2>4 DEF Service!ComesUp, Phases, PhaseOf
  <2>. QED
    BY <2>5 DEF Service!Next
<1>14. CASE Start \/ Shutdown \/ LbTake \/ LbFull \/ IdleTick \/ AwaitReady
  BY <1>1, <1>14 DEF Start, Shutdown, LbTake, LbFull, IdleTick, AwaitReady
<1>15. CASE \/ \E cfg \in Configs : UpdateConfig(cfg)
            \/ \E adapters \in SUBSET Adapters : UpdateAdapters(adapters)
  BY <1>1, <1>15 DEF UpdateConfig, UpdateAdapters
<1>16. ASSUME NEW i \in Instances,
              \/ Allocated(i) \/ LoadFails(i) \/ FinishInstance(i) \/ Kill(i)
              \/ Deallocated(i)
       PROVE  UNCHANGED Service!vars
  BY <1>1, <1>16 DEF Allocated, LoadFails, FinishInstance, Kill, Deallocated
<1>17. CASE UNCHANGED vars
  BY <1>1, <1>17 DEF vars
<1>. QED
  BY <1>4, <1>5, <1>6, <1>7, <1>8, <1>9, <1>10, <1>11, <1>12, <1>13, <1>14,
     <1>15, <1>16, <1>17 DEF Next

\* The router implements ModelService: calls are sent once, to an instance that
\* is ready and has room, and calls of the two kinds never overlap.
THEOREM Refinement == Spec => ImplementsService
BY ServiceInit, ServiceStep, Invariance, PTL
   DEF Spec, Service!Spec, ImplementsService

=============================================================================
