---------------------------- MODULE GpuAllocator ---------------------------
(***************************************************************************)
(* What a scheduler promises the routers, without queues, passes or        *)
(* tables: a request is given one node that has room for it, keeps it      *)
(* until it gives it back, and is never given another.                     *)
(***************************************************************************)
EXTENDS Integers, FiniteSets

CONSTANTS Requests, NumGpus, Nodes, TotalGpus, NoNode

VARIABLES
    owner,      \* the node whose GPUs a request owns
    released    \* the requests that gave their GPUs back

vars == <<owner, released>>

\* The GPUs of n that are owned, one <<request, index>> pair per GPU.
OwnedGpus(n) ==
    UNION {{r} \X (1 .. NumGpus[r]) : r \in {q \in Requests : owner[q] = n}}

Init ==
    /\ owner = [r \in Requests |-> NoNode]
    /\ released = {}

Grant(r, n) ==
    /\ owner[r] = NoNode
    /\ r \notin released
    /\ Cardinality(OwnedGpus(n)) + NumGpus[r] <= TotalGpus[n]
    /\ owner' = [owner EXCEPT ![r] = n]
    /\ UNCHANGED released

Release(r) ==
    /\ owner[r] # NoNode
    /\ owner' = [owner EXCEPT ![r] = NoNode]
    /\ released' = released \cup {r}

Next == \E r \in Requests : \/ Release(r)
                            \/ \E n \in Nodes : Grant(r, n)

Spec == Init /\ [][Next]_vars
=============================================================================
