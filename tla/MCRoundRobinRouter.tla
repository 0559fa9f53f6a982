------------------------ MODULE MCRoundRobinRouter ------------------------
(***************************************************************************)
(* Values for the constants of RoundRobinRouter.  Busy scales one instance *)
(* per call up to two; Shared lets one instance take two calls; Pinned     *)
(* keeps one instance that takes one call; OneByOne never has more than    *)
(* one instance and stops it at once.                                      *)
(***************************************************************************)
EXTENDS RoundRobinRouter

CONSTANTS c1, c2, c3, f1, f2, f3, i1, i2, i3, l1

Busy == [min_instances |-> 0, max_instances |-> 2, target |-> 1,
         keep_alive |-> 1, concurrency |-> TRUE]
Shared == [min_instances |-> 0, max_instances |-> 2, target |-> 2,
           keep_alive |-> 1, concurrency |-> TRUE]
Pinned == [min_instances |-> 1, max_instances |-> 1, target |-> 2,
           keep_alive |-> 0, concurrency |-> FALSE]
OneByOne == [min_instances |-> 0, max_instances |-> 1, target |-> 1,
             keep_alive |-> 0, concurrency |-> TRUE]

Single == [Shared EXCEPT !.max_instances = 1]
SingleOnly == {Single}
BusyOnly == {Busy}
SharedOnly == {Shared}
OneByOneOnly == {OneByOne}
SharedOrPinned == {Shared, Pinned}

NoLora == [c \in Calls |-> NoAdapter]
LoraFirst == [c \in Calls |-> IF c = c1 THEN l1 ELSE NoAdapter]

InstanceSymmetry == Permutations(Instances)
=============================================================================
