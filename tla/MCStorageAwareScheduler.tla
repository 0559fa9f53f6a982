---------------------- MODULE MCStorageAwareScheduler ----------------------
(***************************************************************************)
(* Values for the constants of StorageAwareScheduler: two models, one GPU  *)
(* an instance.  Both nodes store both models; only the second one has b   *)
(* in host memory, or it joined so late that it was not measured.          *)
(***************************************************************************)
EXTENDS StorageAwareScheduler, TLC

CONSTANTS a, b, r1, r2, r3, r4, n1, n2

MCModelOf == [r \in Requests |-> IF r = r3 THEN b ELSE a]
MCNumGpus == [r \in Requests |-> 1]
MCTotalGpus == [n \in Nodes |-> 1]
MCDiskTime == [m \in Models |-> [n \in Nodes |-> 2]]
MCPcieTime == [m \in Models |-> [n \in Nodes |-> 1]]
MCNodeId == (n1 :> 0) @@ (n2 :> 1)
MCStoreInfos ==
    {[disk |-> (n1 :> {a, b}) @@ (n2 :> {a}),
      pool |-> (n1 :> {a}) @@ (n2 :> {}),
      wait |-> [n \in Nodes |-> 0], measured |-> Nodes],
     [disk |-> [n \in Nodes |-> {a, b}], pool |-> [n \in Nodes |-> {}],
      wait |-> (n1 :> 1) @@ (n2 :> 0), measured |-> {n1}]}
MCMeasured == {i \in MCStoreInfos : i.measured = Nodes}

\* The requests for model a are alike.
Symmetry == Permutations(Requests \ {r3})
=============================================================================
