--------------------------- MODULE MCStoreManager ---------------------------
(* Two models that do not fit a node's memory together; one is preloaded by *)
(* a name the store does not know.                                          *)
EXTENDS StoreManager, TLC

CONSTANTS small, large, other, n1, n2
MCSize == (small :> 3) @@ (large :> 5)
MCPretrained == (small :> small) @@ (large :> other)
MCPlacements == {[local_disk |-> <<n1>>, memory_pool |-> {n1}]}
TwoPlacements ==
    {[local_disk |-> <<n1, n2>>, memory_pool |-> {}],
     [local_disk |-> <<n2, n1>>, memory_pool |-> {n1}]}
=============================================================================
