--------------------------- MODULE MCModelLoader ---------------------------
(* Four tensors in three modules, on two devices or one. *)
EXTENDS ModelLoader, TLC

MCTensorNames == <<"a", "b", "c", "d">>
MCModuleNames == <<"A", "B", "C">>
MCModule == ("a" :> "A") @@ ("b" :> "B") @@ ("c" :> "B") @@ ("d" :> "C")
MCPrefixed == [m \in Range(MCModuleNames) |-> {n \in Range(MCTensorNames) : MCModule[n] = m}]
MCMemories == {<<14, 16>>, <<7, 13>>}
MCRequests ==
    {[strategy |-> "balanced", use |-> "view"], [strategy |-> "sequential", use |-> "quantize"],
     [strategy |-> "best_effort", use |-> "view"], [strategy |-> "one", use |-> "copy"]}
CopyRequests == {[strategy |-> "one", use |-> "copy"]}
Symmetry == Permutations(Pointers)
=============================================================================
