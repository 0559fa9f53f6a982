------------------------ MODULE MCCheckpointStore ------------------------
(* Small instances of the checkpoint store for TLC.                        *)
EXTENDS CheckpointStore, TLC

CONSTANTS p1, p2, p3, c1, c2, c3, b1, b2, b3, b4

\* p2 takes two chunks, the others one.
MCSize == [p \in Paths |-> IF p = p2 THEN 2 ELSE 1]

Symmetry == Permutations(Buffers) \cup Permutations(Clients \ GpuClients)
=============================================================================
