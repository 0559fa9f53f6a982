-------------------------- MODULE MCFcfsScheduler --------------------------
(***************************************************************************)
(* Values for the constants of FcfsScheduler.  Two models; one of the      *)
(* requests needs both GPUs of the large node, so that requests can wait   *)
(* while smaller ones pass them.                                           *)
(***************************************************************************)
EXTENDS FcfsScheduler

CONSTANTS a, b, r1, r2, r3, n1, n2

MCModelOf == (r1 :> a) @@ (r2 :> a) @@ (r3 :> b)
MCNumGpus == (r1 :> 1) @@ (r2 :> 2) @@ (r3 :> 1)
MCTotalGpus == (n1 :> 2) @@ (n2 :> 1)
=============================================================================
