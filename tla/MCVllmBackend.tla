--------------------------- MODULE MCVllmBackend ---------------------------
(* Three calls that may use one id, or encode two inputs. *)
EXTENDS VllmBackend, TLC
=============================================================================
