-------------------------- MODULE MCMigrationRouter --------------------------
(* Two calls, and three instances of which one serves and one is started to *)
(* take its place.                                                          *)
EXTENDS MigrationRouter, TLC
=============================================================================
