-------------------------- MODULE MCPlayerStorage --------------------------
(* Small instances of PlayerStorage for TLC.                                *)
EXTENDS PlayerStorage

NoFaults == {}
=============================================================================
