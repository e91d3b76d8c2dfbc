------------------------------ MODULE MCReactor ------------------------------
(* Small instances of Reactor for TLC.                                      *)
EXTENDS Reactor, TLC

\* No property names a thread.
Symmetry == Permutations(Threads)
=============================================================================
