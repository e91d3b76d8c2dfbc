------------------------------- MODULE MCCoins -------------------------------
(* A small instance of Coins for TLC, on its own.                            *)
EXTENDS Coins, TLC

\* No property names an account or a character.
Symmetry == Permutations(Accounts) \cup Permutations(Characters)
=============================================================================
