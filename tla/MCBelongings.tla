---------------------------- MODULE MCBelongings -----------------------------
(***************************************************************************)
(* Small instances for TLC of what belongs to characters and accounts:     *)
(* items that decay, the quick loot settings, the coins with the store and *)
(* the bazaar, and the storage deltas.                                     *)
(*                                                                         *)
(* These components share no state, so a behaviour is one of a single      *)
(* component, the focus: it starts in any of its initial states and takes  *)
(* all the steps, and the others stay in one of theirs.                    *)
(***************************************************************************)
EXTENDS Decay, QuickLoot, Coins, PlayerStorage, TLC

VARIABLE focus

MCItemTypes == [torch |-> [time |-> 2, stopTime |-> FALSE, decayTo |-> "ember"],
                ember |-> [time |-> 1, stopTime |-> FALSE, decayTo |-> "gone"],
                ringOff |-> [time |-> 0, stopTime |-> TRUE, decayTo |-> "never"]]
AllFaults == {"wal", "flush", "delete", "crash"}

\* No property names an account or a character.
Symmetry == Permutations(Accounts) \cup Permutations(Characters)

MCInit ==
    /\ focus \in {"decay", "quickLoot", "coins", "storage"}
    /\ DecayInit /\ (focus # "decay" => \A i \in Items : item[i].type = "ringOff")
    /\ CoinsInit /\ (focus # "coins" => \A c, d \in Characters : owner[c] = owner[d])
    /\ QuickLootInit /\ Init

\* The variables of the components other than the focus.
Unfocused ==
    /\ focus' = focus
    /\ focus # "decay" => UNCHANGED decayVars
    /\ focus # "quickLoot" => UNCHANGED quickLootVars
    /\ focus # "coins" => UNCHANGED coinVars
    /\ focus # "storage" => UNCHANGED vars

MCNext ==
    \/ focus = "decay" /\ DecayNext /\ Unfocused
    \/ focus = "quickLoot" /\ QuickLootNext /\ Unfocused
    \/ focus = "coins" /\ CoinsNext /\ Unfocused
    \/ focus = "storage" /\ Next /\ Unfocused

MCSpec == MCInit /\ [][MCNext]_<<focus, decayVars, quickLootVars, coinVars, vars>>
=============================================================================
