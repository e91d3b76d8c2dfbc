--------------------------- MODULE DurableStorage ---------------------------
(***************************************************************************)
(* What saving a storage map promises, without deltas, marks, log or       *)
(* flushes: the map has one stable state, and what is saved becomes stable *)
(* whole and at once.  Entering the game starts from the stable map, and a *)
(* crash loses the live one only.                                          *)
(*                                                                         *)
(* When a write fails the promise is suspended, not void: until a save     *)
(* succeeds again, a stable value may stay behind what was handed over,    *)
(* and a map may be loaded that is not the stable one, but no value        *)
(* becomes stable that was not live or handed over.                        *)
(***************************************************************************)
CONSTANTS Keys, Values, None

VARIABLES
    playing,
    live,       \* the map of the player in the game
    stable,     \* what a restart would restore
    handed,     \* the newest map that was handed over to be saved
    failed      \* a write failed and no save has succeeded since

Maps == [Keys -> {None} \cup Values]
Nothing == [k \in Keys |-> None]

Stays == UNCHANGED <<playing, live>>
Leaves == playing' = FALSE /\ live' = Nothing

Change ==
    /\ playing
    /\ \E k \in Keys, v \in {None} \cup Values : live' = [live EXCEPT ![k] = v]
    /\ UNCHANGED <<playing, stable, handed, failed>>

Save ==
    /\ playing /\ (Stays \/ Leaves)
    /\ handed' = live
    /\ stable' = live /\ failed' = FALSE

\* Handed over, and not yet stable.
SaveUnlogged ==
    /\ playing /\ (Stays \/ Leaves)
    /\ handed' = live
    /\ stable' = stable /\ failed' = TRUE

\* Some keys keep their stable value.
SaveInPart ==
    /\ failed
    /\ playing /\ (Stays \/ Leaves)
    /\ handed' = live
    /\ stable' \in Maps /\ \A k \in Keys : stable'[k] \in {live[k], stable[k]}
    /\ UNCHANGED failed

\* What was handed over becomes stable after all.
CatchUp ==
    /\ failed
    /\ stable' = handed /\ failed' = FALSE
    /\ UNCHANGED <<playing, live, handed>>

\* A write fails, possibly the last one of a player who leaves.
Fail ==
    /\ Stays \/ (playing /\ Leaves)
    /\ failed' = TRUE
    /\ UNCHANGED <<stable, handed>>

Enter ==
    /\ ~playing /\ playing' = TRUE
    /\ live' \in Maps /\ (~failed => live' = stable)
    /\ UNCHANGED <<stable, handed, failed>>

Crash ==
    /\ Leaves
    /\ UNCHANGED <<stable, handed, failed>>

Init ==
    /\ playing = FALSE /\ live = Nothing
    /\ stable = Nothing /\ handed = Nothing /\ failed = FALSE

Next == Change \/ Save \/ SaveUnlogged \/ SaveInPart \/ CatchUp \/ Fail \/ Enter \/ Crash

Spec == Init /\ [][Next]_<<playing, live, stable, handed, failed>>
=============================================================================
