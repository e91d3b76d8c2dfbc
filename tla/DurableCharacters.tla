------------------------- MODULE DurableCharacters -------------------------
(***************************************************************************)
(* What saving a character promises, without queues, threads or a log:     *)
(* every character has one stable state.  Saving replaces it at once by    *)
(* the live state, entering the game starts from it, and a crash loses     *)
(* live states only.  SaveManager implements this specification when the   *)
(* database takes every write and nobody writes an offline character       *)
(* behind its back.                                                        *)
(***************************************************************************)
CONSTANTS Guids, Updates, None

VARIABLES live, stable

Change(g) ==
    /\ live[g] # None
    /\ \E u \in Updates : live' = [live EXCEPT ![g] = @ \cup {u}]
    /\ UNCHANGED stable

Save(g) ==
    /\ live[g] # None
    /\ stable' = [stable EXCEPT ![g] = live[g]]
    /\ UNCHANGED live

Enter(g) ==
    /\ live[g] = None
    /\ live' = [live EXCEPT ![g] = stable[g]]
    /\ UNCHANGED stable

Leave(g) ==
    /\ live[g] # None
    /\ stable' = [stable EXCEPT ![g] = live[g]]
    /\ live' = [live EXCEPT ![g] = None]

\* Several offline characters change together.
ChangeOffline(G) ==
    /\ \A g \in G : live[g] = None
    /\ \E u \in Updates :
          stable' = [g \in Guids |-> IF g \in G THEN stable[g] \cup {u} ELSE stable[g]]
    /\ UNCHANGED live

Crash ==
    /\ live' = [g \in Guids |-> None]
    /\ UNCHANGED stable

Init ==
    /\ live = [g \in Guids |-> None]
    /\ stable = [g \in Guids |-> {}]

Next ==
    \/ \E g \in Guids : Change(g) \/ Save(g) \/ Enter(g) \/ Leave(g)
    \/ \E G \in SUBSET Guids : ChangeOffline(G)
    \/ Crash

Spec == Init /\ [][Next]_<<live, stable>>
=============================================================================
