------------------------------ MODULE MCWorld -------------------------------
(***************************************************************************)
(* Small instances for TLC of the way into the world and of what goes on   *)
(* in it: connections, sessions, the waiting list, trade, parties, spawns  *)
(* and the creature check.                                                 *)
(*                                                                         *)
(* What one of these leaves to another is a choice of its own actions, and *)
(* they share no state, so a behaviour is one of a single component, the   *)
(* focus: it starts in any of its initial states and takes all the steps,  *)
(* and the others stay in one of theirs.                                   *)
(***************************************************************************)
EXTENDS Connection, GameSession, WaitingList, Trade, Party, Spawn, CreatureCheck

CONSTANT g1

VARIABLE focus

MCAccountOf == g1 :> 1

MCInit ==
    /\ focus \in {"connection", "session", "waiting", "trade", "party", "spawn", "check"}
    /\ TradeInit /\ (focus # "trade" => \A i \in Things : holder[i] = Ground)
    /\ SpawnInit /\ (focus # "spawn" => startupSpawn({}) /\ ~effectEnabled)
    /\ ConnInit /\ SessionInit /\ WaitingInit /\ PartyInit /\ CheckInit

\* The variables of the components other than the focus.
Unfocused ==
    /\ focus' = focus
    /\ focus # "connection" => UNCHANGED connVars
    /\ focus # "session" => UNCHANGED sessionVars
    /\ focus # "waiting" => UNCHANGED waitingVars
    /\ focus # "trade" => UNCHANGED tradeVars
    /\ focus # "party" => UNCHANGED partyVars
    /\ focus # "spawn" => UNCHANGED spawnVars
    /\ focus # "check" => UNCHANGED checkVars

MCNext ==
    \/ focus = "connection" /\ ConnNext /\ Unfocused
    \/ focus = "session" /\ SessionNext /\ Unfocused
    \/ focus = "waiting" /\ WaitingNext /\ Unfocused
    \/ focus = "trade" /\ TradeNext /\ Unfocused
    \/ focus = "party" /\ PartyNext /\ Unfocused
    \/ focus = "spawn" /\ SpawnNext /\ Unfocused
    \/ focus = "check" /\ CheckNext /\ Unfocused

MCSpec == MCInit /\ [][MCNext]_<<focus, connVars, sessionVars, waitingVars, tradeVars, partyVars,
                                 spawnVars, checkVars>>

\* No property names a protocol, a trader, a block or a monster (one set of values here), nor a
\* connection, a bag or a premium client (another one).
Symmetry == Permutations(Protocols) \cup Permutations(Conns)
=============================================================================
