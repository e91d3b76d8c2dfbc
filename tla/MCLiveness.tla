----------------------------- MODULE MCLiveness ------------------------------
(***************************************************************************)
(* What must eventually happen, on instances small enough for TLC to check *)
(* under fairness: the SaveManager, the TaskReactor, the connections, the  *)
(* quick loot settings and the spawns.                                     *)
(*                                                                         *)
(* A behaviour is one of a single component, the focus: it starts in any   *)
(* of its initial states and takes all the steps, and the others rest in a *)
(* state in which nothing that fairness speaks of is enabled.  A reactor   *)
(* rests once it has stopped.                                              *)
(***************************************************************************)
EXTENDS SaveManager, Connection, QuickLoot, Spawn

CONSTANTS Threads, MaxReactorTasks, MaxId, MaxTime, Delays, Expirations, maxInboxSize,
          maxTasksPerCycle, timeBudget

VARIABLES focus,
          running, clock, nextSequence, place, owner, fireAt, deadline, identifier, cancelInbox,
          activeIdentifiers, nextIdentifier, cancelled, pc, tasksExecuted, notifying, requested, deferred

reactorVars == <<running, clock, nextSequence, place, owner, fireAt, deadline, identifier, cancelInbox,
                 activeIdentifiers, nextIdentifier, cancelled, pc, tasksExecuted, notifying, requested, deferred>>

R == INSTANCE Reactor WITH MaxTasks <- MaxReactorTasks

ReactorOver ==
    /\ running = FALSE /\ clock = MaxTime /\ nextSequence = 0
    /\ place = [t \in R!Tasks |-> "unused"] /\ owner = [t \in R!Tasks |-> CHOOSE th \in Threads : TRUE]
    /\ fireAt = [t \in R!Tasks |-> 0] /\ deadline = fireAt /\ identifier = fireAt
    /\ cancelInbox = {} /\ activeIdentifiers = {} /\ cancelled = {} /\ requested = {} /\ deferred = {}
    /\ nextIdentifier = 0 /\ tasksExecuted = 0 /\ notifying = {}
    /\ pc = "stopped"

MCInit ==
    /\ focus \in {"saves", "reactor", "connection", "quickLoot", "spawn"}
    /\ SpawnInit /\ (focus # "spawn" => startupSpawn({}) /\ ~effectEnabled)
    /\ (focus = "reactor" /\ R!Init) \/ (focus # "reactor" /\ ReactorOver)
    /\ Init /\ ConnInit /\ QuickLootInit

\* The variables of the components other than the focus.
Unfocused ==
    /\ focus' = focus
    /\ focus # "saves" => UNCHANGED vars
    /\ focus # "reactor" => UNCHANGED reactorVars
    /\ focus # "connection" => UNCHANGED connVars
    /\ focus # "quickLoot" => UNCHANGED quickLootVars
    /\ focus # "spawn" => UNCHANGED spawnVars

MCNext ==
    \/ focus = "saves" /\ Next /\ Unfocused
    \/ focus = "reactor" /\ R!Next /\ Unfocused
    \/ focus = "connection" /\ ConnNext /\ Unfocused
    \/ focus = "quickLoot" /\ QuickLootNext /\ Unfocused
    \/ focus = "spawn" /\ SpawnNext /\ Unfocused

MCFairSpec ==
    /\ MCInit /\ [][MCNext]_<<focus, vars, reactorVars, connVars, quickLootVars, spawnVars>>
    /\ Fairness /\ R!Fairness /\ ConnFairness /\ QuickLootFairness /\ SpawnFairness

\* While the reactor runs, what it accepted is run or dropped for a reason.
AcceptedTasksFinish == R!AcceptedTasksFinish

\* shutdown ends the reactor's loop, even if it lands while the loop is about to sleep.
ShutdownStops == R!ShutdownStops
=============================================================================
