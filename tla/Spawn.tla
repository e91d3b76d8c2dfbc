-------------------------------- MODULE Spawn --------------------------------
(***************************************************************************)
(* A spawn of the map: blocks that each keep one monster alive.  A death   *)
(* schedules a check; a check starts the respawn of at most rateSpawn      *)
(* blocks whose interval is over, at once or behind a chain of teleport    *)
(* effects that ends in the respawn, and schedules the next check while a  *)
(* block is empty.  A respawn can fail: a player stands there, the tile is *)
(* full, or a script vetoes it.                                            *)
(*                                                                         *)
(* The clock is abstract: `ready' says that the interval of a block is     *)
(* over since its lastSpawn.  Monsters may die for ever; failed respawns   *)
(* and reloads are bounded.                                                *)
(***************************************************************************)
EXTENDS Naturals, FiniteSets

CONSTANTS Blocks,
          rateSpawn,      \* how many blocks one check may serve
          EffectSteps,    \* the longest chain of effects
          MaxFailures, MaxReloads

ASSUME SpawnAssumption ==
    /\ rateSpawn \in Nat \ {0} /\ EffectSteps \in Nat \ {0}
    /\ MaxFailures \in Nat /\ MaxReloads \in Nat

VARIABLES
    spawnedMap,      \* the entry of a block: "none", "alive", or "removed": its monster is gone
    monsters,        \* how many living monsters came out of a block
    checkSpawnEvent, \* whether the spawn knows of a scheduled check, and
    checks,          \* how many checks are scheduled
    effect,          \* effectInitialInterval is set
    effectChain,           \* the steps to go of a block's chain of effects, 0 without one
    ready,           \* the interval since lastSpawn is over
    emptied,         \* history: the block has been occupied
    effectEnabled,   \* SPAWN_START_EFFECT_ENABLED
    closing,         \* GAME_STATE_SHUTDOWN
    failures, reloads

spawnVars == <<spawnedMap, monsters, checkSpawnEvent, checks, effect, effectChain, ready, emptied,
               effectEnabled, closing, failures, reloads>>
envVars == <<effectEnabled, closing, reloads>>

Occupied(map) == {b \in Blocks : map[b] # "none"}
Capped(S) == failures + Cardinality(S) <= MaxFailures

\* A check is scheduled unless the spawn knows of one.
startSpawnCheck ==
    IF checkSpawnEvent \/ closing
    THEN UNCHANGED <<checkSpawnEvent, checks>>
    ELSE checkSpawnEvent' = TRUE /\ checks' = checks + 1
-----------------------------------------------------------------------------
\* Spawn::startup: forced placement of every block; those of S could not be placed.  No check follows.
startupSpawn(S) ==
    /\ spawnedMap = [b \in Blocks |-> IF b \in S THEN "none" ELSE "alive"]
    /\ monsters = [b \in Blocks |-> IF b \in S THEN 0 ELSE 1]

\* A monster of the spawn is removed from the game.
onCreatureDisappear(b) ==
    /\ monsters[b] > 0
    /\ monsters' = [monsters EXCEPT ![b] = @ - 1]
    /\ spawnedMap' = [spawnedMap EXCEPT ![b] = "removed"]
    /\ ready' = [ready EXCEPT ![b] = FALSE]
    /\ emptied' = [emptied EXCEPT ![b] = TRUE]
    /\ startSpawnCheck
    /\ UNCHANGED <<effect, effectChain, effectEnabled, closing, failures, reloads>>

\* The interval of an empty block is over.
elapse(b) ==
    /\ spawnedMap[b] # "alive" /\ ~ready[b]
    /\ ready' = [ready EXCEPT ![b] = TRUE]
    /\ UNCHANGED <<spawnedMap, monsters, checkSpawnEvent, checks, effect, effectChain, emptied, failures, envVars>>

\* cleanup drops the entries of removed monsters.
cleanup(map) == [b \in Blocks |-> IF map[b] = "removed" THEN "none" ELSE map[b]]

\* The blocks one pass serves: it stops after rateSpawn of them, and those in `failed' do not count.
Pass(candidates, served, failed) ==
    /\ served \cup failed \subseteq candidates /\ served \cap failed = {}
    /\ Cardinality(served) <= rateSpawn
    /\ Cardinality(served) < rateSpawn => served \cup failed = candidates

\* The end of a check: another one while a block is empty.
Recheck(map) == checkSpawnEvent' = (Occupied(map) # Blocks)

\* checkSpawn; the mode of the respawn is read from the configuration.
checkSpawn ==
    /\ checks > 0 /\ ~closing
    /\ LET map == cleanup(spawnedMap)
           candidates == {b \in Blocks : map[b] = "none" /\ ready[b]}
       IN  \/ /\ effectEnabled
              /\ \E served \in SUBSET candidates :
                    LET starts == {b \in served : ~effect[b]}
                    IN  /\ Pass(candidates, served, {})
                        /\ effect' = [b \in Blocks |-> effect[b] \/ b \in starts]
                        /\ effectChain' = [b \in Blocks |-> IF b \in starts THEN EffectSteps ELSE effectChain[b]]
                        /\ ready' = [b \in Blocks |-> ready[b] /\ b \notin starts]
              /\ spawnedMap' = map
              /\ Recheck(map)
              /\ UNCHANGED <<monsters, failures>>
           \/ /\ ~effectEnabled
              /\ \E served, failed \in SUBSET candidates :
                    LET filled == [b \in Blocks |-> IF b \in served THEN "alive" ELSE map[b]]
                    IN  /\ Pass(candidates, served, failed)
                        /\ Capped(failed) /\ failures' = failures + Cardinality(failed)
                        /\ spawnedMap' = filled
                        /\ monsters' = [b \in Blocks |-> IF b \in served THEN 1 + monsters[b] ELSE monsters[b]]
                        /\ ready' = [b \in Blocks |-> ready[b] /\ b \notin served \cup failed]
                        /\ Recheck(filled)
              /\ UNCHANGED <<effect, effectChain>>
    /\ checks' = checks - 1 + (IF checkSpawnEvent' THEN 1 ELSE 0)
    /\ UNCHANGED <<emptied, envVars>>

\* scheduleSpawn: one more effect, and the chain is shorter.
scheduleSpawn(b) ==
    /\ effectChain[b] > 1
    /\ effectChain' = [effectChain EXCEPT ![b] = @ - 1]
    /\ UNCHANGED <<spawnedMap, monsters, checkSpawnEvent, checks, effect, ready, emptied, failures, envVars>>

\* Wrong variant: the end of a chain leaves the effect of the block set.
EffectStays(b) == UNCHANGED effect

\* The end of a chain, whether the respawn succeeds or not.
EffectAfter(b) == effect' = [effect EXCEPT ![b] = FALSE]

\* Wrong variant: the entry is overwritten.
MayInsertOver(b) == TRUE

\* spawnMonster at the end of a chain: a block that has an entry takes no second monster.
MayInsert(b) == spawnedMap[b] = "none"

spawnMonster(b) ==
    /\ effectChain[b] = 1
    /\ effectChain' = [effectChain EXCEPT ![b] = 0]
    /\ EffectAfter(b)
    /\ \/ /\ MayInsert(b)
          /\ spawnedMap' = [spawnedMap EXCEPT ![b] = "alive"]
          /\ monsters' = [monsters EXCEPT ![b] = @ + 1]
          /\ ready' = [ready EXCEPT ![b] = FALSE]
          /\ UNCHANGED failures
       \/ /\ ~MayInsert(b)   \* placed and removed again
          /\ UNCHANGED <<spawnedMap, monsters, ready, failures>>
       \/ /\ Capped({b}) /\ failures' = failures + 1
          /\ UNCHANGED <<spawnedMap, monsters, ready>>
    /\ UNCHANGED <<checkSpawnEvent, checks, emptied, envVars>>

\* The configuration is reloaded with the other mode.
reload ==
    /\ reloads < MaxReloads
    /\ reloads' = reloads + 1
    /\ effectEnabled' = ~effectEnabled
    /\ UNCHANGED <<spawnedMap, monsters, checkSpawnEvent, checks, effect, effectChain, ready, emptied, closing,
                   failures>>

\* The game shuts down and stops the events of its spawns.
stopEvent ==
    /\ ~closing /\ closing' = TRUE
    /\ checkSpawnEvent' = FALSE
    /\ checks' = IF checkSpawnEvent THEN checks - 1 ELSE checks
    /\ effectChain' = [b \in Blocks |-> 0]
    /\ UNCHANGED <<spawnedMap, monsters, effect, ready, emptied, effectEnabled, failures, reloads>>
-----------------------------------------------------------------------------
SpawnInit ==
    /\ \E S \in SUBSET Blocks : startupSpawn(S)
    /\ checkSpawnEvent = FALSE /\ checks = 0
    /\ effect = [b \in Blocks |-> FALSE] /\ effectChain = [b \in Blocks |-> 0]
    /\ ready = [b \in Blocks |-> TRUE] /\ emptied = [b \in Blocks |-> FALSE]
    /\ effectEnabled \in BOOLEAN /\ closing = FALSE
    /\ failures = 0 /\ reloads = 0

SpawnNext ==
    \/ checkSpawn \/ reload \/ stopEvent
    \/ \E b \in Blocks : onCreatureDisappear(b) \/ elapse(b) \/ scheduleSpawn(b) \/ spawnMonster(b)

SpawnSpec == SpawnInit /\ [][SpawnNext]_spawnVars

(***************************************************************************)
(* Scheduled events fire and intervals pass.                               *)
(***************************************************************************)
SpawnFairness ==
    /\ WF_spawnVars(checkSpawn)
    /\ \A b \in Blocks : /\ WF_spawnVars(elapse(b))
                         /\ WF_spawnVars(scheduleSpawn(b) \/ spawnMonster(b))
-----------------------------------------------------------------------------
(***************************************************************************)
(* A block has at most one living monster, whichever of a direct respawn   *)
(* and a chain of effects that was still under way comes first, and the    *)
(* living one is the block's entry.                                        *)
(***************************************************************************)
OneMonsterPerBlock ==
    \A b \in Blocks : monsters[b] <= 1 /\ (monsters[b] = 1 <=> spawnedMap[b] = "alive")

(***************************************************************************)
(* A block whose monster has gone is waited for by exactly one check, and  *)
(* the spawn knows of the check whenever there is one.                     *)
(***************************************************************************)
EmptiedIsChecked ==
    /\ checks = (IF checkSpawnEvent THEN 1 ELSE 0)
    /\ ~closing => \A b \in Blocks : emptied[b] /\ spawnedMap[b] # "alive" => checkSpawnEvent

(***************************************************************************)
(* Once no monster dies any more, every block whose monster has gone has   *)
(* one again, unless the game shuts down: a chain that failed, a mode that *)
(* changed under a chain, or a check that spent its rateSpawn on others    *)
(* does not leave a block empty for good.  While deaths go on nothing is   *)
(* promised to a block: a check visits the blocks in the order of spawnMap *)
(* and stops at rateSpawn, so earlier blocks that keep dying starve it.    *)
(***************************************************************************)
DeathsEnd == <>[][\A b \in Blocks : monsters'[b] >= monsters[b]]_monsters

BlocksRefill ==
    DeathsEnd =>
        \A b \in Blocks :
            (emptied[b] /\ spawnedMap[b] # "alive") ~> (spawnedMap[b] = "alive" \/ closing)

(***************************************************************************)
(* Blocks, monsters and the check agree, in either mode of respawn and     *)
(* when the mode changes while chains of effects are under way.            *)
(***************************************************************************)
BlocksAgree == OneMonsterPerBlock /\ EmptiedIsChecked

=============================================================================
