---------------------------- MODULE CreatureCheck ----------------------------
(***************************************************************************)
(* The periodic check that lets creatures think.  A creature in the game   *)
(* is an entry of one of a few lists; a callback goes through one list,    *)
(* the next callback through the next.  A monster that nobody watches is   *)
(* idle and taken out, by a mark only: the callback that meets it drops    *)
(* the entry.                                                              *)
(*                                                                         *)
(* While a callback goes through its list the creatures think, and their   *)
(* thinking places, wakes, kills and removes creatures: those actions      *)
(* happen between two entries as well as between two callbacks.            *)
(***************************************************************************)
EXTENDS Naturals, Sequences, FiniteSets, SequencesExt

CONSTANTS Monsters,
          EVENT_CREATURECOUNT,  \* the number of lists
          NullEntry

ASSUME CreatureCheckAssumption ==
    EVENT_CREATURECOUNT \in Nat \ {0} /\ NullEntry \notin Monsters

VARIABLES
    status,              \* of a monster: "created", "placed", "dead" or "removed"
    isIdle,
    creatureCheck,       \* it is to think
    inCheckCreatures,    \* inCheckCreaturesVector, it counts as an entry
    checkCreatureLists,
    visiting,            \* the position of the running callback, 0 between two
    list,                \* the list of the running or the next callback
    due, thought,        \* history: who is to think, and who has, in the callback
    wokenEarly,          \* history: who was woken before it was placed
    shuttingDown

checkVars == <<status, isIdle, creatureCheck, inCheckCreatures, checkCreatureLists, visiting, list, due,
               thought, wokenEarly, shuttingDown>>

Lists == 1..EVENT_CREATURECOUNT
Entries == checkCreatureLists[list]

\* The first of the shortest lists.
targetBucket ==
    CHOOSE l \in Lists :
        /\ \A m \in Lists : Len(checkCreatureLists[l]) <= Len(checkCreatureLists[m])
        /\ \A m \in 1..(l - 1) : Len(checkCreatureLists[m]) > Len(checkCreatureLists[l])

NeedsEntry(c) == ~inCheckCreatures[c]

\* addCreatureCheck of a creature the game knows, or does not know yet, as `entry'; it is to think if `thinks'.
addCreatureCheck(c, entry, thinks) ==
    IF shuttingDown
    THEN UNCHANGED <<creatureCheck, inCheckCreatures, checkCreatureLists>>
    ELSE /\ creatureCheck' = [creatureCheck EXCEPT ![c] = thinks]
         /\ inCheckCreatures' = [inCheckCreatures EXCEPT ![c] = TRUE]
         /\ checkCreatureLists' = IF NeedsEntry(c)
                                  THEN [checkCreatureLists EXCEPT ![targetBucket] = Append(@, entry)]
                                  ELSE checkCreatureLists

\* removeCreatureCheck only takes the mark.
removeCreatureCheck(c) ==
    /\ creatureCheck' = [creatureCheck EXCEPT ![c] = @ /\ ~inCheckCreatures[c]]
    /\ due' = due \ {c}
    /\ UNCHANGED <<inCheckCreatures, checkCreatureLists>>
-----------------------------------------------------------------------------
\* placeCreature, and onPlacedCreature that takes an idle monster out again.
placeCreature(c) ==
    /\ status[c] = "created"
    /\ status' = [status EXCEPT ![c] = "placed"]
    /\ addCreatureCheck(c, c, ~isIdle[c])
    /\ UNCHANGED <<isIdle, visiting, list, due, thought, wokenEarly, shuttingDown>>

\* setIdle(false): a player comes near, or the monster is hurt; a script may do it before it is placed.
wake(c) ==
    /\ status[c] \in {"created", "placed"} /\ isIdle[c]
    /\ isIdle' = [isIdle EXCEPT ![c] = FALSE]
    /\ addCreatureCheck(c, IF status[c] = "placed" THEN c ELSE NullEntry, TRUE)
    /\ wokenEarly' = IF status[c] = "created" THEN wokenEarly \cup {c} ELSE wokenEarly
    /\ UNCHANGED <<status, visiting, list, due, thought, shuttingDown>>

\* setIdle(true).
rest(c) ==
    /\ status[c] \in {"created", "placed"} /\ ~isIdle[c]
    /\ isIdle' = [isIdle EXCEPT ![c] = TRUE]
    /\ removeCreatureCheck(c)
    /\ UNCHANGED <<status, visiting, list, thought, wokenEarly, shuttingDown>>

\* Its health is gone; the removal follows.
loseHealth(c) ==
    /\ status[c] = "placed"
    /\ status' = [status EXCEPT ![c] = "dead"]
    /\ due' = due \ {c}
    /\ UNCHANGED <<isIdle, creatureCheck, inCheckCreatures, checkCreatureLists, visiting, list, thought,
                   wokenEarly, shuttingDown>>

\* removeCreature; a monster that is not dead falls idle when it disappears.
removeCreature(c) ==
    /\ status[c] \in {"placed", "dead"}
    /\ status' = [status EXCEPT ![c] = "removed"]
    /\ isIdle' = [isIdle EXCEPT ![c] = @ \/ status[c] = "placed"]
    /\ removeCreatureCheck(c)
    /\ UNCHANGED <<visiting, list, thought, wokenEarly, shuttingDown>>
-----------------------------------------------------------------------------
\* A callback begins with the first entry of its list.
checkCreatures ==
    /\ visiting = 0 /\ ~shuttingDown
    /\ visiting' = 1
    /\ thought' = {}
    /\ due' = {c \in Monsters : status[c] = "placed" /\ creatureCheck[c] /\ Contains(Entries, c)}
    /\ UNCHANGED <<status, isIdle, creatureCheck, inCheckCreatures, checkCreatureLists, list, wokenEarly,
                   shuttingDown>>

\* The last entry takes the place of entry i.
WithoutEntry(s, i) == Front([s EXCEPT ![i] = Last(s)])

\* Wrong variant: the entry that took the place is skipped.
PositionSkips(i) == i + 1

PositionAfterDrop(i) == i

\* Wrong variant: the creature still counts as an entry.
FlagStays(c) == inCheckCreatures[c]

FlagAfterDrop(c) == FALSE

\* The entry is dropped: it is null, or its creature is not to think.
dropEntry ==
    /\ visiting \in DOMAIN Entries
    /\ LET c == Entries[visiting]
       IN  /\ c # NullEntry => ~creatureCheck[c]
           /\ inCheckCreatures' = IF c = NullEntry THEN inCheckCreatures
                                  ELSE [inCheckCreatures EXCEPT ![c] = FlagAfterDrop(c)]
    /\ checkCreatureLists' = [checkCreatureLists EXCEPT ![list] = WithoutEntry(@, visiting)]
    /\ visiting' = PositionAfterDrop(visiting)
    /\ UNCHANGED <<status, isIdle, creatureCheck, list, due, thought, wokenEarly, shuttingDown>>

\* The creature of the entry thinks, or loses its mark because it is dead or gone.
visitEntry ==
    /\ visiting \in DOMAIN Entries
    /\ LET c == Entries[visiting]
       IN  /\ c # NullEntry /\ creatureCheck[c]
           /\ \/ /\ status[c] = "placed"
                 /\ thought' = thought \cup {c}
                 /\ UNCHANGED creatureCheck
              \/ /\ status[c] # "placed"
                 /\ creatureCheck' = [creatureCheck EXCEPT ![c] = FALSE]
                 /\ UNCHANGED thought
    /\ visiting' = visiting + 1
    /\ UNCHANGED <<status, isIdle, inCheckCreatures, checkCreatureLists, list, due, wokenEarly, shuttingDown>>

\* The end of the list: the next callback takes the next list.
scheduleNext ==
    /\ visiting > Len(Entries)
    /\ visiting' = 0
    /\ list' = (list % EVENT_CREATURECOUNT) + 1
    /\ UNCHANGED <<status, isIdle, creatureCheck, inCheckCreatures, checkCreatureLists, due, thought,
                   wokenEarly, shuttingDown>>

\* The game state becomes GAME_STATE_SHUTDOWN; nothing is entered any more.
shutDown ==
    /\ ~shuttingDown /\ shuttingDown' = TRUE
    /\ UNCHANGED <<status, isIdle, creatureCheck, inCheckCreatures, checkCreatureLists, visiting, list, due,
                   thought, wokenEarly>>
-----------------------------------------------------------------------------
CheckInit ==
    /\ status = [c \in Monsters |-> "created"] /\ isIdle = [c \in Monsters |-> TRUE]
    /\ creatureCheck = [c \in Monsters |-> FALSE] /\ inCheckCreatures = [c \in Monsters |-> FALSE]
    /\ checkCreatureLists = [l \in Lists |-> <<>>]
    /\ visiting = 0 /\ list = 1
    /\ due = {} /\ thought = {} /\ wokenEarly = {}
    /\ shuttingDown = FALSE

CheckNext ==
    \/ checkCreatures \/ dropEntry \/ visitEntry \/ scheduleNext \/ shutDown
    \/ \E c \in Monsters : placeCreature(c) \/ wake(c) \/ rest(c) \/ loseHealth(c) \/ removeCreature(c)

CheckSpec == CheckInit /\ [][CheckNext]_checkVars
-----------------------------------------------------------------------------
(***************************************************************************)
(* A creature is an entry at most once, in one list, and counts as an      *)
(* entry while it is one.                                                  *)
(***************************************************************************)
EnteredOnce ==
    \A l \in Lists : \A i \in DOMAIN checkCreatureLists[l] :
        LET c == checkCreatureLists[l][i] IN
        c \in Monsters =>
            /\ inCheckCreatures[c]
            /\ \A m \in Lists : \A j \in DOMAIN checkCreatureLists[m] :
                  checkCreatureLists[m][j] = c => m = l /\ j = i

(***************************************************************************)
(* When a callback is over, every creature of its list that was to think   *)
(* and was not taken out meanwhile has thought, whatever entries were      *)
(* dropped, moved and added while the callback went through the list.      *)
(***************************************************************************)
CallbackReachesAll == visiting = 0 => due \subseteq thought

(***************************************************************************)
(* A monster in the game that is alive and not idle is an entry and is to  *)
(* think, however often it rested and woke before its entry was met; only  *)
(* one that was woken before the game knew it may be left out.             *)
(***************************************************************************)
ActiveIsChecked ==
    ~shuttingDown => \A c \in Monsters \ wokenEarly :
        (status[c] = "placed" /\ ~isIdle[c]) =>
            creatureCheck[c] /\ \E l \in Lists : Contains(checkCreatureLists[l], c)

(***************************************************************************)
(* Marks and lists agree: an active monster is an entry, once, although    *)
(* the mark is taken at once and the entry only when it is met.            *)
(***************************************************************************)
ListsAgree == EnteredOnce /\ ActiveIsChecked

=============================================================================
