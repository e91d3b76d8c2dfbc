---- MODULE GameplayProofs ----
(***************************************************************************)
(* Proofs about the parts of the game that only the dispatcher changes:    *)
(* spawns (Spawn), the buckets of creatures that think (CreatureCheck),    *)
(* parties (Party), trades (Trade) and the waiting list (WaitingList), for *)
(* every set of blocks, monsters, players, parties, items and clients.     *)
(*                                                                         *)
(* Each part has an inductive invariant, a lemma that its initial states   *)
(* have it and lemmas that its steps keep it.  What the operators of Party *)
(* do to the references of players and parties is stated on its own, for   *)
(* any state of them: a handler that calls several is then one application *)
(* after the other.                                                        *)
(***************************************************************************)
EXTENDS Spawn, CreatureCheck, Party, Trade, WaitingList, FiniteSetTheorems, SequenceTheorems,
        WellFoundedInduction, TLAPS

\* A set of numbers has a least one; induction is by the least exception.
LEMMA NatMin ==
    ASSUME NEW T \in SUBSET Nat, T # {}
    PROVE  \E x \in T : \A y \in T : x <= y
<1> DEFINE R == OpToRel(<, Nat)
<1>1. IsWellFoundedOn(R, Nat)
  BY NatLessThanWellFounded
<1>2. \A x, y \in Nat : x < y => <<x, y>> \in R
  BY DEF OpToRel
<1> HIDE DEF R
<1>3. PICK x \in T : \A y \in T : ~(<<y, x>> \in R)
  BY <1>1, WFMin, Zenon
<1>4. \A y \in T : x \in Nat /\ y \in Nat /\ ~(y < x)
  BY <1>2, <1>3
<1>5. \A y \in T : x <= y
  BY <1>4
<1> QED
  BY <1>5

-----------------------------------------------------------------------------
\* Spawns (src/src/spawn.cpp).

\* The variables of Spawn have their types.
SpawnTypeOK ==
    /\ spawnedMap \in [Blocks -> {"none", "alive", "removed"}]
    /\ monsters \in [Blocks -> Nat]
    /\ checkSpawnEvent \in BOOLEAN /\ checks \in Nat
    /\ emptied \in [Blocks -> BOOLEAN] /\ closing \in BOOLEAN

\* The inductive invariant: a block that is alive has one monster, and a block that was emptied has
\* a check under way.
SpawnInv == SpawnTypeOK /\ OneMonsterPerBlock /\ EmptiedIsChecked

\* Spawn::startup leaves one monster in every block it fills, and no check.
LEMMA SpawnStarts == SpawnInit => SpawnInv
<1> SUFFICES ASSUME SpawnInit PROVE SpawnInv
  OBVIOUS
<1>1. PICK S \in SUBSET Blocks : startupSpawn(S)
  BY DEF SpawnInit
<1>2. OneMonsterPerBlock /\ spawnedMap \in [Blocks -> {"none", "alive", "removed"}] /\ monsters \in [Blocks -> Nat]
  BY <1>1 DEF startupSpawn, OneMonsterPerBlock
<1>3. checkSpawnEvent = FALSE /\ checks = 0 /\ emptied = [b \in Blocks |-> FALSE] /\ closing = FALSE
  BY DEF SpawnInit
<1>4. EmptiedIsChecked
  <2>1. \A b \in Blocks : ~emptied[b]
    BY <1>3
  <2> QED
    BY <1>3, <2>1 DEF EmptiedIsChecked
<1> QED
  BY <1>2, <1>3, <1>4 DEF SpawnInv, SpawnTypeOK

\* Every step of Spawn keeps the invariant: a monster that disappears starts the check unless one is
\* scheduled, and the check is scheduled again while a block is empty.
LEMMA SpawnStep ==
    ASSUME SpawnInv, [SpawnNext]_spawnVars
    PROVE  SpawnInv'
<1> USE DEF SpawnInv, SpawnTypeOK, OneMonsterPerBlock, EmptiedIsChecked
<1>1. ASSUME NEW b \in Blocks, onCreatureDisappear(b) PROVE SpawnInv'
  <2>1. monsters[b] = 1 /\ spawnedMap[b] = "alive"
    BY <1>1 DEF onCreatureDisappear
  <2>2. /\ monsters' = [monsters EXCEPT ![b] = 0]
        /\ spawnedMap' = [spawnedMap EXCEPT ![b] = "removed"]
        /\ emptied' = [emptied EXCEPT ![b] = TRUE]
        /\ closing' = closing
    BY <1>1, <2>1 DEF onCreatureDisappear
  <2>3. OneMonsterPerBlock'
    BY <2>2
  <2>4. CASE checkSpawnEvent \/ closing
    <3>1. checkSpawnEvent' = checkSpawnEvent /\ checks' = checks
      BY <1>1, <2>4 DEF onCreatureDisappear, startSpawnCheck
    <3>2. SpawnTypeOK'
      BY <3>1, <2>2
    <3>3. EmptiedIsChecked'
      BY <2>2, <2>4, <3>1
    <3> QED
      BY <2>3, <3>2, <3>3
  <2>5. CASE ~(checkSpawnEvent \/ closing)
    <3>1. checkSpawnEvent' = TRUE /\ checks' = checks + 1
      BY <1>1, <2>5 DEF onCreatureDisappear, startSpawnCheck
    <3>2. checks = 0
      BY <2>5
    <3>3. SpawnTypeOK'
      BY <3>1, <2>2
    <3>4. EmptiedIsChecked'
      BY <2>2, <2>5, <3>1, <3>2
    <3> QED
      BY <2>3, <3>3, <3>4
  <2> QED
    BY <2>4, <2>5
<1>2. ASSUME NEW b \in Blocks, elapse(b) \/ scheduleSpawn(b) PROVE SpawnInv'
  BY <1>2 DEF elapse, scheduleSpawn, envVars
<1>3. ASSUME NEW b \in Blocks, spawnMonster(b) PROVE SpawnInv'
  BY <1>3 DEF spawnMonster, MayInsert, envVars
<1>4. ASSUME checkSpawn PROVE SpawnInv'
  <2> DEFINE map == cleanup(spawnedMap)
             candidates == {b \in Blocks : map[b] = "none" /\ ready[b]}
  <2>0. map \in [Blocks -> {"none", "alive"}] /\ \A b \in Blocks : map[b] = "alive" <=> monsters[b] = 1
    BY DEF cleanup
  <2>1. checkSpawnEvent /\ checks = 1 /\ ~closing /\ UNCHANGED <<emptied, closing>>
        /\ checks' = IF checkSpawnEvent' THEN 1 ELSE 0
    BY <1>4 DEF checkSpawn, envVars, Recheck
  <2>2. ASSUME spawnedMap' = map, Recheck(map), UNCHANGED monsters PROVE SpawnInv'
    BY <2>0, <2>1, <2>2 DEF Recheck, Occupied
  <2>3. ASSUME NEW served \in SUBSET candidates,
               spawnedMap' = [b \in Blocks |-> IF b \in served THEN "alive" ELSE map[b]],
               monsters' = [b \in Blocks |-> IF b \in served THEN 1 + monsters[b] ELSE monsters[b]],
               Recheck([b \in Blocks |-> IF b \in served THEN "alive" ELSE map[b]])
        PROVE  SpawnInv'
    <3>1. \A b \in served : monsters[b] = 0
      BY <2>0
    <3>2. OneMonsterPerBlock'
      BY <2>0, <2>3, <3>1
    <3>3. checkSpawnEvent' \in BOOLEAN /\ (\A b \in Blocks : spawnedMap'[b] # "alive" => checkSpawnEvent')
      BY <2>0, <2>3 DEF Recheck, Occupied
    <3>4. SpawnTypeOK'
      BY <2>0, <2>1, <2>3, <3>3
    <3> QED
      BY <2>1, <3>2, <3>3, <3>4
  <2> HIDE DEF SpawnInv, SpawnTypeOK, OneMonsterPerBlock, EmptiedIsChecked
  <2> QED
    BY <1>4, <2>2, <2>3 DEF checkSpawn
<1>5. ASSUME reload PROVE SpawnInv'
  BY <1>5 DEF reload
<1>6. ASSUME stopEvent PROVE SpawnInv'
  <2>1. /\ closing' = TRUE /\ checkSpawnEvent' = FALSE
        /\ checks' = IF checkSpawnEvent THEN checks - 1 ELSE checks
        /\ UNCHANGED <<spawnedMap, monsters, emptied>>
    BY <1>6 DEF stopEvent
  <2>2. checks' = 0
    BY <2>1
  <2>3. closing' \in BOOLEAN /\ checkSpawnEvent' \in BOOLEAN
    BY <2>1
  <2>4. OneMonsterPerBlock'
    BY <2>1
  <2>5. SpawnTypeOK'
    BY <2>1, <2>2, <2>3
  <2>6. EmptiedIsChecked'
    BY <2>1, <2>2
  <2> QED
    BY <2>4, <2>5, <2>6
<1>7. CASE UNCHANGED spawnVars
  BY <1>7 DEF spawnVars
<1> QED
  BY <1>1, <1>2, <1>3, <1>4, <1>5, <1>6, <1>7 DEF SpawnNext

\* For every set of blocks: spawnedMap knows the monsters of every block and a block that was
\* emptied is looked at again, in either mode of respawn (Spawn::checkSpawn, startSpawnCheck).
THEOREM BlocksAgreeTheorem == SpawnSpec => []BlocksAgree
<1>1. SpawnInv => BlocksAgree
  BY DEF SpawnInv, BlocksAgree
<1> QED
  BY <1>1, SpawnStarts, SpawnStep, PTL DEF SpawnSpec

-----------------------------------------------------------------------------
\* The buckets of creatures (Game::checkCreatures, addCreatureCheck).

\* What a bucket holds: a monster, or the null pointer of an expired weak reference.
CheckEntry == Monsters \cup {NullEntry}

\* The variables of CreatureCheck have their types.
CheckTypes ==
    /\ status \in [Monsters -> {"created", "placed", "dead", "removed"}]
    /\ isIdle \in [Monsters -> BOOLEAN] /\ creatureCheck \in [Monsters -> BOOLEAN]
    /\ inCheckCreatures \in [Monsters -> BOOLEAN]
    /\ checkCreatureLists \in [Lists -> Seq(CheckEntry)]
    /\ visiting \in Nat /\ list \in Lists
    /\ due \in SUBSET Monsters /\ thought \in SUBSET Monsters /\ wokenEarly \in SUBSET Monsters
    /\ shuttingDown \in BOOLEAN

\* A creature has one entry in all lists.
EntriesApart(lists) ==
    \A l, m \in Lists : \A i \in 1 .. Len(lists[l]), j \in 1 .. Len(lists[m]) :
        lists[l][i] # NullEntry /\ lists[l][i] = lists[m][j] => l = m /\ i = j

\* An entry is marked as one, and a marked creature that was known to the game is an entry.
EntriesMarked(lists, marks, woken) ==
    /\ \A l \in Lists : \A i \in 1 .. Len(lists[l]) : lists[l][i] # NullEntry => marks[lists[l][i]]
    /\ \A c \in Monsters \ woken : marks[c] => \E l \in Lists : Contains(lists[l], c)

\* A creature that is to think and may is marked as an entry.
ActiveMarked ==
    ~shuttingDown => \A c \in Monsters \ wokenEarly :
        status[c] = "placed" /\ ~isIdle[c] => creatureCheck[c] /\ inCheckCreatures[c]

\* Who is still to think in the callback is ahead of it.
DueAhead ==
    \A c \in due : /\ status[c] = "placed" /\ creatureCheck[c]
                   /\ c \in thought \/ (visiting > 0 /\ \E i \in 1 .. Len(Entries) : i >= visiting /\ Entries[i] = c)

\* The inductive invariant: the types, one entry for each creature, entries and marks that agree,
\* active monsters that are marked, and those still to be visited ahead of the callback.
CheckInv ==
    /\ CheckTypes /\ EntriesApart(checkCreatureLists)
    /\ EntriesMarked(checkCreatureLists, inCheckCreatures, wokenEarly) /\ ActiveMarked /\ DueAhead

\* The game starts with empty buckets.
LEMMA CheckStarts == CheckInit => CheckInv
<1> SUFFICES ASSUME CheckInit PROVE CheckInv
  OBVIOUS
<1>1. /\ \A l \in Lists : Len(checkCreatureLists[l]) = 0
      /\ checkCreatureLists \in [Lists -> Seq(CheckEntry)] /\ 1 \in Lists
  BY CreatureCheckAssumption DEF CheckInit, Lists
<1>2. CheckTypes
  BY <1>1 DEF CheckInit, CheckTypes
<1>3. EntriesApart(checkCreatureLists) /\ DueAhead
  BY <1>1 DEF CheckInit, EntriesApart, DueAhead
<1>4. EntriesMarked(checkCreatureLists, inCheckCreatures, wokenEarly) /\ ActiveMarked
  BY <1>1 DEF CheckInit, EntriesMarked, ActiveMarked
<1> QED
  BY <1>2, <1>3, <1>4 DEF CheckInv

\* The bucket that Game::addCreatureCheck chooses, the shortest one, is a bucket.
LEMMA TargetIsAList ==
    ASSUME CheckTypes
    PROVE  targetBucket \in Lists
<1> DEFINE P(l) == /\ \A m \in Lists : Len(checkCreatureLists[l]) <= Len(checkCreatureLists[m])
                   /\ \A m \in 1..(l - 1) : Len(checkCreatureLists[m]) > Len(checkCreatureLists[l])
           T == {Len(checkCreatureLists[l]) : l \in Lists}
<1>1. 1 \in Lists /\ Lists \subseteq Nat /\ \A l \in Lists : Len(checkCreatureLists[l]) \in Nat
  BY CreatureCheckAssumption DEF Lists, CheckTypes
<1>2. T \in SUBSET Nat /\ T # {}
  BY <1>1
<1>3. PICK v \in T : \A y \in T : v <= y
  <2> HIDE DEF T
  <2> QED
    BY <1>2, NatMin
<1> DEFINE U == {l \in Lists : Len(checkCreatureLists[l]) = v}
<1>4. U \in SUBSET Nat /\ U # {}
  BY <1>1, <1>3
<1>5. PICK l \in U : \A y \in U : l <= y
  <2> HIDE DEF U
  <2> QED
    BY <1>4, NatMin
<1>6. \A m \in Lists : v <= Len(checkCreatureLists[m])
  BY <1>3
<1>7. ASSUME NEW m \in 1 .. (l - 1) PROVE m \in Lists /\ Len(checkCreatureLists[m]) > v
  <2>1. m \in Lists
    BY <1>5, CreatureCheckAssumption DEF Lists
  <2>2. m \notin U
    BY <1>1, <1>5
  <2> QED
    BY <1>1, <1>6, <2>1, <2>2, <1>3
<1>8. l \in Lists /\ P(l)
  BY <1>5, <1>6, <1>7
<1> HIDE DEF P
<1>9. (CHOOSE k \in Lists : P(k)) \in Lists
  BY <1>8
<1> QED
  BY <1>9 DEF targetBucket, P

\* An entry is dropped by overwriting it with the last one: what the bucket then holds.
LEMMA EntryDropped ==
    ASSUME NEW s \in Seq(CheckEntry), NEW i \in 1 .. Len(s)
    PROVE  /\ WithoutEntry(s, i) \in Seq(CheckEntry) /\ Len(WithoutEntry(s, i)) = Len(s) - 1
           /\ \A j \in 1 .. Len(s) - 1 : WithoutEntry(s, i)[j] = IF j = i THEN s[Len(s)] ELSE s[j]
<1> DEFINE t == [s EXCEPT ![i] = Last(s)]
<1>1. Len(s) \in Nat /\ Last(s) = s[Len(s)] /\ Last(s) \in CheckEntry
  BY DEF Last
<1>2. t \in Seq(CheckEntry) /\ Len(t) = Len(s) /\ \A j \in 1 .. Len(s) : t[j] = IF j = i THEN s[Len(s)] ELSE s[j]
  BY <1>1
<1>3. WithoutEntry(s, i) = SubSeq(t, 1, Len(t) - 1)
  BY DEF WithoutEntry, Front
<1> HIDE DEF t
<1> QED
  BY <1>1, <1>2, <1>3

\* Two places with the same creature are the same place.
LEMMA EntryIsUnique ==
    ASSUME NEW lists, EntriesApart(lists), NEW l \in Lists, NEW m \in Lists, NEW i \in 1 .. Len(lists[l]),
           NEW j \in 1 .. Len(lists[m]), lists[l][i] # NullEntry, lists[l][i] = lists[m][j]
    PROVE  l = m /\ i = j
  BY ZenonT(60) DEF EntriesApart

\* Game::addCreatureCheck: the new entry is the only one of its creature and keeps all the others
\* where they are.
LEMMA EntryAdded ==
    ASSUME CheckInv, NEW c \in Monsters, NEW entry \in {c, NullEntry}, NEW thinks \in BOOLEAN,
           addCreatureCheck(c, entry, thinks), wokenEarly \subseteq wokenEarly',
           entry = NullEntry => c \in wokenEarly'
    PROVE  /\ creatureCheck' \in [Monsters -> BOOLEAN] /\ inCheckCreatures' \in [Monsters -> BOOLEAN]
           /\ checkCreatureLists' \in [Lists -> Seq(CheckEntry)]
           /\ \A d \in Monsters \ {c} : creatureCheck'[d] = creatureCheck[d] /\ inCheckCreatures'[d] = inCheckCreatures[d]
           /\ ~shuttingDown => creatureCheck'[c] = thinks /\ inCheckCreatures'[c]
           /\ shuttingDown => creatureCheck'[c] = creatureCheck[c]
           /\ \A l \in Lists : /\ Len(checkCreatureLists'[l]) >= Len(checkCreatureLists[l])
                               /\ \A i \in 1 .. Len(checkCreatureLists[l]) :
                                     checkCreatureLists'[l][i] = checkCreatureLists[l][i]
           /\ EntriesApart(checkCreatureLists')
           /\ EntriesMarked(checkCreatureLists', inCheckCreatures', wokenEarly')
<1> DEFINE L == checkCreatureLists
           M == checkCreatureLists'
<1>1. /\ L \in [Lists -> Seq(CheckEntry)] /\ creatureCheck \in [Monsters -> BOOLEAN]
      /\ inCheckCreatures \in [Monsters -> BOOLEAN] /\ EntriesApart(L)
      /\ EntriesMarked(L, inCheckCreatures, wokenEarly) /\ targetBucket \in Lists
      /\ NullEntry \notin Monsters
  BY TargetIsAList, CreatureCheckAssumption DEF CheckInv, CheckTypes
<1>2. CASE shuttingDown
  <2>1. creatureCheck' = creatureCheck /\ inCheckCreatures' = inCheckCreatures /\ M = L
    BY <1>2 DEF addCreatureCheck
  <2>2. EntriesMarked(M, inCheckCreatures', wokenEarly')
    BY <1>1, <2>1 DEF EntriesMarked
  <2> QED
    BY <1>1, <1>2, <2>1, <2>2
<1>3. CASE ~shuttingDown /\ inCheckCreatures[c]
  <2>1. /\ creatureCheck' = [creatureCheck EXCEPT ![c] = thinks] /\ M = L
        /\ inCheckCreatures' = [inCheckCreatures EXCEPT ![c] = TRUE]
    BY <1>3 DEF addCreatureCheck, NeedsEntry
  <2>2. inCheckCreatures' = inCheckCreatures
    BY <1>1, <1>3, <2>1
  <2>3. EntriesMarked(M, inCheckCreatures', wokenEarly')
    BY <1>1, <2>1, <2>2 DEF EntriesMarked
  <2> QED
    BY <1>1, <1>3, <2>1, <2>2, <2>3
<1>4. CASE ~shuttingDown /\ ~inCheckCreatures[c]
  <2> DEFINE b == targetBucket
  <2>1. /\ creatureCheck' = [creatureCheck EXCEPT ![c] = thinks] /\ M = [L EXCEPT ![b] = Append(@, entry)]
        /\ inCheckCreatures' = [inCheckCreatures EXCEPT ![c] = TRUE]
    BY <1>4 DEF addCreatureCheck, NeedsEntry
  <2>2. entry \in CheckEntry
    BY DEF CheckEntry
  <2> HIDE DEF b, L, M
  <2>3. b \in Lists /\ L[b] \in Seq(CheckEntry) /\ Len(L[b]) \in Nat
    BY <1>1 DEF b
  <2>4. /\ M \in [Lists -> Seq(CheckEntry)] /\ Len(M[b]) = Len(L[b]) + 1 /\ M[b][Len(L[b]) + 1] = entry
        /\ \A i \in 1 .. Len(L[b]) : M[b][i] = L[b][i]
        /\ \A l \in Lists : l # b => M[l] = L[l]
    BY <1>1, <2>1, <2>2, <2>3
  <2>5. ASSUME NEW l \in Lists
        PROVE  /\ Len(M[l]) \in Nat /\ Len(L[l]) \in Nat /\ Len(M[l]) >= Len(L[l])
               /\ \A i \in 1 .. Len(L[l]) : M[l][i] = L[l][i]
               /\ \A i \in 1 .. Len(M[l]) : \/ i \in 1 .. Len(L[l]) /\ M[l][i] = L[l][i]
                                            \/ l = b /\ i = Len(L[b]) + 1 /\ M[l][i] = entry
    <3>1. CASE l = b
      BY <2>3, <2>4, <3>1
    <3>2. CASE l # b
      <4>1. M[l] = L[l] /\ L[l] \in Seq(CheckEntry)
        BY <1>1, <2>4, <3>2
      <4>2. Len(L[l]) \in Nat
        BY <4>1
      <4> QED
        BY <4>1, <4>2
    <3> QED
      BY <3>1, <3>2
  <2>6. \A l \in Lists : \A i \in 1 .. Len(L[l]) : L[l][i] # c
    BY <1>1, <1>4 DEF EntriesMarked
  <2>7. EntriesApart(M)
    <3> SUFFICES ASSUME NEW l \in Lists, NEW m \in Lists, NEW i \in 1 .. Len(M[l]), NEW j \in 1 .. Len(M[m]),
                        M[l][i] # NullEntry, M[l][i] = M[m][j]
                 PROVE  l = m /\ i = j
      BY DEF EntriesApart
    <3>1. CASE i \in 1 .. Len(L[l]) /\ M[l][i] = L[l][i] /\ j \in 1 .. Len(L[m]) /\ M[m][j] = L[m][j]
      <4>1. L[l][i] # NullEntry /\ L[l][i] = L[m][j] /\ i \in 1 .. Len(L[l]) /\ j \in 1 .. Len(L[m])
        BY <3>1
      <4>2. EntriesApart(L)
        BY <1>1
      <4> QED
        BY <4>1, <4>2, EntryIsUnique
    <3>2. CASE l = b /\ i = Len(L[b]) + 1 /\ M[l][i] = entry /\ j \in 1 .. Len(L[m]) /\ M[m][j] = L[m][j]
      BY <3>2, <2>6
    <3>3. CASE m = b /\ j = Len(L[b]) + 1 /\ M[m][j] = entry /\ i \in 1 .. Len(L[l]) /\ M[l][i] = L[l][i]
      BY <3>3, <2>6
    <3>4. CASE l = b /\ i = Len(L[b]) + 1 /\ m = b /\ j = Len(L[b]) + 1
      BY <3>4
    <3> QED
      BY <2>5, <3>1, <3>2, <3>3, <3>4
  <2>8. \A d \in Monsters : inCheckCreatures[d] => inCheckCreatures'[d]
    BY <1>1, <2>1
  <2>9. ASSUME NEW l \in Lists, NEW i \in 1 .. Len(M[l]), M[l][i] # NullEntry PROVE inCheckCreatures'[M[l][i]]
    <3>1. CASE i \in 1 .. Len(L[l]) /\ M[l][i] = L[l][i]
      <4>1. L[l][i] \in Monsters
        BY <1>1, <3>1, <2>9 DEF CheckEntry
      <4> QED
        BY <1>1, <2>8, <3>1, <4>1, <2>9 DEF EntriesMarked
    <3>2. CASE M[l][i] = entry
      BY <1>1, <2>1, <3>2, <2>9
    <3> QED
      BY <2>5, <3>1, <3>2
  <2>10. ASSUME NEW d \in Monsters \ wokenEarly', inCheckCreatures'[d] PROVE \E l \in Lists : Contains(M[l], d)
    <3>1. CASE d = c
      <4>1. M[b][Len(L[b]) + 1] = d /\ Len(L[b]) + 1 \in 1 .. Len(M[b])
        BY <2>3, <2>4, <3>1, <2>10
      <4> QED
        BY <2>3, <4>1 DEF Contains
    <3>2. CASE d # c
      <4>1. inCheckCreatures[d] /\ d \in Monsters \ wokenEarly
        BY <1>1, <2>1, <2>10, <3>2
      <4>2. PICK l \in Lists : Contains(L[l], d)
        BY <1>1, <4>1 DEF EntriesMarked
      <4>3. Contains(M[l], d)
        <5>1. PICK i \in 1 .. Len(L[l]) : L[l][i] = d
          BY <4>2 DEF Contains
        <5>2. i \in 1 .. Len(M[l]) /\ M[l][i] = d
          BY <2>5, <5>1
        <5> QED
          BY <5>2 DEF Contains
      <4> QED
        BY <4>3
    <3> QED
      BY <3>1, <3>2
  <2>11. EntriesMarked(M, inCheckCreatures', wokenEarly')
    BY <2>9, <2>10 DEF EntriesMarked
  <2>12. /\ creatureCheck' \in [Monsters -> BOOLEAN] /\ inCheckCreatures' \in [Monsters -> BOOLEAN]
         /\ \A d \in Monsters \ {c} : creatureCheck'[d] = creatureCheck[d] /\ inCheckCreatures'[d] = inCheckCreatures[d]
         /\ creatureCheck'[c] = thinks /\ inCheckCreatures'[c]
    BY <1>1, <2>1
  <2> QED
    BY <1>4, <2>4, <2>5, <2>7, <2>11, <2>12 DEF L, M
<1> QED
  BY <1>1, <1>2, <1>3, <1>4

\* What the game does to a monster between two callbacks keeps the invariant: it is placed, woken,
\* put to rest, killed or removed.
LEMMA GamestepsKeepCheckInv ==
    ASSUME CheckInv, NEW c \in Monsters,
           placeCreature(c) \/ wake(c) \/ rest(c) \/ loseHealth(c) \/ removeCreature(c)
    PROVE  CheckInv'
<1>1. CheckTypes /\ ActiveMarked /\ DueAhead /\ NullEntry \notin Monsters
  BY CreatureCheckAssumption DEF CheckInv
<1>2. ASSUME NEW entry \in {c, NullEntry}, NEW thinks \in BOOLEAN, addCreatureCheck(c, entry, thinks),
             wokenEarly' = wokenEarly \/ wokenEarly' = wokenEarly \cup {c}, entry = NullEntry => c \in wokenEarly',
             status' \in [Monsters -> {"created", "placed", "dead", "removed"}], isIdle' \in [Monsters -> BOOLEAN],
             \A d \in Monsters \ {c} : status'[d] = status[d] /\ isIdle'[d] = isIdle[d],
             status[c] = "placed" => status'[c] = "placed", status'[c] = "placed" /\ ~isIdle'[c] => thinks,
             c \in due => thinks,
             UNCHANGED <<visiting, list, due, thought, shuttingDown>>
      PROVE  CheckInv'
  <2>0. wokenEarly \subseteq wokenEarly' /\ wokenEarly' \in SUBSET Monsters
    BY <1>1, <1>2 DEF CheckTypes
  <2>1. /\ creatureCheck' \in [Monsters -> BOOLEAN] /\ inCheckCreatures' \in [Monsters -> BOOLEAN]
        /\ checkCreatureLists' \in [Lists -> Seq(CheckEntry)]
        /\ \A d \in Monsters \ {c} : creatureCheck'[d] = creatureCheck[d] /\ inCheckCreatures'[d] = inCheckCreatures[d]
        /\ ~shuttingDown => creatureCheck'[c] = thinks /\ inCheckCreatures'[c]
        /\ shuttingDown => creatureCheck'[c] = creatureCheck[c]
        /\ \A l \in Lists : /\ Len(checkCreatureLists'[l]) >= Len(checkCreatureLists[l])
                            /\ \A i \in 1 .. Len(checkCreatureLists[l]) :
                                  checkCreatureLists'[l][i] = checkCreatureLists[l][i]
        /\ EntriesApart(checkCreatureLists')
        /\ EntriesMarked(checkCreatureLists', inCheckCreatures', wokenEarly')
    BY <1>2, <2>0, EntryAdded
  <2>2. CheckTypes'
    BY <1>1, <1>2, <2>0, <2>1 DEF CheckTypes, Lists
  <2>3. ActiveMarked'
    BY <1>1, <1>2, <2>0, <2>1 DEF ActiveMarked, CheckTypes
  <2>4. ASSUME NEW d \in due PROVE status'[d] = "placed" /\ creatureCheck'[d]
    BY <1>1, <1>2, <2>1, <2>4 DEF DueAhead, CheckTypes
  <2>5. ASSUME NEW d \in due, d \notin thought
        PROVE  visiting > 0 /\ \E i \in 1 .. Len(Entries') : i >= visiting /\ Entries'[i] = d
    <3>1. visiting > 0 /\ \E i \in 1 .. Len(Entries) : i >= visiting /\ Entries[i] = d
      BY <1>1, <2>5 DEF DueAhead
    <3>2. PICK i \in 1 .. Len(Entries) : i >= visiting /\ Entries[i] = d
      BY <3>1
    <3>3. list' = list /\ list \in Lists /\ Len(Entries) \in Nat /\ Len(Entries') \in Nat
      BY <1>1, <1>2, <2>1 DEF CheckTypes, Entries
    <3>4. i \in 1 .. Len(Entries') /\ Entries'[i] = d
      <4>1. /\ Entries = checkCreatureLists[list] /\ Entries' = checkCreatureLists'[list]
        BY <3>3 DEF Entries
      <4>2. /\ Len(Entries') >= Len(Entries)
            /\ \A k \in 1 .. Len(Entries) : Entries'[k] = Entries[k]
        BY <2>1, <3>3, <4>1, Zenon
      <4> HIDE DEF Entries
      <4> QED
        BY <3>2, <3>3, <4>2
    <3> QED
      BY <3>1, <3>2, <3>4
  <2>6. DueAhead'
    BY <1>2, <2>4, <2>5 DEF DueAhead
  <2> QED
    BY <2>1, <2>2, <2>3, <2>6 DEF CheckInv
<1>3. CASE placeCreature(c)
  <2>1. /\ status[c] = "created" /\ status' = [status EXCEPT ![c] = "placed"] /\ addCreatureCheck(c, c, ~isIdle[c])
        /\ isIdle' = isIdle /\ wokenEarly' = wokenEarly /\ UNCHANGED <<visiting, list, due, thought, shuttingDown>>
    BY <1>3 DEF placeCreature
  <2>2. c \notin due /\ (~isIdle[c]) \in BOOLEAN /\ c # NullEntry
    BY <1>1, <2>1 DEF DueAhead
  <2>3. /\ status' \in [Monsters -> {"created", "placed", "dead", "removed"}] /\ isIdle' \in [Monsters -> BOOLEAN]
        /\ \A d \in Monsters \ {c} : status'[d] = status[d] /\ isIdle'[d] = isIdle[d]
    BY <1>1, <2>1 DEF CheckTypes
  <2> QED
    BY <1>2, <2>1, <2>2, <2>3
<1>4. CASE wake(c)
  <2> DEFINE entry == IF status[c] = "placed" THEN c ELSE NullEntry
  <2>1. /\ status[c] \in {"created", "placed"} /\ status' = status /\ addCreatureCheck(c, entry, TRUE)
        /\ isIdle' = [isIdle EXCEPT ![c] = FALSE]
        /\ wokenEarly' = IF status[c] = "created" THEN wokenEarly \cup {c} ELSE wokenEarly
        /\ UNCHANGED <<visiting, list, due, thought, shuttingDown>>
    BY <1>4 DEF wake
  <2>2. entry \in {c, NullEntry} /\ (entry = NullEntry => c \in wokenEarly')
    BY <1>1, <2>1
  <2>3. /\ status' \in [Monsters -> {"created", "placed", "dead", "removed"}] /\ isIdle' \in [Monsters -> BOOLEAN]
        /\ \A d \in Monsters \ {c} : status'[d] = status[d] /\ isIdle'[d] = isIdle[d]
    BY <1>1, <2>1 DEF CheckTypes
  <2>4. wokenEarly' = wokenEarly \/ wokenEarly' = wokenEarly \cup {c}
    BY <2>1
  <2> HIDE DEF entry
  <2> QED
    BY <1>2, <2>1, <2>2, <2>3, <2>4
<1>5. ASSUME removeCreatureCheck(c) \/ (UNCHANGED <<creatureCheck, inCheckCreatures, checkCreatureLists>> /\ due' = due \ {c}),
             status' \in [Monsters -> {"created", "placed", "dead", "removed"}], isIdle' \in [Monsters -> BOOLEAN],
             \A d \in Monsters \ {c} : status'[d] = status[d] /\ isIdle'[d] = isIdle[d],
             ~(status'[c] = "placed" /\ ~isIdle'[c]),
             UNCHANGED <<visiting, list, thought, wokenEarly, shuttingDown>>
      PROVE  CheckInv'
  <2>1. /\ inCheckCreatures' = inCheckCreatures /\ checkCreatureLists' = checkCreatureLists /\ due' = due \ {c}
        /\ creatureCheck' \in [Monsters -> BOOLEAN] /\ \A d \in Monsters \ {c} : creatureCheck'[d] = creatureCheck[d]
    BY <1>1, <1>5 DEF removeCreatureCheck, CheckTypes
  <2>2. CheckTypes'
    BY <1>1, <1>5, <2>1 DEF CheckTypes, Lists
  <2>3. ActiveMarked'
    BY <1>1, <1>5, <2>1 DEF ActiveMarked
  <2>4. Entries' = Entries
    BY <1>5, <2>1 DEF Entries
  <2>5. DueAhead'
    BY <1>1, <1>5, <2>1, <2>4 DEF DueAhead, CheckTypes
  <2> QED
    BY <1>5, <2>1, <2>2, <2>3, <2>5 DEF CheckInv, EntriesApart, EntriesMarked, Lists
<1>6. CASE rest(c)
  <2>1. /\ status' = status /\ isIdle' = [isIdle EXCEPT ![c] = TRUE] /\ removeCreatureCheck(c)
        /\ UNCHANGED <<visiting, list, thought, wokenEarly, shuttingDown>>
    BY <1>6 DEF rest
  <2> QED
    BY <1>1, <1>5, <2>1 DEF CheckTypes
<1>7. CASE loseHealth(c)
  <2>1. /\ status' = [status EXCEPT ![c] = "dead"] /\ isIdle' = isIdle
        /\ UNCHANGED <<creatureCheck, inCheckCreatures, checkCreatureLists>> /\ due' = due \ {c}
        /\ UNCHANGED <<visiting, list, thought, wokenEarly, shuttingDown>>
    BY <1>7 DEF loseHealth
  <2> QED
    BY <1>1, <1>5, <2>1 DEF CheckTypes
<1>8. CASE removeCreature(c)
  <2>1. /\ status' = [status EXCEPT ![c] = "removed"]
        /\ isIdle' = [isIdle EXCEPT ![c] = isIdle[c] \/ status[c] = "placed"] /\ removeCreatureCheck(c)
        /\ UNCHANGED <<visiting, list, thought, wokenEarly, shuttingDown>>
    BY <1>8 DEF removeCreature
  <2>2. isIdle' \in [Monsters -> BOOLEAN] /\ \A d \in Monsters \ {c} : isIdle'[d] = isIdle[d]
    BY <1>1, <2>1, Zenon DEF CheckTypes
  <2> QED
    BY <1>1, <1>5, <2>1, <2>2 DEF CheckTypes
<1> QED
  BY <1>3, <1>4, <1>6, <1>7, <1>8

\* Game::checkCreatures, entry by entry, keeps the invariant: the entry that takes the place of a
\* dropped one is visited next, and an entry that the callback appends is visited later.
LEMMA CallbackKeepsCheckInv ==
    ASSUME CheckInv, checkCreatures \/ dropEntry \/ visitEntry \/ scheduleNext \/ shutDown
    PROVE  CheckInv'
<1> DEFINE n == Len(Entries)
<1>1. /\ CheckTypes /\ ActiveMarked /\ DueAhead /\ NullEntry \notin Monsters
      /\ EntriesApart(checkCreatureLists) /\ EntriesMarked(checkCreatureLists, inCheckCreatures, wokenEarly)
  BY CreatureCheckAssumption DEF CheckInv
<1>2. Entries \in Seq(CheckEntry) /\ n \in Nat /\ DOMAIN Entries = 1 .. n
  BY <1>1 DEF CheckTypes, Entries
<1> HIDE DEF n
<1>3. ASSUME UNCHANGED <<status, isIdle, inCheckCreatures, checkCreatureLists, wokenEarly>>,
             shuttingDown' \in BOOLEAN, shuttingDown => shuttingDown',
             creatureCheck' \in [Monsters -> BOOLEAN],
             \A c \in Monsters : status[c] = "placed" => creatureCheck'[c] = creatureCheck[c],
             visiting' \in Nat, list' \in Lists, due' \in SUBSET Monsters, thought' \in SUBSET Monsters, DueAhead'
      PROVE  CheckInv'
  <2>1. CheckTypes'
    BY <1>1, <1>3 DEF CheckTypes, Lists
  <2>2. ActiveMarked'
    BY <1>1, <1>3 DEF ActiveMarked
  <2> QED
    BY <1>1, <1>3, <2>1, <2>2 DEF CheckInv, EntriesApart, EntriesMarked, Lists
<1>4. CASE checkCreatures
  <2>1. /\ visiting' = 1 /\ thought' = {}
        /\ due' = {c \in Monsters : status[c] = "placed" /\ creatureCheck[c] /\ Contains(Entries, c)}
        /\ UNCHANGED <<status, isIdle, creatureCheck, inCheckCreatures, checkCreatureLists, list, wokenEarly,
                       shuttingDown>>
    BY <1>4 DEF checkCreatures
  <2>2. Entries' = Entries
    BY <2>1 DEF Entries
  <2>3. DueAhead'
    <3> SUFFICES ASSUME NEW c \in due'
                 PROVE  /\ status'[c] = "placed" /\ creatureCheck'[c]
                        /\ visiting' > 0 /\ \E i \in 1 .. Len(Entries') : i >= visiting' /\ Entries'[i] = c
      BY DEF DueAhead
    <3>1. \E i \in 1 .. n : Entries[i] = c
      BY <2>1, <1>2 DEF Contains, n
    <3>2. \A i \in 1 .. n : i >= 1
      BY <1>2
    <3> QED
      BY <2>1, <2>2, <3>1, <3>2 DEF n
  <2> QED
    BY <1>1, <1>3, <2>1, <2>3 DEF CheckTypes
<1>5. CASE scheduleNext
  <2>1. /\ visiting > Len(Entries) /\ visiting' = 0 /\ list' = (list % EVENT_CREATURECOUNT) + 1
        /\ UNCHANGED <<status, isIdle, creatureCheck, inCheckCreatures, checkCreatureLists, due, thought,
                       wokenEarly, shuttingDown>>
    BY <1>5 DEF scheduleNext
  <2>2. list' \in Lists
    BY <1>1, <2>1, CreatureCheckAssumption DEF CheckTypes, Lists
  <2>3. ASSUME NEW c \in due PROVE c \in thought
    <3>1. ~\E i \in 1 .. n : i >= visiting
      BY <1>1, <1>2, <2>1 DEF n, CheckTypes
    <3> QED
      BY <1>1, <2>3, <3>1 DEF DueAhead, n
  <2>4. DueAhead'
    BY <1>1, <2>1, <2>3 DEF DueAhead
  <2> QED
    BY <1>1, <1>3, <2>1, <2>2, <2>4 DEF CheckTypes
<1>6. CASE shutDown
  <2>1. /\ shuttingDown' = TRUE
        /\ UNCHANGED <<status, isIdle, creatureCheck, inCheckCreatures, checkCreatureLists, visiting, list, due,
                       thought, wokenEarly>>
    BY <1>6 DEF shutDown
  <2>2. DueAhead'
    BY <1>1, <2>1 DEF DueAhead, Entries
  <2> QED
    BY <1>1, <1>3, <2>1, <2>2 DEF CheckTypes
<1>7. CASE visitEntry
  <2> DEFINE c == Entries[visiting]
  <2>1. /\ visiting \in 1 .. n /\ c # NullEntry /\ creatureCheck[c] /\ visiting' = visiting + 1
        /\ \/ status[c] = "placed" /\ thought' = thought \cup {c} /\ creatureCheck' = creatureCheck
           \/ status[c] # "placed" /\ creatureCheck' = [creatureCheck EXCEPT ![c] = FALSE] /\ thought' = thought
        /\ UNCHANGED <<status, isIdle, inCheckCreatures, checkCreatureLists, list, due, wokenEarly, shuttingDown>>
    BY <1>2, <1>7 DEF visitEntry
  <2>2. c \in Monsters
    BY <1>2, <2>1 DEF CheckEntry
  <2>3. Entries' = Entries
    BY <2>1 DEF Entries
  <2> DEFINE e == c
  <2>4. /\ creatureCheck' \in [Monsters -> BOOLEAN] /\ thought' \in SUBSET Monsters /\ thought \subseteq thought'
        /\ \A d \in Monsters : status[d] = "placed" => creatureCheck'[d] = creatureCheck[d]
        /\ status[c] = "placed" => c \in thought'
    <3> HIDE DEF c
    <3> QED
      BY <1>1, <2>1, <2>2 DEF CheckTypes
  <2>5. ASSUME NEW d \in due
        PROVE  d \in thought' \/ \E i \in 1 .. Len(Entries) : i >= visiting + 1 /\ Entries[i] = d
    <3>1. status[d] = "placed"
      BY <1>1 DEF DueAhead
    <3>2. CASE d = c
      BY <2>4, <3>1, <3>2
    <3>3. CASE d # c /\ d \notin thought
      <4>1. PICK i \in 1 .. Len(Entries) : i >= visiting /\ Entries[i] = d
        BY <1>1, <3>3 DEF DueAhead
      <4>2. i >= visiting + 1
        BY <1>2, <2>1, <3>3, <4>1 DEF n
      <4> QED
        BY <4>1, <4>2
    <3> QED
      BY <2>4, <3>2, <3>3
  <2>6. visiting + 1 > 0 /\ visiting + 1 \in Nat
    BY <1>2, <2>1
  <2>7. \A d \in due : status'[d] = "placed" /\ creatureCheck'[d]
    BY <1>1, <2>1, <2>4 DEF DueAhead, CheckTypes
  <2>8. DueAhead'
    BY <2>1, <2>3, <2>5, <2>6, <2>7 DEF DueAhead
  <2> QED
    BY <1>1, <1>3, <2>1, <2>4, <2>6, <2>8 DEF CheckTypes
<1>8. CASE dropEntry
  <2> DEFINE L == checkCreatureLists
             M == checkCreatureLists'
             c == Entries[visiting]
             t == WithoutEntry(Entries, visiting)
  <2>1. /\ visiting \in 1 .. n /\ (c # NullEntry => ~creatureCheck[c]) /\ visiting' = visiting
        /\ inCheckCreatures' = IF c = NullEntry THEN inCheckCreatures ELSE [inCheckCreatures EXCEPT ![c] = FALSE]
        /\ M = [L EXCEPT ![list] = t]
        /\ UNCHANGED <<status, isIdle, creatureCheck, list, due, thought, wokenEarly, shuttingDown>>
    BY <1>2, <1>8 DEF dropEntry, Entries, FlagAfterDrop, PositionAfterDrop
  <2>2. /\ t \in Seq(CheckEntry) /\ Len(t) = n - 1
        /\ \A j \in 1 .. n - 1 : t[j] = IF j = visiting THEN Entries[n] ELSE Entries[j]
    BY <1>2, <2>1, EntryDropped DEF n
  <2>3. c \in CheckEntry /\ list \in Lists /\ L \in [Lists -> Seq(CheckEntry)] /\ L[list] = Entries
    BY <1>1, <1>2, <2>1 DEF CheckTypes, Entries
  <2>4. Entries' = t /\ M \in [Lists -> Seq(CheckEntry)] /\ M[list] = t /\ \A l \in Lists : l # list => M[l] = L[l]
    BY <2>1, <2>2, <2>3 DEF Entries
  <2> HIDE DEF L, M, t
  \* Where the entries of the new lists were before.
  <2>5. ASSUME NEW l \in Lists, NEW i \in 1 .. Len(M[l])
        PROVE  \E k \in 1 .. Len(L[l]) : /\ M[l][i] = L[l][k]
                                         /\ l = list => /\ k # visiting /\ i \in 1 .. n - 1
                                                        /\ k = IF i = visiting THEN n ELSE i
                                         /\ l # list => k = i
    <3>1. CASE l = list
      <4>1. i \in 1 .. n - 1 /\ M[l][i] = IF i = visiting THEN L[l][n] ELSE L[l][i]
        BY <2>2, <2>3, <2>4, <3>1
      <4>2. Len(L[l]) = n
        BY <2>3, <3>1 DEF n
      <4>3. CASE i = visiting
        <5>1. n \in 1 .. n /\ n # visiting
          BY <1>2, <4>1, <4>3
        <5> QED
          BY <3>1, <4>1, <4>2, <4>3, <5>1
      <4>4. CASE i # visiting
        <5>1. i \in 1 .. n
          BY <1>2, <4>1
        <5> QED
          BY <3>1, <4>1, <4>2, <4>4, <5>1
      <4> QED
        BY <4>3, <4>4
    <3>2. CASE l # list
      <4>1. M[l] = L[l]
        BY <2>4, <3>2
      <4> QED
        BY <3>2, <4>1
    <3> QED
      BY <3>1, <3>2
  <2>6. EntriesApart(M)
    <3> SUFFICES ASSUME NEW l \in Lists, NEW m \in Lists, NEW i \in 1 .. Len(M[l]), NEW j \in 1 .. Len(M[m]),
                        M[l][i] # NullEntry, M[l][i] = M[m][j]
                 PROVE  l = m /\ i = j
      BY DEF EntriesApart
    <3>1. PICK k \in 1 .. Len(L[l]) : /\ M[l][i] = L[l][k] /\ (l # list => k = i)
                                      /\ l = list => k # visiting /\ i \in 1 .. n - 1 /\ k = IF i = visiting THEN n ELSE i
      BY <2>5
    <3>2. PICK o \in 1 .. Len(L[m]) : /\ M[m][j] = L[m][o] /\ (m # list => o = j)
                                      /\ m = list => o # visiting /\ j \in 1 .. n - 1 /\ o = IF j = visiting THEN n ELSE j
      BY <2>5
    <3>3. L[l][k] # NullEntry /\ L[l][k] = L[m][o] /\ EntriesApart(L)
      BY <1>1, <3>1, <3>2 DEF L
    <3>4. l = m /\ k = o
      BY <3>1, <3>2, <3>3, EntryIsUnique
    <3>5. CASE l = list
      BY <1>2, <3>1, <3>2, <3>4, <3>5
    <3> QED
      BY <3>1, <3>2, <3>4, <3>5
  <2>7. ASSUME NEW l \in Lists, NEW i \in 1 .. Len(M[l]), M[l][i] # NullEntry PROVE inCheckCreatures'[M[l][i]]
    <3>1. PICK k \in 1 .. Len(L[l]) : M[l][i] = L[l][k] /\ (l = list => k # visiting)
      BY <2>5
    <3>2. L[l][k] \in Monsters /\ inCheckCreatures[L[l][k]]
      BY <1>1, <2>3, <2>7, <3>1 DEF EntriesMarked, CheckEntry, L
    <3>3. L[l][k] # c
      <4>1. SUFFICES ASSUME L[l][k] = L[list][visiting] PROVE FALSE
        BY <2>3
      <4>2. visiting \in 1 .. Len(L[list]) /\ EntriesApart(L) /\ L[l][k] # NullEntry
        BY <1>1, <2>1, <2>3, <3>1, <2>7 DEF n, L
      <4>3. l = list /\ k = visiting
        BY <2>3, <4>1, <4>2, EntryIsUnique
      <4> QED
        BY <3>1, <4>3
    <3>4. inCheckCreatures \in [Monsters -> BOOLEAN]
      BY <1>1 DEF CheckTypes
    <3> QED
      BY <2>1, <3>1, <3>2, <3>3, <3>4
  <2>8. ASSUME NEW d \in Monsters \ wokenEarly, inCheckCreatures'[d] PROVE \E l \in Lists : Contains(M[l], d)
    <3>1. inCheckCreatures[d] /\ d # c
      BY <1>1, <2>1, <2>8 DEF CheckTypes
    <3>2. PICK l \in Lists : Contains(L[l], d)
      BY <1>1, <3>1 DEF EntriesMarked, L
    <3>3. PICK i \in 1 .. Len(L[l]) : L[l][i] = d
      BY <3>2 DEF Contains
    <3>4. CASE l # list
      BY <2>4, <3>2, <3>4
    <3>5. CASE l = list
      <4>1. i \in 1 .. n /\ i # visiting /\ Entries[i] = d
        BY <2>3, <3>1, <3>3, <3>5 DEF n
      <4>2. CASE i = n
        <5>1. visiting \in 1 .. n - 1 /\ t[visiting] = d
          BY <1>2, <2>1, <2>2, <4>1, <4>2
        <5> QED
          BY <2>2, <2>3, <2>4, <5>1 DEF Contains
      <4>3. CASE i # n
        <5>1. i \in 1 .. n - 1 /\ t[i] = d
          BY <1>2, <2>2, <4>1, <4>3
        <5> QED
          BY <2>2, <2>3, <2>4, <5>1 DEF Contains
      <4> QED
        BY <4>2, <4>3
    <3> QED
      BY <3>4, <3>5
  <2>9. EntriesMarked(M, inCheckCreatures', wokenEarly')
    BY <2>1, <2>7, <2>8 DEF EntriesMarked
  <2>10. inCheckCreatures' \in [Monsters -> BOOLEAN]
         /\ \A d \in Monsters : creatureCheck[d] => inCheckCreatures'[d] = inCheckCreatures[d]
    BY <1>1, <2>1, <2>3 DEF CheckTypes, CheckEntry
  <2>11. CheckTypes'
    BY <1>1, <2>1, <2>4, <2>10 DEF CheckTypes, Lists, M
  <2>12. ActiveMarked'
    BY <1>1, <2>1, <2>10 DEF ActiveMarked
  <2>13. ASSUME NEW d \in due, d \notin thought
         PROVE  visiting > 0 /\ \E i \in 1 .. Len(t) : i >= visiting /\ t[i] = d
    <3>1. PICK i \in 1 .. n : i >= visiting /\ Entries[i] = d
      BY <1>1, <2>13 DEF DueAhead, n
    <3>2. creatureCheck[d] /\ d \in Monsters /\ d # NullEntry
      BY <1>1, <2>13 DEF DueAhead, CheckTypes
    <3>3. i # visiting
      BY <2>1, <3>1, <3>2
    <3>4. CASE i = n
      <4>1. visiting \in 1 .. n - 1 /\ t[visiting] = d /\ visiting >= visiting /\ visiting > 0
        BY <1>2, <2>1, <2>2, <3>1, <3>3, <3>4
      <4> QED
        BY <2>2, <4>1
    <3>5. CASE i # n
      <4>1. i \in 1 .. n - 1 /\ t[i] = d /\ visiting > 0
        BY <1>2, <2>1, <2>2, <3>1, <3>3, <3>5
      <4> QED
        BY <2>2, <3>1, <4>1
    <3> QED
      BY <3>4, <3>5
  <2>14. DueAhead'
    BY <1>1, <2>1, <2>4, <2>13 DEF DueAhead
  <2> QED
    BY <2>6, <2>9, <2>11, <2>12, <2>14 DEF CheckInv, M
<1> QED
  BY <1>4, <1>5, <1>6, <1>7, <1>8

\* Every step of CreatureCheck keeps the invariant.
LEMMA CheckStep == CheckInv /\ [CheckNext]_checkVars => CheckInv'
<1> SUFFICES ASSUME CheckInv, [CheckNext]_checkVars PROVE CheckInv'
  OBVIOUS
<1>1. CASE UNCHANGED checkVars
  BY <1>1 DEF checkVars, CheckInv, CheckTypes, EntriesApart, EntriesMarked, ActiveMarked, DueAhead, Entries, Lists
<1>2. CASE CheckNext
  BY <1>2, GamestepsKeepCheckInv, CallbackKeepsCheckInv DEF CheckNext
<1> QED
  BY <1>1, <1>2

\* The invariant implies both properties.
LEMMA CheckInvImplies == CheckInv => ListsAgree /\ CallbackReachesAll
<1> SUFFICES ASSUME CheckInv PROVE ListsAgree /\ CallbackReachesAll
  OBVIOUS
<1>1. /\ CheckTypes /\ ActiveMarked /\ DueAhead /\ NullEntry \notin Monsters
      /\ EntriesApart(checkCreatureLists) /\ EntriesMarked(checkCreatureLists, inCheckCreatures, wokenEarly)
  BY CreatureCheckAssumption DEF CheckInv
<1>2. CallbackReachesAll
  BY <1>1 DEF CallbackReachesAll, DueAhead
<1>3. ActiveIsChecked
  BY <1>1 DEF ActiveIsChecked, ActiveMarked, EntriesMarked
<1>4. ASSUME NEW l \in Lists, NEW i \in DOMAIN checkCreatureLists[l],
             checkCreatureLists[l][i] \in Monsters
      PROVE  /\ inCheckCreatures[checkCreatureLists[l][i]]
             /\ \A m \in Lists : \A j \in DOMAIN checkCreatureLists[m] :
                   checkCreatureLists[m][j] = checkCreatureLists[l][i] => m = l /\ j = i
  <2>1. \A m \in Lists : DOMAIN checkCreatureLists[m] = 1 .. Len(checkCreatureLists[m])
    BY <1>1 DEF CheckTypes
  <2>2. checkCreatureLists[l][i] # NullEntry /\ i \in 1 .. Len(checkCreatureLists[l])
    BY <1>1, <1>4, <2>1
  <2>3. inCheckCreatures[checkCreatureLists[l][i]]
    BY <1>1, <2>2 DEF EntriesMarked
  <2>4. ASSUME NEW m \in Lists, NEW j \in DOMAIN checkCreatureLists[m],
               checkCreatureLists[m][j] = checkCreatureLists[l][i]
        PROVE  m = l /\ j = i
    BY <1>1, <2>1, <2>2, <2>4, EntryIsUnique
  <2> QED
    BY <2>3, <2>4
<1>5. EnteredOnce
  BY <1>4 DEF EnteredOnce
<1> QED
  BY <1>2, <1>3, <1>5 DEF ListsAgree

\* For every set of monsters and every number of buckets: a creature is at most once in all the
\* buckets, and those that think are there (Game::addCreatureCheck, checkCreatures).
THEOREM ListsAgreeTheorem == CheckSpec => []ListsAgree
<1>1. CheckInv => ListsAgree
  BY CheckInvImplies
<1> QED
  BY <1>1, CheckStarts, CheckStep, PTL DEF CheckSpec

\* For every set of monsters and every number of buckets: the callback of a bucket misses none of
\* the creatures that were due when it started, though entries are swapped and appended while it
\* runs (Game::checkCreatures).
THEOREM CallbackReachesAllTheorem == CheckSpec => []CallbackReachesAll
<1>1. CheckInv => CallbackReachesAll
  BY CheckInvImplies
<1> QED
  BY <1>1, CheckStarts, CheckStep, PTL DEF CheckSpec

-----------------------------------------------------------------------------
\* Parties (src/src/party.cpp).

\* No two entries of a list are the same.
Distinct(s) == \A j, k \in 1 .. Len(s) : s[j] = s[k] => j = k

\* Somebody new at the end of a list.
LEMMA AppendDistinct ==
    ASSUME NEW S, NEW s \in Seq(S), NEW e \in S, Distinct(s), e \notin SetOf(s)
    PROVE  Append(s, e) \in Seq(S) /\ Distinct(Append(s, e)) /\ SetOf(Append(s, e)) = SetOf(s) \cup {e}
           /\ Append(s, e) # <<>>
<1> DEFINE t == Append(s, e)
           n == Len(s)
<1>1. n \in Nat /\ DOMAIN s = 1 .. n /\ t \in Seq(S) /\ Len(t) = n + 1 /\ DOMAIN t = 1 .. n + 1
      /\ t[n + 1] = e /\ \A k \in 1 .. n : t[k] = s[k]
  OBVIOUS
<1>2. \A k \in 1 .. n : s[k] # e
  BY <1>1 DEF SetOf
<1> HIDE DEF t, n
<1>3. 1 .. n + 1 = (1 .. n) \cup {n + 1}
  BY <1>1
<1>4. SetOf(t) = SetOf(s) \cup {e}
  BY <1>1, <1>3 DEF SetOf
<1>5. Distinct(t)
  <2> SUFFICES ASSUME NEW j \in 1 .. n + 1, NEW k \in 1 .. n + 1, t[j] = t[k] PROVE j = k
    BY <1>1 DEF Distinct
  <2>1. CASE j \in 1 .. n /\ k \in 1 .. n
    BY <1>1, <2>1 DEF Distinct, n
  <2>2. CASE j = n + 1 /\ k \in 1 .. n
    BY <1>1, <1>2, <2>2
  <2>3. CASE j \in 1 .. n /\ k = n + 1
    BY <1>1, <1>2, <2>3
  <2> QED
    BY <1>3, <2>1, <2>2, <2>3
<1>6. t # <<>>
  BY <1>1
<1> QED
  BY <1>1, <1>4, <1>5, <1>6 DEF t

\* Somebody new at the head of a list.
LEMMA PrependDistinct ==
    ASSUME NEW S, NEW s \in Seq(S), NEW e \in S, Distinct(s), e \notin SetOf(s)
    PROVE  (<<e>> \o s) \in Seq(S) /\ Distinct(<<e>> \o s) /\ SetOf(<<e>> \o s) = SetOf(s) \cup {e}
           /\ <<e>> \o s # <<>>
<1> DEFINE t == <<e>> \o s
           n == Len(s)
<1>1. n \in Nat /\ DOMAIN s = 1 .. n /\ t \in Seq(S) /\ Len(t) = n + 1 /\ DOMAIN t = 1 .. n + 1
      /\ t[1] = e /\ \A k \in 2 .. n + 1 : t[k] = s[k - 1]
  OBVIOUS
<1>2. \A k \in 1 .. n : s[k] # e
  BY <1>1 DEF SetOf
<1> HIDE DEF t, n
<1>3. 1 .. n + 1 = (2 .. n + 1) \cup {1} /\ (\A k \in 2 .. n + 1 : k - 1 \in 1 .. n)
      /\ \A k \in 1 .. n : k + 1 \in 2 .. n + 1 /\ (k + 1) - 1 = k
  BY <1>1
<1>4. SetOf(t) = SetOf(s) \cup {e}
  <2>1. \A k \in 1 .. n : t[k + 1] = s[k]
    BY <1>1, <1>3
  <2> QED
    <3>1. SetOf(t) \subseteq SetOf(s) \cup {e}
      <4> SUFFICES ASSUME NEW k \in 1 .. n + 1 PROVE t[k] \in SetOf(s) \cup {e}
        BY <1>1 DEF SetOf
      <4>1. CASE k \in 2 .. n + 1
        BY <1>1, <1>3, <4>1 DEF SetOf
      <4> QED
        BY <1>1, <1>3, <4>1
    <3>2. \A k \in 1 .. n : k + 1 \in 1 .. n + 1
      BY <1>3
    <3>3. SetOf(s) \subseteq SetOf(t)
      <4> SUFFICES ASSUME NEW k \in 1 .. n PROVE s[k] \in SetOf(t)
        BY <1>1 DEF SetOf
      <4>1. k + 1 \in DOMAIN t /\ t[k + 1] = s[k]
        BY <1>1, <2>1, <3>2
      <4> QED
        BY <4>1 DEF SetOf
    <3>4. 1 \in 1 .. n + 1
      BY <1>1
    <3>5. e \in SetOf(t)
      BY <1>1, <3>4 DEF SetOf
    <3> QED
      BY <3>1, <3>3, <3>5
<1>5. Distinct(t)
  <2> SUFFICES ASSUME NEW j \in 1 .. n + 1, NEW k \in 1 .. n + 1, t[j] = t[k] PROVE j = k
    BY <1>1 DEF Distinct
  <2>1. CASE j \in 2 .. n + 1 /\ k \in 2 .. n + 1
    <3>1. j - 1 = k - 1
      BY <1>1, <1>3, <2>1 DEF Distinct, n
    <3> QED
      BY <3>1
  <2>2. CASE j = 1 /\ k \in 2 .. n + 1
    BY <1>1, <1>2, <1>3, <2>2
  <2>3. CASE j \in 2 .. n + 1 /\ k = 1
    BY <1>1, <1>2, <1>3, <2>3
  <2> QED
    BY <1>3, <2>1, <2>2, <2>3
<1>6. t # <<>>
  BY <1>1
<1> QED
  BY <1>1, <1>4, <1>5, <1>6 DEF t

\* What remove_if does to a list.
Keeps(s, p, g, n) ==
    g = [k \in 0 .. n |-> IF k = 0 THEN <<>> ELSE IF s[k] = p THEN g[k - 1] ELSE Append(g[k - 1], s[k])]

\* Leaving copies the list up to every index: there is such a function (induction over the index, by
\* its least exception).
LEMMA KeepsExists ==
    ASSUME NEW s, NEW p, NEW n \in Nat
    PROVE  \E g : Keeps(s, p, g, n)
<1> SUFFICES ASSUME ~\E g : Keeps(s, p, g, n) PROVE FALSE
  OBVIOUS
<1> DEFINE T == {m \in Nat : ~\E g : Keeps(s, p, g, m)}
<1>1. T \in SUBSET Nat /\ T # {}
  OBVIOUS
<1>2. PICK m \in T : \A y \in T : m <= y
  <2> HIDE DEF T
  <2> QED
    BY <1>1, NatMin
<1>3. CASE m = 0
  <2> DEFINE g == [k \in 0 .. 0 |-> <<>>]
  <2>1. Keeps(s, p, g, 0)
    <3>1. \A k \in 0 .. 0 : k = 0
      OBVIOUS
    <3> QED
      BY <3>1 DEF Keeps
  <2> QED
    BY <1>2, <1>3, <2>1
<1>4. CASE m # 0
  <2>1. m - 1 \in Nat /\ m - 1 \notin T
    BY <1>1, <1>2, <1>4
  <2>2. PICK g : Keeps(s, p, g, m - 1)
    BY <2>1
  <2> DEFINE step(k) == IF s[k] = p THEN g[k - 1] ELSE Append(g[k - 1], s[k])
             h == [k \in 0 .. m |-> IF k = m THEN step(m) ELSE g[k]]
  <2>3. \A k \in 0 .. m - 1 : g[k] = IF k = 0 THEN <<>> ELSE step(k)
    BY <2>2 DEF Keeps
  <2>4. \A k \in 1 .. m : k - 1 \in 0 .. m - 1 /\ k - 1 \in 0 .. m /\ k - 1 # m /\ h[k - 1] = g[k - 1]
    BY <1>2
  <2>5. ASSUME NEW k \in 0 .. m
        PROVE  h[k] = IF k = 0 THEN <<>> ELSE IF s[k] = p THEN h[k - 1] ELSE Append(h[k - 1], s[k])
    <3>1. CASE k = m
      <4>1. h[k] = step(m) /\ k # 0 /\ k \in 1 .. m
        BY <1>2, <1>4, <3>1
      <4> QED
        BY <2>4, <3>1, <4>1
    <3>2. CASE k # m
      <4>1. k \in 0 .. m - 1 /\ h[k] = g[k]
        BY <1>2, <3>2
      <4>2. k # 0 => k \in 1 .. m
        BY <1>2
      <4> QED
        BY <2>3, <2>4, <4>1, <4>2
    <3> QED
      BY <3>1, <3>2
  <2>6. h = [k \in 0 .. m |-> h[k]]
    OBVIOUS
  <2> HIDE DEF h
  <2>7. Keeps(s, p, h, m)
    BY <2>5, <2>6 DEF Keeps
  <2> QED
    BY <1>2, <2>7
<1> QED
  BY <1>3, <1>4

\* Leaving takes p, and nobody else, off a list without repetition.
LEMMA LeavingFacts ==
    ASSUME NEW S, NEW s \in Seq(S), NEW p, Distinct(s)
    PROVE  Leaving(s, p) \in Seq(S) /\ Distinct(Leaving(s, p)) /\ SetOf(Leaving(s, p)) = SetOf(s) \ {p}
<1> DEFINE n == Len(s)
           K == CHOOSE g : Keeps(s, p, g, n)
           First(m) == {s[k] : k \in 1 .. m}
           Good(m) == K[m] \in Seq(S) /\ Distinct(K[m]) /\ SetOf(K[m]) = First(m) \ {p}
<1>1. n \in Nat /\ DOMAIN s = 1 .. n /\ \A k \in 1 .. n : s[k] \in S
  OBVIOUS
<1>2. Keeps(s, p, K, n)
  BY <1>1, KeepsExists
<1>3. Leaving(s, p) = K[n]
  BY DEF Leaving, Keeps
<1> HIDE DEF K
<1>4. \A k \in 0 .. n : K[k] = IF k = 0 THEN <<>> ELSE IF s[k] = p THEN K[k - 1] ELSE Append(K[k - 1], s[k])
  BY <1>2 DEF Keeps
<1>5. ASSUME NEW m \in 0 .. n, ~Good(m) PROVE FALSE
  <2> DEFINE T == {k \in 0 .. n : ~Good(k)}
  <2>1. T \in SUBSET Nat /\ T # {}
    <3> HIDE DEF Good
    <3>1. m \in T
      BY <1>5
    <3>2. \A k \in 0 .. n : k \in Nat
      BY <1>1
    <3>3. T \subseteq 0 .. n
      OBVIOUS
    <3> QED
      BY <3>1, <3>2, <3>3
  <2>2. PICK k \in T : \A y \in T : k <= y
    <3> HIDE DEF T
    <3> QED
      BY <2>1, NatMin
  <2>3. k \in 0 .. n /\ ~Good(k)
    BY <2>2
  <2>4. CASE k = 0
    <3>1. K[0] = <<>>
      BY <1>1, <1>4
    <3>2. Len(<<>>) = 0 /\ <<>> \in Seq(S) /\ DOMAIN <<>> = {} /\ 1 .. 0 = {}
      OBVIOUS
    <3>3. Distinct(<<>>) /\ SetOf(<<>>) = {} /\ First(0) = {}
      BY <3>2 DEF Distinct, SetOf
    <3> QED
      BY <2>3, <2>4, <3>1, <3>2, <3>3
  <2>5. CASE k # 0
    <3>1. k - 1 \in 0 .. n /\ k \in 1 .. n /\ ~(k <= k - 1)
      BY <1>1, <2>3, <2>5
    <3>2. Good(k - 1)
      <4> HIDE DEF Good
      <4>1. k - 1 \notin T
        BY <2>2, <3>1
      <4> QED
        BY <3>1, <4>1
    <3>3. 1 .. k = (1 .. k - 1) \cup {k}
      BY <3>1
    <3>4. First(k) = First(k - 1) \cup {s[k]}
      BY <3>3
    <3>5. CASE s[k] = p
      <4>1. K[k] = K[k - 1]
        BY <1>4, <2>3, <2>5, <3>5
      <4> QED
        BY <2>3, <3>2, <3>4, <3>5, <4>1
    <3>6. CASE s[k] # p
      <4>1. K[k] = Append(K[k - 1], s[k])
        BY <1>4, <2>3, <2>5, <3>6
      <4>2. s[k] \notin First(k - 1)
        <5>1. \A j \in 1 .. k - 1 : j \in 1 .. n /\ j # k
          BY <1>1, <3>1
        <5>2. \A j \in 1 .. k - 1 : s[j] # s[k]
          BY <3>1, <5>1 DEF Distinct
        <5> QED
          BY <5>2
      <4>3. s[k] \notin SetOf(K[k - 1]) /\ s[k] \in S
        BY <1>1, <3>1, <3>2, <4>2
      <4>4. K[k] \in Seq(S) /\ Distinct(K[k]) /\ SetOf(K[k]) = SetOf(K[k - 1]) \cup {s[k]}
        BY <3>2, <4>1, <4>3, AppendDistinct
      <4> QED
        BY <2>3, <3>2, <3>4, <3>6, <4>4
    <3> QED
      BY <3>5, <3>6
  <2> QED
    BY <2>4, <2>5
<1>6. n \in 0 .. n /\ First(n) = SetOf(s)
  BY <1>1 DEF SetOf
<1>7. Good(n)
  BY <1>5, <1>6
<1> QED
  BY <1>3, <1>6, <1>7

-----------------------------------------------------------------------------
\* The values a party can have.
PartyRecord ==
    [leader : Fellows \cup {NoFellow}, memberList : Seq(Fellows), inviteList : SUBSET Fellows]

\* The references P, O and V have their types.
Shaped(P, O, V) ==
    /\ P \in [Parties -> PartyRecord] /\ O \in [Fellows -> Parties \cup {NoParty}]
    /\ V \in [Fellows -> SUBSET Parties]

\* The leader and the members of party r.
Listed(r) == {r.leader} \cup SetOf(r.memberList)

\* Party x lists whom it holds, once.
ListAgrees(P, O, x) ==
    /\ Distinct(P[x].memberList) /\ P[x].leader \notin SetOf(P[x].memberList)
    /\ \A q \in Fellows : O[q] = x <=> q \in Listed(P[x])

\* Whom party x refers to is in G.
Around(P, G, x) ==
    P[x] # Disbanded => P[x].leader \in G /\ SetOf(P[x].memberList) \cup P[x].inviteList \subseteq G

\* A party that exists has a member or somebody invited.
NotLonely(P, x) == P[x] # Disbanded => ~Alone(P[x])

\* Invitations are known to both sides.
BothSides(P, V) == \A q \in Fellows, y \in Parties : y \in V[q] <=> q \in P[y].inviteList

\* q has no invitation to its own party, and none at all once it has company.
Unbound(P, O, V, q) ==
    /\ \A y \in V[q] : O[q] # y
    /\ V[q] # {} /\ O[q] # NoParty => P[O[q]].memberList = <<>>

\* All references agree, with G in the game: types, both sides of every invitation, every party and
\* every player.
Sound(P, O, V, G) ==
    /\ Shaped(P, O, V) /\ BothSides(P, V)
    /\ \A x \in Parties : ListAgrees(P, O, x) /\ Around(P, G, x) /\ NotLonely(P, x)
    /\ \A q \in Fellows : Unbound(P, O, V, q)

\* s is the record of P, O and V.
IsState(s, P, O, V) == s = [party |-> P, of |-> O, invites |-> V]

\* A party that ended lists nobody.
LEMMA DisbandedFacts ==
    /\ Disbanded \in PartyRecord /\ SetOf(Disbanded.memberList) = {} /\ Distinct(Disbanded.memberList)
    /\ Disbanded.leader = NoFellow /\ Disbanded.inviteList = {} /\ Disbanded.memberList = <<>>
    /\ \A q \in Fellows : q \notin Listed(Disbanded)
<1>1. /\ Disbanded.leader = NoFellow /\ Disbanded.inviteList = {} /\ Disbanded.memberList = <<>>
      /\ Disbanded \in PartyRecord
  BY DEF Disbanded, PartyRecord
<1>2. DOMAIN <<>> = {} /\ Len(<<>>) = 0
  OBVIOUS
<1>3. SetOf(Disbanded.memberList) = {} /\ Distinct(Disbanded.memberList)
  BY <1>1, <1>2 DEF SetOf, Distinct
<1> QED
  BY <1>1, <1>3, PartyConstants DEF Listed

\* A list is empty when nobody is on it.
LEMMA EmptyList ==
    ASSUME NEW S, NEW s \in Seq(S)
    PROVE  s = <<>> <=> SetOf(s) = {}
<1>1. Len(s) \in Nat /\ DOMAIN s = 1 .. Len(s) /\ (s = <<>> <=> Len(s) = 0)
  OBVIOUS
<1>2. s # <<>> => 1 \in DOMAIN s
  BY <1>1
<1>3. s = <<>> => DOMAIN s = {}
  BY <1>1
<1> QED
  BY <1>2, <1>3 DEF SetOf

\* Party x may end: all else is sound, and those it lists are in x or in no party.
MayEnd(P, O, V, G, x) ==
    /\ Shaped(P, O, V) /\ BothSides(P, V)
    /\ \A y \in Parties \ {x} : ListAgrees(P, O, y) /\ Around(P, G, y) /\ NotLonely(P, y)
    /\ \A q \in Fellows : O[q] = x => q \in Listed(P[x])
    /\ \A q \in Fellows : q \in Listed(P[x]) => O[q] \in {x, NoParty}
    /\ \A q \in Fellows : Unbound(P, O, V, q)

\* What has become of O and V in a party that ended.
Ended(d, O, V, G) ==
    /\ Sound(d.party, d.of, d.invites, G)
    /\ \A q \in Fellows : d.of[q] \in {O[q], NoParty} /\ d.invites[q] \subseteq V[q]

\* Party::disband leaves all references sound.
LEMMA DisbandSound ==
    ASSUME NEW P, NEW O, NEW V, NEW G \in SUBSET Fellows, NEW x \in Parties, MayEnd(P, O, V, G, x),
           NEW s, IsState(s, P, O, V), NEW d, d = disband(s, x)
    PROVE  Ended(d, O, V, G)
<1> DEFINE r == P[x]
           D == [P EXCEPT ![x] = Disbanded]
           E == [q \in Fellows |-> IF q = r.leader \/ q \in SetOf(r.memberList) THEN NoParty ELSE O[q]]
           W == [q \in Fellows |-> IF q \in r.inviteList THEN V[q] \ {x} ELSE V[q]]
<1>0. /\ Shaped(P, O, V) /\ BothSides(P, V)
      /\ \A y \in Parties \ {x} : ListAgrees(P, O, y) /\ Around(P, G, y) /\ NotLonely(P, y)
      /\ \A q \in Fellows : O[q] = x => q \in Listed(P[x])
      /\ \A q \in Fellows : q \in Listed(P[x]) => O[q] \in {x, NoParty}
      /\ \A q \in Fellows : Unbound(P, O, V, q)
  BY DEF MayEnd
<1>1. d.party = D /\ d.of = E /\ d.invites = W
  BY DEF disband, IsState
<1>2. /\ P \in [Parties -> PartyRecord] /\ O \in [Fellows -> Parties \cup {NoParty}]
      /\ V \in [Fellows -> SUBSET Parties] /\ NoParty \notin Parties /\ NoFellow \notin Fellows
  BY <1>0, PartyConstants DEF Shaped
<1>3. /\ D \in [Parties -> PartyRecord] /\ D[x] = Disbanded /\ \A y \in Parties \ {x} : D[y] = P[y]
  BY <1>0, <1>2, DisbandedFacts
<1>4. /\ E \in [Fellows -> Parties \cup {NoParty}]
      /\ \A q \in Fellows : E[q] = IF q \in Listed(P[x]) THEN NoParty ELSE O[q]
  BY <1>0, <1>2 DEF Listed
<1>5. W \in [Fellows -> SUBSET Parties] /\ \A q \in Fellows : W[q] = V[q] \ {x}
  BY <1>0, <1>2 DEF BothSides
<1> HIDE DEF D, E, W
<1>6. Shaped(D, E, W)
  BY <1>0, <1>3, <1>4, <1>5 DEF Shaped
<1>7. BothSides(D, W)
  BY <1>0, <1>3, <1>5, DisbandedFacts DEF BothSides
<1>8. ASSUME NEW y \in Parties PROVE ListAgrees(D, E, y) /\ Around(D, G, y) /\ NotLonely(D, y)
  <2>1. CASE y = x
    <3>1. \A q \in Fellows : E[q] # x
      BY <1>0, <1>2, <1>4
    <3>2. ListAgrees(D, E, x)
      BY <1>0, <1>2, <1>3, <3>1, DisbandedFacts DEF ListAgrees
    <3> QED
      BY <1>0, <1>3, <2>1, <3>2 DEF Around, NotLonely
  <2>2. CASE y # x
    <3>1. \A q \in Fellows : E[q] = y <=> O[q] = y
      BY <1>0, <1>2, <1>4, <2>2
    <3> QED
      BY <1>0, <1>3, <2>2, <3>1 DEF ListAgrees, Around, NotLonely
  <2> QED
    BY <1>0, <2>1, <2>2
<1>9. ASSUME NEW q \in Fellows PROVE Unbound(D, E, W, q)
  <2>1. W[q] \subseteq V[q] /\ (E[q] # NoParty => E[q] = O[q] /\ O[q] # x)
    BY <1>0, <1>4, <1>5
  <2>2. Unbound(P, O, V, q)
    BY <1>0
  <2>3. E[q] # NoParty => E[q] \in Parties \ {x}
    BY <1>0, <1>2, <1>4, <2>1
  <2>4. E[q] # NoParty => D[E[q]] = P[O[q]]
    BY <1>0, <1>3, <2>1, <2>3
  <2>5. \A y \in W[q] : E[q] # y
    BY <1>0, <1>2, <1>5, <2>1, <2>2 DEF Unbound
  <2> QED
    BY <1>0, <2>1, <2>2, <2>4, <2>5 DEF Unbound
<1>10. Sound(D, E, W, G)
  BY <1>0, <1>6, <1>7, <1>8, <1>9 DEF Sound
<1> QED
  BY <1>1, <1>4, <1>5, <1>10 DEF Ended

\* All is sound, but p may still have invitations.
MayClear(P, O, V, G, p) ==
    /\ Shaped(P, O, V) /\ BothSides(P, V)
    /\ \A y \in Parties : ListAgrees(P, O, y) /\ Around(P, G, y) /\ NotLonely(P, y)
    /\ \A q \in Fellows \ {p} : Unbound(P, O, V, q)

\* What has become of P, O and V once p has dropped its invitations.
Cleared(d, P, O, V, G, p) ==
    /\ Sound(d.party, d.of, d.invites, G)
    /\ IsState(d, d.party, d.of, d.invites)
    /\ d.invites[p] = {} /\ \A q \in Fellows \ {p} : d.invites[q] = V[q]
    /\ \A q \in Fellows : /\ d.of[q] \in {O[q], NoParty}
                          /\ O[q] \notin V[p] => d.of[q] = O[q]
    /\ \A y \in Parties \ V[p] : d.party[y] = P[y]

\* Player::clearPartyInvitations: every party that invited p forgets it, and those left with nobody
\* end.
LEMMA ClearSound ==
    ASSUME NEW P, NEW O, NEW V, NEW G \in SUBSET Fellows, NEW p \in Fellows, MayClear(P, O, V, G, p),
           NEW s, IsState(s, P, O, V), NEW d, d = clearPartyInvitations(s, p)
    PROVE  Cleared(d, P, O, V, G, p)
<1> DEFINE from == {y \in V[p] : p \in P[y].inviteList}
           ends == {y \in from : P[y].memberList = <<>> /\ P[y].inviteList = {p}}
           D == [y \in Parties |-> IF y \in ends THEN Disbanded
                                   ELSE IF y \in from THEN [P[y] EXCEPT !.inviteList = P[y].inviteList \ {p}]
                                   ELSE P[y]]
           E == [q \in Fellows |-> IF \E y \in ends : P[y].leader = q THEN NoParty ELSE O[q]]
           W == [V EXCEPT ![p] = {}]
<1>0. /\ Shaped(P, O, V) /\ BothSides(P, V)
      /\ \A y \in Parties : ListAgrees(P, O, y) /\ Around(P, G, y) /\ NotLonely(P, y)
      /\ \A q \in Fellows \ {p} : Unbound(P, O, V, q)
  BY DEF MayClear
<1>1. d = [party |-> D, of |-> E, invites |-> W]
  BY DEF clearPartyInvitations, IsState
<1>00. d.party = D /\ d.of = E /\ d.invites = W
  <2> HIDE DEF D, E, W
  <2> QED
    BY <1>0, <1>1
<1>2. /\ P \in [Parties -> PartyRecord] /\ O \in [Fellows -> Parties \cup {NoParty}]
      /\ V \in [Fellows -> SUBSET Parties] /\ NoParty \notin Parties /\ NoFellow \notin Fellows
  BY <1>0, PartyConstants DEF Shaped
<1>3. from = V[p] /\ from \subseteq Parties /\ ends \subseteq from
  BY <1>0, <1>2 DEF BothSides
<1>4. ASSUME NEW y \in Parties
      PROVE  /\ y \in ends => D[y] = Disbanded
             /\ y \notin ends => /\ D[y] \in PartyRecord /\ D[y].leader = P[y].leader
                                 /\ D[y].memberList = P[y].memberList
                                 /\ D[y].inviteList = P[y].inviteList \ {p}
             /\ y \notin V[p] => D[y] = P[y]
  <2>1. P[y] \in PartyRecord
    BY <1>0, <1>2
  <2>2. y \notin from => p \notin P[y].inviteList
    BY <1>0, <1>3 DEF BothSides
  <2>3. CASE y \in from /\ y \notin ends
    <3>1. D[y] = [P[y] EXCEPT !.inviteList = P[y].inviteList \ {p}]
      BY <1>0, <2>3
    <3> HIDE DEF D
    <3>2. D[y] = [leader |-> P[y].leader, memberList |-> P[y].memberList, inviteList |-> P[y].inviteList \ {p}]
      BY <1>0, <2>1, <3>1 DEF PartyRecord
    <3>3. P[y].leader \in Fellows \cup {NoFellow} /\ P[y].memberList \in Seq(Fellows)
          /\ P[y].inviteList \ {p} \in SUBSET Fellows
      BY <1>0, <2>1 DEF PartyRecord
    <3>4. D[y] \in PartyRecord
      BY <1>0, <3>2, <3>3 DEF PartyRecord
    <3> QED
      BY <1>0, <1>3, <2>3, <3>2, <3>4
  <2>4. CASE y \notin from
    <3>1. D[y] = P[y] /\ P[y].inviteList \ {p} = P[y].inviteList
      BY <1>0, <1>3, <2>2, <2>4
    <3> QED
      BY <1>0, <1>3, <2>1, <2>4, <3>1
  <2>5. CASE y \in ends
    BY <1>0, <1>3, <2>5
  <2> QED
    BY <1>0, <2>3, <2>4, <2>5
<1>5. D \in [Parties -> PartyRecord]
  <2>1. \A y \in Parties : D[y] \in PartyRecord
    BY <1>0, <1>4, DisbandedFacts
  <2> QED
    BY <1>0, <2>1
\* An ending party holds its leader only.
<1>6. ASSUME NEW q \in Fellows
      PROVE  /\ O[q] \in ends => E[q] = NoParty
             /\ O[q] \notin ends => E[q] = O[q]
  <2>1. ASSUME NEW y \in ends PROVE P[y].leader = q <=> O[q] = y
    <3>1. SetOf(P[y].memberList) = {}
      <4>1. P[y].memberList = <<>> /\ <<>> \in Seq(Fellows)
        BY <1>0
      <4> QED
        BY <1>0, <4>1, EmptyList
    <3>2. ListAgrees(P, O, y)
      BY <1>0, <1>3
    <3> QED
      BY <1>0, <3>1, <3>2 DEF ListAgrees, Listed
  <2> HIDE DEF ends
  <2> QED
    BY <1>0, <2>1
<1>7. E \in [Fellows -> Parties \cup {NoParty}]
  BY <1>0, <1>2
<1>8. W \in [Fellows -> SUBSET Parties] /\ W[p] = {} /\ \A q \in Fellows \ {p} : W[q] = V[q]
  BY <1>0, <1>2
<1>9. ASSUME NEW y \in ends PROVE P[y].memberList = <<>> /\ P[y].inviteList = {p}
  BY <1>0
<1>10. ASSUME NEW y \in Parties, y \notin ends, P[y].memberList = <<>>, P[y].inviteList \ {p} = {}
       PROVE  P[y].inviteList = {}
  BY <1>0, <1>3, <1>10 DEF BothSides
<1> HIDE DEF D, E, W, ends, from
<1>11. BothSides(D, W)
  <2> SUFFICES ASSUME NEW q \in Fellows, NEW y \in Parties PROVE y \in W[q] <=> q \in D[y].inviteList
    BY <1>0 DEF BothSides
  <2>1. y \in V[q] <=> q \in P[y].inviteList
    BY <1>0 DEF BothSides
  <2>2. CASE y \in ends
    BY <1>0, <1>4, <1>8, <1>9, <2>1, <2>2, DisbandedFacts
  <2>3. CASE y \notin ends
    BY <1>0, <1>4, <1>8, <2>1, <2>3
  <2> QED
    BY <1>0, <2>2, <2>3
<1>12. ASSUME NEW y \in Parties PROVE ListAgrees(D, E, y) /\ Around(D, G, y) /\ NotLonely(D, y)
  <2>0. ListAgrees(P, O, y) /\ Around(P, G, y) /\ NotLonely(P, y)
    BY <1>0
  <2>1. CASE y \in ends
    <3>1. D[y] = Disbanded
      BY <1>0, <1>4, <2>1
    <3>2. \A q \in Fellows : E[q] # y
      BY <1>0, <1>2, <1>6, <2>1
    <3>3. ListAgrees(D, E, y)
      BY <1>0, <1>2, <3>1, <3>2, DisbandedFacts DEF ListAgrees
    <3> QED
      BY <1>0, <3>1, <3>3 DEF Around, NotLonely
  <2>2. CASE y \notin ends
    <3>1. /\ D[y].leader = P[y].leader /\ D[y].memberList = P[y].memberList
          /\ D[y].inviteList = P[y].inviteList \ {p}
      BY <1>0, <1>4, <2>2
    <3>2. \A q \in Fellows : E[q] = y <=> O[q] = y
      BY <1>0, <1>2, <1>3, <1>6, <2>2
    <3>3. ListAgrees(D, E, y)
      BY <1>0, <2>0, <3>1, <3>2 DEF ListAgrees, Listed
    <3>4. P[y] = Disbanded => D[y] = Disbanded
      <4>1. CASE P[y] = Disbanded
        <5>1. y \notin V[p]
          BY <1>0, <4>1, DisbandedFacts DEF BothSides
        <5> QED
          BY <1>0, <1>4, <4>1, <5>1
      <4> QED
        BY <1>0, <4>1
    <3>5. Around(D, G, y)
      BY <1>0, <2>0, <3>1, <3>4 DEF Around
    <3>6. Alone(D[y]) => Alone(P[y])
      BY <1>0, <1>10, <2>2, <3>1 DEF Alone
    <3>7. NotLonely(D, y)
      BY <1>0, <2>0, <3>4, <3>6 DEF NotLonely
    <3> QED
      BY <1>0, <3>3, <3>5, <3>7
  <2> QED
    BY <1>0, <2>1, <2>2
<1>13. ASSUME NEW q \in Fellows PROVE Unbound(D, E, W, q)
  <2>1. CASE q = p
    BY <1>0, <1>8, <2>1 DEF Unbound
  <2>2. CASE q # p
    <3>1. Unbound(P, O, V, q) /\ W[q] = V[q]
      BY <1>0, <1>8, <2>2
    <3>2. E[q] # NoParty => E[q] = O[q] /\ O[q] \notin ends /\ O[q] \in Parties
      BY <1>0, <1>2, <1>6, <1>7
    <3>3. E[q] # NoParty => D[E[q]].memberList = P[O[q]].memberList
      BY <1>0, <1>4, <3>2
    <3>4. \A y \in W[q] : y # NoParty
      BY <1>0, <1>2, <3>1
    <3> QED
      BY <1>0, <3>1, <3>2, <3>3, <3>4 DEF Unbound
  <2> QED
    BY <1>0, <2>1, <2>2
<1>14. Shaped(D, E, W)
  BY <1>0, <1>5, <1>7, <1>8 DEF Shaped
<1>15. Sound(D, E, W, G)
  BY <1>0, <1>11, <1>12, <1>13, <1>14 DEF Sound
<1>16. \A q \in Fellows : E[q] \in {O[q], NoParty} /\ (O[q] \notin V[p] => E[q] = O[q])
  BY <1>0, <1>3, <1>6
<1> QED
  <2>1. IsState(d, D, E, W)
    BY <1>1 DEF IsState
  <2> QED
    BY <1>00, <1>4, <1>8, <1>15, <1>16, <2>1 DEF Cleared

\* Party x may become r, with E and W for what the players refer to: r lists once whom E puts into x and
\* invites whom W tells, nobody else is concerned, and whoever is not in X is free of invitations once it
\* has company.
Fits(P, O, V, G, x, r, E, W, X) ==
    /\ Sound(P, O, V, G) /\ G \in SUBSET Fellows /\ x \in Parties /\ X \in SUBSET Fellows
    /\ r \in PartyRecord /\ r.leader \in G /\ SetOf(r.memberList) \cup r.inviteList \subseteq G
    /\ Distinct(r.memberList) /\ r.leader \notin SetOf(r.memberList)
    /\ E \in [Fellows -> Parties \cup {NoParty}] /\ W \in [Fellows -> SUBSET Parties]
    /\ \A q \in Fellows : E[q] = x <=> q = r.leader \/ q \in SetOf(r.memberList)
    /\ \A q \in Fellows, y \in Parties \ {x} : (E[q] = y <=> O[q] = y) /\ (y \in W[q] <=> y \in V[q])
    /\ \A q \in Fellows : x \in W[q] <=> q \in r.inviteList
    /\ \A q \in Fellows \ X : E[q] = x => q \notin r.inviteList /\ (r.memberList # <<>> => W[q] = {})
    /\ \A q \in r.inviteList \ X : q \in P[x].inviteList \/ E[q] = NoParty

\* What holds after such a change.
Fitted(D, E, W, G, x, r, X) ==
    /\ Shaped(D, E, W) /\ BothSides(D, W)
    /\ \A y \in Parties : ListAgrees(D, E, y) /\ Around(D, G, y)
    /\ \A y \in Parties \ {x} : NotLonely(D, y)
    /\ \A q \in Fellows \ X : Unbound(D, E, W, q)
    /\ ~Alone(r) => NotLonely(D, x) /\ (X = {} => Sound(D, E, W, G))

\* A change to one party that fits keeps all references sound.
LEMMA OnePartySound ==
    ASSUME NEW P, NEW O, NEW V, NEW G, NEW x, NEW r, NEW E, NEW W, NEW X,
           Fits(P, O, V, G, x, r, E, W, X), NEW D, D = [P EXCEPT ![x] = r]
    PROVE  Fitted(D, E, W, G, x, r, X)
<1> DEFINE l == r.leader
           m == r.memberList
           i == r.inviteList
<1>0. /\ Sound(P, O, V, G) /\ G \in SUBSET Fellows /\ x \in Parties /\ X \in SUBSET Fellows
      /\ r \in PartyRecord /\ r.leader \in G /\ SetOf(r.memberList) \cup r.inviteList \subseteq G
      /\ Distinct(r.memberList) /\ r.leader \notin SetOf(r.memberList)
      /\ E \in [Fellows -> Parties \cup {NoParty}] /\ W \in [Fellows -> SUBSET Parties]
      /\ \A q \in Fellows : E[q] = x <=> q = r.leader \/ q \in SetOf(r.memberList)
      /\ \A q \in Fellows, y \in Parties \ {x} : (E[q] = y <=> O[q] = y) /\ (y \in W[q] <=> y \in V[q])
      /\ \A q \in Fellows : x \in W[q] <=> q \in r.inviteList
      /\ \A q \in Fellows \ X : E[q] = x => q \notin r.inviteList /\ (r.memberList # <<>> => W[q] = {})
      /\ \A q \in r.inviteList \ X : q \in P[x].inviteList \/ E[q] = NoParty
  BY DEF Fits
<1>1. /\ P \in [Parties -> PartyRecord] /\ O \in [Fellows -> Parties \cup {NoParty}]
      /\ V \in [Fellows -> SUBSET Parties] /\ BothSides(P, V)
      /\ \A y \in Parties : ListAgrees(P, O, y) /\ Around(P, G, y) /\ NotLonely(P, y)
      /\ \A q \in Fellows : Unbound(P, O, V, q)
      /\ NoParty \notin Parties /\ NoFellow \notin Fellows
  BY <1>0, PartyConstants DEF Sound, Shaped
<1>3. D \in [Parties -> PartyRecord] /\ D[x] = r /\ \A y \in Parties \ {x} : D[y] = P[y]
  BY <1>0, <1>1
<1>4. Shaped(D, E, W)
  BY <1>0, <1>3 DEF Shaped
<1>5. BothSides(D, W)
  <2> SUFFICES ASSUME NEW q \in Fellows, NEW y \in Parties PROVE y \in W[q] <=> q \in D[y].inviteList
    BY DEF BothSides
  <2>1. CASE y = x
    BY <1>0, <1>3, <2>1
  <2>2. CASE y # x
    <3>1. D[y] = P[y] /\ (y \in W[q] <=> y \in V[q])
      BY <1>0, <1>3, <2>2
    <3> QED
      BY <1>1, <3>1 DEF BothSides
  <2> QED
    BY <2>1, <2>2
<1>6. ASSUME NEW y \in Parties PROVE ListAgrees(D, E, y) /\ Around(D, G, y) /\ (y # x => NotLonely(D, y))
  <2>1. CASE y = x
    BY <1>0, <1>3, <2>1 DEF ListAgrees, Listed, Around
  <2>2. CASE y # x
    <3>1. D[y] = P[y] /\ \A q \in Fellows : E[q] = y <=> O[q] = y
      BY <1>0, <1>3, <2>2
    <3>2. ListAgrees(P, O, y) /\ Around(P, G, y) /\ NotLonely(P, y)
      BY <1>1
    <3> QED
      BY <3>1, <3>2 DEF ListAgrees, Around, NotLonely
  <2> QED
    BY <2>1, <2>2
<1>7. ASSUME NEW q \in Fellows \ X PROVE Unbound(D, E, W, q)
  <2>1. CASE E[q] = x
    <3>1. q \notin i /\ (m # <<>> => W[q] = {})
      BY <1>0, <2>1
    <3>2. \A y \in W[q] : y # x
      BY <1>0, <3>1
    <3> QED
      BY <1>3, <2>1, <3>1, <3>2 DEF Unbound
  <2>2. CASE E[q] # x /\ E[q] # NoParty
    <3>1. E[q] = O[q] /\ O[q] \in Parties \ {x} /\ D[E[q]] = P[O[q]]
      BY <1>0, <1>1, <1>3, <2>2
    <3>2. Unbound(P, O, V, q)
      BY <1>1
    <3>3. \A y \in W[q] : y # x => y \in V[q]
      BY <1>0
    <3>4. P[O[q]].memberList # <<>> => W[q] = {}
      <4>1. SUFFICES ASSUME P[O[q]].memberList # <<>>, NEW y \in W[q] PROVE FALSE
        OBVIOUS
      <4>2. V[q] = {}
        BY <2>2, <3>1, <3>2, <4>1 DEF Unbound
      <4>3. y = x /\ q \in i
        BY <1>0, <3>3, <4>1, <4>2
      <4>4. q \in P[x].inviteList
        BY <1>0, <2>2, <4>3
      <4> QED
        BY <1>0, <1>1, <4>2, <4>4 DEF BothSides
    <3>5. \A y \in W[q] : E[q] # y
      BY <2>2, <3>1, <3>2, <3>3 DEF Unbound
    <3> QED
      BY <3>1, <3>4, <3>5 DEF Unbound
  <2>3. CASE E[q] = NoParty
    <3>1. \A y \in W[q] : y # NoParty
      BY <1>0, <1>1
    <3> QED
      BY <2>3, <3>1 DEF Unbound
  <2> QED
    BY <2>1, <2>2, <2>3
<1>8. ~Alone(r) => NotLonely(D, x)
  BY <1>3 DEF NotLonely
<1>9. ~Alone(r) /\ X = {} => Sound(D, E, W, G)
  BY <1>4, <1>5, <1>6, <1>7, <1>8 DEF Sound
<1> QED
  BY <1>4, <1>5, <1>6, <1>7, <1>8, <1>9 DEF Fitted

\* What the invariant says of a party and of those in it.
PartyFacts(P, O, V, G, x) ==
    /\ P[x] = [leader |-> P[x].leader, memberList |-> P[x].memberList, inviteList |-> P[x].inviteList]
    /\ P[x].leader \in Fellows \cup {NoFellow} /\ P[x].memberList \in Seq(Fellows)
    /\ P[x].inviteList \in SUBSET Fellows /\ P[x] \in PartyRecord
    /\ P \in [Parties -> PartyRecord] /\ O \in [Fellows -> Parties \cup {NoParty}]
    /\ V \in [Fellows -> SUBSET Parties]
    /\ Distinct(P[x].memberList) /\ P[x].leader \notin SetOf(P[x].memberList)
    /\ \A q \in Fellows : O[q] = x <=> q = P[x].leader \/ q \in SetOf(P[x].memberList)
    /\ SetOf(P[x].memberList) \subseteq Fellows
    /\ \A q \in Fellows : x \in V[q] <=> q \in P[x].inviteList
    /\ \A q \in Fellows : O[q] = x => q \notin P[x].inviteList /\ (P[x].memberList # <<>> => V[q] = {})
    /\ \A q \in Fellows : O[q] = x => P[x].leader \in G
    /\ SetOf(P[x].memberList) \cup P[x].inviteList \subseteq G
    /\ NoParty \notin Parties /\ NoFellow \notin Fellows

\* In a sound state, the facts about a party hold.
LEMMA SoundFacts ==
    ASSUME NEW P, NEW O, NEW V, NEW G \in SUBSET Fellows, Sound(P, O, V, G), NEW x \in Parties
    PROVE  PartyFacts(P, O, V, G, x)
<1>1. /\ P \in [Parties -> PartyRecord] /\ O \in [Fellows -> Parties \cup {NoParty}]
      /\ V \in [Fellows -> SUBSET Parties] /\ BothSides(P, V)
      /\ ListAgrees(P, O, x) /\ Around(P, G, x) /\ NotLonely(P, x)
      /\ \A q \in Fellows : Unbound(P, O, V, q)
      /\ NoParty \notin Parties /\ NoFellow \notin Fellows
  BY PartyConstants DEF Sound, Shaped
<1>2. /\ P[x] = [leader |-> P[x].leader, memberList |-> P[x].memberList, inviteList |-> P[x].inviteList]
      /\ P[x].leader \in Fellows \cup {NoFellow} /\ P[x].memberList \in Seq(Fellows)
      /\ P[x].inviteList \in SUBSET Fellows /\ P[x] \in PartyRecord
  BY <1>1 DEF PartyRecord
<1>3. SetOf(P[x].memberList) \subseteq Fellows
  BY <1>2 DEF SetOf
<1>4. /\ Distinct(P[x].memberList) /\ P[x].leader \notin SetOf(P[x].memberList)
      /\ \A q \in Fellows : O[q] = x <=> q = P[x].leader \/ q \in SetOf(P[x].memberList)
      /\ \A q \in Fellows : x \in V[q] <=> q \in P[x].inviteList
  BY <1>1 DEF ListAgrees, Listed, BothSides
<1>5. ASSUME NEW q \in Fellows, O[q] = x
      PROVE  q \notin P[x].inviteList /\ (P[x].memberList # <<>> => V[q] = {})
  BY <1>1, <1>4, <1>5 DEF Unbound
<1>6. ASSUME NEW q \in Fellows, O[q] = x PROVE P[x].leader \in G
  <2>1. q \in Listed(P[x])
    BY <1>1, <1>6 DEF ListAgrees
  <2>2. P[x] # Disbanded
    BY <2>1, DisbandedFacts
  <2> QED
    BY <1>1, <2>2 DEF Around
<1>7. SetOf(P[x].memberList) \cup P[x].inviteList \subseteq G
  BY <1>1, DisbandedFacts DEF Around
<1> QED
  BY <1>1, <1>2, <1>3, <1>4, <1>5, <1>6, <1>7 DEF PartyFacts

\* WithParty changes one party and the references of the players.
LEMMA WithPartyIs ==
    ASSUME NEW P, NEW O, NEW V, NEW s, IsState(s, P, O, V), NEW x, NEW r, NEW E, NEW W,
           NEW d, d = WithParty(s, x, r, E, W)
    PROVE  IsState(d, [P EXCEPT ![x] = r], E, W)
<1>1. s.party = P
  BY DEF IsState
<1> QED
  BY <1>1 DEF WithParty, IsState

\* The fields of a record.
LEMMA StateFields ==
    ASSUME NEW P, NEW O, NEW V, NEW s, IsState(s, P, O, V)
    PROVE  s.party = P /\ s.of = O /\ s.invites = V /\ IsState(s, s.party, s.of, s.invites)
  BY DEF IsState

\* Leadership goes to a member.
LEMMA PassSound ==
    ASSUME NEW P, NEW O, NEW V, NEW G \in SUBSET Fellows, Sound(P, O, V, G), NEW x \in Parties,
           NEW h \in SetOf(P[x].memberList), NEW s, IsState(s, P, O, V), NEW d,
           d = passPartyLeadership(s, x, h)
    PROVE  /\ IsState(d, d.party, O, V) /\ Sound(d.party, O, V, G)
           /\ d.party[x].leader = h /\ d.party[x].inviteList = P[x].inviteList
           /\ SetOf(d.party[x].memberList) = (SetOf(P[x].memberList) \ {h}) \cup {P[x].leader}
<1> DEFINE l == P[x].leader
           m == P[x].memberList
           n == <<l>> \o Leaving(m, h)
           r == [leader |-> h, memberList |-> n, inviteList |-> P[x].inviteList]
           D == [P EXCEPT ![x] = r]
<1>0. PartyFacts(P, O, V, G, x)
  BY SoundFacts
<1>1. /\ P[x] = [leader |-> P[x].leader, memberList |-> P[x].memberList, inviteList |-> P[x].inviteList]
      /\ l \in Fellows \cup {NoFellow} /\ m \in Seq(Fellows)
      /\ P[x].inviteList \in SUBSET Fellows /\ P[x] \in PartyRecord
      /\ P \in [Parties -> PartyRecord] /\ O \in [Fellows -> Parties \cup {NoParty}]
      /\ V \in [Fellows -> SUBSET Parties]
      /\ Distinct(m) /\ l \notin SetOf(m)
      /\ \A q \in Fellows : O[q] = x <=> q = l \/ q \in SetOf(m)
      /\ SetOf(m) \subseteq Fellows
      /\ \A q \in Fellows : x \in V[q] <=> q \in P[x].inviteList
      /\ \A q \in Fellows : O[q] = x => q \notin P[x].inviteList /\ (m # <<>> => V[q] = {})
      /\ \A q \in Fellows : O[q] = x => l \in G
      /\ SetOf(m) \cup P[x].inviteList \subseteq G
      /\ NoParty \notin Parties /\ NoFellow \notin Fellows
  BY <1>0 DEF PartyFacts
<1>2. h \in Fellows /\ O[h] = x /\ l \in G /\ h \in G /\ m # <<>>
  <2>1. h \in Fellows /\ O[h] = x /\ l \in G /\ h \in G
    BY <1>1
  <2>2. m # <<>>
    BY <1>1, EmptyList
  <2> QED
    BY <2>1, <2>2
<1>3. /\ Leaving(m, h) \in Seq(Fellows) /\ Distinct(Leaving(m, h)) /\ SetOf(Leaving(m, h)) = SetOf(m) \ {h}
  BY <1>1, LeavingFacts
<1>4. n \in Seq(Fellows) /\ Distinct(n) /\ SetOf(n) = (SetOf(m) \ {h}) \cup {l} /\ n # <<>>
  <2>1. l \in Fellows /\ l \notin SetOf(Leaving(m, h))
    BY <1>1, <1>2, <1>3
  <2> QED
    BY <1>3, <2>1, PrependDistinct
<1>5. IsState(d, D, O, V)
  <2>1. s.party = P /\ s.of = O /\ s.invites = V
    BY StateFields
  <2>4. d = WithParty(s, x, r, O, V)
    BY <2>1 DEF passPartyLeadership
  <2> HIDE DEF n, r
  <2> QED
    BY <2>4, WithPartyIs
<1>6. r.leader = h /\ r.memberList = n /\ r.inviteList = P[x].inviteList /\ r \in PartyRecord
  <2>1. h \in Fellows \cup {NoFellow} /\ n \in Seq(Fellows) /\ P[x].inviteList \in SUBSET Fellows
    BY <1>1, <1>2, <1>4
  <2> HIDE DEF n
  <2> QED
    BY <2>1 DEF PartyRecord
<1> HIDE DEF n, r
<1>7. d.party = D /\ IsState(d, d.party, O, V)
  BY <1>5, StateFields
<1>8. h \notin SetOf(n) /\ SetOf(n) \cup P[x].inviteList \subseteq G
  BY <1>1, <1>2, <1>4
<1>9. \A q \in Fellows : O[q] = x <=> q = h \/ q \in SetOf(n)
  BY <1>1, <1>2, <1>4
<1>10. Fits(P, O, V, G, x, r, O, V, {})
  BY <1>1, <1>2, <1>4, <1>6, <1>8, <1>9 DEF Fits
<1>11. ~Alone(r)
  BY <1>4, <1>6 DEF Alone
<1>12. Sound(D, O, V, G)
  <2> HIDE DEF D
  <2>1. D = [P EXCEPT ![x] = r]
    BY DEF D
  <2> QED
    <3>1. Fitted(D, O, V, G, x, r, {})
      BY <1>10, <2>1, OnePartySound
    <3> QED
      BY <1>11, <3>1 DEF Fitted
<1>13. D[x] = r
  BY <1>1
<1> QED
  BY <1>4, <1>6, <1>7, <1>12, <1>13

\* Party::disband answers a record of references.
LEMMA DisbandIs ==
    ASSUME NEW s, NEW x, NEW d, d = disband(s, x)
    PROVE  IsState(d, d.party, d.of, d.invites)
  BY DEF disband, IsState

\* Party x without p.
LeftBy(s, P, O, V, x, p) ==
    WithParty(s, x, [P[x] EXCEPT !.memberList = Leaving(P[x].memberList, p)],
              [O EXCEPT ![p] = NoParty], V)

\* All is sound and p is in no party.
Left(d, V, G, p) ==
    /\ IsState(d, d.party, d.of, d.invites) /\ Sound(d.party, d.of, d.invites, G)
    /\ d.of[p] = NoParty /\ d.invites[p] \subseteq V[p]

\* A member that is not the leader leaves, and the party with nobody else ends.
LEMMA RemoveSound ==
    ASSUME NEW P, NEW O, NEW V, NEW G \in SUBSET Fellows, Sound(P, O, V, G), NEW x \in Parties,
           NEW p \in Fellows, O[p] = x, p # P[x].leader, NEW s, IsState(s, P, O, V), NEW left,
           left = LeftBy(s, P, O, V, x, p),
           NEW d, d = IF Alone(left.party[x]) THEN disband(left, x) ELSE left
    PROVE  Left(d, V, G, p)
<1> DEFINE l == P[x].leader
           m == P[x].memberList
           n == Leaving(m, p)
           r == [leader |-> l, memberList |-> n, inviteList |-> P[x].inviteList]
           D == [P EXCEPT ![x] = r]
           E == [O EXCEPT ![p] = NoParty]
<1>0. PartyFacts(P, O, V, G, x)
  BY SoundFacts
<1>1. /\ P[x] = [leader |-> P[x].leader, memberList |-> P[x].memberList, inviteList |-> P[x].inviteList]
      /\ l \in Fellows \cup {NoFellow} /\ m \in Seq(Fellows)
      /\ P[x].inviteList \in SUBSET Fellows /\ P[x] \in PartyRecord
      /\ P \in [Parties -> PartyRecord] /\ O \in [Fellows -> Parties \cup {NoParty}]
      /\ V \in [Fellows -> SUBSET Parties]
      /\ Distinct(m) /\ l \notin SetOf(m)
      /\ \A q \in Fellows : O[q] = x <=> q = l \/ q \in SetOf(m)
      /\ SetOf(m) \subseteq Fellows
      /\ \A q \in Fellows : x \in V[q] <=> q \in P[x].inviteList
      /\ \A q \in Fellows : O[q] = x => q \notin P[x].inviteList /\ (m # <<>> => V[q] = {})
      /\ \A q \in Fellows : O[q] = x => l \in G
      /\ SetOf(m) \cup P[x].inviteList \subseteq G
      /\ NoParty \notin Parties /\ NoFellow \notin Fellows
  BY <1>0 DEF PartyFacts
<1>2. l \in G /\ p \in SetOf(m) /\ m # <<>>
  <2>1. l \in G /\ p \in SetOf(m)
    BY <1>1
  <2> QED
    BY <1>1, <2>1, EmptyList
<1>3. n \in Seq(Fellows) /\ Distinct(n) /\ SetOf(n) = SetOf(m) \ {p}
  BY <1>1, LeavingFacts
<1>4. [P[x] EXCEPT !.memberList = n] = r
  <2>1. P[x] \in PartyRecord
    BY <1>1
  <2> HIDE DEF n
  <2> QED
    BY <2>1 DEF PartyRecord
<1>5. r.leader = l /\ r.memberList = n /\ r.inviteList = P[x].inviteList /\ r \in PartyRecord
  <2> HIDE DEF n
  <2> QED
    BY <1>1, <1>3 DEF PartyRecord
<1> HIDE DEF n, r
<1>6. E \in [Fellows -> Parties \cup {NoParty}] /\ E[p] = NoParty /\ \A q \in Fellows \ {p} : E[q] = O[q]
  BY <1>1
<1>7. D[x] = r
  BY <1>1
<1>8. left = WithParty(s, x, r, E, V)
  BY <1>4 DEF n, LeftBy
<1> HIDE DEF E, D
<1>9. IsState(left, D, E, V) /\ left.party = D /\ left.of = E /\ left.invites = V
  <2>1. IsState(left, D, E, V)
    BY <1>8, WithPartyIs DEF D
  <2> QED
    BY <2>1, StateFields
<1>10. \A q \in Fellows : E[q] = x <=> q = l \/ q \in SetOf(n)
  BY <1>1, <1>3, <1>6
<1>11. \A q \in Fellows, y \in Parties \ {x} : E[q] = y <=> O[q] = y
  BY <1>1, <1>6
<1>12. Fits(P, O, V, G, x, r, E, V, {})
  <2>1. \A q \in Fellows : E[q] = x => q \notin P[x].inviteList /\ V[q] = {}
    BY <1>1, <1>2, <1>6
  <2>2. SetOf(n) \cup P[x].inviteList \subseteq G /\ l \notin SetOf(n)
    BY <1>1, <1>3
  <2> QED
    BY <1>1, <1>2, <1>3, <1>5, <1>6, <1>10, <1>11, <2>1, <2>2 DEF Fits
<1>13. D = [P EXCEPT ![x] = r]
  BY DEF D
<1>14. /\ Shaped(D, E, V) /\ BothSides(D, V)
       /\ \A y \in Parties : ListAgrees(D, E, y) /\ Around(D, G, y)
       /\ \A y \in Parties \ {x} : NotLonely(D, y)
       /\ \A q \in Fellows : Unbound(D, E, V, q)
       /\ ~Alone(r) => Sound(D, E, V, G)
  <2>1. Fitted(D, E, V, G, x, r, {})
    BY <1>12, <1>13, OnePartySound
  <2> QED
    BY <2>1 DEF Fitted
<1>15. CASE Alone(r)
  <2>1. d = disband(left, x)
    BY <1>7, <1>9, <1>15
  <2>2. /\ \A q \in Fellows : E[q] = x => q \in Listed(D[x])
        /\ \A q \in Fellows : q \in Listed(D[x]) => E[q] \in {x, NoParty}
    BY <1>14 DEF ListAgrees
  <2>3. \A y \in Parties \ {x} : ListAgrees(D, E, y) /\ Around(D, G, y) /\ NotLonely(D, y)
    BY <1>14
  <2>6. MayEnd(D, E, V, G, x)
    BY <1>14, <2>2, <2>3 DEF MayEnd
  <2>4. /\ Sound(d.party, d.of, d.invites, G)
        /\ \A q \in Fellows : d.of[q] \in {E[q], NoParty} /\ d.invites[q] \subseteq V[q]
    <3>1. Ended(d, E, V, G)
      BY <1>9, <2>1, <2>6, DisbandSound
    <3> QED
      BY <3>1 DEF Ended
  <2>5. IsState(d, d.party, d.of, d.invites)
    BY <2>1, DisbandIs
  <2> QED
    BY <1>6, <2>4, <2>5 DEF Left
<1>16. CASE ~Alone(r)
  <2>1. d = left
    BY <1>7, <1>9, <1>16
  <2> QED
    BY <1>6, <1>9, <1>14, <1>16, <2>1 DEF Left
<1> QED
  BY <1>15, <1>16

\* The leader leaves and the party ends.
LEMMA EndSound ==
    ASSUME NEW P, NEW O, NEW V, NEW G \in SUBSET Fellows, Sound(P, O, V, G), NEW x \in Parties,
           NEW p \in Fellows, O[p] = x, p = P[x].leader, NEW s, IsState(s, P, O, V), NEW left,
           left = LeftBy(s, P, O, V, x, p),
           NEW d, d = disband(left, x)
    PROVE  Left(d, V, G, p)
<1> DEFINE m == P[x].memberList
           n == Leaving(m, p)
           r == [leader |-> p, memberList |-> n, inviteList |-> P[x].inviteList]
           D == [P EXCEPT ![x] = r]
           E == [O EXCEPT ![p] = NoParty]
<1>0. PartyFacts(P, O, V, G, x)
  BY SoundFacts
<1>1. /\ P[x] \in PartyRecord /\ m \in Seq(Fellows)
      /\ P[x].inviteList \in SUBSET Fellows
      /\ P \in [Parties -> PartyRecord] /\ O \in [Fellows -> Parties \cup {NoParty}]
      /\ V \in [Fellows -> SUBSET Parties]
      /\ Distinct(m) /\ p \notin SetOf(m)
      /\ \A q \in Fellows : O[q] = x <=> q = p \/ q \in SetOf(m)
      /\ \A q \in Fellows : x \in V[q] <=> q \in P[x].inviteList
      /\ \A q \in Fellows : O[q] = x => q \notin P[x].inviteList /\ (m # <<>> => V[q] = {})
      /\ NoParty \notin Parties /\ NoFellow \notin Fellows
  BY <1>0 DEF PartyFacts
<1>2. /\ BothSides(P, V) /\ \A y \in Parties : ListAgrees(P, O, y) /\ Around(P, G, y) /\ NotLonely(P, y)
      /\ \A q \in Fellows : Unbound(P, O, V, q)
  BY DEF Sound
<1>3. n \in Seq(Fellows) /\ SetOf(n) = SetOf(m) /\ (m = <<>> => n = <<>>)
  <2>1. n \in Seq(Fellows) /\ SetOf(n) = SetOf(m) \ {p}
    BY <1>1, LeavingFacts
  <2>2. SetOf(n) = SetOf(m)
    BY <1>1, <2>1
  <2> HIDE DEF n
  <2> QED
    BY <1>1, <2>1, <2>2, EmptyList
<1>4. [P[x] EXCEPT !.memberList = n] = r
  <2>1. P[x] \in PartyRecord
    BY <1>1
  <2> HIDE DEF n
  <2> QED
    BY <2>1 DEF PartyRecord
<1>5. r.leader = p /\ r.memberList = n /\ r.inviteList = P[x].inviteList /\ r \in PartyRecord
  <2> HIDE DEF n
  <2> QED
    BY <1>1, <1>3 DEF PartyRecord
<1> HIDE DEF n, r
<1>6. E \in [Fellows -> Parties \cup {NoParty}] /\ E[p] = NoParty /\ \A q \in Fellows \ {p} : E[q] = O[q]
  BY <1>1
<1>7. D[x] = r /\ D \in [Parties -> PartyRecord] /\ \A y \in Parties \ {x} : D[y] = P[y]
  BY <1>1, <1>5
<1>8. left = WithParty(s, x, r, E, V)
  BY <1>4 DEF n, LeftBy
<1> HIDE DEF E
<1>9. IsState(left, D, E, V)
  BY <1>8, WithPartyIs
<1> HIDE DEF D
<1>10. \A q \in Fellows, y \in Parties \ {x} : E[q] = y <=> O[q] = y
  BY <1>1, <1>6
<1>11. /\ \A q \in Fellows : E[q] = x => q \in Listed(D[x])
       /\ \A q \in Fellows : q \in Listed(D[x]) => E[q] \in {x, NoParty}
  BY <1>1, <1>3, <1>5, <1>6, <1>7 DEF Listed
<1>12. ASSUME NEW y \in Parties \ {x} PROVE ListAgrees(D, E, y) /\ Around(D, G, y) /\ NotLonely(D, y)
  <2>1. D[y] = P[y] /\ \A q \in Fellows : E[q] = y <=> O[q] = y
    BY <1>7, <1>10
  <2>2. ListAgrees(P, O, y) /\ Around(P, G, y) /\ NotLonely(P, y)
    BY <1>2
  <2> QED
    BY <2>1, <2>2 DEF ListAgrees, Around, NotLonely
<1>13. BothSides(D, V)
  <2>1. \A y \in Parties : D[y].inviteList = P[y].inviteList
    BY <1>5, <1>7
  <2> QED
    BY <1>2, <2>1 DEF BothSides
<1>14. ASSUME NEW q \in Fellows PROVE Unbound(D, E, V, q)
  <2>1. Unbound(P, O, V, q)
    BY <1>2
  <2>2. CASE E[q] = NoParty
    <3>1. \A y \in V[q] : y # NoParty
      BY <1>1
    <3> QED
      BY <2>2, <3>1 DEF Unbound
  <2>3. CASE E[q] # NoParty
    <3>1. E[q] = O[q] /\ O[q] \in Parties
      BY <1>1, <1>6, <2>3
    <3>2. P[O[q]].memberList = <<>> => D[O[q]].memberList = <<>>
      BY <1>3, <1>5, <1>7, <3>1
    <3> QED
      BY <2>1, <2>3, <3>1, <3>2 DEF Unbound
  <2> QED
    BY <2>2, <2>3
<1>15. MayEnd(D, E, V, G, x)
  <2>1. Shaped(D, E, V)
    BY <1>1, <1>6, <1>7 DEF Shaped
  <2> QED
    BY <1>11, <1>12, <1>13, <1>14, <2>1 DEF MayEnd
<1>16. /\ Sound(d.party, d.of, d.invites, G)
       /\ \A q \in Fellows : d.of[q] \in {E[q], NoParty} /\ d.invites[q] \subseteq V[q]
  <2>1. Ended(d, E, V, G)
    BY <1>9, <1>15, DisbandSound
  <2> QED
    BY <2>1 DEF Ended
<1>17. IsState(d, d.party, d.of, d.invites)
  BY DisbandIs
<1> QED
  BY <1>6, <1>16, <1>17 DEF Left

\* Party::leaveParty, by a member or by the leader.
LEMMA LeaveSound ==
    ASSUME NEW P, NEW O, NEW V, NEW G \in SUBSET Fellows, Sound(P, O, V, G), NEW x \in Parties,
           NEW p \in Fellows, O[p] = x, NEW s, IsState(s, P, O, V), NEW d, d = leaveParty(s, x, p)
    PROVE  Left(d, V, G, p)
<1> DEFINE r == P[x]
           others == Leaving(r.memberList, p)
           ends == /\ r.leader = p
                   /\ others = <<>> \/ (Len(others) = 1 /\ r.inviteList = {})
           passed == IF r.leader = p /\ ~ends THEN passPartyLeadership(s, x, Head(others)) ELSE s
           left == WithParty(passed, x, [passed.party[x] EXCEPT !.memberList = Leaving(@, p)],
                             [passed.of EXCEPT ![p] = NoParty], passed.invites)
<1>0. PartyFacts(P, O, V, G, x)
  BY SoundFacts
<1>1. s.party = P /\ s.of = O /\ s.invites = V
  BY StateFields
<1>2. d = IF ends \/ Alone(left.party[x]) THEN disband(left, x) ELSE left
  BY <1>1, ZenonT(30) DEF leaveParty
<1>3. /\ r.memberList \in Seq(Fellows) /\ Distinct(r.memberList) /\ r.leader \notin SetOf(r.memberList)
      /\ others \in Seq(Fellows) /\ SetOf(others) = SetOf(r.memberList) \ {p}
  <2>1. r.memberList \in Seq(Fellows) /\ Distinct(r.memberList) /\ r.leader \notin SetOf(r.memberList)
    BY <1>0 DEF PartyFacts
  <2> QED
    BY <2>1, LeavingFacts
<1>4. CASE r.leader = p /\ ends
  <2>1. passed = s
    BY <1>4
  <2>2. left = LeftBy(s, P, O, V, x, p)
    BY <1>1, <2>1 DEF LeftBy
  <2>3. d = disband(left, x)
    BY <1>2, <1>4
  <2> HIDE DEF left
  <2> QED
    BY <1>4, <2>2, <2>3, EndSound
<1>5. CASE r.leader = p /\ ~ends
  <2> DEFINE h == Head(others)
  <2>1. passed = passPartyLeadership(s, x, h)
    BY <1>5
  <2>2. h \in SetOf(r.memberList) /\ h # p
    <3>1. others # <<>>
      BY <1>5
    <3> HIDE DEF others
    <3>2. h \in SetOf(others)
      BY <1>3, <3>1 DEF SetOf
    <3> QED
      BY <1>3, <3>2
  <2>3. d = IF Alone(left.party[x]) THEN disband(left, x) ELSE left
    BY <1>2, <1>5
  <2> HIDE DEF h, passed
  <2> DEFINE Q == passed.party
  <2>4. IsState(passed, Q, O, V) /\ Sound(Q, O, V, G) /\ Q[x].leader = h
    BY <2>1, <2>2, PassSound
  <2>5. passed.of = O /\ passed.invites = V
    BY <2>4, StateFields
  <2>6. left = LeftBy(passed, Q, O, V, x, p)
    BY <2>5 DEF LeftBy
  <2> HIDE DEF left, Q
  <2> QED
    BY <2>2, <2>3, <2>4, <2>6, RemoveSound
<1>6. CASE r.leader # p
  <2>1. passed = s
    BY <1>6
  <2>2. left = LeftBy(s, P, O, V, x, p)
    BY <1>1, <2>1 DEF LeftBy
  <2>3. d = IF Alone(left.party[x]) THEN disband(left, x) ELSE left
    BY <1>2, <1>6
  <2> HIDE DEF left
  <2> QED
    BY <1>6, <2>2, <2>3, RemoveSound
<1> QED
  BY <1>4, <1>5, <1>6

\* A sound state may be cleared.
LEMMA SoundMayClear ==
    ASSUME NEW P, NEW O, NEW V, NEW G, Sound(P, O, V, G), NEW p
    PROVE  MayClear(P, O, V, G, p)
  BY DEF Sound, MayClear

\* The leader of x has no invitations, nor has anybody else in x, and p is in no party.
LeaderFree(c, P, G, x, p) ==
    /\ IsState(c, c.party, c.of, c.invites) /\ Sound(c.party, c.of, c.invites, G)
    /\ c.party[x] = P[x] /\ c.of[p] = NoParty
    /\ \A q \in Fellows : c.of[q] = x => c.invites[q] = {}

\* The first to join makes the leader drop its own invitations; otherwise nothing happens.
LEMMA LeaderCleared ==
    ASSUME NEW P, NEW O, NEW V, NEW G \in SUBSET Fellows, Sound(P, O, V, G), NEW x \in Parties,
           NEW p \in Fellows, O[p] = NoParty, P[x].leader \in Fellows,
           NEW s, IsState(s, P, O, V), NEW c,
           c = IF P[x].memberList = <<>> THEN clearPartyInvitations(s, P[x].leader) ELSE s
    PROVE  LeaderFree(c, P, G, x, p)
<1> DEFINE l == P[x].leader
           m == P[x].memberList
<1>0. PartyFacts(P, O, V, G, x)
  BY SoundFacts
<1>1. CASE m = <<>>
  <2>1. c = clearPartyInvitations(s, l)
    BY <1>1
  <2>2. MayClear(P, O, V, G, l)
    BY SoundMayClear
  <2>3. Cleared(c, P, O, V, G, l)
    BY <2>1, <2>2, ClearSound
  <2>4. /\ IsState(c, c.party, c.of, c.invites) /\ Sound(c.party, c.of, c.invites, G)
        /\ c.invites[l] = {} /\ c.of[p] = NoParty
        /\ \A y \in Parties \ V[l] : c.party[y] = P[y]
    BY <2>3 DEF Cleared
  <2>5. x \notin V[l]
    BY <1>0 DEF PartyFacts
  <2>6. c.party[x] = P[x]
    BY <2>4, <2>5
  <2>7. PartyFacts(c.party, c.of, c.invites, G, x)
    BY <2>4, SoundFacts
  <2>8. \A q \in Fellows : c.of[q] = x => q = l \/ q \in SetOf(m)
    BY <2>6, <2>7 DEF PartyFacts
  <2>9. SetOf(m) = {}
    <3>1. m \in Seq(Fellows)
      BY <1>0 DEF PartyFacts
    <3> QED
      BY <1>1, <3>1, EmptyList
  <2> QED
    BY <2>4, <2>6, <2>8, <2>9 DEF LeaderFree
<1>2. CASE m # <<>>
  <2>1. c = s /\ c.party = P /\ c.of = O /\ c.invites = V /\ IsState(c, c.party, c.of, c.invites)
    BY <1>2, StateFields
  <2>2. \A q \in Fellows : O[q] = x => V[q] = {}
    BY <1>0, <1>2 DEF PartyFacts
  <2> QED
    BY <2>1, <2>2 DEF LeaderFree
<1> QED
  BY <1>1, <1>2

\* Party::joinParty by somebody who is invited and in no party.
LEMMA JoinSound ==
    ASSUME NEW P, NEW O, NEW V, NEW G \in SUBSET Fellows, Sound(P, O, V, G), NEW x \in Parties,
           NEW p \in Fellows, O[p] = NoParty, p \in P[x].inviteList, P[x].leader \in G,
           NEW s, IsState(s, P, O, V), NEW d, d = joinParty(s, x, p)
    PROVE  Sound(d.party, d.of, d.invites, G)
<1> DEFINE c == IF P[x].memberList = <<>> THEN clearPartyInvitations(s, P[x].leader) ELSE s
           Q == c.party
           N == c.of
           U == c.invites
           l == Q[x].leader
           m == Q[x].memberList
           n == Append(m, p)
           r == [leader |-> l, memberList |-> n, inviteList |-> Q[x].inviteList]
           E == [N EXCEPT ![p] = x]
           D == [Q EXCEPT ![x] = r]
           j == WithParty(c, x, [Q[x] EXCEPT !.memberList = n], E, U)
<1>0. s.party = P
  BY StateFields
<1>1. d = clearPartyInvitations(j, p)
  BY <1>0 DEF joinParty
<1> HIDE DEF c
<1>2. /\ IsState(c, Q, N, U) /\ Sound(Q, N, U, G)
      /\ Q[x] = P[x] /\ N[p] = NoParty /\ \A q \in Fellows : N[q] = x => U[q] = {}
  <2>1. c = IF P[x].memberList = <<>> THEN clearPartyInvitations(s, P[x].leader) ELSE s
    BY DEF c
  <2>2. P[x].leader \in Fellows
    OBVIOUS
  <2>3. LeaderFree(c, P, G, x, p)
    BY <2>1, <2>2, LeaderCleared
  <2> QED
    BY <2>3 DEF LeaderFree
<1> HIDE DEF Q, N, U
<1>3. PartyFacts(Q, N, U, G, x)
  BY <1>2, SoundFacts
<1>4. /\ Q[x] \in PartyRecord /\ Q[x].inviteList \in SUBSET Fellows /\ m \in Seq(Fellows)
      /\ Q \in [Parties -> PartyRecord] /\ N \in [Fellows -> Parties \cup {NoParty}]
      /\ U \in [Fellows -> SUBSET Parties]
      /\ Distinct(m) /\ l \notin SetOf(m)
      /\ \A q \in Fellows : N[q] = x <=> q = l \/ q \in SetOf(m)
      /\ \A q \in Fellows : x \in U[q] <=> q \in Q[x].inviteList
      /\ SetOf(m) \cup Q[x].inviteList \subseteq G
      /\ NoParty \notin Parties
  BY <1>3 DEF PartyFacts
<1>5. l \in G /\ l \in Fellows /\ p \in G /\ p # l /\ p \notin SetOf(m)
  BY <1>2, <1>4
<1>6. n \in Seq(Fellows) /\ Distinct(n) /\ SetOf(n) = SetOf(m) \cup {p} /\ n # <<>>
  BY <1>4, <1>5, AppendDistinct
<1>7. [Q[x] EXCEPT !.memberList = n] = r
  <2>1. Q[x] \in PartyRecord
    BY <1>4
  <2> HIDE DEF n
  <2> QED
    BY <2>1 DEF PartyRecord
<1>8. r.leader = l /\ r.memberList = n /\ r.inviteList = Q[x].inviteList /\ r \in PartyRecord
  <2> HIDE DEF n
  <2> QED
    BY <1>4, <1>5, <1>6 DEF PartyRecord
<1>9. j = WithParty(c, x, r, E, U)
  BY <1>7
<1> HIDE DEF n, r
<1>10. E \in [Fellows -> Parties \cup {NoParty}] /\ E[p] = x /\ \A q \in Fellows \ {p} : E[q] = N[q]
  BY <1>4
<1> HIDE DEF E, j
<1>11. IsState(j, D, E, U)
  BY <1>2, <1>9, WithPartyIs
<1>12. Fits(Q, N, U, G, x, r, E, U, {p})
  <2>1. \A q \in Fellows : E[q] = x <=> q = l \/ q \in SetOf(n)
    BY <1>4, <1>6, <1>10
  <2>2. \A q \in Fellows, y \in Parties \ {x} : E[q] = y <=> N[q] = y
    BY <1>2, <1>4, <1>10
  <2>3. ASSUME NEW q \in Fellows \ {p}, E[q] = x PROVE q \notin Q[x].inviteList /\ U[q] = {}
    <3>1. N[q] = x /\ U[q] = {}
      BY <1>2, <1>10, <2>3
    <3> QED
      BY <1>4, <3>1
  <2>4. SetOf(n) \cup Q[x].inviteList \subseteq G /\ l \notin SetOf(n) /\ {p} \in SUBSET Fellows
    BY <1>4, <1>5, <1>6
  <2>5. \A q \in Fellows \ {p} : E[q] = x => q \notin r.inviteList /\ (r.memberList # <<>> => U[q] = {})
    BY <1>8, <2>3
  <2> QED
    BY <1>2, <1>4, <1>5, <1>6, <1>8, <1>10, <2>1, <2>2, <2>4, <2>5 DEF Fits
<1> HIDE DEF D
<1>13. Fitted(D, E, U, G, x, r, {p})
  <2>1. D = [Q EXCEPT ![x] = r]
    BY DEF D
  <2> QED
    BY <1>12, <2>1, OnePartySound
<1>14. MayClear(D, E, U, G, p)
  <2>1. ~Alone(r)
    BY <1>6, <1>8 DEF Alone
  <2> QED
    BY <1>13, <2>1 DEF Fitted, MayClear
<1>15. Cleared(d, D, E, U, G, p)
  BY <1>1, <1>11, <1>14, ClearSound
<1> QED
  BY <1>15 DEF Cleared

\* Party::removeInvite and the invitation that is revoked.
LEMMA RevokeSound ==
    ASSUME NEW P, NEW O, NEW V, NEW G \in SUBSET Fellows, Sound(P, O, V, G), NEW x \in Parties,
           NEW p \in Fellows, p \in P[x].inviteList, NEW s, IsState(s, P, O, V), NEW d,
           d = removeInvite(s, x, p)
    PROVE  Sound(d.party, d.of, d.invites, G)
<1> DEFINE l == P[x].leader
           m == P[x].memberList
           i == P[x].inviteList \ {p}
           r == [leader |-> l, memberList |-> m, inviteList |-> i]
           W == [V EXCEPT ![p] = V[p] \ {x}]
           D == [P EXCEPT ![x] = r]
           j == WithParty(s, x, [P[x] EXCEPT !.inviteList = i], O, W)
<1>0. PartyFacts(P, O, V, G, x)
  BY SoundFacts
<1>1. /\ P[x] \in PartyRecord /\ P[x].inviteList \in SUBSET Fellows /\ m \in Seq(Fellows)
      /\ l \in Fellows \cup {NoFellow}
      /\ P \in [Parties -> PartyRecord] /\ O \in [Fellows -> Parties \cup {NoParty}]
      /\ V \in [Fellows -> SUBSET Parties]
      /\ Distinct(m) /\ l \notin SetOf(m)
      /\ \A q \in Fellows : O[q] = x <=> q = l \/ q \in SetOf(m)
      /\ \A q \in Fellows : x \in V[q] <=> q \in P[x].inviteList
      /\ \A q \in Fellows : O[q] = x => q \notin P[x].inviteList /\ (m # <<>> => V[q] = {})
      /\ SetOf(m) \cup P[x].inviteList \subseteq G
  BY <1>0 DEF PartyFacts
<1>2. l \in G
  <2>1. P[x] # Disbanded /\ Around(P, G, x)
    BY DisbandedFacts DEF Sound
  <2> QED
    BY <2>1 DEF Around
<1>3. [P[x] EXCEPT !.inviteList = i] = r
  <2>1. P[x] \in PartyRecord
    BY <1>1
  <2> HIDE DEF i
  <2> QED
    BY <2>1 DEF PartyRecord
<1>4. r.leader = l /\ r.memberList = m /\ r.inviteList = i /\ r \in PartyRecord
  BY <1>1 DEF PartyRecord
<1>5. s.party = P /\ s.of = O /\ s.invites = V
  BY StateFields
<1>6. d = DisbandIfEmpty(j, x)
  BY <1>5 DEF removeInvite
<1> HIDE DEF r
<1>7. j = WithParty(s, x, r, O, W)
  BY <1>3
<1>8. W \in [Fellows -> SUBSET Parties] /\ W[p] = V[p] \ {x} /\ \A q \in Fellows \ {p} : W[q] = V[q]
  BY <1>1
<1> HIDE DEF W, j
<1>9. IsState(j, D, O, W) /\ j.party = D /\ D[x] = r
  <2>1. D[x] = r
    BY <1>1
  <2>2. IsState(j, D, O, W)
    BY <1>7, WithPartyIs
  <2> QED
    BY <2>1, <2>2, StateFields
<1>10. Fits(P, O, V, G, x, r, O, W, {})
  <2>1. \A q \in Fellows, y \in Parties \ {x} : (O[q] = y <=> O[q] = y) /\ (y \in W[q] <=> y \in V[q])
    BY <1>8
  <2>2. \A q \in Fellows : x \in W[q] <=> q \in i
    BY <1>1, <1>8
  <2>3. \A q \in Fellows : O[q] = x => q \notin i /\ (m # <<>> => W[q] = {})
    BY <1>1, <1>8
  <2>4. \A q \in i : q \in P[x].inviteList
    OBVIOUS
  <2> QED
    BY <1>1, <1>2, <1>4, <1>8, <2>1, <2>2, <2>3, <2>4 DEF Fits
<1> HIDE DEF D
<1>11. Fitted(D, O, W, G, x, r, {})
  <2>1. D = [P EXCEPT ![x] = r]
    BY DEF D
  <2> QED
    BY <1>10, <2>1, OnePartySound
<1>12. CASE Alone(r)
  <2>1. d = disband(j, x)
    BY <1>6, <1>9, <1>12 DEF DisbandIfEmpty
  <2>2. ListAgrees(D, O, x)
    BY <1>11 DEF Fitted
  <2>3. /\ \A q \in Fellows : O[q] = x => q \in Listed(D[x])
        /\ \A q \in Fellows : q \in Listed(D[x]) => O[q] \in {x, NoParty}
    BY <2>2 DEF ListAgrees
  <2>4. MayEnd(D, O, W, G, x)
    BY <1>11, <2>3 DEF Fitted, MayEnd
  <2>5. Ended(d, O, W, G)
    BY <1>9, <2>1, <2>4, DisbandSound
  <2> QED
    BY <2>5 DEF Ended
<1>13. CASE ~Alone(r)
  <2>1. d = j /\ d.party = D /\ d.of = O /\ d.invites = W
    BY <1>6, <1>9, <1>13, StateFields DEF DisbandIfEmpty
  <2> QED
    BY <1>11, <1>13, <2>1 DEF Fitted
<1> QED
  BY <1>12, <1>13

\* An invitation, to a party that p founds with it or already leads.
LEMMA InviteSound ==
    ASSUME NEW P, NEW O, NEW V, NEW G \in SUBSET Fellows, Sound(P, O, V, G), NEW x \in Parties,
           NEW p \in G, NEW q \in G, p # q, O[q] = NoParty,
           \/ O[p] = x /\ P[x].leader = p
           \/ O[p] = NoParty /\ P[x] = Disbanded,
           NEW r, r = [leader |-> p, memberList |-> P[x].memberList, inviteList |-> P[x].inviteList \cup {q}],
           NEW E, E = [O EXCEPT ![p] = x], NEW W, W = [V EXCEPT ![q] = V[q] \cup {x}],
           NEW D, D = [P EXCEPT ![x] = r]
    PROVE  Sound(D, E, W, G)
<1> DEFINE m == P[x].memberList
           i == P[x].inviteList \cup {q}
<1>0. PartyFacts(P, O, V, G, x)
  BY SoundFacts
<1>1. /\ P[x].inviteList \in SUBSET Fellows /\ m \in Seq(Fellows)
      /\ O \in [Fellows -> Parties \cup {NoParty}] /\ V \in [Fellows -> SUBSET Parties]
      /\ Distinct(m) /\ P[x].leader \notin SetOf(m)
      /\ \A a \in Fellows : O[a] = x <=> a = P[x].leader \/ a \in SetOf(m)
      /\ \A a \in Fellows : x \in V[a] <=> a \in P[x].inviteList
      /\ \A a \in Fellows : O[a] = x => a \notin P[x].inviteList /\ (m # <<>> => V[a] = {})
      /\ SetOf(m) \cup P[x].inviteList \subseteq G /\ NoParty \notin Parties /\ NoFellow \notin Fellows
  BY <1>0 DEF PartyFacts
<1>2. r.leader = p /\ r.memberList = m /\ r.inviteList = i /\ r \in PartyRecord
  BY <1>1 DEF PartyRecord
<1>3. /\ p \notin SetOf(m) /\ p \notin P[x].inviteList
      /\ \A a \in Fellows \ {p} : O[a] = x => m # <<>>
      /\ m # <<>> => V[p] = {}
  <2>1. CASE O[p] = x /\ P[x].leader = p
    <3>1. \A a \in Fellows \ {p} : O[a] = x => a \in SetOf(m)
      BY <1>1, <2>1
    <3>2. SetOf(m) # {} => m # <<>>
      BY <1>1, EmptyList
    <3> QED
      BY <1>1, <2>1, <3>1, <3>2
  <2>2. CASE P[x] = Disbanded
    <3>1. \A a \in Fellows : O[a] # x
      BY <1>1, <2>2, DisbandedFacts
    <3> QED
      BY <2>2, <3>1, DisbandedFacts
  <2> QED
    BY <2>1, <2>2
<1>4. /\ E \in [Fellows -> Parties \cup {NoParty}] /\ E[p] = x /\ \A a \in Fellows \ {p} : E[a] = O[a]
      /\ W \in [Fellows -> SUBSET Parties] /\ W[q] = V[q] \cup {x} /\ \A a \in Fellows \ {q} : W[a] = V[a]
  BY <1>1
<1>5. \A a \in Fellows : E[a] = x <=> a = p \/ a \in SetOf(m)
  <2>1. \A a \in Fellows \ {p} : O[a] = x <=> a \in SetOf(m)
    <3>1. CASE P[x].leader = p
      BY <1>1, <3>1
    <3>2. CASE P[x] = Disbanded
      BY <1>1, <3>2, DisbandedFacts
    <3> QED
      BY <3>1, <3>2
  <2> QED
    BY <1>4, <2>1
<1>6. \A a \in Fellows, y \in Parties \ {x} : (E[a] = y <=> O[a] = y) /\ (y \in W[a] <=> y \in V[a])
  BY <1>1, <1>4
<1>7. \A a \in Fellows : x \in W[a] <=> a \in i
  BY <1>1, <1>4
<1>8. ASSUME NEW a \in Fellows, E[a] = x PROVE a \notin i /\ (m # <<>> => W[a] = {})
  <2>1. a # q
    BY <1>1, <1>4, <1>8
  <2>2. CASE a = p
    BY <1>3, <1>4, <2>1, <2>2
  <2>3. CASE a # p
    BY <1>1, <1>4, <1>8, <2>1, <2>3
  <2> QED
    BY <2>2, <2>3
<1>9. \A a \in i : a \in P[x].inviteList \/ E[a] = NoParty
  BY <1>4
<1>10. SetOf(m) \cup i \subseteq G
  BY <1>1
<1> HIDE DEF i, m
<1>11. Fits(P, O, V, G, x, r, E, W, {})
  <2>1. Distinct(m) /\ {} \in SUBSET Fellows
    BY <1>1 DEF m
  <2> QED
    BY <1>2, <1>3, <1>4, <1>5, <1>6, <1>7, <1>8, <1>9, <1>10, <2>1 DEF Fits
<1>12. Fitted(D, E, W, G, x, r, {})
  BY <1>11, OnePartySound
<1>13. ~Alone(r)
  BY <1>2 DEF Alone, i
<1> QED
  BY <1>12, <1>13 DEF Fitted

\* Somebody whom no party knows may leave the game.
LEMMA GoneSound ==
    ASSUME NEW P, NEW O, NEW V, NEW G \in SUBSET Fellows, Sound(P, O, V, G), NEW p \in Fellows,
           O[p] = NoParty, V[p] = {}
    PROVE  Sound(P, O, V, G \ {p})
<1>1. ASSUME NEW x \in Parties PROVE Around(P, G \ {p}, x)
  <2>0. PartyFacts(P, O, V, G, x)
    BY SoundFacts
  <2>1. p # P[x].leader /\ p \notin SetOf(P[x].memberList) /\ p \notin P[x].inviteList
    BY <2>0 DEF PartyFacts
  <2>2. Around(P, G, x)
    BY DEF Sound
  <2> QED
    BY <2>1, <2>2 DEF Around
<1> QED
  BY <1>1 DEF Sound

-----------------------------------------------------------------------------
\* The inductive invariant: every reference agrees, for the players in the game.
PartyInv == inGame \in SUBSET Fellows /\ Sound(party, partyOf, invitePartyList, inGame)

\* The game starts with nobody in a party.
LEMMA PartyStarts == PartyInit => PartyInv
<1> SUFFICES ASSUME PartyInit PROVE PartyInv
  OBVIOUS
<1>1. /\ \A x \in Parties : party[x] = Disbanded /\ party \in [Parties -> PartyRecord]
      /\ \A p \in Fellows : partyOf[p] = NoParty /\ invitePartyList[p] = {}
      /\ party \in [Parties -> PartyRecord] /\ inGame \in SUBSET Fellows
      /\ partyOf \in [Fellows -> Parties \cup {NoParty}] /\ invitePartyList \in [Fellows -> SUBSET Parties]
  BY DisbandedFacts DEF PartyInit
<1>2. Shaped(party, partyOf, invitePartyList)
  BY <1>1 DEF Shaped
<1>3. BothSides(party, invitePartyList)
  BY <1>1, DisbandedFacts DEF BothSides
<1>4. ASSUME NEW x \in Parties
      PROVE  ListAgrees(party, partyOf, x) /\ Around(party, inGame, x) /\ NotLonely(party, x)
  <2>1. Around(party, inGame, x) /\ NotLonely(party, x)
    BY <1>1 DEF Around, NotLonely
  <2>2. ListAgrees(party, partyOf, x)
    BY <1>1, DisbandedFacts, PartyConstants DEF ListAgrees
  <2> QED
    BY <2>1, <2>2
<1>5. ASSUME NEW p \in Fellows PROVE Unbound(party, partyOf, invitePartyList, p)
  BY <1>1 DEF Unbound
<1> QED
  BY <1>1, <1>2, <1>3, <1>4, <1>5 DEF PartyInv, Sound

\* A handler's state of references becomes that of the variables.
LEMMA BecomeIs ==
    ASSUME NEW d, Become(d), Sound(d.party, d.of, d.invites, inGame), UNCHANGED inGame, PartyInv
    PROVE  PartyInv'
  BY DEF Become, PartyInv

\* Every step of Party keeps the invariant, whoever is in the game.
LEMMA PartyStep == PartyInv /\ [PartyNext]_partyVars => PartyInv'
<1> SUFFICES ASSUME PartyInv, [PartyNext]_partyVars PROVE PartyInv'
  OBVIOUS
<1> DEFINE P == party
           O == partyOf
           V == invitePartyList
           G == inGame
           s == References
<1>1. /\ G \in SUBSET Fellows /\ Sound(P, O, V, G) /\ IsState(s, P, O, V)
      /\ P \in [Parties -> PartyRecord] /\ O \in [Fellows -> Parties \cup {NoParty}]
      /\ V \in [Fellows -> SUBSET Parties]
  BY DEF PartyInv, References, IsState, Sound, Shaped
<1> HIDE DEF s
<1>2. ASSUME NEW p \in Fellows, NEW q \in Fellows, playerInviteToParty(p, q) PROVE PartyInv'
  <2>1. PICK x \in Parties :
          LET founds == partyOf[p] = NoParty
              r == [leader |-> p, memberList |-> party[x].memberList,
                    inviteList |-> party[x].inviteList \cup {q}]
          IN  /\ IF founds THEN Unused(x) ELSE partyOf[p] = x /\ Leads(p, x)
              /\ q \notin party[x].inviteList
              /\ Become(WithParty(References, x, r, [partyOf EXCEPT ![p] = x],
                                  [invitePartyList EXCEPT ![q] = @ \cup {x}]))
    BY <1>2 DEF playerInviteToParty
  <2> DEFINE r == [leader |-> p, memberList |-> P[x].memberList, inviteList |-> P[x].inviteList \cup {q}]
             E == [O EXCEPT ![p] = x]
             W == [V EXCEPT ![q] = V[q] \cup {x}]
             D == [P EXCEPT ![x] = r]
             d == WithParty(s, x, r, E, W)
  <2>2. p \in G /\ q \in G /\ p # q /\ O[q] = NoParty /\ UNCHANGED inGame
    BY <1>2 DEF playerInviteToParty
  <2>3. \/ O[p] = x /\ P[x].leader = p
        \/ O[p] = NoParty /\ P[x] = Disbanded
    BY <2>1 DEF Unused, Leads
  <2>4. Become(d)
    BY <2>1 DEF s
  <2> HIDE DEF r, E, W, d
  <2>5. d.party = D /\ d.of = E /\ d.invites = W
    <3>1. IsState(d, D, E, W)
      BY <1>1, WithPartyIs DEF d
    <3> QED
      BY <3>1, StateFields
  <2> HIDE DEF D
  <2>6. Sound(D, E, W, G)
    <3>1. /\ r = [leader |-> p, memberList |-> P[x].memberList, inviteList |-> P[x].inviteList \cup {q}]
          /\ E = [O EXCEPT ![p] = x] /\ W = [V EXCEPT ![q] = V[q] \cup {x}] /\ D = [P EXCEPT ![x] = r]
      BY DEF r, E, W, D
    <3> QED
      BY <1>1, <2>2, <2>3, <3>1, InviteSound
  <2> QED
    BY <2>2, <2>4, <2>5, <2>6, BecomeIs
<1>3. ASSUME NEW p \in Fellows, NEW q \in Fellows, playerJoinParty(p, q) PROVE PartyInv'
  <2> DEFINE x == O[q]
             d == joinParty(s, x, p)
  <2>1. /\ x \in Parties /\ P[x].leader \in G /\ p \in P[x].inviteList /\ O[p] = NoParty
        /\ Become(d) /\ UNCHANGED inGame
    BY <1>1, <1>3 DEF playerJoinParty, Leads, s
  <2> HIDE DEF d, x
  <2>2. Sound(d.party, d.of, d.invites, G)
    BY <1>1, <2>1, JoinSound DEF d
  <2> QED
    BY <2>1, <2>2, BecomeIs
<1>4. ASSUME NEW p \in Fellows, NEW q \in Fellows, playerRevokePartyInvitation(p, q) PROVE PartyInv'
  <2> DEFINE x == O[p]
             d == removeInvite(s, x, q)
  <2>1. x \in Parties /\ q \in P[x].inviteList /\ Become(d) /\ UNCHANGED inGame
    BY <1>1, <1>4 DEF playerRevokePartyInvitation, Leads, s
  <2> HIDE DEF d, x
  <2>2. Sound(d.party, d.of, d.invites, G)
    BY <1>1, <2>1, RevokeSound DEF d
  <2> QED
    BY <2>1, <2>2, BecomeIs
<1>5. ASSUME NEW p \in Fellows, NEW q \in Fellows, playerPassPartyLeadership(p, q) PROVE PartyInv'
  <2> DEFINE x == O[p]
             d == passPartyLeadership(s, x, q)
  <2>1. x \in Parties /\ P[x].leader = p /\ q # p /\ O[q] = x /\ Become(d) /\ UNCHANGED inGame
    BY <1>1, <1>5 DEF playerPassPartyLeadership, Leads, s
  <2> HIDE DEF d, x
  <2>2. PartyFacts(P, O, V, G, x)
    BY <1>1, <2>1, SoundFacts
  <2>3. q \in SetOf(P[x].memberList)
    BY <2>1, <2>2 DEF PartyFacts
  <2>4. IsState(d, d.party, O, V) /\ Sound(d.party, O, V, G)
    BY <1>1, <2>1, <2>3, PassSound DEF d
  <2>5. d.of = O /\ d.invites = V
    BY <2>4, StateFields
  <2> QED
    BY <2>1, <2>4, <2>5, BecomeIs
<1>6. ASSUME NEW p \in Fellows, playerLeaveParty(p) PROVE PartyInv'
  <2> DEFINE x == O[p]
             d == leaveParty(s, x, p)
  <2>1. x \in Parties /\ O[p] = x /\ Become(d) /\ UNCHANGED inGame
    BY <1>1, <1>6 DEF playerLeaveParty, s
  <2> HIDE DEF d, x
  <2>2. Left(d, V, G, p)
    BY <1>1, <2>1, LeaveSound DEF d
  <2> QED
    BY <2>1, <2>2, BecomeIs DEF Left
<1>7. ASSUME NEW p \in Fellows, partyLogout(p) PROVE PartyInv'
  <2> DEFINE c == clearPartyInvitations(s, p)
             d == IF c.of[p] = NoParty THEN c ELSE leaveParty(c, c.of[p], p)
  <2>1. Become(d) /\ inGame' = G \ {p}
    BY <1>7 DEF partyLogout, s
  <2> HIDE DEF c
  <2>2. Cleared(c, P, O, V, G, p)
    <3>1. MayClear(P, O, V, G, p)
      BY <1>1, SoundMayClear
    <3> QED
      BY <1>1, <3>1, ClearSound DEF c
  <2>3. /\ IsState(c, c.party, c.of, c.invites) /\ Sound(c.party, c.of, c.invites, G)
        /\ c.invites[p] = {}
    BY <2>2 DEF Cleared
  <2>4. Sound(d.party, d.of, d.invites, G \ {p})
    <3>1. CASE c.of[p] = NoParty
      BY <1>1, <2>3, <3>1, GoneSound
    <3>2. CASE c.of[p] # NoParty
      <4> DEFINE x == c.of[p]
      <4>1. x \in Parties /\ c.of[p] = x /\ d = leaveParty(c, x, p)
        BY <2>3, <3>2 DEF Sound, Shaped
      <4> HIDE DEF x, d
      <4>2. Left(d, c.invites, G, p)
        BY <1>1, <2>3, <4>1, LeaveSound
      <4>3. Sound(d.party, d.of, d.invites, G) /\ d.of[p] = NoParty /\ d.invites[p] = {}
        BY <2>3, <4>2 DEF Left
      <4> QED
        BY <1>1, <4>3, GoneSound
    <3> QED
      BY <3>1, <3>2
  <2> HIDE DEF d
  <2> QED
    BY <1>1, <2>1, <2>4 DEF Become, PartyInv
<1>8. ASSUME NEW p \in Fellows, partyLogin(p) PROVE PartyInv'
  <2>1. \A x \in Parties : Around(P, G, x) => Around(P, G \cup {p}, x)
    BY DEF Around
  <2>2. Sound(P, O, V, G \cup {p})
    BY <1>1, <2>1 DEF Sound
  <2> QED
    BY <1>1, <1>8, <2>2 DEF partyLogin, PartyInv
<1>9. CASE UNCHANGED partyVars
  BY <1>9 DEF partyVars, PartyInv
<1> QED
  BY <1>2, <1>3, <1>4, <1>5, <1>6, <1>7, <1>8, <1>9 DEF PartyNext

\* The indices of one entry in a list without repetition.
LEMMA CountInDistinct ==
    ASSUME NEW s \in Seq(Fellows), Distinct(s), NEW p
    PROVE  Cardinality({k \in DOMAIN s : s[k] = p}) = IF p \in SetOf(s) THEN 1 ELSE 0
<1> DEFINE K == {k \in DOMAIN s : s[k] = p}
<1>1. DOMAIN s = 1 .. Len(s)
  OBVIOUS
<1>2. CASE p \in SetOf(s)
  <2>1. PICK k \in DOMAIN s : s[k] = p
    BY <1>2 DEF SetOf
  <2>2. \A a \in K : a = k
    BY <1>1, <2>1 DEF Distinct
  <2>3. K = {k}
    BY <2>1, <2>2
  <2>4. Cardinality({k}) = 1
    BY FS_Singleton
  <2> QED
    BY <1>2, <2>3, <2>4
<1>3. CASE p \notin SetOf(s)
  <2>1. K = {}
    BY <1>3 DEF SetOf
  <2> QED
    BY <1>3, <2>1, FS_EmptySet
<1> QED
  BY <1>2, <1>3

\* The invariant implies the property.
LEMMA PartyInvImplies == PartyInv => PartiesAgree
<1> SUFFICES ASSUME PartyInv PROVE PartiesAgree
  OBVIOUS
<1>1. /\ inGame \in SUBSET Fellows /\ Sound(party, partyOf, invitePartyList, inGame)
      /\ partyOf \in [Fellows -> Parties \cup {NoParty}] /\ invitePartyList \in [Fellows -> SUBSET Parties]
  BY DEF PartyInv, Sound, Shaped
<1>2. ASSUME NEW x \in Parties PROVE PartyFacts(party, partyOf, invitePartyList, inGame, x)
  BY <1>1, SoundFacts
<1>3. PartyTypeOK
  <2>1. ASSUME NEW x \in Parties
        PROVE  /\ party[x].leader \in Fellows \cup {NoFellow}
               /\ SetOf(party[x].memberList) \cup party[x].inviteList \subseteq Fellows
    BY <1>2 DEF PartyFacts
  <2> QED
    BY <1>1, <2>1 DEF PartyTypeOK
<1>4. MembershipAgrees
  <2> SUFFICES ASSUME NEW p \in Fellows, NEW x \in Parties
               PROVE  Cardinality({k \in DOMAIN party[x].memberList : party[x].memberList[k] = p})
                      + (IF party[x].leader = p THEN 1 ELSE 0) = IF partyOf[p] = x THEN 1 ELSE 0
    BY DEF MembershipAgrees
  <2>1. /\ party[x].memberList \in Seq(Fellows) /\ Distinct(party[x].memberList)
        /\ party[x].leader \notin SetOf(party[x].memberList)
        /\ partyOf[p] = x <=> p = party[x].leader \/ p \in SetOf(party[x].memberList)
    BY <1>2 DEF PartyFacts
  <2> DEFINE c == Cardinality({k \in DOMAIN party[x].memberList : party[x].memberList[k] = p})
  <2>2. c = IF p \in SetOf(party[x].memberList) THEN 1 ELSE 0
    BY <2>1, CountInDistinct
  <2> HIDE DEF c
  <2>3. c + (IF party[x].leader = p THEN 1 ELSE 0) = IF partyOf[p] = x THEN 1 ELSE 0
    BY <2>1, <2>2
  <2> QED
    BY <2>3 DEF c
<1>5. NoLonelyParty
  <2>1. \A x \in Parties : Around(party, inGame, x) /\ NotLonely(party, x)
    BY <1>1 DEF Sound
  <2> QED
    BY <2>1 DEF Around, NotLonely, NoLonelyParty
<1>6. InvitedIsFree
  <2>1. BothSides(party, invitePartyList) /\ \A p \in Fellows : Unbound(party, partyOf, invitePartyList, p)
    BY <1>1 DEF Sound
  <2> QED
    BY <2>1 DEF InvitedIsFree, BothSides, Unbound
<1> QED
  BY <1>3, <1>4, <1>5, <1>6 DEF PartiesAgree

\* For every set of players and of parties: a player's party lists it once, invitations are known to
\* both sides, no party is left with nobody, and no reference is to a player that has left the game
\* (src/src/party.cpp, Player::leaveParty and clearPartyInvitations).
THEOREM PartiesAgreeTheorem == PartySpec => []PartiesAgree
<1> QED
  BY PartyStarts, PartyStep, PartyInvImplies, PTL DEF PartySpec

-----------------------------------------------------------------------------
\* Trades (src/src/game.cpp).

\* S holds every bag around i and around the bags of S.
Closed(h, i, S) == S \in SUBSET Bags /\ \A j \in {i} \cup S : h[j] \in Bags => h[j] \in S

\* The bags around an item are closed.
LEMMA AroundIsClosed ==
    ASSUME NEW h, NEW i
    PROVE  Closed(h, i, BagsAround(h, i))
<1> DEFINE C == {S \in SUBSET Bags : {h[j] : j \in {i} \cup S} \cap Bags \subseteq S}
           B == BagsAround(h, i)
<1>1. B = {b \in Bags : \A S \in C : b \in S}
  BY DEF BagsAround
<1>2. ASSUME NEW j \in {i} \cup B, h[j] \in Bags PROVE h[j] \in B
  <2>1. ASSUME NEW S \in C PROVE h[j] \in S
    <3>1. B \subseteq S
      BY <1>1
    <3>2. j \in {i} \cup S
      BY <3>1
    <3>3. h[j] \in {h[k] : k \in {i} \cup S} \cap Bags
      BY <1>2, <3>2
    <3> QED
      BY <3>3
  <2> HIDE DEF C, B
  <2> QED
    BY <1>1, <1>2, <2>1
<1> QED
  BY <1>1, <1>2 DEF Closed

\* Every closed set has all bags around an item.
LEMMA AroundIsLeast ==
    ASSUME NEW h, NEW i, NEW S, Closed(h, i, S)
    PROVE  BagsAround(h, i) \subseteq S
<1>1. {h[j] : j \in {i} \cup S} \cap Bags \subseteq S /\ S \in SUBSET Bags
  BY DEF Closed
<1> QED
  BY <1>1 DEF BagsAround

\* Item i goes to `to`: what holder t holds, and what it does not, stays if t is not above i before and after.
LEMMA MoveKeepsHeld ==
    ASSUME NEW h, DOMAIN h = Things, NEW i \in Things, NEW to, NEW t, NEW g, g = [h EXCEPT ![i] = to],
           ~Holds(h, t, i), t # to, to \in Bags => ~Holds(h, t, to), NEW j \in Things
    PROVE  Holds(g, t, j) <=> Holds(h, t, j)
<1>1. g[i] = to /\ \A k \in Things \ {i} : g[k] = h[k]
  OBVIOUS
<1>2. ASSUME NEW f, NEW k PROVE Closed(f, k, BagsAround(f, k))
  BY AroundIsClosed
<1>3. ASSUME NEW f, NEW k PROVE Holds(f, t, k) <=> \E b \in {k} \cup BagsAround(f, k) : t = f[b]
  BY DEF Holds, Above
<1>4. Bags \subseteq Things
  BY TradeConstants
<1>5. ASSUME Holds(g, t, j), ~Holds(h, t, j) PROVE FALSE
  <2> DEFINE T == IF to \in Bags THEN {to} \cup BagsAround(h, to) ELSE {}
             S == BagsAround(h, j) \cup T
  <2>1. /\ BagsAround(h, j) \in SUBSET Bags /\ \A b \in {j} \cup BagsAround(h, j) : h[b] \in Bags => h[b] \in S
        /\ T \in SUBSET Bags /\ \A b \in T : h[b] \in Bags => h[b] \in S
        /\ to \in Bags => to \in S
    <3>1. Closed(h, j, BagsAround(h, j)) /\ Closed(h, to, BagsAround(h, to))
      BY <1>2
    <3> QED
      BY <3>1 DEF Closed
  <2>2. \A b \in T : t # h[b]
    BY <1>3
  <2>3. \A b \in {j} \cup BagsAround(h, j) : t # h[b]
    BY <1>3, <1>5
  <2>4. Closed(g, j, S)
    <3> SUFFICES ASSUME NEW b \in {j} \cup S, g[b] \in Bags PROVE g[b] \in S
      BY <2>1 DEF Closed
    <3>1. CASE b = i
      BY <1>1, <2>1, <3>1
    <3>2. CASE b # i
      <4>1. b \in Things
        BY <1>4, <2>1
      <4>2. g[b] = h[b]
        BY <1>1, <3>2, <4>1
      <4> QED
        BY <2>1, <4>2
    <3> QED
      BY <3>1, <3>2
  <2>5. BagsAround(g, j) \subseteq S
    BY <2>4, AroundIsLeast
  <2>6. PICK b \in {j} \cup S : t = g[b]
    BY <1>3, <1>5, <2>5
  <2>7. b # i
    BY <1>1, <2>6
  <2>8. b \in Things
    BY <1>4, <2>1
  <2> QED
    BY <1>1, <2>2, <2>3, <2>6, <2>7, <2>8
<1>6. ASSUME Holds(h, t, j), ~Holds(g, t, j) PROVE FALSE
  <2> DEFINE S == BagsAround(g, j) \cup BagsAround(h, i)
  <2>1. /\ S \in SUBSET Bags
        /\ \A b \in {j} \cup BagsAround(g, j) : g[b] \in Bags => g[b] \in S
        /\ \A b \in {i} \cup BagsAround(h, i) : h[b] \in Bags => h[b] \in S
    <3>1. Closed(g, j, BagsAround(g, j)) /\ Closed(h, i, BagsAround(h, i))
      BY <1>2
    <3> QED
      BY <3>1 DEF Closed
  <2>2. \A b \in {i} \cup BagsAround(h, i) : t # h[b]
    BY <1>3
  <2>3. \A b \in {j} \cup BagsAround(g, j) : t # g[b]
    BY <1>3, <1>6
  <2>4. Closed(h, j, S)
    <3> SUFFICES ASSUME NEW b \in {j} \cup S, h[b] \in Bags PROVE h[b] \in S
      BY <2>1 DEF Closed
    <3>1. CASE b \in {i} \cup BagsAround(h, i)
      BY <2>1, <3>1
    <3>2. CASE b \notin {i} \cup BagsAround(h, i)
      <4>1. b \in Things /\ b # i /\ b \in {j} \cup BagsAround(g, j)
        BY <1>4, <2>1, <3>2
      <4>2. g[b] = h[b]
        BY <1>1, <4>1
      <4> QED
        BY <2>1, <4>1, <4>2
    <3> QED
      BY <3>1, <3>2
  <2>5. BagsAround(h, j) \subseteq S
    BY <2>4, AroundIsLeast
  <2>6. PICK b \in {j} \cup S : t = h[b]
    BY <1>3, <1>6, <2>5
  <2>7. b \notin {i} \cup BagsAround(h, i)
    BY <2>2, <2>6
  <2>8. b \in Things /\ b # i /\ b \in {j} \cup BagsAround(g, j)
    BY <1>4, <2>1, <2>7
  <2>9. g[b] = h[b]
    BY <1>1, <2>8
  <2> QED
    BY <2>3, <2>6, <2>8, <2>9
<1> QED
  BY <1>5, <1>6

\* Item i goes to `to`, and t is neither above it before nor after.
Beside(h, g, i, to, t) ==
    /\ DOMAIN h = Things /\ i \in Things /\ g = [h EXCEPT ![i] = to]
    /\ ~Holds(h, t, i) /\ t # to /\ (to \in Bags => ~Holds(h, t, to))

\* The contents of an offer that item i, on its way to `to`, neither leaves nor enters.
LEMMA MoveKeepsContents ==
    ASSUME NEW h, NEW g, NEW i, NEW to, NEW t, Beside(h, g, i, to, t)
    PROVE  Contents(g, t) = Contents(h, t)
<1>1. \A j \in Things : Holds(g, t, j) <=> Holds(h, t, j)
  BY MoveKeepsHeld DEF Beside
<1> QED
  BY <1>1 DEF Contents

-----------------------------------------------------------------------------
\* The values of a player's side of a trade.
TradeRecord ==
    [state : {"none", "initiated", "acknowledge", "accept"}, partner : Traders \cup {NoTrader},
     item : Things \cup {NoThing}]

\* Where an item can be.
Holders == Traders \cup Bags \cup {Ground, Nowhere}

\* The registry names the owner of every offer, and nothing else.
Registered(T, R) ==
    /\ DOMAIN R \subseteq Things /\ \A i \in DOMAIN R : R[i] \in Traders
    /\ \A i \in DOMAIN R : T[R[i]].item = i
    /\ \A p \in Traders : T[p].item # NoThing => T[p].item \in DOMAIN R /\ R[T[p].item] = p

\* Partners are each other's, and who has none trades nothing.
Mutual(T) ==
    \A p \in Traders : /\ T[p].state = "none" <=> T[p].partner = NoTrader
                       /\ T[p].partner # NoTrader => T[T[p].partner].partner = p

\* Offers exist, and none lies inside another.
Apart(T, h) ==
    /\ \A p \in Traders : T[p].item # NoThing => h[T[p].item] # Nowhere
    /\ \A p, q \in Traders : p # q /\ T[p].item # NoThing /\ T[q].item # NoThing =>
          T[q].item \notin Contents(h, T[p].item)

\* What a player accepted is the offer of its partner.
Shown(T, A, h) ==
    \A p \in Traders : A[p] # Unseen =>
        /\ T[p].partner # NoTrader /\ T[T[p].partner].item # NoThing
        /\ A[p] = Offer(h, T[T[p].partner].item)

\* Who has not offered anything.
Empty(T) == \A p \in Traders : T[p].state \in {"none", "acknowledge"} => T[p].item = NoThing

\* The inductive invariant: types, a registry of exactly the offers, mutual partners, offers that
\* exist apart from each other, and accepted offers that have not changed.
TradeInv ==
    /\ trade \in [Traders -> TradeRecord] /\ holder \in [Things -> Holders] /\ DOMAIN accepted = Traders
    /\ accepted = [p \in Traders |-> accepted[p]]
    /\ Registered(trade, tradeItems) /\ Mutual(trade) /\ Apart(trade, holder)
    /\ Shown(trade, accepted, holder) /\ Empty(trade)

\* The game starts without a trade.
LEMMA TradeStarts == TradeInit => TradeInv
<1> SUFFICES ASSUME TradeInit PROVE TradeInv
  OBVIOUS
<1>1. NoTrade \in TradeRecord /\ NoTrade.item = NoThing /\ NoTrade.state = "none" /\ NoTrade.partner = NoTrader
  BY DEF NoTrade, TradeRecord
<1>2. trade \in [Traders -> TradeRecord] /\ holder \in [Things -> Holders] /\ DOMAIN accepted = Traders
      /\ accepted = [p \in Traders |-> accepted[p]]
  BY <1>1 DEF TradeInit, Holders
<1>3. \A p \in Traders : trade[p] = NoTrade /\ accepted[p] = Unseen
  BY DEF TradeInit
<1>4. Registered(trade, tradeItems)
  BY <1>1, <1>3 DEF TradeInit, Registered
<1>5. Mutual(trade) /\ Apart(trade, holder) /\ Shown(trade, accepted, holder) /\ Empty(trade)
  BY <1>1, <1>3 DEF Mutual, Apart, Shown, Empty
<1> QED
  BY <1>2, <1>4, <1>5 DEF TradeInv

\* What is left of an offer that stays when items have moved.
Stays(t) == holder'[t] # Nowhere /\ Contents(holder', t) = Contents(holder, t)

\* internalCloseTrade, for one player or several, while items may move that no other offer is about.
LEMMA CloseKeepsTradeInv ==
    ASSUME TradeInv, NEW S \in SUBSET Traders, CloseTrades(S), holder' \in [Things -> Holders],
           \A p \in Traders \ WithPartners(S) : trade[p].item # NoThing => Stays(trade[p].item)
    PROVE  TradeInv'
<1> DEFINE W == WithPartners(S)
           gone == {trade[p].item : p \in W}
<1>0. /\ trade \in [Traders -> TradeRecord] /\ holder \in [Things -> Holders] /\ DOMAIN accepted = Traders
      /\ Registered(trade, tradeItems) /\ Mutual(trade) /\ Apart(trade, holder)
      /\ Shown(trade, accepted, holder) /\ Empty(trade) /\ NoTrader \notin Traders /\ NoThing \notin Things
  BY TradeConstants DEF TradeInv
<1>1. NoTrade \in TradeRecord /\ NoTrade.item = NoThing /\ NoTrade.state = "none" /\ NoTrade.partner = NoTrader
  BY DEF NoTrade, TradeRecord
<1>2. \A p \in Traders : trade[p].partner \in Traders \cup {NoTrader} /\ trade[p].item \in Things \cup {NoThing}
  BY <1>0 DEF TradeRecord
<1>3. W \subseteq Traders
  BY <1>2 DEF WithPartners
<1>4. /\ trade' = [p \in Traders |-> IF p \in W THEN NoTrade ELSE trade[p]]
      /\ accepted' = [p \in Traders |-> IF p \in W THEN Unseen ELSE accepted[p]]
      /\ tradeItems' = [i \in DOMAIN tradeItems \ gone |-> tradeItems[i]]
  BY DEF CloseTrades, Without
<1>5. /\ \A p \in W : trade'[p] = NoTrade /\ accepted'[p] = Unseen
      /\ \A p \in Traders \ W : trade'[p] = trade[p] /\ accepted'[p] = accepted[p]
      /\ trade' \in [Traders -> TradeRecord] /\ DOMAIN accepted' = Traders
      /\ accepted' = [p \in Traders |-> accepted'[p]]
  <2>1. \A p \in Traders : (IF p \in W THEN NoTrade ELSE trade[p]) \in TradeRecord
    BY <1>0, <1>1
  <2> HIDE DEF W
  <2> QED
    BY <1>3, <1>4, <2>1
\* Who stays keeps its partner.
<1>6. ASSUME NEW p \in Traders \ W, trade[p].partner # NoTrader PROVE trade[p].partner \in Traders \ W
  <2> DEFINE q == trade[p].partner
  <2>1. q \in Traders /\ trade[q].partner = p
    BY <1>0, <1>2, <1>6 DEF Mutual
  <2>2. q \notin S
    <3> HIDE DEF q
    <3>1. q \in S => p \in {trade[u].partner : u \in S}
      BY <2>1
    <3> QED
      BY <1>0, <3>1 DEF WithPartners
  <2>3. ASSUME NEW u \in S, trade[u].partner = q PROVE FALSE
    <3>1. trade[q].partner = u
      BY <1>0, <2>1, <2>3 DEF Mutual
    <3> QED
      BY <2>1, <3>1 DEF WithPartners
  <2> QED
    BY <2>1, <2>2, <2>3 DEF WithPartners
<1>7. ASSUME NEW p \in Traders \ W, trade[p].item # NoThing PROVE trade[p].item \notin gone
  <2> SUFFICES ASSUME NEW w \in W, trade[w].item = trade[p].item PROVE FALSE
    OBVIOUS
  <2>1. tradeItems[trade[p].item] = p /\ tradeItems[trade[w].item] = w
    BY <1>0, <1>3, <1>7 DEF Registered
  <2> QED
    BY <2>1
<1> HIDE DEF W
<1>8. Registered(trade', tradeItems')
  <2>1. DOMAIN tradeItems' = DOMAIN tradeItems \ gone /\ \A i \in DOMAIN tradeItems' : tradeItems'[i] = tradeItems[i]
    BY <1>4
  <2>2. ASSUME NEW i \in DOMAIN tradeItems'
        PROVE  i \in Things /\ tradeItems'[i] \in Traders /\ trade'[tradeItems'[i]].item = i
    <3>1. i \in Things /\ tradeItems[i] \in Traders /\ trade[tradeItems[i]].item = i /\ i \notin gone
      BY <1>0, <2>1, <2>2 DEF Registered
    <3>2. tradeItems[i] \notin W
      BY <3>1
    <3> QED
      BY <1>5, <2>1, <3>1, <3>2
  <2>3. ASSUME NEW p \in Traders, trade'[p].item # NoThing
        PROVE  trade'[p].item \in DOMAIN tradeItems' /\ tradeItems'[trade'[p].item] = p
    <3>1. p \in Traders \ W /\ trade'[p] = trade[p]
      BY <1>1, <1>5, <2>3
    <3>2. trade[p].item \in DOMAIN tradeItems /\ tradeItems[trade[p].item] = p
      BY <1>0, <2>3, <3>1 DEF Registered
    <3> QED
      BY <1>7, <2>1, <2>3, <3>1, <3>2
  <2> QED
    BY <2>2, <2>3 DEF Registered
<1>9. Mutual(trade')
  <2> SUFFICES ASSUME NEW p \in Traders
               PROVE  /\ trade'[p].state = "none" <=> trade'[p].partner = NoTrader
                      /\ trade'[p].partner # NoTrader => trade'[trade'[p].partner].partner = p
    BY DEF Mutual
  <2>1. CASE p \in W
    BY <1>1, <1>5, <2>1
  <2>2. CASE p \notin W
    <3>1. trade'[p] = trade[p] /\ (trade[p].partner # NoTrader => trade'[trade[p].partner] = trade[trade[p].partner])
      BY <1>5, <1>6, <2>2
    <3> QED
      BY <1>0, <3>1 DEF Mutual
  <2> QED
    BY <2>1, <2>2
<1>10. ASSUME NEW p \in Traders, trade'[p].item # NoThing
       PROVE  p \in Traders \ W /\ trade'[p] = trade[p] /\ Stays(trade[p].item)
  <2>1. p \in Traders \ W /\ trade'[p] = trade[p]
    BY <1>1, <1>5, <1>10
  <2> QED
    BY <1>10, <2>1 DEF W
<1>11. Apart(trade', holder')
  <2>1. ASSUME NEW p \in Traders, trade'[p].item # NoThing PROVE holder'[trade'[p].item] # Nowhere
    BY <1>10, <2>1 DEF Stays
  <2>2. ASSUME NEW p \in Traders, NEW q \in Traders, p # q, trade'[p].item # NoThing, trade'[q].item # NoThing
        PROVE  trade'[q].item \notin Contents(holder', trade'[p].item)
    <3>1. trade'[p] = trade[p] /\ trade'[q] = trade[q] /\ Contents(holder', trade[p].item) = Contents(holder, trade[p].item)
      BY <1>10, <2>2 DEF Stays
    <3> QED
      BY <1>0, <2>2, <3>1 DEF Apart
  <2> QED
    BY <2>1, <2>2 DEF Apart
<1>12. Shown(trade', accepted', holder')
  <2> SUFFICES ASSUME NEW p \in Traders, accepted'[p] # Unseen
               PROVE  /\ trade'[p].partner # NoTrader /\ trade'[trade'[p].partner].item # NoThing
                      /\ accepted'[p] = Offer(holder', trade'[trade'[p].partner].item)
    BY DEF Shown
  <2>1. p \in Traders \ W /\ trade'[p] = trade[p] /\ accepted'[p] = accepted[p]
    BY <1>5
  <2>2. trade[p].partner # NoTrader /\ trade[trade[p].partner].item # NoThing
        /\ accepted[p] = Offer(holder, trade[trade[p].partner].item)
    BY <1>0, <2>1 DEF Shown
  <2>3. trade[p].partner \in Traders /\ trade'[trade[p].partner] = trade[trade[p].partner]
    BY <1>5, <1>6, <2>1, <2>2
  <2>4. Stays(trade[trade[p].partner].item)
    BY <1>10, <2>2, <2>3
  <2> QED
    BY <2>1, <2>2, <2>3, <2>4 DEF Stays, Offer
<1>13. Empty(trade')
  <2> SUFFICES ASSUME NEW p \in Traders, trade'[p].state \in {"none", "acknowledge"} PROVE trade'[p].item = NoThing
    BY DEF Empty
  <2>1. CASE p \in W
    BY <1>1, <1>5, <2>1
  <2>2. CASE p \notin W
    BY <1>0, <1>5, <2>2 DEF Empty
  <2> QED
    BY <2>1, <2>2
<1> QED
  BY <1>5, <1>8, <1>9, <1>11, <1>12, <1>13 DEF TradeInv

\* An offer that nobody watches keeps what it holds when item i goes to `to`.
LEMMA UnwatchedStays ==
    ASSUME TradeInv, NEW i \in Things, NEW to \in Holders, NEW p \in Traders, trade[p].item # NoThing,
           p \notin Watches(i, to)
    PROVE  LET t == trade[p].item IN
           t \in Things /\ t # i /\ ~Holds(holder, t, i) /\ t # to /\ (to \in Bags => ~Holds(holder, t, to))
<1>1. holder[trade[p].item] # Nowhere /\ trade[p].item \in Things
  BY DEF TradeInv, Apart, TradeRecord
<1>2. TradeItem(holder, p) = trade[p].item
  BY <1>1 DEF TradeItem
<1> QED
  BY <1>1, <1>2 DEF Watches

\* A player offers an item.
LEMMA RequestKeepsTradeInv ==
    ASSUME TradeInv, NEW p \in Traders, NEW q \in Traders, NEW i \in Things, playerRequestTrade(p, q, i)
    PROVE  TradeInv'
<1>0. /\ trade \in [Traders -> TradeRecord] /\ holder \in [Things -> Holders]
      /\ Registered(trade, tradeItems) /\ Mutual(trade) /\ Apart(trade, holder)
      /\ Shown(trade, accepted, holder) /\ Empty(trade) /\ NoTrader \notin Traders /\ NoThing \notin Things
  BY TradeConstants DEF TradeInv
<1>1. /\ p # q /\ holder[i] # Nowhere /\ ~AlreadyTraded(i)
      /\ \/ trade[p].state = "none"
         \/ trade[p].state = "acknowledge" /\ trade[p].partner = q
      /\ trade[q].state = "none" \/ trade[q].partner = p
      /\ UNCHANGED <<holder, accepted>>
  BY DEF playerRequestTrade
<1> DEFINE a == [state |-> "initiated", partner |-> q, item |-> i]
           k == [state |-> "acknowledge", partner |-> p, item |-> trade[q].item]
           b == IF trade[q].state = "none" THEN k ELSE trade[q]
<1>2. \A r \in Traders : /\ trade[r].state \in {"none", "initiated", "acknowledge", "accept"}
                         /\ trade[r].partner \in Traders \cup {NoTrader}
                         /\ trade[r].item \in Things \cup {NoThing} /\ trade[r] \in TradeRecord
  BY <1>0 DEF TradeRecord
<1>3. a \in TradeRecord /\ a.state = "initiated" /\ a.partner = q /\ a.item = i
  BY DEF TradeRecord
<1>4. k \in TradeRecord /\ k.state = "acknowledge" /\ k.partner = p /\ k.item = trade[q].item
  BY <1>2 DEF TradeRecord
<1>5. trade' = [trade EXCEPT ![p] = a, ![q] = b]
  BY <1>0, <1>1 DEF playerRequestTrade
<1> HIDE DEF a, k
<1>6. b \in TradeRecord /\ b.state # "none" /\ b.partner = p /\ b.item = trade[q].item
      /\ (b.state = "acknowledge" => b.item = NoThing)
  <2>1. CASE trade[q].state = "none"
    <3>1. trade[q].item = NoThing
      BY <1>0, <2>1 DEF Empty
    <3> QED
      BY <1>4, <2>1, <3>1
  <2>2. CASE trade[q].state # "none"
    <3>1. b = trade[q]
      BY <2>2
    <3> QED
      BY <1>0, <1>1, <1>2, <2>2, <3>1 DEF Empty
  <2> QED
    BY <2>1, <2>2
<1> HIDE DEF b
<1>7. /\ trade' \in [Traders -> TradeRecord] /\ trade'[p] = a /\ trade'[q] = b
      /\ \A r \in Traders \ {p, q} : trade'[r] = trade[r]
  BY <1>0, <1>1, <1>3, <1>5, <1>6
\* What the others offer and with whom they trade.
<1>8. trade[p].item = NoThing /\ trade[p].partner \in {NoTrader, q} /\ trade[q].partner \in {NoTrader, p}
  BY <1>0, <1>1 DEF Empty, Mutual
<1>9. ASSUME NEW r \in Traders \ {p, q}, trade[r].partner # NoTrader PROVE trade[r].partner \in Traders \ {p, q}
  <2>1. trade[trade[r].partner].partner = r /\ trade[r].partner \in Traders
    BY <1>0, <1>2, <1>9 DEF Mutual
  <2> QED
    BY <1>0, <1>8, <2>1
<1>10. \A r \in Traders \ {p} : trade'[r].item = trade[r].item
  BY <1>6, <1>7
\* Item i is not on offer, nor inside an offer, nor around one.
<1>11. ASSUME NEW r \in Traders, trade[r].item # NoThing
       PROVE  /\ trade[r].item \in DOMAIN tradeItems /\ holder[trade[r].item] # Nowhere /\ trade[r].item \in Things
              /\ i # trade[r].item /\ trade[r].item \notin Contents(holder, i) /\ i \notin Contents(holder, trade[r].item)
  <2>1. /\ trade[r].item \in DOMAIN tradeItems /\ holder[trade[r].item] # Nowhere /\ trade[r].item \in Things
    BY <1>0, <1>2, <1>11 DEF Registered, Apart
  <2>2. i # trade[r].item /\ ~Holds(holder, i, trade[r].item) /\ ~Holds(holder, trade[r].item, i)
    BY <1>1, <2>1 DEF AlreadyTraded
  <2> QED
    BY <2>1, <2>2 DEF Contents
<1>12. Registered(trade', tradeItems')
  <2> DEFINE kept == {j \in DOMAIN tradeItems : holder[j] # Nowhere}
  <2>1. kept = DOMAIN tradeItems
    <3>1. \A j \in DOMAIN tradeItems : tradeItems[j] \in Traders /\ trade[tradeItems[j]].item = j /\ j \in Things
      BY <1>0 DEF Registered
    <3>2. \A j \in DOMAIN tradeItems : holder[j] # Nowhere
      BY <1>0, <3>1 DEF Apart
    <3> QED
      BY <3>2
  <2>2. tradeItems' = [j \in {i} \cup DOMAIN tradeItems |-> IF j = i THEN p ELSE tradeItems[j]]
    BY <2>1 DEF playerRequestTrade
  <2>7. i \notin DOMAIN tradeItems
    <3>1. i \in DOMAIN tradeItems => trade[tradeItems[i]].item = i /\ tradeItems[i] \in Traders
      BY <1>0 DEF Registered
    <3> QED
      BY <1>0, <1>11, <3>1
  <2>8. /\ DOMAIN tradeItems' = {i} \cup DOMAIN tradeItems /\ tradeItems'[i] = p
        /\ \A j \in DOMAIN tradeItems : tradeItems'[j] = tradeItems[j]
    BY <2>2, <2>7
  <2>9. ASSUME NEW j \in DOMAIN tradeItems
        PROVE  j \in Things /\ tradeItems'[j] \in Traders /\ trade'[tradeItems'[j]].item = j
    <3>1. j \in Things /\ tradeItems[j] \in Traders /\ trade[tradeItems[j]].item = j
      BY <1>0 DEF Registered
    <3>2. tradeItems[j] # p
      BY <1>0, <1>8, <3>1
    <3> QED
      BY <1>10, <2>8, <3>1, <3>2
  <2>10. trade'[tradeItems'[i]].item = i
    BY <1>3, <1>7, <2>8
  <2>11. ASSUME NEW r \in Traders, trade'[r].item # NoThing
         PROVE  trade'[r].item \in DOMAIN tradeItems' /\ tradeItems'[trade'[r].item] = r
    <3>1. CASE r = p
      BY <1>3, <1>7, <2>8, <3>1
    <3>2. CASE r # p
      <4>1. trade'[r].item = trade[r].item
        BY <1>10, <3>2
      <4> QED
        BY <1>0, <2>8, <2>11, <4>1 DEF Registered
    <3> QED
      BY <3>1, <3>2
  <2> QED
    BY <2>8, <2>9, <2>10, <2>11 DEF Registered
<1>13. Mutual(trade')
  <2> SUFFICES ASSUME NEW r \in Traders
               PROVE  /\ trade'[r].state = "none" <=> trade'[r].partner = NoTrader
                      /\ trade'[r].partner # NoTrader => trade'[trade'[r].partner].partner = r
    BY DEF Mutual
  <2>1. CASE r = p
    BY <1>0, <1>3, <1>6, <1>7, <2>1
  <2>2. CASE r = q
    BY <1>0, <1>3, <1>6, <1>7, <2>2
  <2>3. CASE r \notin {p, q}
    <3>1. trade'[r] = trade[r] /\ (trade[r].partner # NoTrader => trade'[trade[r].partner] = trade[trade[r].partner])
      BY <1>7, <1>9, <2>3
    <3> QED
      BY <1>0, <3>1 DEF Mutual
  <2> QED
    BY <2>1, <2>2, <2>3
<1>14. holder' = holder /\ accepted' = accepted
  BY <1>1
<1>15. Apart(trade', holder)
  <2>1. ASSUME NEW r \in Traders, trade'[r].item # NoThing PROVE holder[trade'[r].item] # Nowhere
    <3>1. CASE r = p
      BY <1>1, <1>3, <1>7, <3>1
    <3>2. CASE r # p
      BY <1>10, <1>11, <2>1, <3>2
    <3> QED
      BY <3>1, <3>2
  <2>2. ASSUME NEW r \in Traders, NEW u \in Traders, r # u, trade'[r].item # NoThing, trade'[u].item # NoThing
        PROVE  trade'[u].item \notin Contents(holder, trade'[r].item)
    <3>1. CASE r = p
      BY <1>3, <1>7, <1>10, <1>11, <2>2, <3>1
    <3>2. CASE u = p
      BY <1>3, <1>7, <1>10, <1>11, <2>2, <3>2
    <3>3. CASE r # p /\ u # p
      <4>1. trade'[r].item = trade[r].item /\ trade'[u].item = trade[u].item
        BY <1>10, <3>3
      <4> QED
        BY <1>0, <2>2, <4>1 DEF Apart
    <3> QED
      BY <3>1, <3>2, <3>3
  <2> QED
    BY <2>1, <2>2 DEF Apart
<1>16. Shown(trade', accepted, holder)
  <2> SUFFICES ASSUME NEW r \in Traders, accepted[r] # Unseen
               PROVE  /\ trade'[r].partner # NoTrader /\ trade'[trade'[r].partner].item # NoThing
                      /\ accepted[r] = Offer(holder, trade'[trade'[r].partner].item)
    BY DEF Shown
  <2>1. trade[r].partner # NoTrader /\ trade[trade[r].partner].item # NoThing
        /\ accepted[r] = Offer(holder, trade[trade[r].partner].item)
    BY <1>0 DEF Shown
  <2>2. trade[r].partner \in Traders \ {p}
    BY <1>2, <1>8, <2>1
  <2>3. trade'[r].partner = trade[r].partner
    <3>1. CASE r = p
      BY <1>3, <1>7, <1>8, <2>1, <3>1
    <3>2. CASE r = q
      BY <1>6, <1>7, <1>8, <2>1, <3>2
    <3>3. CASE r \notin {p, q}
      BY <1>7, <3>3
    <3> QED
      BY <3>1, <3>2, <3>3
  <2> QED
    BY <1>10, <2>1, <2>2, <2>3
<1>17. Empty(trade')
  <2> SUFFICES ASSUME NEW r \in Traders, trade'[r].state \in {"none", "acknowledge"} PROVE trade'[r].item = NoThing
    BY DEF Empty
  <2>1. CASE r = p
    BY <1>3, <1>7, <2>1
  <2>2. CASE r = q
    BY <1>6, <1>7, <2>2
  <2>3. CASE r \notin {p, q}
    BY <1>0, <1>7, <2>3 DEF Empty
  <2> QED
    BY <2>1, <2>2, <2>3
<1> QED
  BY <1>0, <1>7, <1>12, <1>13, <1>14, <1>15, <1>16, <1>17 DEF TradeInv

\* A player accepts.
LEMMA AcceptKeepsTradeInv ==
    ASSUME TradeInv, NEW p \in Traders, playerAcceptTrade(p)
    PROVE  TradeInv'
<1> DEFINE q == trade[p].partner
<1>0. /\ trade \in [Traders -> TradeRecord] /\ holder \in [Things -> Holders] /\ DOMAIN accepted = Traders
      /\ Registered(trade, tradeItems) /\ Mutual(trade) /\ Apart(trade, holder)
      /\ Shown(trade, accepted, holder) /\ Empty(trade) /\ NoTrader \notin Traders /\ NoThing \notin Things
      /\ Traders \cap Things = {}
  BY TradeConstants DEF TradeInv
<1>1. \A r \in Traders : /\ trade[r].state \in {"none", "initiated", "acknowledge", "accept"}
                         /\ trade[r].partner \in Traders \cup {NoTrader}
                         /\ trade[r].item \in Things \cup {NoThing} /\ trade[r] \in TradeRecord
                         /\ (trade[r].item # NoThing => Contents(holder, trade[r].item) = Contents(holder, trade[r].item))
  BY <1>0 DEF TradeRecord
<1>2. trade[p].state \in {"acknowledge", "initiated"} /\ q \in Traders
  <2>1. trade[p].state \in {"acknowledge", "initiated"}
    BY DEF playerAcceptTrade
  <2>2. trade[p].state # "none"
    BY <2>1
  <2> QED
    BY <1>0, <1>1, <2>1, <2>2 DEF Mutual
<1>3. ASSUME UNCHANGED holder, NEW r \in Traders, trade[r].item # NoThing PROVE Stays(trade[r].item)
  BY <1>0, <1>3 DEF Stays, Apart
<1>4. CASE CloseTrades({p}) /\ UNCHANGED holder
  <2>1. holder' \in [Things -> Holders] /\ {p} \in SUBSET Traders
    BY <1>0, <1>4
  <2> QED
    BY <1>3, <1>4, <2>1, CloseKeepsTradeInv
<1>5. CASE /\ trade[q].state # "accept"
           /\ trade' = [trade EXCEPT ![p].state = "accept"]
           /\ accepted' = [accepted EXCEPT ![p] = IF TradeItem(holder, q) = NoThing THEN Unseen
                                                  ELSE Offer(holder, TradeItem(holder, q))]
           /\ UNCHANGED <<tradeItems, holder>>
  <2> DEFINE a == [state |-> "accept", partner |-> q, item |-> trade[p].item]
  <2>1. trade' \in [Traders -> TradeRecord] /\ trade'[p] = a /\ \A r \in Traders \ {p} : trade'[r] = trade[r]
    BY <1>0, <1>5 DEF TradeRecord
  <2>2. a.state = "accept" /\ a.partner = trade[p].partner /\ a.item = trade[p].item
    OBVIOUS
  <2> HIDE DEF a
  <2>3. \A r \in Traders : trade'[r].partner = trade[r].partner /\ trade'[r].item = trade[r].item
                           /\ (trade'[r].state = trade[r].state \/ (r = p /\ trade'[r].state = "accept"))
    BY <2>1, <2>2
  <2>4. TradeItem(holder, q) = trade[q].item
    <3>1. trade[q].item # NoThing => holder[trade[q].item] # Nowhere
      BY <1>0, <1>2 DEF Apart
    <3> QED
      BY <3>1 DEF TradeItem
  <2>5. /\ accepted'[p] # Unseen => trade[q].item # NoThing /\ accepted'[p] = Offer(holder, trade[q].item)
        /\ \A r \in Traders \ {p} : accepted'[r] = accepted[r]
        /\ DOMAIN accepted' = Traders /\ accepted' = [r \in Traders |-> accepted'[r]]
    <3> DEFINE v == IF TradeItem(holder, q) = NoThing THEN Unseen ELSE Offer(holder, TradeItem(holder, q))
    <3>1. v # Unseen => trade[q].item # NoThing /\ v = Offer(holder, trade[q].item)
      BY <2>4
    <3>2. accepted' = [accepted EXCEPT ![p] = v]
      BY <1>5
    <3> HIDE DEF v
    <3> QED
      BY <1>0, <3>1, <3>2
  <2>6. Registered(trade', tradeItems') /\ Apart(trade', holder')
    BY <1>0, <1>5, <2>3 DEF Registered, Apart
  <2>7. Mutual(trade')
    <3> SUFFICES ASSUME NEW r \in Traders
                 PROVE  /\ trade'[r].state = "none" <=> trade'[r].partner = NoTrader
                        /\ trade'[r].partner # NoTrader => trade'[trade'[r].partner].partner = r
      BY DEF Mutual
    <3>1. trade'[r].state = "none" <=> trade[r].state = "none"
      BY <1>2, <2>3
    <3>2. trade[r].partner # NoTrader => trade'[trade[r].partner].partner = trade[trade[r].partner].partner
      BY <1>1, <2>3
    <3> QED
      BY <1>0, <2>3, <3>1, <3>2 DEF Mutual
  <2>8. Shown(trade', accepted', holder')
    <3> SUFFICES ASSUME NEW r \in Traders, accepted'[r] # Unseen
                 PROVE  /\ trade'[r].partner # NoTrader /\ trade'[trade'[r].partner].item # NoThing
                        /\ accepted'[r] = Offer(holder', trade'[trade'[r].partner].item)
      BY DEF Shown
    <3>1. /\ trade[r].partner # NoTrader /\ trade[trade[r].partner].item # NoThing
          /\ accepted'[r] = Offer(holder, trade[trade[r].partner].item)
      <4>1. CASE r = p
        BY <1>0, <1>2, <2>5, <4>1
      <4>2. CASE r # p
        BY <1>0, <2>5, <4>2 DEF Shown
      <4> QED
        BY <4>1, <4>2
    <3> QED
      BY <1>1, <1>5, <2>3, <3>1
  <2>9. Empty(trade')
    BY <1>0, <2>3 DEF Empty
  <2> QED
    BY <1>0, <1>5, <2>1, <2>5, <2>6, <2>7, <2>8, <2>9 DEF TradeInv
<1>6. CASE /\ TradeItem(holder, p) # NoThing /\ TradeItem(holder, q) # NoThing
           /\ holder' = [holder EXCEPT ![trade[p].item] = q, ![trade[q].item] = p]
           /\ CloseTrades({p} \cup Watches(trade[p].item, q) \cup Watches(trade[q].item, p))
  <2> DEFINE a == trade[p].item
             b == trade[q].item
             g == [holder EXCEPT ![a] = q]
             S == {p} \cup Watches(a, q) \cup Watches(b, p)
  <2>1. a \in Things /\ b \in Things
    BY <1>1, <1>2, <1>6 DEF TradeItem
  <2>2. q \in Holders /\ p \in Holders /\ q \notin Bags /\ p \notin Bags /\ q \notin Things /\ p \notin Things
    BY <1>0, <1>2, TradeConstants DEF Holders
  <2>3. holder' = [g EXCEPT ![b] = p] /\ DOMAIN g = Things /\ g \in [Things -> Holders]
    BY <1>0, <1>6, <2>1, <2>2
  <2>4. S \in SUBSET Traders /\ holder' \in [Things -> Holders]
    BY <2>1, <2>2, <2>3 DEF Watches
  <2>5. ASSUME NEW r \in Traders \ WithPartners(S), trade[r].item # NoThing PROVE Stays(trade[r].item)
    <3> DEFINE t == trade[r].item
    <3>1. r \notin Watches(a, q) /\ r \notin Watches(b, p)
      BY <2>5 DEF WithPartners
    <3>2. t \in Things /\ t # a /\ ~Holds(holder, t, a) /\ t # b /\ ~Holds(holder, t, b)
      <4> HIDE DEF a, b, q
      <4> QED
        BY <2>1, <2>2, <2>5, <3>1, UnwatchedStays
    <3>3. t # q /\ t # p /\ holder[t] # Nowhere
      BY <1>0, <2>2, <2>5, <3>2 DEF Apart
    <3> HIDE DEF t, a, b, q
    <3>4. Contents(g, t) = Contents(holder, t)
      <4>1. Beside(holder, g, a, q, t)
        BY <1>0, <2>1, <2>2, <3>2, <3>3 DEF Beside, g
      <4> QED
        BY <4>1, MoveKeepsContents
    <3>5. ~Holds(g, t, b)
      BY <2>1, <3>2, <3>4 DEF Contents
    <3> HIDE DEF g
    <3>6. Contents(holder', t) = Contents(g, t)
      <4>1. Beside(g, holder', b, p, t)
        BY <2>1, <2>2, <2>3, <3>3, <3>5 DEF Beside
      <4> QED
        BY <4>1, MoveKeepsContents
    <3>7. holder'[t] = holder[t]
      BY <1>0, <2>1, <2>3, <3>2 DEF g
    <3> QED
      BY <3>3, <3>4, <3>6, <3>7 DEF Stays, t
  <2> HIDE DEF S
  <2>6. CloseTrades(S)
    BY <1>6 DEF S
  <2> QED
    BY <2>4, <2>5, <2>6, CloseKeepsTradeInv
<1>7. CASE /\ TradeItem(holder, p) # NoThing
           /\ holder' = [holder EXCEPT ![trade[p].item] = q]
           /\ CloseTrades({p} \cup Watches(trade[p].item, q))
  <2> DEFINE a == trade[p].item
             S == {p} \cup Watches(a, q)
  <2>1. a \in Things
    BY <1>1, <1>2, <1>7 DEF TradeItem
  <2>2. q \in Holders /\ q \notin Bags /\ q \notin Things
    BY <1>0, <1>2, TradeConstants DEF Holders
  <2>3. S \in SUBSET Traders /\ holder' \in [Things -> Holders] /\ CloseTrades(S)
    BY <1>0, <1>7, <2>1, <2>2 DEF Watches
  <2>4. ASSUME NEW r \in Traders \ WithPartners(S), trade[r].item # NoThing PROVE Stays(trade[r].item)
    <3> DEFINE t == trade[r].item
    <3>1. r \notin Watches(a, q)
      BY <2>4 DEF WithPartners
    <3>2. t \in Things /\ t # a /\ ~Holds(holder, t, a)
      <4> HIDE DEF a, q
      <4> QED
        BY <2>1, <2>2, <2>4, <3>1, UnwatchedStays
    <3>3. t # q /\ holder[t] # Nowhere
      BY <1>0, <2>2, <2>4, <3>2 DEF Apart
    <3> HIDE DEF t, a, q
    <3>4. Contents(holder', t) = Contents(holder, t)
      <4>1. Beside(holder, holder', a, q, t)
        BY <1>0, <1>7, <2>1, <2>2, <3>2, <3>3 DEF Beside, a
      <4> QED
        BY <4>1, MoveKeepsContents
    <3>5. holder'[t] = holder[t]
      BY <1>0, <1>7, <2>1, <3>2 DEF a
    <3> QED
      BY <3>3, <3>4, <3>5 DEF Stays, t
  <2> HIDE DEF S
  <2> QED
    BY <2>3, <2>4, CloseKeepsTradeInv
<1> QED
  BY <1>4, <1>5, <1>6, <1>7 DEF playerAcceptTrade, Transfer

\* An item moves.
LEMMA MoveKeepsTradeInv ==
    ASSUME TradeInv, NEW i \in Things, NEW to \in Holders, moveThing(i, to)
    PROVE  TradeInv'
<1> DEFINE S == Watches(i, to)
<1>1. /\ holder \in [Things -> Holders] /\ holder' = [holder EXCEPT ![i] = to] /\ CloseTrades(S)
      /\ DOMAIN holder = Things /\ holder' \in [Things -> Holders] /\ S \in SUBSET Traders
  BY DEF TradeInv, moveThing, Watches
<1>2. ASSUME NEW r \in Traders \ WithPartners(S), trade[r].item # NoThing PROVE Stays(trade[r].item)
  <2> DEFINE t == trade[r].item
  <2>1. r \notin S
    BY <1>2 DEF WithPartners
  <2>2. t \in Things /\ t # i /\ ~Holds(holder, t, i) /\ t # to /\ (to \in Bags => ~Holds(holder, t, to))
    BY <1>2, <2>1, UnwatchedStays
  <2>3. holder[t] # Nowhere
    BY <1>2 DEF TradeInv, Apart
  <2> HIDE DEF t
  <2>4. Contents(holder', t) = Contents(holder, t)
    <3>1. Beside(holder, holder', i, to, t)
      BY <1>1, <2>2 DEF Beside
    <3> QED
      BY <3>1, MoveKeepsContents
  <2> QED
    BY <1>1, <2>2, <2>3, <2>4 DEF Stays, t
<1> HIDE DEF S
<1> QED
  BY <1>1, <1>2, CloseKeepsTradeInv

\* Every step of Trade keeps the invariant.
LEMMA TradeStep == TradeInv /\ [TradeNext]_tradeVars => TradeInv'
<1> SUFFICES ASSUME TradeInv, [TradeNext]_tradeVars PROVE TradeInv'
  OBVIOUS
<1>1. ASSUME NEW p \in Traders, CloseTrades({p}), UNCHANGED holder PROVE TradeInv'
  <2>1. holder' \in [Things -> Holders] /\ {p} \in SUBSET Traders
    BY <1>1 DEF TradeInv
  <2>2. ASSUME NEW r \in Traders, trade[r].item # NoThing PROVE Stays(trade[r].item)
    BY <1>1, <2>2 DEF Stays, Apart, TradeInv
  <2> QED
    BY <1>1, <2>1, <2>2, CloseKeepsTradeInv
<1>2. CASE \E p, q \in Traders, i \in Things : playerRequestTrade(p, q, i)
  BY <1>2, RequestKeepsTradeInv
<1>3. CASE \E p \in Traders : playerAcceptTrade(p) \/ playerCloseTrade(p) \/ tradeLeaves(p)
  BY <1>1, <1>3, AcceptKeepsTradeInv DEF playerCloseTrade, tradeLeaves
<1>4. CASE \E i \in Things, to \in Traders \cup Bags \cup {Ground, Nowhere} : moveThing(i, to)
  BY <1>4, MoveKeepsTradeInv DEF Holders
<1>5. CASE UNCHANGED tradeVars
  BY <1>5 DEF tradeVars, TradeInv
<1> QED
  BY <1>2, <1>3, <1>4, <1>5 DEF TradeNext

\* The invariant implies both properties.
LEMMA TradeInvImplies == TradeInv => TradesAgree /\ AcceptedIsOffered
<1> SUFFICES ASSUME TradeInv PROVE TradesAgree /\ AcceptedIsOffered
  OBVIOUS
<1>0. /\ trade \in [Traders -> TradeRecord] /\ holder \in [Things -> Holders]
      /\ Registered(trade, tradeItems) /\ Mutual(trade) /\ Apart(trade, holder)
      /\ Shown(trade, accepted, holder)
  BY DEF TradeInv
<1>1. TradeTypeOK
  BY <1>0 DEF TradeTypeOK, TradeRecord, Registered, Holders
<1>2. TradeIsMutual
  BY <1>0 DEF TradeIsMutual, Mutual
<1>3. OffersRegistered
  <2>1. ASSUME NEW p \in Traders, NEW q \in Traders, p # q, trade[p].item # NoThing, trade[q].item # NoThing
        PROVE  ~Holds(holder, trade[p].item, trade[q].item) /\ trade[p].item # trade[q].item
    <3>1. trade[q].item \notin Contents(holder, trade[p].item) /\ trade[q].item \in Things
      BY <1>0, <2>1 DEF Apart, TradeRecord
    <3>2. trade[p].item # trade[q].item
      BY <1>0, <2>1 DEF Registered
    <3> QED
      BY <3>1, <3>2 DEF Contents
  <2>2. \A p \in Traders : TradeItem(holder, p) # NoThing => trade[p].item # NoThing
    BY DEF TradeItem
  <2>3. /\ \A i \in DOMAIN tradeItems : trade[tradeItems[i]].item = i
        /\ \A p \in Traders : trade[p].item # NoThing =>
              trade[p].item \in DOMAIN tradeItems /\ tradeItems[trade[p].item] = p
    BY <1>0 DEF Registered
  <2> QED
    BY <2>1, <2>2, <2>3 DEF OffersRegistered
<1>4. AcceptedIsOffered
  BY <1>0 DEF AcceptedIsOffered, Shown
<1> QED
  BY <1>1, <1>2, <1>3, <1>4 DEF TradesAgree

\* For every set of players, items and bags: the partners, the items on offer and the registry of
\* trade items agree (Game::playerRequestTrade, playerAcceptTrade, internalCloseTrade).
THEOREM TradesAgreeTheorem == TradeSpec => []TradesAgree
<1> QED
  BY TradeStarts, TradeStep, TradeInvImplies, PTL DEF TradeSpec

\* For every set of players, items and bags: what a player has accepted is what its partner still
\* offers, contents included, whatever items were moved in between (Player::checkTradeState,
\* Game::playerAcceptTrade).
THEOREM AcceptedIsOfferedTheorem == TradeSpec => []AcceptedIsOffered
<1> QED
  BY TradeStarts, TradeStep, TradeInvImplies, PTL DEF TradeSpec

-----------------------------------------------------------------------------
\* The waiting list (src/src/protocolgame.cpp, clientLogin).

\* An entry of the waiting list.
WaitEntry == [deadline : Nat, guid : Clients]

\* Nobody waits twice in queue.
OnceEach(queue) == \A j, k \in DOMAIN queue : queue[j].guid = queue[k].guid => j = k

\* The premium clients of queue are among its first count entries.
Prior(queue, count) == \A k \in DOMAIN queue : queue[k].guid \in Premium => k <= count

\* A waiting list and its priorityCount, as they should be.
SoundList(queue, count) == queue \in Seq(WaitEntry) /\ count \in Nat /\ OnceEach(queue) /\ Prior(queue, count)

\* priorityCount is exact: the premium clients are the first count entries, and no others are.
Exact(queue, count) ==
    count <= Len(queue) /\ \A k \in DOMAIN queue : queue[k].guid \in Premium <=> k <= count

\* The inductive invariant: nobody waits twice, premium clients are within the priority part, which is
\* exact until two of them expire in one call, and the last answer holds.
WaitInv ==
    /\ SoundList(waitList, priorityCount) /\ clock \in Nat /\ pairExpired \in BOOLEAN
    /\ ~pairExpired => Exact(waitList, priorityCount)
    /\ online \subseteq Clients /\ loading \subseteq Clients
    /\ SlotIsNoBetter

\* What erase_if has made of the list after every visit.
Visits(g, n) ==
    g = [k \in 0 .. n |-> IF k = 0 THEN [list |-> <<>>, count |-> priorityCount] ELSE Visit(g[k - 1], k)]

\* There is such a function (induction over the visits, by their least exception).
LEMMA VisitsExist ==
    ASSUME NEW n \in Nat
    PROVE  \E g : Visits(g, n)
<1> SUFFICES ASSUME ~\E g : Visits(g, n) PROVE FALSE
  OBVIOUS
<1> DEFINE T == {m \in Nat : ~\E g : Visits(g, m)}
           start == [list |-> <<>>, count |-> priorityCount]
<1>1. T \in SUBSET Nat /\ T # {}
  OBVIOUS
<1>2. PICK m \in T : \A y \in T : m <= y
  <2> HIDE DEF T
  <2> QED
    BY <1>1, NatMin
<1>3. CASE m = 0
  <2> DEFINE g == [k \in 0 .. 0 |-> start]
  <2>1. Visits(g, 0)
    <3>1. \A k \in 0 .. 0 : k = 0
      OBVIOUS
    <3> QED
      BY <3>1 DEF Visits
  <2> QED
    BY <1>2, <1>3, <2>1
<1>4. CASE m # 0
  <2>1. m - 1 \in Nat /\ m - 1 \notin T
    BY <1>1, <1>2, <1>4
  <2>2. PICK g : Visits(g, m - 1)
    BY <2>1
  <2> DEFINE h == [k \in 0 .. m |-> IF k = m THEN Visit(g[m - 1], m) ELSE g[k]]
  <2>3. \A k \in 0 .. m - 1 : g[k] = IF k = 0 THEN start ELSE Visit(g[k - 1], k)
    BY <2>2 DEF Visits
  <2>4. \A k \in 1 .. m : k - 1 \in 0 .. m - 1 /\ k - 1 \in 0 .. m /\ k - 1 # m /\ h[k - 1] = g[k - 1]
    BY <1>2
  <2>5. ASSUME NEW k \in 0 .. m PROVE h[k] = IF k = 0 THEN start ELSE Visit(h[k - 1], k)
    <3>1. CASE k = m
      <4>1. h[k] = Visit(g[m - 1], m) /\ k # 0 /\ k \in 1 .. m
        BY <1>2, <1>4, <3>1
      <4> QED
        BY <2>4, <3>1, <4>1
    <3>2. CASE k # m
      <4>1. k \in 0 .. m - 1 /\ h[k] = g[k]
        BY <1>2, <3>2
      <4>2. k # 0 => k \in 1 .. m
        BY <1>2
      <4> QED
        BY <2>3, <2>4, <4>1, <4>2
    <3> QED
      BY <3>1, <3>2
  <2>6. h = [k \in 0 .. m |-> h[k]]
    OBVIOUS
  <2> HIDE DEF h
  <2>7. Visits(h, m)
    BY <2>5, <2>6 DEF Visits
  <2> QED
    BY <1>2, <2>7
<1> QED
  BY <1>3, <1>4

\* What is left after k visits are the entries that have not expired, in their order.
LeftInOrder(s, k) ==
    /\ \A i \in 1 .. k : Alive(waitList[i]) => \E j \in DOMAIN s.list : s.list[j] = waitList[i]
    /\ \A j \in DOMAIN s.list : \E i \in 1 .. k : s.list[j] = waitList[i] /\ Alive(waitList[i])
    /\ \A i, j \in DOMAIN s.list : i < j =>
          \E a, b \in 1 .. k : /\ a < b /\ s.list[i] = waitList[a] /\ s.list[j] = waitList[b]
                               /\ Alive(waitList[a]) /\ Alive(waitList[b])

\* A premium entry among the first k has expired.
PremiumLapsed(k) == \E i \in 1 .. k : waitList[i].guid \in Premium /\ ~Alive(waitList[i])

\* The count after k visits, if it was exact and one premium entry at most has expired: it has been
\* lowered for that entry, and the premium entries are those within it.
LeftExactly(s, k) ==
    /\ s.count = priorityCount \/ (s.count = priorityCount - 1 /\ PremiumLapsed(k))
    /\ k <= priorityCount => Len(s.list) = k - (priorityCount - s.count)
    /\ k >= priorityCount => Len(s.list) >= s.count
    /\ \A j \in DOMAIN s.list : s.list[j].guid \in Premium <=> j <= s.count

\* The next visit finds the list in order, and leaves it so.
LEMMA VisitKeepsOrder ==
    ASSUME waitList \in Seq(WaitEntry), NEW k \in 1 .. Len(waitList), NEW s, s.list \in Seq(WaitEntry),
           LeftInOrder(s, k - 1)
    PROVE  LeftInOrder(Visit(s, k), k)
<1> DEFINE r == Visit(s, k)
           n == Len(s.list)
<1>1. /\ k \in Nat /\ n \in Nat /\ DOMAIN s.list = 1 .. n
      /\ \A i \in 1 .. (k - 1) : i \in 1 .. k /\ i < k
      /\ k \in 1 .. k /\ \A i \in 1 .. k : i \in 1 .. (k - 1) \/ i = k
  OBVIOUS
<1>2. CASE Alive(waitList[k])
  <2>1. r.list = Append(s.list, waitList[k])
    BY <1>2 DEF Visit
  <2>2. /\ DOMAIN r.list = 1 .. (n + 1) /\ r.list[n + 1] = waitList[k]
        /\ \A j \in 1 .. n : r.list[j] = s.list[j]
    BY <1>1, <2>1
  <2>3. /\ n + 1 \in DOMAIN r.list /\ \A j \in DOMAIN s.list : j \in DOMAIN r.list /\ r.list[j] = s.list[j]
        /\ \A j \in DOMAIN r.list : j \in DOMAIN s.list \/ j = n + 1
        /\ \A i, j \in DOMAIN r.list : i < j => i \in DOMAIN s.list
    BY <1>1, <2>2
  <2> HIDE DEF r, n
  <2>4. \A i \in 1 .. k : Alive(waitList[i]) => \E j \in DOMAIN r.list : r.list[j] = waitList[i]
    BY <1>1, <2>2, <2>3 DEF LeftInOrder
  <2>5. \A j \in DOMAIN r.list : \E i \in 1 .. k : r.list[j] = waitList[i] /\ Alive(waitList[i])
    BY <1>1, <1>2, <2>2, <2>3 DEF LeftInOrder
  <2>6. ASSUME NEW i \in DOMAIN r.list, NEW j \in DOMAIN r.list, i < j
        PROVE  \E a, b \in 1 .. k : /\ a < b /\ r.list[i] = waitList[a] /\ r.list[j] = waitList[b]
                                    /\ Alive(waitList[a]) /\ Alive(waitList[b])
    <3>1. CASE j = n + 1
      <4>1. i \in DOMAIN s.list
        BY <2>3, <2>6
      <4>2. PICK a \in 1 .. (k - 1) : s.list[i] = waitList[a] /\ Alive(waitList[a])
        BY <4>1 DEF LeftInOrder
      <4>3. a \in 1 .. k /\ k \in 1 .. k /\ a < k /\ r.list[i] = waitList[a] /\ r.list[j] = waitList[k]
        BY <1>1, <2>2, <2>3, <3>1, <4>1, <4>2
      <4> QED
        BY <1>2, <4>2, <4>3
    <3>2. CASE j # n + 1
      <4>1. i \in DOMAIN s.list /\ j \in DOMAIN s.list
        BY <2>3, <2>6, <3>2
      <4>2. PICK a \in 1 .. (k - 1), b \in 1 .. (k - 1) :
                 /\ a < b /\ s.list[i] = waitList[a] /\ s.list[j] = waitList[b]
                 /\ Alive(waitList[a]) /\ Alive(waitList[b])
        BY <2>6, <4>1 DEF LeftInOrder
      <4>3. a \in 1 .. k /\ b \in 1 .. k /\ r.list[i] = s.list[i] /\ r.list[j] = s.list[j]
        BY <1>1, <2>3, <4>1
      <4> QED
        BY <4>2, <4>3
    <3> QED
      BY <3>1, <3>2
  <2> QED
    BY <2>4, <2>5, <2>6 DEF LeftInOrder, r
<1>3. CASE ~Alive(waitList[k])
  <2>1. r.list = s.list
    BY <1>3 DEF Visit
  <2> HIDE DEF r
  <2>2. LeftInOrder(r, k)
    <3>1. ASSUME NEW i \in 1 .. k, Alive(waitList[i]) PROVE \E j \in DOMAIN r.list : r.list[j] = waitList[i]
      <4>1. i \in 1 .. (k - 1)
        BY <1>1, <1>3, <3>1
      <4> QED
        BY <2>1, <3>1, <4>1 DEF LeftInOrder
    <3>2. ASSUME NEW j \in DOMAIN r.list PROVE \E i \in 1 .. k : r.list[j] = waitList[i] /\ Alive(waitList[i])
      <4>1. PICK i \in 1 .. (k - 1) : s.list[j] = waitList[i] /\ Alive(waitList[i])
        BY <2>1, <3>2 DEF LeftInOrder
      <4> QED
        BY <1>1, <2>1, <4>1
    <3>3. ASSUME NEW i \in DOMAIN r.list, NEW j \in DOMAIN r.list, i < j
          PROVE  \E a, b \in 1 .. k : /\ a < b /\ r.list[i] = waitList[a] /\ r.list[j] = waitList[b]
                                      /\ Alive(waitList[a]) /\ Alive(waitList[b])
      <4>1. PICK a \in 1 .. (k - 1), b \in 1 .. (k - 1) :
                 /\ a < b /\ s.list[i] = waitList[a] /\ s.list[j] = waitList[b]
                 /\ Alive(waitList[a]) /\ Alive(waitList[b])
        BY <2>1, <3>3 DEF LeftInOrder
      <4> QED
        BY <1>1, <2>1, <4>1
    <3> QED
      BY <3>1, <3>2, <3>3 DEF LeftInOrder
  <2> QED
    BY <2>2 DEF r
<1> QED
  BY <1>2, <1>3

\* The next visit finds the count exact, and leaves it so.
LEMMA VisitKeepsExact ==
    ASSUME waitList \in Seq(WaitEntry), priorityCount \in Nat, Exact(waitList, priorityCount), ~PairExpires,
           NEW k \in 1 .. Len(waitList), NEW s, s.list \in Seq(WaitEntry), s.count \in Nat,
           LeftExactly(s, k - 1)
    PROVE  LeftExactly(Visit(s, k), k)
<1> DEFINE r == Visit(s, k)
           n == Len(s.list)
<1>1. /\ k \in Nat /\ n \in Nat /\ DOMAIN s.list = 1 .. n /\ k \in DOMAIN waitList
      /\ \A i \in 1 .. (k - 1) : i \in 1 .. k /\ i \in DOMAIN waitList /\ i # k
      /\ k \in 1 .. k
  OBVIOUS
<1>2. /\ s.count = priorityCount \/ (s.count = priorityCount - 1 /\ PremiumLapsed(k - 1))
      /\ k - 1 <= priorityCount => n = k - 1 - (priorityCount - s.count)
      /\ k - 1 >= priorityCount => n >= s.count
      /\ \A j \in DOMAIN s.list : s.list[j].guid \in Premium <=> j <= s.count
  BY DEF LeftExactly
<1>3. waitList[k].guid \in Premium <=> k <= priorityCount
  BY <1>1 DEF Exact
<1>4. PremiumLapsed(k - 1) => PremiumLapsed(k)
  BY <1>1 DEF PremiumLapsed
<1>5. CASE Alive(waitList[k])
  <2>1. r.list = Append(s.list, waitList[k]) /\ r.count = s.count
    BY <1>5 DEF Visit
  <2>2. /\ DOMAIN r.list = 1 .. (n + 1) /\ r.list[n + 1] = waitList[k] /\ Len(r.list) = n + 1
        /\ \A j \in 1 .. n : r.list[j] = s.list[j]
    BY <1>1, <2>1
  <2> HIDE DEF r, n
  <2>3. n + 1 <= s.count <=> k <= priorityCount
    BY <1>1, <1>2
  <2>4. \A j \in DOMAIN r.list : r.list[j].guid \in Premium <=> j <= r.count
    <3> SUFFICES ASSUME NEW j \in DOMAIN r.list PROVE r.list[j].guid \in Premium <=> j <= r.count
      OBVIOUS
    <3>1. CASE j = n + 1
      BY <1>3, <2>1, <2>2, <2>3, <3>1
    <3>2. CASE j # n + 1
      <4>1. j \in 1 .. n
        BY <1>1, <2>2, <3>2
      <4> QED
        BY <1>1, <1>2, <2>1, <2>2, <4>1
    <3> QED
      BY <3>1, <3>2
  <2>5. /\ k <= priorityCount => Len(r.list) = k - (priorityCount - r.count)
        /\ k >= priorityCount => Len(r.list) >= r.count
    <3>1. /\ n \in Nat /\ k \in Nat /\ s.count \in Nat /\ priorityCount \in Nat
          /\ Len(r.list) = n + 1 /\ r.count = s.count
      BY <1>1, <2>1, <2>2
    <3>2. k <= priorityCount => n = k - 1 - (priorityCount - s.count)
      BY <1>2, <3>1
    <3>3. k >= priorityCount => n + 1 >= s.count
      <4>1. CASE k - 1 >= priorityCount
        BY <1>2, <3>1, <4>1
      <4>2. CASE k = priorityCount
        BY <3>1, <3>2, <4>2
      <4> QED
        BY <3>1, <4>1, <4>2
    <3> QED
      BY <3>1, <3>2, <3>3
  <2> QED
    BY <1>2, <1>4, <2>1, <2>4, <2>5 DEF LeftExactly, r
<1>6. CASE ~Alive(waitList[k]) /\ k <= priorityCount
  <2>1. ~PremiumLapsed(k - 1)
    <3> SUFFICES ASSUME PremiumLapsed(k - 1) PROVE FALSE
      OBVIOUS
    <3>1. PICK i \in 1 .. (k - 1) : waitList[i].guid \in Premium /\ ~Alive(waitList[i])
      BY DEF PremiumLapsed
    <3>2. i \in DOMAIN waitList /\ i # k
      BY <1>1
    <3> QED
      BY <1>1, <1>3, <1>6, <3>1, <3>2 DEF PairExpires
  <2>2. s.count = priorityCount /\ n = k - 1
    BY <1>1, <1>2, <1>6, <2>1
  <2>3. r.list = s.list /\ r.count = priorityCount - 1
    BY <1>1, <1>6, <2>2 DEF Visit
  <2>4. PremiumLapsed(k)
    BY <1>1, <1>3, <1>6 DEF PremiumLapsed
  <2> HIDE DEF r
  <2>5. \A j \in DOMAIN r.list : r.list[j].guid \in Premium <=> j <= r.count
    <3> SUFFICES ASSUME NEW j \in DOMAIN r.list PROVE r.list[j].guid \in Premium <=> j <= r.count
      OBVIOUS
    <3>1. j \in 1 .. (k - 1) /\ r.list[j] = s.list[j] /\ j \in DOMAIN s.list
      BY <1>1, <2>2, <2>3
    <3>2. j <= priorityCount - 1 /\ j <= s.count
      BY <1>1, <1>6, <2>2, <3>1
    <3> QED
      BY <1>2, <2>3, <3>1, <3>2
  <2>6. Len(r.list) = k - 1
    BY <2>2, <2>3
  <2>7. /\ k <= priorityCount => Len(r.list) = k - (priorityCount - r.count)
        /\ k >= priorityCount => Len(r.list) >= r.count
    BY <1>1, <2>3, <2>6
  <2> QED
    BY <2>3, <2>4, <2>5, <2>7 DEF LeftExactly, r
<1>7. CASE ~Alive(waitList[k]) /\ k > priorityCount
  <2>1. ~(k - 1 < s.count)
    BY <1>1, <1>2, <1>7
  <2>2. r.list = s.list /\ r.count = s.count
    BY <1>7, <2>1 DEF Visit
  <2> HIDE DEF r
  <2>3. /\ k <= priorityCount => Len(r.list) = k - (priorityCount - r.count)
        /\ k >= priorityCount => Len(r.list) >= r.count
    BY <1>1, <1>2, <1>7, <2>2
  <2> QED
    BY <1>2, <1>4, <2>2, <2>3 DEF LeftExactly, r
<1> QED
  BY <1>1, <1>5, <1>6, <1>7

\* What holds of the list and the count after k visits: what is left is a sound list of entries that
\* were visited, in their order, and priorityCount has lost no more than were dropped.
Visited(s, k) ==
    /\ LeftInOrder(s, k)
    /\ Exact(waitList, priorityCount) /\ ~PairExpires => LeftExactly(s, k)
    /\ SoundList(s.list, s.count) /\ Len(s.list) <= k
    /\ s.count >= priorityCount - (k - Len(s.list))
    /\ \A j \in DOMAIN s.list : \E i \in 1 .. k : s.list[j] = waitList[i]

\* A visit keeps it.
LEMMA VisitKeeps ==
    ASSUME SoundList(waitList, priorityCount), NEW k \in 1 .. Len(waitList), NEW s, Visited(s, k - 1)
    PROVE  Visited(Visit(s, k), k)
<1> DEFINE r == Visit(s, k)
<1>1. /\ waitList \in Seq(WaitEntry) /\ priorityCount \in Nat /\ OnceEach(waitList) /\ Prior(waitList, priorityCount)
      /\ s.list \in Seq(WaitEntry) /\ s.count \in Nat /\ OnceEach(s.list) /\ Prior(s.list, s.count)
      /\ k \in Nat /\ Len(s.list) \in Nat /\ k \in DOMAIN waitList /\ waitList[k] \in WaitEntry
      /\ Len(s.list) <= k - 1 /\ s.count >= priorityCount - (k - 1 - Len(s.list))
      /\ \A j \in DOMAIN s.list : \E i \in 1 .. (k - 1) : s.list[j] = waitList[i]
  BY DEF SoundList, Visited
<1>0. /\ LeftInOrder(r, k)
      /\ Exact(waitList, priorityCount) /\ ~PairExpires => LeftExactly(r, k)
  <2>1. LeftInOrder(s, k - 1) /\ (Exact(waitList, priorityCount) /\ ~PairExpires => LeftExactly(s, k - 1))
    BY DEF Visited
  <2> QED
    BY <1>1, <2>1, VisitKeepsOrder, VisitKeepsExact
<1>2. \A i \in 1 .. (k - 1) : i \in 1 .. k /\ i \in DOMAIN waitList /\ i # k
  BY <1>1
<1>3. CASE Alive(waitList[k])
  <2> DEFINE queue == Append(s.list, waitList[k])
  <2>1. r.list = queue /\ r.count = s.count
    BY <1>3 DEF Visit
  <2>2. /\ queue \in Seq(WaitEntry) /\ Len(queue) = Len(s.list) + 1 /\ DOMAIN queue = 1 .. (Len(s.list) + 1)
        /\ queue[Len(s.list) + 1] = waitList[k] /\ DOMAIN s.list = 1 .. Len(s.list)
        /\ \A j \in 1 .. Len(s.list) : queue[j] = s.list[j]
    BY <1>1
  <2> HIDE DEF queue, r
  <2>3. \A j \in DOMAIN queue : j \in DOMAIN s.list \/ j = Len(s.list) + 1
    BY <1>1, <2>2
  <2>4. ASSUME NEW j \in DOMAIN queue PROVE \E i \in 1 .. k : queue[j] = waitList[i]
    <3>1. CASE j \in DOMAIN s.list
      <4>1. PICK i \in 1 .. (k - 1) : s.list[j] = waitList[i]
        BY <1>1, <3>1
      <4> QED
        BY <1>2, <2>2, <3>1, <4>1
    <3>2. CASE j = Len(s.list) + 1
      <4>1. k \in 1 .. k
        BY <1>1
      <4> QED
        BY <2>2, <3>2, <4>1
    <3> QED
      BY <2>3, <3>1, <3>2
  <2>5. \A j \in DOMAIN s.list : s.list[j].guid # waitList[k].guid
    BY <1>1, <1>2 DEF OnceEach
  <2>6. OnceEach(queue)
    BY <1>1, <2>2, <2>3, <2>5 DEF OnceEach
  <2>7. waitList[k].guid \in Premium => Len(s.list) + 1 <= s.count
    BY <1>1 DEF Prior
  <2>8. Prior(queue, s.count)
    BY <1>1, <2>2, <2>3, <2>7 DEF Prior
  <2>9. Len(queue) <= k /\ s.count >= priorityCount - (k - Len(queue))
    <3> DEFINE m == Len(s.list)
               n == Len(queue)
               c == s.count
    <3>1. /\ n = m + 1 /\ m \in Nat /\ k \in Nat /\ c \in Nat /\ priorityCount \in Nat
          /\ m <= k - 1 /\ c >= priorityCount - (k - 1 - m)
      BY <1>1, <2>2
    <3> HIDE DEF m, n, c
    <3>2. n <= k /\ c >= priorityCount - (k - n)
      BY <3>1
    <3> QED
      BY <3>2 DEF m, n, c
  <2> QED
    BY <1>0, <1>1, <2>1, <2>2, <2>4, <2>6, <2>8, <2>9 DEF SoundList, Visited, r
<1>4. CASE ~Alive(waitList[k])
  <2>1. r.list = s.list /\ r.count = IF k - 1 < s.count /\ s.count > 0 THEN s.count - 1 ELSE s.count
    BY <1>4 DEF Visit
  <2>2. DOMAIN s.list = 1 .. Len(s.list)
    BY <1>1
  <2> HIDE DEF r
  <2>3. r.count \in Nat /\ r.count >= priorityCount - (k - Len(s.list)) /\ Len(s.list) <= k
    BY <1>1, <2>1
  <2>4. Prior(s.list, r.count)
    BY <1>1, <2>1, <2>2 DEF Prior
  <2> QED
    BY <1>0, <1>1, <1>2, <2>1, <2>3, <2>4 DEF SoundList, Visited, r
<1> QED
  BY <1>3, <1>4

\* erase_if leaves a sound list of what has not expired, in its order: the expired entries take their
\* share of priorityCount with them, no more than what keeps the remaining premium clients within it,
\* and exactly theirs if one at most was premium.
LEMMA ExpiryKeeps ==
    ASSUME SoundList(waitList, priorityCount)
    PROVE  /\ SoundList(AfterExpiry.list, AfterExpiry.count)
           /\ LeftInOrder(AfterExpiry, Len(waitList))
           /\ Exact(waitList, priorityCount) /\ ~PairExpires => Exact(AfterExpiry.list, AfterExpiry.count)
<1> DEFINE n == Len(waitList)
           K == CHOOSE g : Visits(g, n)
<1>1. n \in Nat /\ priorityCount \in Nat
  BY DEF SoundList
<1>2. Visits(K, n)
  BY <1>1, VisitsExist
<1>3. AfterExpiry = K[n]
  BY DEF AfterExpiry, Visits
<1> HIDE DEF K
<1>4. \A k \in 0 .. n : K[k] = IF k = 0 THEN [list |-> <<>>, count |-> priorityCount] ELSE Visit(K[k - 1], k)
  BY <1>2 DEF Visits
<1>5. ASSUME NEW m \in 0 .. n, ~Visited(K[m], m) PROVE FALSE
  <2> DEFINE T == {k \in 0 .. n : ~Visited(K[k], k)}
  <2>1. T \in SUBSET Nat /\ T # {}
    <3>1. m \in T
      BY <1>5
    <3>2. \A k \in 0 .. n : k \in Nat
      BY <1>1
    <3>3. T \subseteq 0 .. n
      OBVIOUS
    <3> QED
      BY <3>1, <3>2, <3>3
  <2>2. PICK k \in T : \A y \in T : k <= y
    <3> HIDE DEF T
    <3> QED
      BY <2>1, NatMin
  <2>3. k \in 0 .. n /\ ~Visited(K[k], k)
    BY <2>2
  <2>4. CASE k = 0
    <3>1. K[0].list = <<>> /\ K[0].count = priorityCount
      BY <1>1, <1>4
    <3>2. <<>> \in Seq(WaitEntry) /\ Len(<<>>) = 0 /\ DOMAIN <<>> = {}
      OBVIOUS
    <3>3. OnceEach(<<>>) /\ Prior(<<>>, priorityCount)
      BY <3>2 DEF OnceEach, Prior
    <3>4. SoundList(K[0].list, K[0].count)
      BY <1>1, <3>1, <3>2, <3>3 DEF SoundList
    <3>5. LeftInOrder(K[0], 0)
      BY <3>1, <3>2 DEF LeftInOrder
    <3>6. LeftExactly(K[0], 0)
      BY <1>1, <3>1, <3>2 DEF LeftExactly
    <3> QED
      BY <1>1, <2>3, <2>4, <3>1, <3>2, <3>4, <3>5, <3>6 DEF Visited
  <2>5. CASE k # 0
    <3>1. k - 1 \in 0 .. n /\ k \in 1 .. n /\ ~(k <= k - 1)
      BY <1>1, <2>3, <2>5
    <3>2. Visited(K[k - 1], k - 1)
      <4>1. k - 1 \notin T
        BY <2>2, <3>1
      <4> QED
        BY <3>1, <4>1
    <3>3. K[k] = Visit(K[k - 1], k)
      BY <1>4, <2>3, <2>5
    <3>4. Visited(Visit(K[k - 1], k), k)
      BY <3>1, <3>2, VisitKeeps
    <3> QED
      BY <2>3, <3>3, <3>4
  <2> QED
    BY <2>4, <2>5
<1>6. n \in 0 .. n
  BY <1>1
<1>7. Visited(K[n], n)
  BY <1>5, <1>6
<1>8. ASSUME Exact(waitList, priorityCount), ~PairExpires PROVE Exact(K[n].list, K[n].count)
  <2>1. LeftExactly(K[n], n) /\ n >= priorityCount
    BY <1>7, <1>8 DEF Visited, Exact
  <2> QED
    BY <2>1 DEF LeftExactly, Exact
<1> QED
  BY <1>3, <1>7, <1>8 DEF Visited

\* Where findClient finds a client of a list nobody is on twice.
LEMMA SlotFacts ==
    ASSUME NEW queue \in Seq(WaitEntry), OnceEach(queue), NEW g
    PROVE  /\ SlotOf(queue, g) \in 0 .. Len(queue)
           /\ SlotOf(queue, g) # 0 => queue[SlotOf(queue, g)].guid = g
           /\ \A k \in DOMAIN queue : queue[k].guid = g => SlotOf(queue, g) = k
<1>1. DOMAIN queue = 1 .. Len(queue) /\ Len(queue) \in Nat
  OBVIOUS
<1>2. CASE \E k \in DOMAIN queue : queue[k].guid = g
  <2>1. SlotOf(queue, g) \in DOMAIN queue /\ queue[SlotOf(queue, g)].guid = g
    BY <1>2 DEF SlotOf
  <2> QED
    BY <1>1, <2>1 DEF OnceEach
<1>3. CASE ~\E k \in DOMAIN queue : queue[k].guid = g
  <2>1. SlotOf(queue, g) = 0
    BY <1>3 DEF SlotOf
  <2> QED
    BY <1>1, <1>3, <2>1
<1> QED
  BY <1>2, <1>3

\* The first k entries of a list, and the others.
LEMMA PartFacts ==
    ASSUME NEW S, NEW queue \in Seq(S), NEW k \in 0 .. Len(queue)
    PROVE  LET a == SubSeq(queue, 1, k)
               b == SubSeq(queue, k + 1, Len(queue))
           IN  /\ a \in Seq(S) /\ Len(a) = k /\ \A j \in 1 .. k : a[j] = queue[j]
               /\ b \in Seq(S) /\ Len(b) = Len(queue) - k
               /\ \A j \in 1 .. (Len(queue) - k) : b[j] = queue[j + k]
<1> DEFINE n == Len(queue)
           m == k + 1
           a == SubSeq(queue, 1, k)
           b == SubSeq(queue, m, n)
<1>1. n \in Nat /\ k \in Nat /\ k <= n /\ k \in Int /\ m \in Int /\ 1 \in Int /\ n \in Int
  OBVIOUS
<1>2. (\A i \in 1 .. k : queue[i] \in S) /\ (\A i \in m .. n : queue[i] \in S)
  BY <1>1
<1>3. a \in Seq(S) /\ Len(a) = (IF 1 <= k THEN k - 1 + 1 ELSE 0) /\ \A j \in 1 .. (k - 1 + 1) : a[j] = queue[1 + j - 1]
  BY <1>1, <1>2, SubSeqProperties
<1>4. k - 1 + 1 = k /\ (IF 1 <= k THEN k - 1 + 1 ELSE 0) = k /\ \A j \in 1 .. k : 1 + j - 1 = j
  BY <1>1
<1>5. Len(a) = k /\ \A j \in 1 .. k : a[j] = queue[j]
  BY <1>3, <1>4
<1> HIDE DEF m
<1>6. b \in Seq(S) /\ Len(b) = (IF m <= n THEN n - m + 1 ELSE 0) /\ \A j \in 1 .. (n - m + 1) : b[j] = queue[m + j - 1]
  BY <1>1, <1>2, SubSeqProperties
<1>7. n - m + 1 = n - k /\ (IF m <= n THEN n - m + 1 ELSE 0) = n - k /\ \A j \in 1 .. (n - k) : m + j - 1 = j + k
  BY <1>1 DEF m
<1>8. Len(b) = n - k /\ \A j \in 1 .. (n - k) : b[j] = queue[j + k]
  BY <1>6, <1>7
<1> QED
  BY <1>3, <1>5, <1>6, <1>8 DEF m

\* r is queue with e behind its first k entries.
HasInserted(r, queue, k, e) ==
    /\ Len(r) = Len(queue) + 1 /\ r[k + 1] = e
    /\ \A j \in 1 .. k : r[j] = queue[j]
    /\ \A j \in (k + 2) .. (Len(queue) + 1) : r[j] = queue[j - 1]

\* An entry is inserted behind the first k.
LEMMA InsertFacts ==
    ASSUME NEW S, NEW queue \in Seq(S), NEW k \in 0 .. Len(queue), NEW e \in S
    PROVE  InsertedAt(queue, k, e) \in Seq(S) /\ HasInserted(InsertedAt(queue, k, e), queue, k, e)
<1> DEFINE a == SubSeq(queue, 1, k)
           b == SubSeq(queue, k + 1, Len(queue))
           r == InsertedAt(queue, k, e)
           n == Len(queue)
<1>1. n \in Nat /\ k \in Nat /\ k <= n
  OBVIOUS
<1>2. a \in Seq(S) /\ Len(a) = k /\ \A j \in 1 .. k : a[j] = queue[j]
  BY PartFacts
<1>3. b \in Seq(S) /\ Len(b) = n - k /\ \A j \in 1 .. (n - k) : b[j] = queue[j + k]
  BY PartFacts
<1>4. r = a \o <<e>> \o b
  BY DEF InsertedAt
<1> HIDE DEF a, b, r
<1> DEFINE c == a \o <<e>>
<1>5. c \in Seq(S) /\ Len(c) = k + 1 /\ c[k + 1] = e /\ \A j \in 1 .. k : c[j] = queue[j]
  BY <1>1, <1>2
<1>6. r = c \o b
  BY <1>4
<1> HIDE DEF c
<1>7. r \in Seq(S) /\ Len(r) = n + 1
  <2>1. r \in Seq(S) /\ Len(r) = Len(c) + Len(b)
    BY <1>3, <1>5, <1>6, ConcatProperties
  <2> QED
    BY <1>1, <1>3, <1>5, <2>1
<1>8. \A j \in 1 .. (k + 1) : r[j] = c[j]
  BY <1>1, <1>3, <1>5, <1>6
<1>9. \A j \in (k + 2) .. (n + 1) : r[j] = b[j - (k + 1)]
  BY <1>1, <1>3, <1>5, <1>6
<1>10. \A j \in (k + 2) .. (n + 1) : r[j] = queue[j - 1]
  <2> SUFFICES ASSUME NEW j \in (k + 2) .. (n + 1) PROVE r[j] = queue[j - 1]
    OBVIOUS
  <2>1. j - (k + 1) \in 1 .. (n - k) /\ (j - (k + 1)) + k = j - 1
    BY <1>1
  <2> QED
    BY <1>3, <1>9, <2>1
<1>11. \A j \in 1 .. k : j \in 1 .. (k + 1)
  BY <1>1
<1>12. k + 1 \in 1 .. (k + 1)
  BY <1>1
<1> QED
  BY <1>5, <1>7, <1>8, <1>10, <1>11, <1>12 DEF r, HasInserted

\* The entry at k is removed.
LEMMA RemoveFacts ==
    ASSUME NEW S, NEW queue \in Seq(S), NEW k \in 1 .. Len(queue)
    PROVE  LET r == RemovedAt(queue, k)
           IN  /\ r \in Seq(S) /\ Len(r) = Len(queue) - 1
               /\ \A j \in 1 .. (k - 1) : r[j] = queue[j]
               /\ \A j \in k .. (Len(queue) - 1) : r[j] = queue[j + 1]
<1> DEFINE a == SubSeq(queue, 1, k - 1)
           b == SubSeq(queue, k + 1, Len(queue))
           r == RemovedAt(queue, k)
           n == Len(queue)
<1>1. n \in Nat /\ k \in Nat /\ k <= n /\ 1 <= k
  OBVIOUS
<1>2. a \in Seq(S) /\ Len(a) = k - 1 /\ \A j \in 1 .. (k - 1) : a[j] = queue[j]
  BY <1>1, PartFacts
<1>3. b \in Seq(S) /\ Len(b) = n - k /\ \A j \in 1 .. (n - k) : b[j] = queue[j + k]
  BY <1>1, PartFacts
<1>4. r = a \o b
  BY DEF RemovedAt
<1> HIDE DEF a, b, r
<1>5. r \in Seq(S) /\ Len(r) = n - 1
  <2>1. r \in Seq(S) /\ Len(r) = Len(a) + Len(b)
    BY <1>2, <1>3, <1>4, ConcatProperties
  <2> QED
    BY <1>1, <1>2, <1>3, <2>1
<1>6. \A j \in 1 .. (k - 1) : r[j] = a[j]
  BY <1>1, <1>2, <1>3, <1>4
<1>7. \A j \in k .. (n - 1) : r[j] = b[j - (k - 1)]
  <2>1. \A j \in k .. (n - 1) : j \in 1 .. (Len(a) + Len(b)) /\ ~(j <= Len(a)) /\ j - Len(a) = j - (k - 1)
    BY <1>1, <1>2, <1>3
  <2>2. \A j \in 1 .. (Len(a) + Len(b)) : r[j] = IF j <= Len(a) THEN a[j] ELSE b[j - Len(a)]
    BY <1>2, <1>3, <1>4, ConcatProperties
  <2> QED
    BY <2>1, <2>2
<1>8. \A j \in k .. (n - 1) : r[j] = queue[j + 1]
  <2> SUFFICES ASSUME NEW j \in k .. (n - 1) PROVE r[j] = queue[j + 1]
    OBVIOUS
  <2>1. j - (k - 1) \in 1 .. (n - k) /\ (j - (k - 1)) + k = j + 1
    BY <1>1
  <2> QED
    BY <1>3, <1>7, <2>1
<1> QED
  BY <1>2, <1>5, <1>6, <1>8 DEF r

\* The clients of r are clients of queue, in the same order.
SameOrder(r, queue) ==
    \A i, j \in DOMAIN r : i < j =>
        \E a, b \in DOMAIN queue : a < b /\ r[i].guid = queue[a].guid /\ r[j].guid = queue[b].guid

\* A client that was let in leaves a sound list, and is on it no more.
LEMMA LetInKeeps ==
    ASSUME NEW queue, NEW count, SoundList(queue, count), NEW g, NEW k, k = SlotOf(queue, g), k > 0
    PROVE  /\ SoundList(RemovedAt(queue, k), IF k <= count /\ count > 0 THEN count - 1 ELSE count)
           /\ SlotOf(RemovedAt(queue, k), g) = 0
           /\ SameOrder(RemovedAt(queue, k), queue)
           /\ Exact(queue, count) =>
                 Exact(RemovedAt(queue, k), IF k <= count /\ count > 0 THEN count - 1 ELSE count)
<1> DEFINE r == RemovedAt(queue, k)
           n == Len(queue)
           c == IF k <= count /\ count > 0 THEN count - 1 ELSE count
<1>1. queue \in Seq(WaitEntry) /\ count \in Nat /\ OnceEach(queue) /\ Prior(queue, count) /\ n \in Nat /\ DOMAIN queue = 1 .. n
  BY DEF SoundList
<1>2. k \in 1 .. n /\ queue[k].guid = g
  <2>1. k \in 0 .. n /\ k # 0 /\ queue[k].guid = g
    BY <1>1, SlotFacts
  <2> QED
    BY <1>1, <2>1
<1>3. /\ r \in Seq(WaitEntry) /\ Len(r) = n - 1 /\ DOMAIN r = 1 .. (n - 1)
      /\ \A j \in 1 .. (k - 1) : r[j] = queue[j]
      /\ \A j \in k .. (n - 1) : r[j] = queue[j + 1]
  <2>1. /\ r \in Seq(WaitEntry) /\ Len(r) = n - 1
        /\ \A j \in 1 .. (k - 1) : r[j] = queue[j]
        /\ \A j \in k .. (n - 1) : r[j] = queue[j + 1]
    BY <1>1, <1>2, RemoveFacts
  <2> HIDE DEF r, n
  <2>2. DOMAIN r = 1 .. Len(r)
    BY <2>1
  <2> QED
    BY <2>1, <2>2
<1> HIDE DEF r, n
<1> DEFINE was(j) == IF j < k THEN j ELSE j + 1
<1>4. \A j \in DOMAIN r : was(j) \in DOMAIN queue /\ was(j) # k /\ r[j] = queue[was(j)] /\ j \in Nat
  BY <1>1, <1>2, <1>3
<1>5. OnceEach(r)
  <2> SUFFICES ASSUME NEW i \in DOMAIN r, NEW j \in DOMAIN r, r[i].guid = r[j].guid PROVE i = j
    BY DEF OnceEach
  <2>1. was(i) = was(j)
    <3> HIDE DEF was
    <3> QED
      BY <1>1, <1>4 DEF OnceEach
  <2> QED
    BY <1>2, <1>4, <2>1
<1>6. \A j \in DOMAIN r : r[j].guid # g
  <2> HIDE DEF was
  <2> QED
    BY <1>1, <1>2, <1>4 DEF OnceEach
<1>7. SlotOf(r, g) = 0
  BY <1>6 DEF SlotOf
<1>8. Prior(r, c)
  <2> SUFFICES ASSUME NEW j \in DOMAIN r, r[j].guid \in Premium PROVE j <= c
    BY DEF Prior
  <2>1. was(j) <= count
    <3> HIDE DEF was
    <3> QED
      BY <1>1, <1>4 DEF Prior
  <2> QED
    BY <1>1, <1>2, <1>4, <2>1
<1>9. c \in Nat
  BY <1>1
<1>10. SameOrder(r, queue)
  <2> SUFFICES ASSUME NEW i \in DOMAIN r, NEW j \in DOMAIN r, i < j
               PROVE  \E a, b \in DOMAIN queue : a < b /\ r[i].guid = queue[a].guid /\ r[j].guid = queue[b].guid
    BY DEF SameOrder
  <2>1. was(i) < was(j)
    BY <1>2, <1>4
  <2> HIDE DEF was
  <2> QED
    BY <1>4, <2>1
<1>11. ASSUME Exact(queue, count) PROVE Exact(r, c)
  <2>1. count <= n /\ \A j \in DOMAIN queue : queue[j].guid \in Premium <=> j <= count
    BY <1>11 DEF Exact, n
  <2>2. c <= n - 1
    BY <1>1, <1>2, <2>1
  <2>3. ASSUME NEW j \in DOMAIN r PROVE r[j].guid \in Premium <=> j <= c
    <3>1. r[j].guid \in Premium <=> was(j) <= count
      <4> HIDE DEF was
      <4> QED
        BY <1>4, <2>1
    <3>2. was(j) <= count <=> j <= c
      BY <1>1, <1>2, <1>4
    <3> QED
      BY <3>1, <3>2
  <2> QED
    BY <1>3, <2>2, <2>3 DEF Exact
<1> QED
  BY <1>3, <1>5, <1>7, <1>8, <1>9, <1>10, <1>11 DEF SoundList, r

\* e, who does not wait yet, joins behind the first k and c is then the count: a premium client behind
\* the priority part, any other at the end.
MayJoin(queue, count, e, k, c) ==
    /\ e \in WaitEntry /\ SlotOf(queue, e.guid) = 0
    /\ \/ e.guid \in Premium /\ k = PremiumIndex(queue, count) /\ c = count + 1
       \/ e.guid \notin Premium /\ k = Len(queue) /\ c = count

\* The clients of r but g are clients of queue, in the same order, and g passes nobody who is premium,
\* and nobody at all unless it is premium itself.
JoinedOrder(r, queue, g) ==
    \A i, j \in DOMAIN r : i < j /\ r[j].guid # g =>
        \/ r[i].guid = g /\ g \in Premium /\ r[j].guid \notin Premium
        \/ \E a, b \in DOMAIN queue : a < b /\ r[i].guid = queue[a].guid /\ r[j].guid = queue[b].guid

\* A client that joins leaves a sound list.
LEMMA JoinKeeps ==
    ASSUME NEW queue, NEW count, SoundList(queue, count), NEW e, NEW k, NEW c, MayJoin(queue, count, e, k, c)
    PROVE  /\ SoundList(InsertedAt(queue, k, e), c)
           /\ SlotOf(InsertedAt(queue, k, e), e.guid) = k + 1
           /\ JoinedOrder(InsertedAt(queue, k, e), queue, e.guid)
           /\ Exact(queue, count) => Exact(InsertedAt(queue, k, e), c)
<1> DEFINE r == InsertedAt(queue, k, e)
           n == Len(queue)
           new == k + 1
<1>1. queue \in Seq(WaitEntry) /\ count \in Nat /\ OnceEach(queue) /\ Prior(queue, count) /\ n \in Nat /\ DOMAIN queue = 1 .. n
  BY DEF SoundList
<1>0. /\ e \in WaitEntry /\ k \in 0 .. n /\ (c = count + 1 \/ (c = count /\ k = n))
      /\ e.guid \in Premium => k + 1 <= c
  BY <1>1 DEF MayJoin, PremiumIndex
<1>2. \A j \in DOMAIN queue : queue[j].guid # e.guid
  <2>1. \A j \in DOMAIN queue : queue[j].guid = e.guid => SlotOf(queue, e.guid) = j
    BY <1>1, SlotFacts
  <2>2. \A j \in DOMAIN queue : j # 0
    BY <1>1
  <2> QED
    BY <2>1, <2>2 DEF MayJoin
<1>3. /\ r \in Seq(WaitEntry) /\ Len(r) = n + 1 /\ DOMAIN r = 1 .. (n + 1) /\ r[new] = e
      /\ \A j \in 1 .. k : r[j] = queue[j]
      /\ \A j \in (k + 2) .. (n + 1) : r[j] = queue[j - 1]
  <2>1. /\ r \in Seq(WaitEntry) /\ Len(r) = n + 1 /\ r[new] = e
        /\ \A j \in 1 .. k : r[j] = queue[j]
        /\ \A j \in (k + 2) .. (n + 1) : r[j] = queue[j - 1]
    <3>1. r \in Seq(WaitEntry) /\ HasInserted(r, queue, k, e)
      BY <1>0, <1>1, InsertFacts
    <3> HIDE DEF r
    <3> QED
      BY <3>1 DEF HasInserted
  <2> HIDE DEF r, n
  <2>2. DOMAIN r = 1 .. Len(r)
    BY <2>1
  <2> QED
    BY <2>1, <2>2
<1>4. new \in DOMAIN r /\ new \in Nat
  <2>1. DOMAIN r = 1 .. (n + 1) /\ k \in 0 .. n /\ n \in Nat
    BY <1>0, <1>1, <1>3
  <2> HIDE DEF r, n
  <2> QED
    BY <2>1
<1> HIDE DEF r, n
<1> DEFINE was(j) == IF j < new THEN j ELSE j - 1
<1>5. \A j \in DOMAIN r : j # new => was(j) \in DOMAIN queue /\ r[j] = queue[was(j)] /\ j \in Nat
  BY <1>0, <1>1, <1>3
<1>6. OnceEach(r)
  <2> SUFFICES ASSUME NEW i \in DOMAIN r, NEW j \in DOMAIN r, r[i].guid = r[j].guid PROVE i = j
    BY DEF OnceEach
  <2>1. CASE i = new \/ j = new
    <3> HIDE DEF was
    <3> QED
      BY <1>2, <1>3, <1>5, <2>1
  <2>2. CASE i # new /\ j # new
    <3>1. was(i) = was(j)
      <4> HIDE DEF was
      <4> QED
        BY <1>1, <1>5, <2>2 DEF OnceEach
    <3> QED
      BY <1>4, <1>5, <2>2, <3>1
  <2> QED
    BY <2>1, <2>2
<1>7. Prior(r, c)
  <2> SUFFICES ASSUME NEW j \in DOMAIN r, r[j].guid \in Premium PROVE j <= c
    BY DEF Prior
  <2>1. CASE j = new
    BY <1>0, <1>3, <2>1
  <2>2. CASE j # new
    <3>1. was(j) <= count
      <4> HIDE DEF was
      <4> QED
        BY <1>1, <1>5, <2>2 DEF Prior
    <3> QED
      BY <1>0, <1>1, <1>3, <1>5, <2>2, <3>1
  <2> QED
    BY <2>1, <2>2
<1>8. SlotOf(r, e.guid) = new
  BY <1>3, <1>4, <1>6, SlotFacts
<1>9. c \in Nat
  BY <1>0, <1>1
<1>10. ASSUME NEW i \in DOMAIN r, NEW j \in DOMAIN r, i < j, r[j].guid # e.guid
       PROVE  \/ r[i].guid = e.guid /\ e.guid \in Premium /\ r[j].guid \notin Premium
              \/ \E a, b \in DOMAIN queue : a < b /\ r[i].guid = queue[a].guid /\ r[j].guid = queue[b].guid
  <2>0. j # new
    BY <1>3, <1>10
  <2>1. CASE i = new
    <3>1. was(j) \in DOMAIN queue /\ r[j] = queue[was(j)] /\ was(j) > k
      BY <1>0, <1>4, <1>5, <1>10, <2>0, <2>1
    <3>2. k # Len(queue)
      BY <1>1, <3>1 DEF n
    <3>3. e.guid \in Premium /\ k = count
      BY <1>1, <3>2 DEF MayJoin, PremiumIndex
    <3>4. queue[was(j)].guid \notin Premium
      <4> HIDE DEF was
      <4> QED
        BY <1>1, <3>1, <3>3 DEF Prior
    <3> HIDE DEF was
    <3> QED
      BY <1>3, <2>1, <3>1, <3>3, <3>4
  <2>2. CASE i # new
    <3>1. was(i) < was(j)
      BY <1>4, <1>5, <1>10, <2>0, <2>2
    <3> HIDE DEF was
    <3> QED
      BY <1>5, <2>0, <2>2, <3>1
  <2> QED
    BY <2>1, <2>2
<1>11. ASSUME Exact(queue, count) PROVE Exact(r, c)
  <2>1. count <= n /\ \A j \in DOMAIN queue : queue[j].guid \in Premium <=> j <= count
    BY <1>11 DEF Exact, n
  <2>2. \/ e.guid \in Premium /\ k = count /\ c = count + 1
        \/ e.guid \notin Premium /\ k = n /\ c = count
    BY <1>1, <2>1 DEF MayJoin, PremiumIndex, n
  <2>3. c <= n + 1 /\ (e.guid \in Premium <=> new <= c)
    BY <1>1, <2>1, <2>2
  <2>4. ASSUME NEW j \in DOMAIN r PROVE r[j].guid \in Premium <=> j <= c
    <3>1. CASE j = new
      BY <1>3, <2>3, <3>1
    <3>2. CASE j # new
      <4>1. r[j].guid \in Premium <=> was(j) <= count
        <5> HIDE DEF was
        <5> QED
          BY <1>5, <2>1, <3>2
      <4>2. was(j) <= count <=> j <= c
        BY <1>0, <1>1, <1>3, <1>5, <2>2, <3>2
      <4> QED
        BY <4>1, <4>2
    <3> QED
      BY <3>1, <3>2
  <2> QED
    BY <1>3, <2>3, <2>4 DEF Exact
<1>12. JoinedOrder(r, queue, e.guid)
  BY <1>10 DEF JoinedOrder
<1> QED
  BY <1>3, <1>6, <1>7, <1>8, <1>9, <1>11, <1>12 DEF SoundList, r

\* Appending is inserting behind all.
LEMMA AppendInserts ==
    ASSUME NEW S, NEW queue \in Seq(S), NEW e
    PROVE  Append(queue, e) = InsertedAt(queue, Len(queue), e)
<1> DEFINE n == Len(queue)
<1>1. n \in Nat /\ n + 1 \in Int /\ n \in Int /\ n + 1 > n
  OBVIOUS
<1>2. SubSeq(queue, 1, n) = queue
  BY SubSeqFull
<1>3. SubSeq(queue, n + 1, n) = <<>>
  BY <1>1, SubSeqEmpty
<1>4. InsertedAt(queue, n, e) = queue \o <<e>> \o <<>>
  BY <1>2, <1>3 DEF InsertedAt
<1> QED
  BY <1>4

\* A client that has to wait on keeps its place.
LEMMA WaitsOnKeeps ==
    ASSUME NEW queue, NEW count, SoundList(queue, count), NEW g, SlotOf(queue, g) > 0, NEW until \in Nat
    PROVE  LET r == [queue EXCEPT ![SlotOf(queue, g)].deadline = until]
           IN  /\ SoundList(r, count) /\ SlotOf(r, g) = SlotOf(queue, g)
               /\ SameOrder(r, queue) /\ (Exact(queue, count) => Exact(r, count))
<1> DEFINE k == SlotOf(queue, g)
           r == [queue EXCEPT ![k].deadline = until]
<1>1. queue \in Seq(WaitEntry) /\ count \in Nat /\ OnceEach(queue) /\ Prior(queue, count) /\ DOMAIN queue = 1 .. Len(queue)
  BY DEF SoundList
<1>2. k \in 1 .. Len(queue) /\ queue[k].guid = g
  <2>1. k \in 0 .. Len(queue) /\ k # 0 /\ queue[k].guid = g
    BY <1>1, SlotFacts
  <2> QED
    BY <2>1
<1> HIDE DEF k
<1>3. [queue[k] EXCEPT !.deadline = until] \in WaitEntry /\ [queue[k] EXCEPT !.deadline = until].guid = g
  <2>1. queue[k] \in WaitEntry
    BY <1>1, <1>2
  <2>2. \A e \in WaitEntry : [e EXCEPT !.deadline = until] \in WaitEntry /\ [e EXCEPT !.deadline = until].guid = e.guid
    BY DEF WaitEntry
  <2> QED
    BY <1>2, <2>1, <2>2
<1>4. /\ r \in Seq(WaitEntry) /\ DOMAIN r = DOMAIN queue /\ Len(r) = Len(queue)
      /\ \A j \in DOMAIN queue : r[j].guid = queue[j].guid
  BY <1>1, <1>2, <1>3
<1> HIDE DEF r
<1>5. OnceEach(r) /\ Prior(r, count)
  BY <1>1, <1>4 DEF OnceEach, Prior
<1>6. SlotOf(r, g) = k
  BY <1>1, <1>2, <1>4, <1>5, SlotFacts
<1>7. SameOrder(r, queue) /\ (Exact(queue, count) => Exact(r, count))
  BY <1>4 DEF SameOrder, Exact
<1> QED
  BY <1>1, <1>4, <1>5, <1>6, <1>7 DEF SoundList, r, k

\* NobodyOvertaken, when the list becomes r.
FairNext(r) ==
    \A j, k \in DOMAIN r :
        j < k /\ Standing(r[k].guid) =>
            \/ StandsBefore(r[j].guid, r[k].guid)
            \/ ~Standing(r[j].guid) /\ r[j].guid \in Premium /\ r[k].guid \notin Premium

\* Whoever is before another once the expired entries are gone was so before, and neither has expired.
LEMMA LeftStandsBefore ==
    ASSUME waitList \in Seq(WaitEntry), NEW s, LeftInOrder(s, Len(waitList)),
           NEW a \in DOMAIN s.list, NEW b \in DOMAIN s.list, a < b
    PROVE  StandsBefore(s.list[a].guid, s.list[b].guid)
<1>1. PICK c \in 1 .. Len(waitList), d \in 1 .. Len(waitList) :
           /\ c < d /\ s.list[a] = waitList[c] /\ s.list[b] = waitList[d]
           /\ Alive(waitList[c]) /\ Alive(waitList[d])
  BY DEF LeftInOrder
<1>2. DOMAIN waitList = 1 .. Len(waitList)
  OBVIOUS
<1> QED
  BY <1>1, <1>2 DEF StandsBefore

\* A list that keeps its order is fair.
LEMMA SameOrderIsFair ==
    ASSUME waitList \in Seq(WaitEntry), NEW s, LeftInOrder(s, Len(waitList)), NEW r, SameOrder(r, s.list)
    PROVE  FairNext(r)
<1> SUFFICES ASSUME NEW j \in DOMAIN r, NEW k \in DOMAIN r, j < k
             PROVE  StandsBefore(r[j].guid, r[k].guid)
  BY DEF FairNext
<1>1. PICK a \in DOMAIN s.list, b \in DOMAIN s.list :
           a < b /\ r[j].guid = s.list[a].guid /\ r[k].guid = s.list[b].guid
  BY DEF SameOrder
<1> QED
  BY <1>1, LeftStandsBefore

\* A client that joins is fair to those who wait.
LEMMA JoinIsFair ==
    ASSUME waitList \in Seq(WaitEntry), NEW s, LeftInOrder(s, Len(waitList)), s.list \in Seq(WaitEntry),
           OnceEach(s.list), NEW g, SlotOf(s.list, g) = 0, NEW r, JoinedOrder(r, s.list, g)
    PROVE  FairNext(r)
<1>1. DOMAIN waitList = 1 .. Len(waitList) /\ \A j \in DOMAIN s.list : j # 0
  OBVIOUS
<1>2. ~Standing(g)
  <2> SUFFICES ASSUME Standing(g) PROVE FALSE
    OBVIOUS
  <2>1. PICK i \in DOMAIN waitList : waitList[i].guid = g /\ Alive(waitList[i])
    BY DEF Standing
  <2>2. PICK j \in DOMAIN s.list : s.list[j] = waitList[i]
    BY <1>1, <2>1 DEF LeftInOrder
  <2>3. SlotOf(s.list, g) = j
    BY <2>1, <2>2, SlotFacts
  <2> QED
    BY <1>1, <2>3
<1> SUFFICES ASSUME NEW j \in DOMAIN r, NEW k \in DOMAIN r, j < k, Standing(r[k].guid)
             PROVE  \/ StandsBefore(r[j].guid, r[k].guid)
                    \/ ~Standing(r[j].guid) /\ r[j].guid \in Premium /\ r[k].guid \notin Premium
  BY DEF FairNext
<1>3. r[k].guid # g
  BY <1>2
<1>4. CASE r[j].guid = g /\ g \in Premium /\ r[k].guid \notin Premium
  BY <1>2, <1>4
<1>5. CASE \E a, b \in DOMAIN s.list : a < b /\ r[j].guid = s.list[a].guid /\ r[k].guid = s.list[b].guid
  BY <1>5, LeftStandsBefore
<1> QED
  BY <1>3, <1>4, <1>5 DEF JoinedOrder

\* An answer, and the list it was made for.
Answered(g) ==
    /\ SoundList(waitList', priorityCount') /\ loading' \subseteq Clients
    /\ FairNext(waitList') /\ (~pairExpired' => Exact(waitList', priorityCount'))
    /\ told'.guid = g /\ SlotOf(waitList', g) <= told'.slot

\* clientLogin answers a client with its place, or a later one.
LEMMA LoginAnswers ==
    ASSUME WaitInv, NEW g \in Clients, clientLogin(g)
    PROVE  Answered(g)
<1>1. SoundList(waitList, priorityCount) /\ clock + Timeout \in Nat /\ loading \subseteq Clients
  BY WaitingConstants DEF WaitInv
<1>2. ASSUME NEW slot \in Nat, Tell(g, slot)
      PROVE  told'.guid = g /\ told'.slot = slot /\ loading' \subseteq Clients
  BY <1>1, <1>2 DEF Tell
<1> DEFINE queue == AfterExpiry.list
           count == AfterExpiry.count
<1>3. /\ SoundList(queue, count) /\ LeftInOrder(AfterExpiry, Len(waitList))
      /\ ~pairExpired' => ~pairExpired /\ Exact(queue, count)
  BY <1>1, ExpiryKeeps DEF clientLogin, WaitInv
<1>0. waitList \in Seq(WaitEntry)
  BY <1>1 DEF SoundList
<1>4. queue \in Seq(WaitEntry) /\ count \in Nat /\ OnceEach(queue) /\ Len(queue) \in Nat
  BY <1>3 DEF SoundList
<1>5. SlotOf(queue, g) \in 0 .. Len(queue)
  BY <1>4, SlotFacts
<1>6. CASE DirectAccess(g) /\ waitList = <<>>
  <2>1. Tell(g, 0) /\ waitList' = waitList /\ priorityCount' = priorityCount
    BY <1>6 DEF DirectAccess
  <2>2. SlotOf(waitList, g) = 0 /\ FairNext(waitList)
    BY <1>6 DEF SlotOf, FairNext
  <2>3. ~pairExpired' => Exact(waitList', priorityCount')
    BY <1>3, <2>1 DEF WaitInv
  <2> QED
    BY <1>1, <1>2, <2>1, <2>2, <2>3 DEF Answered
<1>7. CASE Returns(g)
  <2> DEFINE slot == SlotOf(queue, g)
             c == IF slot <= count /\ count > 0 THEN count - 1 ELSE count
  <2>1. slot > 0 /\ slot \in Nat
    BY <1>5, <1>7 DEF Returns
  <2>2. CASE waitList' = RemovedAt(queue, slot) /\ priorityCount' = c /\ Tell(g, 0)
    <3>1. told'.guid = g /\ told'.slot = 0 /\ loading' \subseteq Clients
      BY <1>2, <2>2
    <3>2. /\ SoundList(RemovedAt(queue, slot), c) /\ SlotOf(RemovedAt(queue, slot), g) = 0
          /\ SameOrder(RemovedAt(queue, slot), queue)
          /\ Exact(queue, count) => Exact(RemovedAt(queue, slot), c)
      <4> HIDE DEF queue, count
      <4> QED
        BY <1>3, <2>1, LetInKeeps
    <3>3. FairNext(RemovedAt(queue, slot))
      BY <1>0, <1>3, <3>2, SameOrderIsFair
    <3> HIDE DEF queue, count, slot, c
    <3> QED
      BY <1>3, <2>2, <3>1, <3>2, <3>3 DEF Answered
  <2>3. CASE /\ waitList' = [queue EXCEPT ![slot].deadline = clock + Timeout] /\ priorityCount' = count
             /\ Tell(g, slot)
    <3>1. told'.guid = g /\ told'.slot = slot /\ loading' \subseteq Clients
      BY <1>2, <2>1, <2>3
    <3> DEFINE until == clock + Timeout
    <3> DEFINE r == [queue EXCEPT ![slot].deadline = until]
    <3>2. /\ SoundList(r, count) /\ SlotOf(r, g) = slot
          /\ SameOrder(r, queue) /\ (Exact(queue, count) => Exact(r, count))
      <4>1. until \in Nat
        BY <1>1
      <4> HIDE DEF queue, count, until
      <4> QED
        BY <1>3, <2>1, <4>1, WaitsOnKeeps
    <3>3. FairNext(r)
      <4> HIDE DEF r
      <4> QED
        BY <1>0, <1>3, <3>2, SameOrderIsFair
    <3>4. waitList' = r /\ priorityCount' = count
      BY <2>3
    <3> HIDE DEF queue, count, slot, r
    <3> QED
      BY <1>3, <2>1, <3>1, <3>2, <3>3, <3>4 DEF Answered
  <2> QED
    BY <1>7, <2>2, <2>3 DEF Returns
<1>8. CASE Joins(g)
  <2> DEFINE e == [deadline |-> clock + Timeout, guid |-> g]
             p == PremiumIndex(queue, count)
  <2>1. e \in WaitEntry /\ e.guid = g /\ SlotOf(queue, e.guid) = 0
    BY <1>1, <1>8 DEF WaitEntry, Joins
  <2>2. ASSUME NEW k, NEW c, MayJoin(queue, count, e, k, c), waitList' = InsertedAt(queue, k, e),
               priorityCount' = c, NEW slot \in Nat, slot >= k + 1, Tell(g, slot)
        PROVE  Answered(g)
    <3>1. told'.guid = g /\ told'.slot = slot /\ loading' \subseteq Clients
      BY <1>2, <2>2
    <3> DEFINE r == InsertedAt(queue, k, e)
    <3>2. /\ SoundList(r, c) /\ SlotOf(r, g) = k + 1 /\ JoinedOrder(r, queue, g)
          /\ Exact(queue, count) => Exact(r, c)
      <4>1. e.guid = g
        BY <2>1
      <4> HIDE DEF queue, count, e
      <4> QED
        BY <1>3, <2>2, <4>1, JoinKeeps
    <3>3. FairNext(r)
      <4>1. SlotOf(queue, g) = 0
        BY <2>1
      <4> HIDE DEF r
      <4> QED
        BY <1>0, <1>3, <1>4, <3>2, <4>1, JoinIsFair
    <3>4. waitList' = r
      BY <2>2
    <3> HIDE DEF queue, count, e, r
    <3> QED
      BY <1>3, <2>2, <3>1, <3>2, <3>3, <3>4 DEF Answered
  <2>3. CASE /\ g \in Premium /\ waitList' = InsertedAt(queue, p, e) /\ priorityCount' = count + 1
             /\ Tell(g, count + 1)
    <3>1. p \in 0 .. Len(queue) /\ count + 1 >= p + 1 /\ count + 1 \in Nat
      BY <1>4 DEF PremiumIndex
    <3> HIDE DEF queue, count, e, p
    <3>2. MayJoin(queue, count, e, p, count + 1)
      BY <2>1, <2>3 DEF MayJoin, p
    <3> QED
      BY <2>2, <2>3, <3>1, <3>2
  <2>4. CASE /\ g \notin Premium /\ waitList' = Append(queue, e) /\ priorityCount' = count
             /\ Tell(g, LastSlot(queue))
    <3> HIDE DEF queue, count, e
    <3>1. Append(queue, e) = InsertedAt(queue, Len(queue), e)
      BY <1>4, AppendInserts
    <3>2. Len(queue) \in 0 .. Len(queue) /\ LastSlot(queue) = Len(queue) + 1 /\ LastSlot(queue) \in Nat
      BY <1>4 DEF LastSlot
    <3>3. MayJoin(queue, count, e, Len(queue), count)
      BY <2>1, <2>4, <3>2 DEF MayJoin
    <3> QED
      BY <2>2, <2>4, <3>1, <3>2, <3>3
  <2> QED
    BY <1>8, <2>3, <2>4 DEF Joins
<1> QED
  BY <1>6, <1>7, <1>8 DEF clientLogin

\* WaitInv is inductive.
LEMMA WaitStep == WaitInv /\ [WaitingNext]_waitingVars => WaitInv'
<1> SUFFICES ASSUME WaitInv, [WaitingNext]_waitingVars PROVE WaitInv'
  OBVIOUS
<1>1. ASSUME UNCHANGED <<waitList, priorityCount, told, pairExpired>>, clock' \in Nat, online' \subseteq Clients,
             loading' \subseteq Clients
      PROVE  WaitInv'
  BY <1>1 DEF WaitInv, SoundList, OnceEach, Prior, Exact, SlotIsNoBetter, SlotOf
<1>2. ASSUME NEW g \in Clients, clientLogin(g) PROVE WaitInv'
  <2>1. Answered(g)
    BY <1>2, LoginAnswers
  <2>2. UNCHANGED <<online, clock>> /\ pairExpired' \in BOOLEAN
    BY <1>2 DEF clientLogin
  <2> QED
    BY <2>1, <2>2 DEF WaitInv, Answered, SlotIsNoBetter
<1>3. ASSUME NEW g \in Clients, finishWaiting(g) \/ leaves(g) PROVE WaitInv'
  BY <1>1, <1>3 DEF finishWaiting, leaves, WaitInv
<1>4. CASE Tick
  BY <1>1, <1>4 DEF Tick, WaitInv
<1>5. CASE UNCHANGED waitingVars
  BY <1>1, <1>5 DEF waitingVars, WaitInv
<1> QED
  BY <1>2, <1>3, <1>4, <1>5 DEF WaitingNext

\* No step is unfair: only clientLogin changes the list.
LEMMA FairStep == WaitInv /\ [WaitingNext]_waitingVars => [NobodyOvertaken]_waitList
<1> SUFFICES ASSUME WaitInv, [WaitingNext]_waitingVars, waitList' # waitList PROVE NobodyOvertaken
  OBVIOUS
<1>1. PICK g \in Clients : clientLogin(g)
  BY DEF WaitingNext, waitingVars, finishWaiting, leaves, Tick
<1>2. FairNext(waitList')
  BY <1>1, LoginAnswers DEF Answered
<1> QED
  BY <1>2 DEF FairNext, NobodyOvertaken

\* For every number of clients and of places, whoever expires, comes back or joins: premium clients
\* stand before the others until a call drops two of them at once, nobody who waits is overtaken but by
\* a premium client that joins, and nobody is told a better place than the one held
\* (src/src/protocolgame.cpp, clientLogin).
THEOREM QueueIsFairTheorem == WaitingSpec => QueueIsFair
<1>1. WaitingInit => WaitInv
  <2> SUFFICES ASSUME WaitingInit PROVE WaitInv
    OBVIOUS
  <2>1. waitList = <<>> /\ priorityCount = 0 /\ clock = 0 /\ online = {} /\ loading = {} /\ told.slot = 0
    BY DEF WaitingInit
  <2>2. SoundList(waitList, priorityCount)
    BY <2>1 DEF SoundList, OnceEach, Prior
  <2>4. Exact(waitList, priorityCount) /\ pairExpired = FALSE
    BY <2>1 DEF Exact, WaitingInit
  <2>3. \A g : SlotOf(waitList, g) = 0
    BY <2>1 DEF SlotOf
  <2>5. SlotIsNoBetter
    BY <2>1, <2>3 DEF SlotIsNoBetter
  <2> QED
    BY <2>1, <2>2, <2>4, <2>5 DEF WaitInv
<1>2. WaitInv => WaitingTypeOK /\ PremiumFirst /\ SlotIsNoBetter
  <2> SUFFICES ASSUME WaitInv PROVE WaitingTypeOK /\ PremiumFirst
    BY DEF WaitInv
  <2>1. waitList \in Seq(WaitEntry) /\ priorityCount \in Nat
    BY DEF WaitInv, SoundList
  <2>3. PremiumFirst
    <3>1. \A k \in DOMAIN waitList : k \in Nat
      BY <2>1
    <3> QED
      BY <2>1, <3>1 DEF PremiumFirst, WaitInv, Exact
  <2>2. \A k \in DOMAIN waitList : waitList[k].guid \in Clients
    <3>1. \A k \in DOMAIN waitList : waitList[k] \in WaitEntry
      BY <2>1
    <3>2. \A e \in WaitEntry : e.guid \in Clients
      BY DEF WaitEntry
    <3> QED
      BY <3>1, <3>2
  <2> QED
    BY <2>2, <2>3 DEF WaitingTypeOK, WaitInv, SoundList
<1> QED
  BY <1>1, <1>2, WaitStep, FairStep, PTL DEF WaitingSpec, QueueIsFair
====
