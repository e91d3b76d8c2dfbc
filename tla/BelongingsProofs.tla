---- MODULE BelongingsProofs ----
(***************************************************************************)
(* Proofs about what a player owns and what is kept of it: the quick loot  *)
(* settings (QuickLoot), which their own tasks write behind the player's   *)
(* back, for every number of sessions, changes and tasks; and the coins,   *)
(* the deliveries of the store and the characters on auction (Coins), for  *)
(* every number of accounts, characters, slots and coins; and the decay of *)
(* items (Decay), for every table of item types and every script.          *)
(***************************************************************************)
EXTENDS QuickLoot, Coins, Decay, FiniteSetTheorems, WellFoundedInduction, TLAPS

(***************************************************************************)
(* The quick loot settings.                                                *)
(***************************************************************************)
\* Settings: the changes that made them.
Settings == SUBSET (1 .. MaxChanges)
\* A write that was asked of the database thread.
LootTask == [id : Nat, generation : Nat \ {0}, settings : Settings]
\* The result of a write.
LootCallback == [id : Nat, generation : Nat, success : BOOLEAN]
\* The player of a session and what it knows of its settings.
LootSession == [id : 0 .. MaxSessions, online : BOOLEAN, loaded : Settings, generation : Nat,
                dirty : BOOLEAN, event : BOOLEAN]

\* The variables of QuickLoot have their types.
LootTypes ==
    /\ session \in LootSession /\ changes \in 0 .. MaxChanges /\ newest \in Settings /\ cached \in Settings
    /\ misread \in BOOLEAN /\ overwritten \in BOOLEAN
    /\ row \in Settings /\ dbTasks \in Seq(LootTask) /\ active \in Seq(LootTask)
    /\ callbacks \in Seq(LootCallback) /\ Len(active) <= 1 /\ Busy <= MaxTasks
    /\ dbWorker \in {"running", "terminated", "ended"} /\ waits \in BOOLEAN /\ outage \in BOOLEAN

\* Of the session that plays and of its newest settings, as far as it has been told.
OfNewest(t) == session.online /\ t.id = session.id /\ t.generation = session.generation

\* The writes that are under way.
InQueue == {dbTasks[k] : k \in 1 .. Len(dbTasks)}
\* The write that the worker has taken.
InWork == {active[k] : k \in 1 .. Len(active)}
\* The results that the dispatcher has not yet seen.
Told == {callbacks[k] : k \in 1 .. Len(callbacks)}

\* Neither a task nor a callback is of a session or a generation to come.
NotAhead(t) ==
    /\ t.id <= session.id
    /\ session.online /\ t.id = session.id => t.generation <= session.generation

\* The writes of the newest settings are the last ones.
NewestLast ==
    /\ \A j, k \in 1 .. Len(dbTasks) : j <= k /\ OfNewest(dbTasks[j]) => OfNewest(dbTasks[k])
    /\ \A t \in InWork : OfNewest(t) => \A u \in InQueue : OfNewest(u)
    /\ \A t \in InQueue \cup InWork : NotAhead(t) /\ (OfNewest(t) => t.settings = session.loaded)
    /\ \A c \in Told : NotAhead(c)

\* Nothing is under way that would change the row, which holds the newest settings.
Persisted == row = newest /\ \A t \in InQueue \cup InWork : t.settings = newest

\* As long as no logout gave up, clean settings are persisted, and so are those a callback will clean.
CleanIsPersisted ==
    ~outage => /\ session.online => session.loaded = newest \/ misread
               /\ cached \in {{}, newest}
               /\ ~overwritten => newest = 1 .. changes
               /\ ~session.dirty => Persisted
               /\ \A c \in Told : c.success /\ OfNewest(c) => Persisted

\* What plays is dirty, and waited for, only after a change of its own, and until then it may be that
\* it could not read its settings.
Plays ==
    /\ waits => session.online /\ session.dirty
    /\ session.dirty => session.online /\ session.generation > 0
    /\ misread => session.online /\ session.generation = 0

\* The inductive invariant: types, the newest settings written last, clean settings persisted, and
\* the dispatcher waiting only for a session that plays and has made a change.
LootInv == LootTypes /\ NewestLast /\ CleanIsPersisted /\ AcceptedTasksRun /\ Plays

\* The server starts with nobody in the game and no write under way.
LEMMA LootStarts == QuickLootInit => LootInv
<1> SUFFICES ASSUME QuickLootInit PROVE LootInv
  OBVIOUS
<1>1. /\ session = [id |-> 0, online |-> FALSE, loaded |-> {}, generation |-> 0, dirty |-> FALSE, event |-> FALSE]
      /\ changes = 0 /\ newest = {} /\ cached = {} /\ row = {} /\ dbTasks = <<>> /\ active = <<>> /\ callbacks = <<>>
      /\ dbWorker = "running" /\ waits = FALSE /\ outage = FALSE /\ misread = FALSE /\ overwritten = FALSE
  BY DEF QuickLootInit, Offline
<1>2. Len(dbTasks) = 0 /\ Len(active) = 0 /\ Len(callbacks) = 0 /\ Busy = 0
  BY <1>1 DEF Busy
<1>3. InQueue = {} /\ InWork = {} /\ Told = {}
  BY <1>2 DEF InQueue, InWork, Told
<1>4. LootTypes
  <2>1. session \in LootSession /\ 0 \in 0 .. MaxChanges /\ {} \in Settings
    BY <1>1, QuickLootBounds DEF LootSession, Settings
  <2>2. dbTasks \in Seq(LootTask) /\ active \in Seq(LootTask) /\ callbacks \in Seq(LootCallback)
    BY <1>1
  <2>3. Len(active) <= 1 /\ Busy <= MaxTasks
    BY <1>2, QuickLootBounds
  <2> QED
    BY <1>1, <2>1, <2>2, <2>3 DEF LootTypes
<1>5. NewestLast /\ CleanIsPersisted
  <2>1. 1 .. 0 = {}
    OBVIOUS
  <2> QED
    BY <1>1, <1>2, <1>3, <2>1 DEF NewestLast, CleanIsPersisted, Persisted
<1> QED
  BY <1>1, <1>4, <1>5 DEF LootInv, AcceptedTasksRun, Plays

\* What the invariant says of the sets of tasks and callbacks.
LEMMA LootSets ==
    ASSUME LootTypes
    PROVE  /\ \A t \in InQueue \cup InWork : t \in LootTask
           /\ \A c \in Told : c \in LootCallback
           /\ dbTasks = <<>> => InQueue = {}
           /\ active = <<>> => InWork = {}
           /\ Len(dbTasks) \in Nat /\ Len(active) \in Nat /\ Len(callbacks) \in Nat
  BY DEF LootTypes, InQueue, InWork, Told

\* A session has its fields, and whatever has them is one.
LEMMA SessionFields ==
    ASSUME NEW s \in LootSession
    PROVE  /\ s.id \in 0 .. MaxSessions /\ s.id \in Nat /\ s.online \in BOOLEAN /\ s.loaded \in Settings
           /\ s.generation \in Nat /\ s.dirty \in BOOLEAN /\ s.event \in BOOLEAN
           /\ s = [id |-> s.id, online |-> s.online, loaded |-> s.loaded, generation |-> s.generation,
                   dirty |-> s.dirty, event |-> s.event]
  BY QuickLootBounds DEF LootSession

\* A step of the dispatcher that leaves the tasks, the callbacks and the worker alone.
LEMMA SessionOnlyKeepsInv ==
    ASSUME LootInv, UNCHANGED <<dbTasks, active, callbacks, dbWorker>>,
           session' \in LootSession, changes' \in 0 .. MaxChanges, newest' \in Settings, cached' \in Settings,
           row' \in Settings, misread' \in BOOLEAN, overwritten' \in BOOLEAN, waits' \in BOOLEAN,
           outage' \in BOOLEAN, Plays', outage => outage',
           \* who is online goes on, or is gone, or is a newer session, or has newer settings
           \/ /\ session'.online = session.online /\ session'.id = session.id
              /\ session'.generation = session.generation /\ session'.loaded = session.loaded
           \/ ~session'.online /\ session'.id = session.id
           \/ session'.online /\ ~session.online /\ session'.id > session.id
           \/ session'.online /\ session.online /\ session'.id = session.id /\ session'.generation > session.generation,
           CleanIsPersisted'
    PROVE  LootInv'
<1>1. LootTypes /\ NewestLast /\ AcceptedTasksRun
  BY DEF LootInv
<1>2. LootTypes'
  BY <1>1 DEF LootTypes, Busy
<1>3. InQueue' = InQueue /\ InWork' = InWork /\ Told' = Told
  BY DEF InQueue, InWork, Told
<1>4. session.id \in Nat /\ session.generation \in Nat /\ session'.id \in Nat /\ session'.generation \in Nat
  BY <1>1 DEF LootTypes, LootSession
<1>5. \A t : t \in InQueue \cup InWork \cup Told => t.id \in Nat /\ t.generation \in Nat
  BY <1>1, LootSets DEF LootTask, LootCallback
<1>6. \A t \in InQueue \cup InWork \cup Told : NotAhead(t)
  BY <1>1 DEF NewestLast
<1>7. ASSUME NEW t \in InQueue \cup InWork \cup Told PROVE NotAhead(t)'
  BY <1>4, <1>5, <1>6, <1>7 DEF NotAhead
<1>8. ASSUME NEW t \in InQueue \cup InWork \cup Told, OfNewest(t)'
      PROVE  OfNewest(t) /\ session'.loaded = session.loaded /\ session'.online = session.online /\ session'.id = session.id
             /\ session'.generation = session.generation
  <2>1. session'.online /\ t.id = session'.id /\ t.generation = session'.generation
    BY <1>8 DEF OfNewest
  <2>2. /\ t.id \in Nat /\ t.generation \in Nat /\ t.id <= session.id
        /\ session.online /\ t.id = session.id => t.generation <= session.generation
    BY <1>5, <1>6, <1>8 DEF NotAhead
  <2>3. /\ session'.online = session.online /\ session'.id = session.id
        /\ session'.generation = session.generation /\ session'.loaded = session.loaded
    <3>1. ~(~session'.online /\ session'.id = session.id)
      BY <2>1
    <3>2. ~(session'.online /\ ~session.online /\ session'.id > session.id)
      BY <1>4, <2>1, <2>2
    <3>3. ~(session'.online /\ session.online /\ session'.id = session.id /\ session'.generation > session.generation)
      BY <1>4, <2>1, <2>2
    <3> QED
      BY <3>1, <3>2, <3>3
  <2> QED
    BY <2>1, <2>3 DEF OfNewest
<1>9. \A k \in 1 .. Len(dbTasks) : dbTasks[k] \in InQueue
  BY DEF InQueue
<1>10. NewestLast'
  <2>1. ASSUME NEW j \in 1 .. Len(dbTasks), NEW k \in 1 .. Len(dbTasks), j <= k, OfNewest(dbTasks[j])'
        PROVE  OfNewest(dbTasks[k])'
    <3>1. OfNewest(dbTasks[k]) /\ session'.online = session.online /\ session'.id = session.id
          /\ session'.generation = session.generation
      BY <1>1, <1>8, <1>9, <2>1 DEF NewestLast, OfNewest
    <3> QED
      BY <3>1 DEF OfNewest
  <2>2. ASSUME NEW t \in InWork, OfNewest(t)', NEW u \in InQueue PROVE OfNewest(u)'
    <3>1. OfNewest(u) /\ session'.online = session.online /\ session'.id = session.id
          /\ session'.generation = session.generation
      BY <1>1, <1>8, <2>2 DEF NewestLast
    <3> QED
      BY <3>1 DEF OfNewest
  <2>3. ASSUME NEW t \in InQueue \cup InWork, OfNewest(t)' PROVE t.settings = session'.loaded
    BY <1>1, <1>8, <2>3 DEF NewestLast
  <2> QED
    BY <1>3, <1>7, <2>1, <2>2, <2>3 DEF NewestLast, OfNewest, NotAhead
<1> QED
  BY <1>1, <1>2, <1>10 DEF LootInv, AcceptedTasksRun

\* A step of the dispatcher that only changes who is in the game and what is known of the settings.
LEMMA DispatcherKeepsLootInv ==
    ASSUME LootInv,
           \/ \E success \in BOOLEAN : loadSettings(success)
           \/ saveQuickLootState \/ kvSaveAll \/ quickLootLogout \/ logoutFlush
    PROVE  LootInv'
<1>1. LootTypes /\ NewestLast /\ CleanIsPersisted /\ Plays
  BY DEF LootInv
<1>2. /\ session.id \in Nat /\ session.id \in 0 .. MaxSessions /\ session.generation \in Nat
      /\ session.loaded \in Settings /\ session.online \in BOOLEAN /\ session.dirty \in BOOLEAN
      /\ session.event \in BOOLEAN /\ session \in LootSession
      /\ changes \in 0 .. MaxChanges /\ newest \in Settings /\ cached \in Settings /\ row \in Settings
      /\ waits \in BOOLEAN /\ outage \in BOOLEAN /\ misread \in BOOLEAN /\ overwritten \in BOOLEAN
      /\ {} \in Settings
  BY <1>1, SessionFields DEF LootTypes, Settings
<1>0. \A t : t \in InQueue \cup InWork \cup Told => t.id \in Nat /\ t.generation \in Nat
  BY <1>1, LootSets DEF LootTask, LootCallback
<1>3. \A t \in InQueue \cup InWork \cup Told : NotAhead(t)
  BY <1>1 DEF NewestLast
<1>4. UNCHANGED <<dbTasks, active, callbacks>> => InQueue' = InQueue /\ InWork' = InWork /\ Told' = Told
  BY DEF InQueue, InWork, Told
<1>5. \A i \in Nat : Offline(i) = [id |-> i, online |-> FALSE, loaded |-> {}, generation |-> 0, dirty |-> FALSE,
                                  event |-> FALSE]
  BY DEF Offline
<1>6. ASSUME NEW success \in BOOLEAN, loadSettings(success) PROVE LootInv'
  <2> DEFINE read == IF success THEN row ELSE {}
  <2>0. read \in Settings /\ (read = row \/ misread')
    BY <1>2, <1>6 DEF loadSettings
  <2>1. /\ ~session.online /\ session.id < MaxSessions
        /\ session' = [Offline(session.id + 1) EXCEPT !.online = TRUE, !.loaded = read]
        /\ cached' \in {row, cached} /\ misread' \in BOOLEAN
        /\ UNCHANGED <<changes, newest, overwritten, row, dbTasks, active, callbacks, dbWorker, waits, outage>>
    BY <1>6 DEF loadSettings
  <2> HIDE DEF read
  <2>2. session' = [id |-> session.id + 1, online |-> TRUE, loaded |-> read, generation |-> 0, dirty |-> FALSE,
                    event |-> FALSE]
    BY <2>1 DEF Offline
  <2>3. session' \in LootSession /\ session'.id > session.id /\ session'.online /\ session'.id = session.id + 1
    <3>1. session.id + 1 \in 0 .. MaxSessions /\ session.id + 1 > session.id
      BY <1>2, <2>1, QuickLootBounds
    <3>2. session' \in LootSession
      <4>1. TRUE \in BOOLEAN /\ FALSE \in BOOLEAN /\ 0 \in Nat /\ read \in Settings
        BY <2>0
      <4> QED
        BY <2>2, <3>1, <4>1, Zenon DEF LootSession
    <3> QED
      BY <2>2, <3>1, <3>2
  <2>4. ~waits
    BY <1>6 DEF loadSettings
  <2>5. \A c \in Told : ~OfNewest(c)'
    BY <1>0, <1>2, <1>3, <2>3 DEF OfNewest, NotAhead
  <2>6. CleanIsPersisted'
    <3> SUFFICES ASSUME ~outage PROVE CleanIsPersisted'
      BY <2>1 DEF CleanIsPersisted
    <3>1. ~session.dirty /\ Persisted
      BY <1>1, <2>1 DEF Plays, CleanIsPersisted
    <3>2. /\ Persisted' /\ session'.loaded = read /\ row = newest /\ newest' = newest /\ changes' = changes
          /\ overwritten' = overwritten
      BY <1>4, <2>1, <2>2, <3>1 DEF Persisted
    <3>3. cached' \in {{}, newest} /\ (~overwritten => newest = 1 .. changes)
      BY <1>1, <2>1, <3>2 DEF CleanIsPersisted
    <3> QED
      BY <1>4, <2>0, <2>1, <2>5, <3>2, <3>3 DEF CleanIsPersisted
  <2>7. cached' \in Settings
    BY <1>2, <2>1
  <2>8. Plays'
    <3>1. session'.online = TRUE /\ session'.dirty = FALSE /\ session'.generation = 0
      BY <2>2
    <3>2. ~waits'
      BY <1>6, <2>4 DEF loadSettings
    <3> QED
      BY <3>1, <3>2 DEF Plays
  <2> QED
    BY <1>2, <2>1, <2>3, <2>6, <2>7, <2>8, SessionOnlyKeepsInv
<1>7. CASE saveQuickLootState
  <2> DEFINE made == session.loaded \cup {changes + 1}
  <2>1. /\ session.online /\ changes < MaxChanges /\ changes' = changes + 1 /\ newest' = made /\ cached' = made
        /\ session' = [session EXCEPT !.loaded = made, !.generation = session.generation + 1,
                                      !.dirty = TRUE, !.event = TRUE]
        /\ overwritten' = (overwritten \/ misread) /\ misread' = FALSE /\ ~waits
        /\ UNCHANGED <<row, dbTasks, active, callbacks, dbWorker, waits, outage>>
    BY <1>2, <1>7 DEF saveQuickLootState, Scheduled, LootSession
  <2>2. changes' \in 0 .. MaxChanges /\ made \in Settings /\ overwritten' \in BOOLEAN
    <3>1. changes + 1 \in 1 .. MaxChanges /\ changes + 1 \in 0 .. MaxChanges
      BY <1>2, <2>1, QuickLootBounds
    <3> QED
      BY <1>2, <2>1, <3>1 DEF Settings
  <2>7. ~outage /\ ~overwritten' => made = 1 .. changes'
    <3> SUFFICES ASSUME ~outage, ~overwritten' PROVE made = 1 .. changes'
      OBVIOUS
    <3>1. session.loaded = 1 .. changes
      BY <1>1, <2>1 DEF CleanIsPersisted
    <3>2. (1 .. changes) \cup {changes + 1} = 1 .. (changes + 1)
      BY <1>2
    <3> QED
      BY <2>1, <3>1, <3>2
  <2> HIDE DEF made
  <2>3. /\ session' \in LootSession /\ session'.online /\ session'.id = session.id /\ session'.dirty
        /\ session'.generation > session.generation /\ session'.generation > 0 /\ session'.loaded = made
    <3>1. session' = [id |-> session.id, online |-> TRUE, loaded |-> made,
                      generation |-> session.generation + 1, dirty |-> TRUE, event |-> TRUE]
      <4>1. session = [id |-> session.id, online |-> session.online, loaded |-> session.loaded,
                       generation |-> session.generation, dirty |-> session.dirty, event |-> session.event]
        BY <1>2, SessionFields
      <4>2. session.online = TRUE
        BY <1>2, <2>1
      <4> QED
        BY <2>1, <4>1, <4>2
    <3>2. session.generation + 1 \in Nat /\ session.generation + 1 > session.generation
          /\ session.generation + 1 > 0
      BY <1>2
    <3>3. session' \in LootSession
      <4>1. TRUE \in BOOLEAN /\ session.id \in 0 .. MaxSessions
        BY <1>2
      <4> QED
        BY <2>2, <3>1, <3>2, <4>1, Zenon DEF LootSession
    <3> QED
      BY <2>1, <3>1, <3>2, <3>3
  <2>4. \A c \in Told : ~OfNewest(c)'
    BY <1>0, <1>2, <1>3, <2>1, <2>3 DEF OfNewest, NotAhead
  <2>5. CleanIsPersisted'
    BY <1>4, <2>1, <2>3, <2>4, <2>7 DEF CleanIsPersisted
  <2>6. Plays'
    BY <2>1, <2>3 DEF Plays
  <2> QED
    BY <1>2, <2>1, <2>2, <2>3, <2>5, <2>6, SessionOnlyKeepsInv
<1>8. CASE kvSaveAll
  <2>1. /\ cached # {} /\ row' \in {row, cached}
        /\ UNCHANGED <<session, changes, newest, misread, overwritten, cached, dbTasks, active, callbacks, dbWorker, waits, outage>>
    BY <1>8 DEF kvSaveAll, settingsHistory
  <2>2. CleanIsPersisted'
    BY <1>1, <1>4, <2>1 DEF CleanIsPersisted, Persisted, OfNewest
  <2>3. row' \in Settings
    BY <1>2, <2>1
  <2>4. Plays'
    BY <1>1, <2>1 DEF Plays
  <2> QED
    BY <1>1, <1>2, <2>1, <2>2, <2>3, <2>4, SessionOnlyKeepsInv
<1>9. CASE quickLootLogout
  <2>1. /\ ~waits /\ session.online
        /\ UNCHANGED <<changes, newest, overwritten, cached, row, dbTasks, active, callbacks, dbWorker, outage>>
    BY <1>9 DEF quickLootLogout
  <2>2. CASE session.dirty
    <3>1. waits' = TRUE /\ session' = [session EXCEPT !.event = FALSE] /\ misread' = misread
      BY <1>9, <2>2 DEF quickLootLogout
    <3>2. /\ session' \in LootSession /\ session'.online = session.online /\ session'.id = session.id
          /\ session'.generation = session.generation /\ session'.loaded = session.loaded
          /\ session'.dirty = session.dirty
      BY <1>2, <3>1 DEF LootSession
    <3>3. CleanIsPersisted'
      BY <1>1, <1>4, <2>1, <3>1, <3>2 DEF CleanIsPersisted, Persisted, OfNewest
    <3>4. Plays'
      BY <1>1, <2>1, <2>2, <3>1, <3>2 DEF Plays
    <3> QED
      BY <1>2, <2>1, <3>1, <3>2, <3>3, <3>4, SessionOnlyKeepsInv
  <2>3. CASE ~session.dirty
    <3>1. /\ waits' = waits /\ misread' = FALSE
          /\ session' = [id |-> session.id, online |-> FALSE, loaded |-> {}, generation |-> 0,
                                           dirty |-> FALSE, event |-> FALSE]
      BY <1>2, <1>5, <1>9, <2>3 DEF quickLootLogout
    <3>2. session' \in LootSession /\ ~session'.online /\ session'.id = session.id /\ ~session'.dirty
      <4>1. session' \in LootSession
        <5>1. FALSE \in BOOLEAN /\ session.id \in 0 .. MaxSessions /\ 0 \in Nat /\ {} \in Settings
          BY <1>2, QuickLootBounds
        <5> QED
          BY <3>1, <5>1, Zenon DEF LootSession
      <4> QED
        BY <3>1, <4>1
    <3>3. CleanIsPersisted'
      BY <1>1, <1>4, <2>1, <2>3, <3>2 DEF CleanIsPersisted, Persisted, OfNewest
    <3>4. Plays'
      BY <2>1, <3>1, <3>2 DEF Plays
    <3> QED
      BY <1>2, <2>1, <3>1, <3>2, <3>3, <3>4, SessionOnlyKeepsInv
  <2> QED
    BY <2>2, <2>3
<1>10. CASE logoutFlush
  <2>1. /\ waits /\ dbTasks = <<>> /\ active = <<>> /\ waits' = FALSE
        /\ session' = [id |-> session.id, online |-> FALSE, loaded |-> {}, generation |-> 0, dirty |-> FALSE,
                       event |-> FALSE]
        /\ (row' = session.loaded /\ outage' = outage) \/ (outage' = TRUE /\ row' = row)
        /\ UNCHANGED <<changes, newest, misread, overwritten, cached, dbTasks, active, callbacks, dbWorker>>
    BY <1>2, <1>5, <1>10 DEF logoutFlush, TasksDone, settingsHistory
  <2>2. session' \in LootSession /\ ~session'.online /\ session'.id = session.id /\ ~session'.dirty
    <3>1. session' \in LootSession
      <4>1. FALSE \in BOOLEAN /\ session.id \in 0 .. MaxSessions /\ 0 \in Nat /\ {} \in Settings
        BY <1>2, QuickLootBounds
      <4> QED
        BY <2>1, <4>1, Zenon DEF LootSession
    <3> QED
      BY <2>1, <3>1
  <2>3. InQueue' = {} /\ InWork' = {}
    BY <1>1, <1>4, <2>1, LootSets
  <2>4. row' \in Settings /\ outage' \in BOOLEAN /\ (outage => outage')
    <3>1. CASE row' = session.loaded /\ outage' = outage
      BY <1>2, <3>1
    <3>2. CASE outage' = TRUE /\ row' = row
      BY <1>2, <3>2
    <3> QED
      BY <2>1, <3>1, <3>2
  <2>6. ~misread /\ (~outage => session.loaded = newest)
    BY <1>1, <1>2, <2>1 DEF Plays, CleanIsPersisted
  <2>5. CleanIsPersisted'
    BY <1>1, <2>1, <2>2, <2>3, <2>4, <2>6 DEF CleanIsPersisted, Persisted, OfNewest
  <2>7. Plays'
    BY <2>1, <2>2, <2>6 DEF Plays
  <2> QED
    BY <1>2, <2>1, <2>2, <2>4, <2>5, <2>7, SessionOnlyKeepsInv
<1> QED
  BY <1>6, <1>7, <1>8, <1>9, <1>10

\* The queues.
LEMMA HeadAndTail ==
    ASSUME NEW S, NEW q \in Seq(S), q # <<>>
    PROVE  /\ Head(q) \in S /\ Tail(q) \in Seq(S) /\ Len(Tail(q)) = Len(q) - 1 /\ Len(q) \in Nat \ {0}
           /\ Head(q) = q[1] /\ \A k \in 1 .. Len(q) - 1 : Tail(q)[k] = q[k + 1]
           /\ {Tail(q)[k] : k \in 1 .. Len(Tail(q))} \subseteq {q[k] : k \in 1 .. Len(q)}
           /\ Head(q) \in {q[k] : k \in 1 .. Len(q)}
<1>1. /\ Head(q) \in S /\ Tail(q) \in Seq(S) /\ Len(Tail(q)) = Len(q) - 1 /\ Len(q) \in Nat \ {0}
      /\ Head(q) = q[1] /\ \A k \in 1 .. Len(q) - 1 : Tail(q)[k] = q[k + 1]
  OBVIOUS
<1>2. \A k \in 1 .. Len(q) - 1 : k + 1 \in 1 .. Len(q)
  BY <1>1
<1>3. 1 \in 1 .. Len(q)
  BY <1>1
<1> QED
  BY <1>1, <1>2, <1>3

\* What is in a queue after an append.
LEMMA AppendTo ==
    ASSUME NEW S, NEW q \in Seq(S), NEW e \in S
    PROVE  /\ Append(q, e) \in Seq(S) /\ Len(Append(q, e)) = Len(q) + 1 /\ Len(q) \in Nat
           /\ \A k \in 1 .. Len(q) : Append(q, e)[k] = q[k]
           /\ Append(q, e)[Len(q) + 1] = e
           /\ {Append(q, e)[k] : k \in 1 .. Len(Append(q, e))} = {q[k] : k \in 1 .. Len(q)} \cup {e}
<1>1. /\ Append(q, e) \in Seq(S) /\ Len(Append(q, e)) = Len(q) + 1 /\ Len(q) \in Nat
      /\ \A k \in 1 .. Len(q) : Append(q, e)[k] = q[k]
      /\ Append(q, e)[Len(q) + 1] = e
  OBVIOUS
<1>2. 1 .. Len(q) + 1 = (1 .. Len(q)) \cup {Len(q) + 1}
  BY <1>1
<1> QED
  BY <1>1, <1>2

\* The timer that persists dirty settings asks for a write of the newest.
LEMMA TimerKeepsLootInv == LootInv /\ persistenceTimer => LootInv'
<1> SUFFICES ASSUME LootInv, persistenceTimer PROVE LootInv'
  OBVIOUS
<1>1. LootTypes /\ NewestLast /\ CleanIsPersisted /\ Plays
      /\ AcceptedTasksRun
  BY DEF LootInv
<1>2. /\ session.online /\ UNCHANGED <<changes, newest, misread, overwritten, cached, row, active, callbacks, dbWorker, waits, outage>>
      /\ session' = [session EXCEPT !.event = FALSE]
  BY DEF persistenceTimer, settingsHistory
<1>3. /\ session \in LootSession /\ session' \in LootSession /\ session'.online = session.online
      /\ session'.id = session.id /\ session'.generation = session.generation /\ session'.loaded = session.loaded
      /\ session'.dirty = session.dirty /\ session.id \in Nat /\ session.generation \in Nat
      /\ session.loaded \in Settings /\ Plays'
  <2>1. session \in LootSession
    BY <1>1 DEF LootTypes
  <2>2. session' = [id |-> session.id, online |-> session.online, loaded |-> session.loaded,
                    generation |-> session.generation, dirty |-> session.dirty, event |-> FALSE]
    <3>1. session = [id |-> session.id, online |-> session.online, loaded |-> session.loaded,
                     generation |-> session.generation, dirty |-> session.dirty, event |-> session.event]
      BY <2>1, SessionFields
    <3> QED
      BY <1>2, <3>1
  <2>3. session' \in LootSession
    <3>1. /\ FALSE \in BOOLEAN /\ session.id \in 0 .. MaxSessions /\ session.loaded \in Settings
          /\ session.online \in BOOLEAN /\ session.generation \in Nat /\ session.dirty \in BOOLEAN
      BY <2>1, SessionFields
    <3> QED
      BY <2>2, <3>1, Zenon DEF LootSession
  <2>4. /\ session'.online = session.online /\ session'.id = session.id
        /\ session'.generation = session.generation /\ session'.loaded = session.loaded
        /\ session'.dirty = session.dirty
    BY <2>2
  <2>5. Plays'
    BY <1>1, <1>2, <2>4 DEF Plays
  <2> QED
    BY <2>1, <2>3, <2>4, <2>5, SessionFields
<1>4. CASE dbTasks' = dbTasks
  <2>1. InQueue' = InQueue /\ InWork' = InWork /\ Told' = Told
    BY <1>2, <1>4 DEF InQueue, InWork, Told
  <2>2. CleanIsPersisted'
    BY <1>1, <1>2, <1>3, <2>1 DEF CleanIsPersisted, Persisted, OfNewest
  <2> QED
    <3>1. /\ changes' \in 0 .. MaxChanges /\ newest' \in Settings /\ cached' \in Settings /\ row' \in Settings
          /\ misread' \in BOOLEAN /\ overwritten' \in BOOLEAN /\ waits' \in BOOLEAN /\ outage' \in BOOLEAN
      BY <1>1, <1>2 DEF LootTypes
    <3>2. UNCHANGED <<dbTasks, active, callbacks, dbWorker>> /\ outage' = outage
      BY <1>2, <1>4
    <3> QED
      BY <1>3, <2>2, <3>1, <3>2, SessionOnlyKeepsInv
<1>5. CASE dbTasks' # dbTasks
  <2> DEFINE t == [id |-> session.id, generation |-> session.generation, settings |-> session.loaded]
             n == Len(dbTasks)
  <2>1. dbWorker = "running" /\ Busy < MaxTasks /\ dbTasks' = Append(dbTasks, t)
    BY <1>3, <1>5 DEF persistenceTimer, LootSession
  <2>0. session.generation \in Nat \ {0} /\ session.dirty /\ ~misread
    <3>1. session.dirty
      BY <1>3, <1>5 DEF persistenceTimer, LootSession
    <3> QED
      BY <1>1, <1>3, <3>1 DEF Plays
  <2>2. /\ t \in LootTask /\ t.id = session.id /\ t.generation = session.generation /\ t.settings = session.loaded
    BY <1>3, <2>0 DEF LootTask
  <2> HIDE DEF t
  <2>3. /\ dbTasks' \in Seq(LootTask) /\ Len(dbTasks') = n + 1 /\ n \in Nat
        /\ \A k \in 1 .. n : dbTasks'[k] = dbTasks[k]
        /\ dbTasks'[n + 1] = t /\ InQueue' = InQueue \cup {t}
    BY <1>1, <2>1, <2>2, AppendTo DEF LootTypes, InQueue
  <2>4. InWork' = InWork /\ Told' = Told
    BY <1>2 DEF InWork, Told
  <2>5. \A u : OfNewest(u)' <=> OfNewest(u)
    BY <1>3 DEF OfNewest
  <2>6. OfNewest(t) /\ NotAhead(t) /\ \A u : NotAhead(u)' <=> NotAhead(u)
    BY <1>2, <1>3, <2>2 DEF OfNewest, NotAhead
  <2>7. Len(active) \in Nat /\ Len(callbacks) \in Nat /\ Busy \in Nat
    BY <1>1, <2>3 DEF LootTypes, Busy
  <2>8. Busy' = Busy + 1
    BY <1>2, <2>3, <2>7 DEF Busy
  <2>9. LootTypes'
    BY <1>1, <1>2, <1>3, <2>1, <2>3, <2>7, <2>8, QuickLootBounds DEF LootTypes
  <2>10. NewestLast'
    <3>1. ASSUME NEW j \in 1 .. n + 1, NEW k \in 1 .. n + 1, j <= k, OfNewest(dbTasks'[j])
          PROVE  OfNewest(dbTasks'[k])
      <4>1. CASE k = n + 1
        BY <2>3, <2>6, <4>1
      <4>2. CASE k # n + 1
        <5>1. j \in 1 .. n /\ k \in 1 .. n
          BY <2>3, <3>1, <4>2
        <5> QED
          BY <1>1, <2>3, <3>1, <5>1 DEF NewestLast
      <4> QED
        BY <4>1, <4>2
    <3>2. \A u \in InWork' : OfNewest(u) => \A v \in InQueue' : OfNewest(v)
      BY <1>1, <2>3, <2>4, <2>6 DEF NewestLast
    <3>3. \A u \in InQueue' \cup InWork' : NotAhead(u) /\ (OfNewest(u) => u.settings = session.loaded)
      BY <1>1, <2>2, <2>3, <2>4, <2>6 DEF NewestLast
    <3>4. \A c \in Told' : NotAhead(c)
      BY <1>1, <2>4 DEF NewestLast
    <3> QED
      BY <1>3, <2>3, <2>5, <2>6, <3>1, <3>2, <3>3, <3>4 DEF NewestLast
  <2>11. CleanIsPersisted'
    <3> SUFFICES ASSUME ~outage PROVE CleanIsPersisted'
      BY <1>2 DEF CleanIsPersisted
    <3>1. t.settings = newest
      BY <1>1, <1>2, <2>0, <2>2 DEF CleanIsPersisted
    <3>2. Persisted => Persisted'
      BY <1>2, <2>3, <2>4, <3>1 DEF Persisted
    <3>3. \A c \in Told' : c.success /\ OfNewest(c)' => Persisted'
      BY <1>1, <2>4, <2>5, <3>2 DEF CleanIsPersisted
    <3> QED
      BY <1>1, <1>2, <1>3, <2>0, <3>3 DEF CleanIsPersisted
  <2>12. AcceptedTasksRun'
    BY <1>2, <2>1 DEF AcceptedTasksRun
  <2> QED
    BY <1>1, <1>2, <1>3, <2>9, <2>10, <2>11, <2>12 DEF LootInv
<1> QED
  BY <1>4, <1>5

\* The result of a write cleans the settings only if it is of their newest generation.
LEMMA CallbackKeepsLootInv == LootInv /\ flushCallback => LootInv'
<1> SUFFICES ASSUME LootInv, flushCallback PROVE LootInv'
  OBVIOUS
<1> DEFINE c == Head(callbacks)
<1>1. LootTypes /\ NewestLast /\ CleanIsPersisted /\ Plays
      /\ AcceptedTasksRun /\ session \in LootSession
  BY DEF LootInv, LootTypes
<1>2. /\ callbacks # <<>> /\ callbacks' = Tail(callbacks) /\ ~waits
      /\ session' = IF session.online /\ session.id = c.id THEN AfterFlush(session, c) ELSE session
      /\ UNCHANGED <<changes, newest, misread, overwritten, cached, row, dbTasks, active, dbWorker, waits, outage>>
  BY DEF flushCallback, settingsHistory
<1>3. /\ callbacks' \in Seq(LootCallback) /\ Len(callbacks') = Len(callbacks) - 1 /\ Len(callbacks) \in Nat \ {0}
      /\ c \in Told /\ c \in LootCallback /\ Told' \subseteq Told
  BY <1>1, <1>2, HeadAndTail DEF LootTypes, Told
<1> HIDE DEF c
<1>4. InQueue' = InQueue /\ InWork' = InWork
  BY <1>2 DEF InQueue, InWork
<1>5. session = [id |-> session.id, online |-> session.online, loaded |-> session.loaded,
                 generation |-> session.generation, dirty |-> session.dirty, event |-> session.event]
  BY <1>1, SessionFields
<1>6. /\ FALSE \in BOOLEAN /\ TRUE \in BOOLEAN /\ session.id \in 0 .. MaxSessions
      /\ session.loaded \in Settings /\ session.online \in BOOLEAN /\ session.generation \in Nat
      /\ session.dirty \in BOOLEAN /\ session.event \in BOOLEAN
  BY <1>1, SessionFields
<1>7. /\ session' \in LootSession /\ session'.online = session.online
      /\ session'.id = session.id /\ session'.generation = session.generation /\ session'.loaded = session.loaded
      /\ \/ session'.dirty = session.dirty
         \/ ~session'.dirty /\ c.success /\ OfNewest(c)
  <2>1. CASE session' = session
    BY <1>1, <2>1
  <2>2. CASE session.online /\ session.id = c.id /\ c.success /\ session.generation = c.generation
    <3>1. session' = [id |-> session.id, online |-> session.online, loaded |-> session.loaded,
                      generation |-> session.generation, dirty |-> FALSE, event |-> session.event]
      BY <1>2, <1>5, <2>2 DEF AfterFlush
    <3>2. session' \in LootSession
      BY <1>6, <3>1, Zenon DEF LootSession
    <3> QED
      BY <2>2, <3>1, <3>2 DEF OfNewest
  <2>3. CASE session.online /\ session.id = c.id /\ ~(c.success /\ session.generation = c.generation)
    <3>1. session' = [id |-> session.id, online |-> session.online, loaded |-> session.loaded,
                      generation |-> session.generation, dirty |-> session.dirty, event |-> TRUE]
      BY <1>2, <1>5, <2>3 DEF AfterFlush, Scheduled
    <3>2. session' \in LootSession
      BY <1>6, <3>1, Zenon DEF LootSession
    <3> QED
      BY <3>1, <3>2
  <2> QED
    BY <1>2, <2>1, <2>2, <2>3
<1>8. \A u : (OfNewest(u)' <=> OfNewest(u)) /\ (NotAhead(u)' <=> NotAhead(u))
  BY <1>7 DEF OfNewest, NotAhead
<1>9. LootTypes'
  <2>1. Busy' <= MaxTasks
    BY <1>1, <1>2, <1>3, QuickLootBounds DEF Busy, LootTypes
  <2> QED
    BY <1>1, <1>2, <1>3, <1>7, <2>1 DEF LootTypes
<1>10. NewestLast'
  BY <1>1, <1>2, <1>3, <1>4, <1>7, <1>8 DEF NewestLast
<1>11. CleanIsPersisted'
  <2>1. Persisted' <=> Persisted
    BY <1>2, <1>4 DEF Persisted
  <2> QED
    BY <1>1, <1>2, <1>3, <1>7, <1>8, <2>1 DEF CleanIsPersisted
<1>12. Plays'
  BY <1>1, <1>2, <1>7 DEF Plays
<1> QED
  BY <1>1, <1>2, <1>9, <1>10, <1>11, <1>12 DEF LootInv, AcceptedTasksRun

\* The worker takes the oldest write.
LEMMA TakeKeepsLootInv == LootInv /\ takeTask => LootInv'
<1> SUFFICES ASSUME LootInv, takeTask PROVE LootInv'
  OBVIOUS
<1> DEFINE t == Head(dbTasks)
           n == Len(dbTasks)
<1>1. LootTypes /\ NewestLast /\ CleanIsPersisted /\ Plays
      /\ AcceptedTasksRun
  BY DEF LootInv
<1>2. /\ dbWorker # "ended" /\ active = <<>> /\ dbTasks # <<>> /\ active' = <<t>> /\ dbTasks' = Tail(dbTasks)
      /\ UNCHANGED <<session, changes, newest, misread, overwritten, cached, row, callbacks, dbWorker, waits, outage>>
  BY DEF takeTask, settingsHistory
<1>3. /\ dbTasks' \in Seq(LootTask) /\ Len(dbTasks') = n - 1 /\ n \in Nat \ {0}
      /\ t = dbTasks[1] /\ \A k \in 1 .. n - 1 : dbTasks'[k] = dbTasks[k + 1]
      /\ t \in InQueue /\ t \in LootTask /\ InQueue' \subseteq InQueue
  BY <1>1, <1>2, HeadAndTail DEF LootTypes, InQueue
<1> HIDE DEF t, n
<1>4. active' \in Seq(LootTask) /\ Len(active') = 1 /\ InWork' = {t} /\ Len(active) = 0
  <2>1. active' \in Seq(LootTask) /\ Len(active') = 1 /\ active'[1] = t /\ Len(active) = 0
    BY <1>2, <1>3
  <2>2. 1 .. 1 = {1}
    OBVIOUS
  <2> QED
    BY <2>1, <2>2 DEF InWork
<1>5. Told' = Told
  BY <1>2 DEF Told
<1>6. \A u : (OfNewest(u)' <=> OfNewest(u)) /\ (NotAhead(u)' <=> NotAhead(u))
  BY <1>2 DEF OfNewest, NotAhead
<1>7. LootTypes'
  <2>1. Busy' = Busy
    <3>1. Len(callbacks) \in Nat
      BY <1>1 DEF LootTypes
    <3> QED
      BY <1>2, <1>3, <1>4, <3>1 DEF Busy, n
  <2> QED
    BY <1>1, <1>2, <1>3, <1>4, <2>1 DEF LootTypes
<1>8. NewestLast'
  <2>1. ASSUME NEW j \in 1 .. n - 1, NEW k \in 1 .. n - 1, j <= k, OfNewest(dbTasks'[j])
        PROVE  OfNewest(dbTasks'[k])
    <3>1. j + 1 \in 1 .. n /\ k + 1 \in 1 .. n /\ j + 1 <= k + 1
      BY <1>3, <2>1
    <3>2. OfNewest(dbTasks[j + 1])
      BY <1>3, <2>1
    <3>3. OfNewest(dbTasks[k + 1])
      BY <1>1, <3>1, <3>2 DEF NewestLast, n
    <3> QED
      BY <1>3, <3>3
  <2>2. ASSUME OfNewest(t), NEW u \in InQueue PROVE OfNewest(u)
    <3>1. PICK k \in 1 .. n : u = dbTasks[k]
      BY DEF InQueue, n
    <3>2. 1 \in 1 .. n /\ 1 <= k
      BY <1>3, <3>1
    <3> QED
      BY <1>1, <1>3, <2>2, <3>1, <3>2 DEF NewestLast, n
  <2>3. \A u \in InQueue' \cup InWork' : NotAhead(u) /\ (OfNewest(u) => u.settings = session.loaded)
    BY <1>1, <1>3, <1>4 DEF NewestLast
  <2>4. \A c \in Told' : NotAhead(c)
    BY <1>1, <1>5 DEF NewestLast
  <2> QED
    BY <1>2, <1>3, <1>4, <1>6, <2>1, <2>2, <2>3, <2>4 DEF NewestLast
<1>9. CleanIsPersisted'
  <2>1. Persisted => Persisted'
    BY <1>2, <1>3, <1>4 DEF Persisted
  <2> QED
    BY <1>1, <1>2, <1>5, <1>6, <2>1 DEF CleanIsPersisted
<1>10. Plays'
  BY <1>1, <1>2 DEF Plays
<1> QED
  BY <1>1, <1>2, <1>7, <1>8, <1>9, <1>10 DEF LootInv, AcceptedTasksRun

\* The write changes the row, or fails.
LEMMA RunKeepsLootInv ==
    ASSUME LootInv, NEW success \in BOOLEAN, runTask(success)
    PROVE  LootInv'
<1> DEFINE t == active[1]
           c == [id |-> t.id, generation |-> t.generation, success |-> success]
<1>1. LootTypes /\ NewestLast /\ CleanIsPersisted /\ Plays
      /\ AcceptedTasksRun
  BY DEF LootInv
<1>2. /\ active # <<>> /\ row' = (IF success THEN t.settings ELSE row) /\ callbacks' = Append(callbacks, c)
      /\ active' = <<>> /\ UNCHANGED <<session, changes, newest, misread, overwritten, cached, dbTasks, dbWorker, waits, outage>>
  BY DEF runTask, settingsHistory
<1>3. t \in InWork /\ t \in LootTask /\ Len(active) = 1
  <2>1. active \in Seq(LootTask) /\ Len(active) <= 1
    BY <1>1 DEF LootTypes
  <2>2. Len(active) = 1 /\ 1 \in 1 .. Len(active) /\ active[1] \in LootTask
    <3>1. active # <<>>
      BY <1>2
    <3>2. Len(active) \in Nat \ {0} /\ active[1] \in LootTask
      BY <2>1, <3>1
    <3>3. Len(active) <= 1
      BY <2>1
    <3>4. Len(active) = 1
      BY <3>2, <3>3
    <3> QED
      BY <3>2, <3>4
  <2> QED
    BY <2>2 DEF InWork
<1>4. /\ c \in LootCallback /\ c.id = t.id /\ c.generation = t.generation /\ c.success = success
      /\ t.settings \in Settings
  BY <1>3 DEF LootTask, LootCallback
<1> HIDE DEF c, t
<1>5. /\ callbacks' \in Seq(LootCallback) /\ Len(callbacks') = Len(callbacks) + 1 /\ Len(callbacks) \in Nat
      /\ Told' = Told \cup {c}
  BY <1>1, <1>2, <1>4, AppendTo DEF LootTypes, Told
<1>6. InQueue' = InQueue /\ InWork' = {} /\ active' \in Seq(LootTask) /\ Len(active') = 0
  BY <1>2 DEF InQueue, InWork
<1>7. \A u : (OfNewest(u)' <=> OfNewest(u)) /\ (NotAhead(u)' <=> NotAhead(u))
  BY <1>2 DEF OfNewest, NotAhead
<1>8. (OfNewest(c) <=> OfNewest(t)) /\ (NotAhead(c) <=> NotAhead(t))
  BY <1>4 DEF OfNewest, NotAhead
<1>9. LootTypes'
  <2>1. Busy' = Busy
    <3>1. Len(dbTasks) \in Nat
      BY <1>1 DEF LootTypes
    <3> QED
      BY <1>2, <1>3, <1>5, <1>6, <3>1 DEF Busy
  <2>2. row' \in Settings
    BY <1>1, <1>2, <1>4 DEF LootTypes
  <2> QED
    BY <1>1, <1>2, <1>5, <1>6, <2>1, <2>2 DEF LootTypes
<1>10. NewestLast'
  <2>1. \A u \in InQueue' \cup InWork' : NotAhead(u) /\ (OfNewest(u) => u.settings = session.loaded)
    BY <1>1, <1>6 DEF NewestLast
  <2>2. \A d \in Told' : NotAhead(d)
    BY <1>1, <1>3, <1>5, <1>8 DEF NewestLast
  <2> QED
    BY <1>1, <1>2, <1>6, <1>7, <2>1, <2>2 DEF NewestLast
<1>11. CleanIsPersisted'
  <2>1. Persisted => Persisted'
    BY <1>2, <1>3, <1>6 DEF Persisted
  <2>2. ASSUME ~outage, success, OfNewest(c) PROVE Persisted'
    <3>1. OfNewest(t) /\ session.online
      BY <1>8, <2>2 DEF OfNewest
    <3>2. session.loaded = newest
      <4>1. t.generation \in Nat \ {0} /\ session.generation = t.generation
        BY <1>3, <3>1 DEF LootTask, OfNewest
      <4>2. ~misread
        BY <1>1, <4>1 DEF Plays
      <4> QED
        BY <1>1, <2>2, <3>1, <4>2 DEF CleanIsPersisted
    <3>3. t.settings = newest /\ \A u \in InQueue : u.settings = newest
      BY <1>1, <1>3, <3>1, <3>2 DEF NewestLast
    <3> QED
      BY <1>2, <1>6, <2>2, <3>3 DEF Persisted
  <2> QED
    BY <1>1, <1>2, <1>4, <1>5, <1>7, <2>1, <2>2 DEF CleanIsPersisted
<1>12. AcceptedTasksRun'
  BY <1>1, <1>2 DEF AcceptedTasksRun
<1>13. Plays'
  BY <1>1, <1>2 DEF Plays
<1> QED
  BY <1>9, <1>10, <1>11, <1>12, <1>13 DEF LootInv

\* The worker ends after the last write.
LEMMA WorkerKeepsLootInv == LootInv /\ (shutdownDbTasks \/ workerEnds) => LootInv'
<1> SUFFICES ASSUME LootInv, shutdownDbTasks \/ workerEnds PROVE LootInv'
  OBVIOUS
<1>1. LootTypes /\ NewestLast /\ CleanIsPersisted /\ Plays
  BY DEF LootInv
<1>2. /\ UNCHANGED <<session, changes, newest, misread, overwritten, cached, row, dbTasks, active, callbacks, waits, outage>>
      /\ dbWorker' = "terminated" \/ (dbWorker' = "ended" /\ dbTasks = <<>> /\ active = <<>>)
  BY DEF shutdownDbTasks, workerEnds, MayEnd, settingsHistory
<1>3. LootTypes' /\ AcceptedTasksRun'
  BY <1>1, <1>2 DEF LootTypes, Busy, AcceptedTasksRun
<1>4. NewestLast' /\ CleanIsPersisted'
  BY <1>1, <1>2 DEF NewestLast, CleanIsPersisted, Persisted, InQueue, InWork, Told, OfNewest, NotAhead
<1>5. Plays'
  BY <1>1, <1>2 DEF Plays
<1> QED
  BY <1>3, <1>4, <1>5 DEF LootInv

\* Every step of QuickLoot keeps the invariant.
LEMMA LootStep == LootInv /\ [QuickLootNext]_quickLootVars => LootInv'
<1> SUFFICES ASSUME LootInv, [QuickLootNext]_quickLootVars PROVE LootInv'
  OBVIOUS
<1>1. CASE UNCHANGED quickLootVars
  BY <1>1 DEF quickLootVars, settingsHistory, Plays, LootInv, LootTypes, Busy, AcceptedTasksRun, NewestLast, CleanIsPersisted, Persisted,
              InQueue, InWork, Told, OfNewest, NotAhead
<1>2. CASE QuickLootNext
  BY <1>2, DispatcherKeepsLootInv, TimerKeepsLootInv, CallbackKeepsLootInv, TakeKeepsLootInv, RunKeepsLootInv,
     WorkerKeepsLootInv DEF QuickLootNext
<1> QED
  BY <1>1, <1>2

\* For every number of sessions, changes and tasks, as long as no logout gave up on a failing database:
\* between sessions and while nothing is dirty the database holds the settings the player last made, and
\* they are made of all the changes, unless one was made in a session that could not read the settings
\* (src/src/player.cpp, quick loot persistence; src/src/kv/kv.cpp; src/src/databasetasks.cpp).
THEOREM SettingsAreKeptTheorem == QuickLootSpec => []SettingsAreKept
<1>1. LootInv => SettingsAreKept
  <2> SUFFICES ASSUME LootInv PROVE SettingsAreKept
    OBVIOUS
  <2>1. LootTypes /\ CleanIsPersisted /\ AcceptedTasksRun /\ Plays
    BY DEF LootInv
  <2>2. QuickLootTypeOK
    BY <2>1, SessionFields DEF QuickLootTypeOK, LootTypes, Settings
  <2>3. CleanSettingsPersist /\ LogoutPersists
    BY <2>1 DEF CleanSettingsPersist, LogoutPersists, CleanIsPersisted, Persisted, Plays
  <2> QED
    BY <2>1, <2>2, <2>3 DEF SettingsAreKept
<1> QED
  BY <1>1, LootStarts, LootStep, PTL DEF QuickLootSpec

-----------------------------------------------------------------------------
(***************************************************************************)
(* Coins, purchases and auctions.  A sum is a number of units, so that the *)
(* theorems on finite sets say what an update of one balance does to it.   *)
(***************************************************************************)
\* The units of a function on S, for those in T.
UnitsOf(f, T) == UNION {{a} \X (1 .. f[a]) : a \in T}

\* A total is a number.
LEMMA UnitsAreFinite ==
    ASSUME NEW T, IsFiniteSet(T), NEW f, \A a \in T : f[a] \in Nat
    PROVE  IsFiniteSet(UnitsOf(f, T))
<1> DEFINE U(a) == {a} \X (1 .. f[a])
           F == {U(a) : a \in T}
<1>1. ASSUME NEW a \in T PROVE IsFiniteSet(U(a))
  <2>0. 1 \in Int /\ f[a] \in Int
    OBVIOUS
  <2>1. IsFiniteSet({a}) /\ IsFiniteSet(1 .. f[a])
    BY <2>0, FS_Singleton, FS_Interval
  <2> QED
    BY <2>1, FS_Product
<1>2. IsFiniteSet(F)
  <2>1. F = {U(a) : a \in T}
    OBVIOUS
  <2> HIDE DEF U, F
  <2> DEFINE g == [a \in T |-> U(a)]
  <2>2. g \in Surjection(T, F)
    BY <2>1 DEF Surjection
  <2> QED
    BY <2>2, FS_Surjection
<1>3. \A X \in F : IsFiniteSet(X)
  BY <1>1
<1>4. IsFiniteSet(UNION F)
  BY <1>2, <1>3, FS_UNION
<1> QED
  BY <1>4 DEF UnitsOf

\* One value of a function counts on top of all the others.
LEMMA UnitsSplit ==
    ASSUME NEW S, IsFiniteSet(S), NEW f \in [S -> Nat], NEW a \in S
    PROVE  /\ Total(f) = Cardinality(UnitsOf(f, S \ {a})) + f[a]
           /\ Cardinality(UnitsOf(f, S \ {a})) \in Nat
<1> DEFINE R == UnitsOf(f, S \ {a})
           A == {a} \X (1 .. f[a])
<1>1. IsFiniteSet(R)
  <2>1. IsFiniteSet(S \ {a})
    BY FS_Subset
  <2>2. \A b \in S \ {a} : f[b] \in Nat
    OBVIOUS
  <2> QED
    BY <2>1, <2>2, UnitsAreFinite
<1>2. IsFiniteSet(A) /\ Cardinality(A) = f[a]
  <2>1. IsFiniteSet({a}) /\ Cardinality({a}) = 1
    BY FS_Singleton
  <2>2. f[a] \in Nat
    OBVIOUS
  <2>3. IsFiniteSet(1 .. f[a]) /\ Cardinality(1 .. f[a]) = f[a]
    BY <2>2, FS_Interval
  <2>4. IsFiniteSet(A) /\ Cardinality(A) = Cardinality({a}) * Cardinality(1 .. f[a])
    BY <2>1, <2>3, FS_Product
  <2> QED
    BY <2>1, <2>2, <2>3, <2>4
<1>3. R \cap A = {}
  BY DEF UnitsOf
<1>4. UNION {{b} \X (1 .. f[b]) : b \in DOMAIN f} = R \cup A
  <2>1. DOMAIN f = S
    OBVIOUS
  <2>2. \A b \in S : b = a \/ b \in S \ {a}
    OBVIOUS
  <2> QED
    BY <2>1, <2>2 DEF UnitsOf
<1>5. Cardinality(R) \in Nat /\ Cardinality(R \cap A) = 0
  BY <1>1, <1>3, FS_CardinalityType, FS_EmptySet
<1>6. Total(f) = Cardinality(R \cup A)
  BY <1>4 DEF Total
<1> HIDE DEF R, A
<1>7. Cardinality(R \cup A) = Cardinality(R) + Cardinality(A) - Cardinality(R \cap A)
  BY <1>1, <1>2, FS_Union
<1> QED
  BY <1>2, <1>5, <1>6, <1>7 DEF R

\* A total is a number.
LEMMA TotalIsNat ==
    ASSUME NEW S, IsFiniteSet(S), NEW f \in [S -> Nat]
    PROVE  Total(f) \in Nat
<1>1. IsFiniteSet(UnitsOf(f, S))
  BY UnitsAreFinite
<1>2. Total(f) = Cardinality(UnitsOf(f, S))
  BY DEF Total, UnitsOf
<1> QED
  BY <1>1, <1>2, FS_CardinalityType

\* f and g agree but for a.
ButFor(S, f, g, a) == f \in [S -> Nat] /\ g \in [S -> Nat] /\ a \in S /\ \A b \in S \ {a} : g[b] = f[b]

\* What one new value does to a total.
LEMMA TotalChange ==
    ASSUME NEW S, IsFiniteSet(S), NEW f, NEW g, NEW a, ButFor(S, f, g, a)
    PROVE  /\ Total(g) + f[a] = Total(f) + g[a] /\ Total(f) \in Nat /\ Total(g) \in Nat
           /\ f[a] \in Nat /\ g[a] \in Nat
<1>1. f \in [S -> Nat] /\ g \in [S -> Nat] /\ a \in S /\ \A b \in S \ {a} : g[b] = f[b]
  BY DEF ButFor
<1>2. UnitsOf(g, S \ {a}) = UnitsOf(f, S \ {a})
  BY <1>1 DEF UnitsOf
<1>3. /\ Total(f) = Cardinality(UnitsOf(f, S \ {a})) + f[a]
      /\ Cardinality(UnitsOf(f, S \ {a})) \in Nat
  BY <1>1, UnitsSplit
<1>4. Total(g) = Cardinality(UnitsOf(g, S \ {a})) + g[a]
  BY <1>1, UnitsSplit
<1>5. f[a] \in Nat /\ g[a] \in Nat
  BY <1>1
<1> QED
  BY <1>2, <1>3, <1>4, <1>5

\* Two new values.
LEMMA TotalChangeTwo ==
    ASSUME NEW S, IsFiniteSet(S), NEW f \in [S -> Nat], NEW a \in S, NEW b \in S, a # b,
           NEW g \in [S -> Nat], \A c \in S \ {a, b} : g[c] = f[c]
    PROVE  Total(g) + f[a] + f[b] = Total(f) + g[a] + g[b] /\ Total(f) \in Nat /\ Total(g) \in Nat
<1> DEFINE h == [f EXCEPT ![a] = g[a]]
<1>0. h \in [S -> Nat] /\ h[a] = g[a] /\ \A c \in S \ {a} : h[c] = f[c]
  OBVIOUS
<1> HIDE DEF h
<1>1. ButFor(S, f, h, a)
  BY <1>0 DEF ButFor
<1>2. ButFor(S, h, g, b)
  BY <1>0 DEF ButFor
<1>3. Total(h) + f[a] = Total(f) + h[a] /\ Total(f) \in Nat /\ Total(h) \in Nat /\ f[a] \in Nat
  BY <1>1, TotalChange
<1>4. Total(g) + h[b] = Total(h) + g[b] /\ Total(g) \in Nat /\ g[b] \in Nat
  BY <1>2, TotalChange
<1>5. h[b] = f[b] /\ f[b] \in Nat /\ g[a] \in Nat
  BY <1>0
<1> QED
  BY <1>0, <1>3, <1>4, <1>5

\* The smaller of two numbers.
LEMMA MinOfTwo ==
    ASSUME NEW a \in Nat, NEW b \in Nat
    PROVE  Min({a, b}) = IF a <= b THEN a ELSE b
  BY DEF Min

\* The variables of Coins have their types, and no coins are held for a row without a bidder.
CoinsTypes ==
    /\ CoinsTypeOK /\ auction \in [Rows -> AuctionRow \cup {NoAuction}]
    /\ \A r \in Rows : Active(r) /\ auction[r].bidder = NoBidder => auction[r].bid = 0
    /\ till \in Nat /\ unrefunded \in Nat

\* The purchase under way: the inbox has only gained, by the pieces that were delivered, or is as it was.
Delivery ==
    /\ purchase.stage \in {"idle", "deliver", "refund"} /\ (purchase.stage = "idle" => purchase = Idle)
    /\ purchase.stage # "idle" =>
          /\ purchase = [stage |-> purchase.stage, player |-> purchase.player, count |-> purchase.count,
                         left |-> purchase.left, snapshot |-> purchase.snapshot]
          /\ purchase.player \in Characters /\ purchase.count \in Nat /\ purchase.left \in Nat
          /\ purchase.snapshot \in [Slots -> 0 .. StackSize]
    /\ purchase.stage = "deliver" => \A s \in Slots : inbox[purchase.player][s] >= purchase.snapshot[s]
    /\ DeliveryAllOrNothing

\* The inductive invariant.
CoinsInv == CoinsTypes /\ Delivery

\* No connection to the database is lost between a statement and its answer.
AnswersArrive == "lostAnswer" \notin CoinFaults

\* The server starts without an auction or a purchase.
LEMMA CoinsStarts == CoinsInit => CoinsInv
<1> SUFFICES ASSUME CoinsInit PROVE CoinsInv
  OBVIOUS
<1>1. /\ coins \in [Accounts -> 0 .. MaxCoins] /\ owner \in [Characters -> Accounts] /\ account = owner
      /\ selected = {} /\ till = 0 /\ unrefunded = 0
  BY CoinsAssumption DEF CoinsInit
<1>2. place \in [Characters -> {"out", "loading", "in", "leaving"}]
  BY DEF CoinsInit
<1>3. auction \in [Rows -> AuctionRow \cup {NoAuction}] /\ \A r \in Rows : ~Active(r)
  BY DEF CoinsInit, Active
<1>4. inbox \in [Characters -> [Slots -> 0 .. StackSize]]
  BY CoinsAssumption DEF CoinsInit
<1>5. CoinsTypes
  BY <1>1, <1>2, <1>3, <1>4 DEF CoinsTypes, CoinsTypeOK
<1>6. purchase = Idle /\ purchase.stage = "idle"
  BY DEF CoinsInit, Idle
<1>7. Delivery
  BY <1>6 DEF Delivery, DeliveryAllOrNothing
<1> QED
  BY <1>5, <1>7 DEF CoinsInv

-----------------------------------------------------------------------------
\* What a debit may come to.
LEMMA DebitOutcome ==
    ASSUME CoinsTypes, NEW a \in Accounts, NEW amount \in Nat, NEW o \in debit(a, amount)
    PROVE  /\ o.coins \in 0 .. MaxCoins
           /\ AnswersArrive => o.coins = IF o.ok THEN coins[a] - amount ELSE coins[a]
<1>0. MaxCoins \in Nat /\ coins[a] \in 0 .. MaxCoins
  BY CoinsAssumption DEF CoinsTypes, CoinsTypeOK
<1> DEFINE once == DebitOnce(coins[a], amount)
           again == DebitOnce(once.coins, amount)
<1>1. once.coins \in 0 .. MaxCoins /\ once.coins = IF once.ok THEN coins[a] - amount ELSE coins[a]
  BY <1>0 DEF DebitOnce
<1>2. again.coins \in 0 .. MaxCoins
  <2> HIDE DEF once
  <2> QED
    BY <1>0, <1>1 DEF DebitOnce
<1>3. [once EXCEPT !.ok = FALSE].coins = once.coins
  BY DEF DebitOnce
<1>4. \/ o = once \/ o = [ok |-> FALSE, coins |-> coins[a]]
      \/ ~AnswersArrive /\ (o = again \/ o = [once EXCEPT !.ok = FALSE])
  BY DEF debit, executeQuery, AnswersArrive
<1>5. CASE o = [ok |-> FALSE, coins |-> coins[a]]
  <2>1. o.ok = FALSE /\ o.coins = coins[a]
    BY <1>5
  <2> QED
    BY <1>0, <2>1
<1> HIDE DEF once, again
<1>6. CASE o = once
  BY <1>1, <1>6
<1>7. CASE ~AnswersArrive /\ (o = again \/ o = [once EXCEPT !.ok = FALSE])
  BY <1>1, <1>2, <1>3, <1>7
<1> QED
  BY <1>4, <1>5, <1>6, <1>7

\* What a credit may come to.
LEMMA CreditOutcome ==
    ASSUME CoinsTypes, NEW a \in Accounts, NEW amount \in 0 .. MaxCoins, NEW o \in credit(a, amount)
    PROVE  /\ o.coins \in 0 .. MaxCoins
           /\ AnswersArrive => o.coins = IF o.ok THEN coins[a] + amount ELSE coins[a]
<1>0. MaxCoins \in Nat /\ coins[a] \in 0 .. MaxCoins
  BY CoinsAssumption DEF CoinsTypes, CoinsTypeOK
<1> DEFINE once == CreditOnce(coins[a], amount)
           again == CreditOnce(once.coins, amount)
<1>1. once.coins \in 0 .. MaxCoins /\ once.coins = IF once.ok THEN coins[a] + amount ELSE coins[a]
  BY <1>0 DEF CreditOnce
<1>2. again.coins \in 0 .. MaxCoins
  <2> HIDE DEF once
  <2> QED
    BY <1>0, <1>1 DEF CreditOnce
<1>3. [once EXCEPT !.ok = FALSE].coins = once.coins
  BY DEF CreditOnce
<1>4. \/ o = once \/ o = [ok |-> FALSE, coins |-> coins[a]]
      \/ ~AnswersArrive /\ (o = again \/ o = [once EXCEPT !.ok = FALSE])
  BY DEF credit, executeQuery, AnswersArrive
<1>5. CASE o = [ok |-> FALSE, coins |-> coins[a]]
  <2>1. o.ok = FALSE /\ o.coins = coins[a]
    BY <1>5
  <2> QED
    BY <1>0, <2>1
<1> HIDE DEF once, again
<1>6. CASE o = once
  BY <1>1, <1>6
<1>7. CASE ~AnswersArrive /\ (o = again \/ o = [once EXCEPT !.ok = FALSE])
  BY <1>1, <1>2, <1>3, <1>7
<1> QED
  BY <1>4, <1>5, <1>6, <1>7

\* The parts of Worth are numbers.
LEMMA WorthParts ==
    ASSUME CoinsInv
    PROVE  /\ coins \in [Accounts -> Nat] /\ HeldBids \in [Rows -> Nat]
           /\ Total(coins) \in Nat /\ Total(HeldBids) \in Nat /\ InPurchase \in Nat
           /\ till \in Nat /\ unrefunded \in Nat
<1>1. coins \in [Accounts -> Nat] /\ till \in Nat /\ unrefunded \in Nat
  BY CoinsAssumption DEF CoinsInv, CoinsTypes, CoinsTypeOK
<1>2. HeldBids \in [Rows -> Nat]
  BY DEF CoinsInv, CoinsTypes, HeldBids, Active, AuctionRow
<1>3. InPurchase \in Nat
  BY CoinsAssumption DEF InPurchase
<1>4. IsFiniteSet(Accounts) /\ IsFiniteSet(Rows)
  BY CoinsAssumption
<1> QED
  BY <1>1, <1>2, <1>3, <1>4, TotalIsNat

\* The balances with v for account a.
Rebalanced(g, a, v) == a \in Accounts /\ v \in 0 .. MaxCoins /\ g = [coins EXCEPT ![a] = v]

\* One account's balance changes.
LEMMA BalanceChange ==
    ASSUME CoinsInv, NEW a, NEW v, NEW g, Rebalanced(g, a, v)
    PROVE  /\ g \in [Accounts -> 0 .. MaxCoins]
           /\ Total(g) + coins[a] = Total(coins) + v /\ Total(g) \in Nat /\ coins[a] \in Nat
<1>1. coins \in [Accounts -> 0 .. MaxCoins] /\ MaxCoins \in Nat /\ IsFiniteSet(Accounts)
  BY CoinsAssumption DEF CoinsInv, CoinsTypes, CoinsTypeOK
<1>2. /\ g \in [Accounts -> 0 .. MaxCoins] /\ g[a] = v /\ a \in Accounts
      /\ \A b \in Accounts \ {a} : g[b] = coins[b]
  BY <1>1 DEF Rebalanced
<1>3. ButFor(Accounts, coins, g, a)
  <2>1. coins \in [Accounts -> Nat]
    BY <1>1
  <2>2. g \in [Accounts -> Nat]
    BY <1>1, <1>2
  <2> QED
    BY <1>2, <2>1, <2>2 DEF ButFor
<1>4. Total(g) + coins[a] = Total(coins) + g[a] /\ Total(g) \in Nat /\ coins[a] \in Nat
  BY <1>1, <1>3, TotalChange
<1> QED
  BY <1>2, <1>4

\* One auction changes, and with it the bid that is held.
LEMMA HeldChange ==
    ASSUME CoinsTypes, CoinsTypes', NEW r \in Rows, \A q \in Rows \ {r} : auction'[q] = auction[q]
    PROVE  /\ Total(HeldBids') + HeldBids[r] = Total(HeldBids) + HeldBids'[r]
           /\ Total(HeldBids) \in Nat /\ Total(HeldBids') \in Nat
           /\ HeldBids[r] \in Nat /\ HeldBids'[r] \in Nat
<1>1. HeldBids \in [Rows -> Nat] /\ HeldBids' \in [Rows -> Nat]
  BY DEF CoinsTypes, HeldBids, Active, AuctionRow
<1>2. \A q \in Rows \ {r} : HeldBids'[q] = HeldBids[q]
  BY DEF HeldBids, Active
<1>3. ButFor(Rows, HeldBids, HeldBids', r)
  BY <1>1, <1>2 DEF ButFor
<1>4. IsFiniteSet(Rows)
  BY CoinsAssumption
<1> QED
  BY <1>3, <1>4, TotalChange

\* What a step of Coins keeps.
CoinsKept == CoinsInv' /\ (AnswersArrive => Worth' = Worth)

\* The purchase is as Delivery says as long as nothing happens to it and to the inboxes.
LEMMA DeliveryStays ==
    ASSUME Delivery, UNCHANGED storeVars
    PROVE  Delivery' /\ InPurchase' = InPurchase
  BY DEF Delivery, DeliveryAllOrNothing, storeVars, InPurchase

\* The held bids are as they were as long as nothing happens to the auctions.
LEMMA HeldStays ==
    ASSUME UNCHANGED auction
    PROVE  HeldBids' = HeldBids
  BY DEF HeldBids, Active

\* StoreService::purchase, up to the look at the inbox.
LEMMA DebitKeeps ==
    ASSUME CoinsInv, NEW c \in Characters, NEW n \in OfferCounts, purchaseDebit(c, n)
    PROVE  CoinsKept
<1>1. /\ CoinsTypes /\ Delivery /\ purchase = Idle
      /\ UNCHANGED <<till, unrefunded, inbox, owner, place, account, auction, selected>>
  BY DEF CoinsInv, purchaseDebit, Free, bazaarVars
<1> DEFINE a == account[c]
<1>2. /\ a \in Accounts /\ Price \in Nat /\ n \in Nat /\ inbox[c] \in [Slots -> 0 .. StackSize]
      /\ StackSize \in Nat /\ IsFiniteSet(Slots) /\ MaxCoins \in Nat
  BY <1>1, CoinsAssumption DEF CoinsTypes, CoinsTypeOK
<1>3. PICK o \in debit(a, Price) :
         /\ coins' = [coins EXCEPT ![a] = o.coins]
         /\ purchase' = IF o.ok
                        THEN [stage |-> IF queryMaxCount(c) >= n THEN "deliver" ELSE "refund",
                              player |-> c, count |-> n, left |-> n, snapshot |-> inbox[c]]
                        ELSE Idle
  BY DEF purchaseDebit
<1>4. /\ o.coins \in 0 .. MaxCoins
      /\ AnswersArrive => o.coins = IF o.ok THEN coins[a] - Price ELSE coins[a]
  BY <1>1, <1>2, DebitOutcome
<1>5. Rebalanced(coins', a, o.coins)
  BY <1>2, <1>3, <1>4 DEF Rebalanced
<1>6. /\ coins' \in [Accounts -> 0 .. MaxCoins] /\ Total(coins') \in Nat /\ coins[a] \in Nat
      /\ Total(coins') + coins[a] = Total(coins) + o.coins
  BY <1>5, BalanceChange
<1>7. CoinsTypes'
  BY <1>1, <1>6 DEF CoinsTypes, CoinsTypeOK, Active
<1>8. Delivery' /\ InPurchase' = (IF o.ok THEN Price ELSE 0)
  <2>1. CASE ~o.ok
    <3>1. purchase' = Idle /\ purchase'.stage = "idle"
      BY <1>3, <2>1 DEF Idle
    <3> QED
      BY <2>1, <3>1 DEF Delivery, DeliveryAllOrNothing, InPurchase
  <2>2. CASE o.ok
    <3>1. PICK stage \in {"deliver", "refund"} :
             purchase' = [stage |-> stage, player |-> c, count |-> n, left |-> n, snapshot |-> inbox[c]]
      BY <1>3, <2>2
    <3>2. /\ purchase'.stage = stage /\ purchase'.player = c /\ purchase'.count = n /\ purchase'.left = n
          /\ purchase'.snapshot = inbox[c]
      BY <3>1
    <3>3. purchase' # Idle
      BY <3>2 DEF Idle
    <3>4. Pieces(inbox[c]) \in Nat
      <4>1. inbox[c] \in [Slots -> Nat]
        BY <1>2
      <4> QED
        BY <1>2, <4>1, TotalIsNat DEF Pieces
    <3>5. \A s \in Slots : inbox[c][s] >= inbox[c][s]
      BY <1>2
    <3>6. DeliveryAllOrNothing'
      BY <1>1, <1>2, <3>2, <3>4 DEF DeliveryAllOrNothing
    <3>7. Delivery'
      BY <1>1, <1>2, <3>1, <3>2, <3>5, <3>6 DEF Delivery
    <3> QED
      BY <2>2, <3>3, <3>7 DEF InPurchase
  <2> QED
    BY <2>1, <2>2
<1>9. InPurchase = 0 /\ HeldBids' = HeldBids /\ till' = till /\ unrefunded' = unrefunded
  BY <1>1, HeldStays DEF InPurchase
<1>10. Total(coins) \in Nat /\ Total(HeldBids) \in Nat /\ till \in Nat /\ unrefunded \in Nat
  BY WorthParts
<1>11. ASSUME AnswersArrive PROVE Worth' = Worth
  <2>1. Worth' = Total(coins') + Total(HeldBids) + InPurchase' + till + unrefunded
    BY <1>9 DEF Worth
  <2>2. Worth = Total(coins) + Total(HeldBids) + 0 + till + unrefunded
    BY <1>9 DEF Worth
  <2>3. Total(coins') + InPurchase' = Total(coins)
    BY <1>2, <1>4, <1>6, <1>8, <1>10, <1>11
  <2> QED
    BY <1>2, <1>6, <1>8, <1>10, <2>1, <2>2, <2>3
<1> QED
  BY <1>7, <1>8, <1>11 DEF CoinsKept, CoinsInv

\* StoreService::deliverItem: a stack that is added, or an add that fails and is undone with the others.
LEMMA DeliverKeeps ==
    ASSUME CoinsInv, deliverItem
    PROVE  CoinsKept
<1> DEFINE c == purchase.player
           k == Min({purchase.left, StackSize})
           old == purchase.snapshot
<1>1. /\ CoinsTypes /\ Delivery /\ purchase.stage = "deliver" /\ purchase.left > 0
      /\ UNCHANGED <<coins, till, unrefunded, owner, place, account, auction, selected>>
  BY DEF CoinsInv, deliverItem, bazaarVars, accountVars
<1>2. /\ c \in Characters /\ purchase.count \in Nat /\ purchase.left \in Nat /\ old \in [Slots -> 0 .. StackSize]
      /\ purchase = [stage |-> "deliver", player |-> c, count |-> purchase.count, left |-> purchase.left,
                     snapshot |-> old]
      /\ \A s \in Slots : inbox[c][s] >= old[s]
      /\ Pieces(inbox[c]) = Pieces(old) + purchase.count - purchase.left
      /\ inbox \in [Characters -> [Slots -> 0 .. StackSize]]
  BY <1>1 DEF Delivery, DeliveryAllOrNothing, CoinsTypes, CoinsTypeOK
<1>3. StackSize \in Nat \ {0} /\ IsFiniteSet(Slots)
  BY CoinsAssumption
<1>4. k \in Nat /\ k <= purchase.left
  <2>1. k = IF purchase.left <= StackSize THEN purchase.left ELSE StackSize
    BY <1>2, <1>3, MinOfTwo
  <2> HIDE DEF k
  <2> QED
    BY <1>2, <1>3, <2>1
<1>5. ASSUME NEW box \in [Slots -> 0 .. StackSize], inbox' = [inbox EXCEPT ![c] = box], NEW stage, NEW left \in Nat,
             purchase' = [stage |-> stage, player |-> c, count |-> purchase.count, left |-> left, snapshot |-> old],
             \/ stage = "refund" /\ box = old
             \/ /\ stage = "deliver" /\ \A s \in Slots : box[s] >= old[s]
                /\ Pieces(box) = Pieces(old) + purchase.count - left
      PROVE  CoinsKept
  <2>1. /\ purchase'.stage = stage /\ purchase'.player = c /\ purchase'.count = purchase.count
        /\ purchase'.left = left /\ purchase'.snapshot = old
    BY <1>5
  <2>2. inbox' \in [Characters -> [Slots -> 0 .. StackSize]] /\ inbox'[c] = box
    BY <1>2, <1>5
  <2>3. CoinsTypes'
    BY <1>1, <2>2 DEF CoinsTypes, CoinsTypeOK, Active
  <2>4. DeliveryAllOrNothing'
    BY <1>5, <2>1, <2>2 DEF DeliveryAllOrNothing
  <2>5. Delivery'
    BY <1>2, <1>5, <2>1, <2>2, <2>4 DEF Delivery
  <2>6. purchase # Idle /\ purchase' # Idle
    BY <1>1, <1>5, <2>1 DEF Idle
  <2>7. InPurchase' = InPurchase /\ HeldBids' = HeldBids
    BY <1>1, <2>6, HeldStays DEF InPurchase
  <2>8. Worth' = Worth
    BY <1>1, <2>7 DEF Worth
  <2> QED
    BY <2>3, <2>5, <2>8 DEF CoinsKept, CoinsInv
<1>6. ASSUME NEW box \in WithPieces(inbox[c], k), inbox' = [inbox EXCEPT ![c] = box],
             purchase' = [purchase EXCEPT !.left = @ - k]
      PROVE  CoinsKept
  <2>1. /\ box \in [Slots -> 0 .. StackSize] /\ \A s \in Slots : box[s] >= inbox[c][s]
        /\ Pieces(box) = Pieces(inbox[c]) + k
    BY <1>6 DEF WithPieces
  <2>2. \A s \in Slots : box[s] >= old[s]
    <3>1. ASSUME NEW s \in Slots PROVE box[s] >= old[s]
      <4>1. box[s] \in Nat /\ inbox[c][s] \in Nat /\ old[s] \in Nat
        BY <1>2, <1>3, <2>1
      <4> QED
        BY <1>2, <2>1, <4>1
    <3> QED
      BY <3>1
  <2>3. Pieces(old) \in Nat
    <3>1. old \in [Slots -> Nat]
      BY <1>2, <1>3
    <3> QED
      BY <1>3, <3>1, TotalIsNat DEF Pieces
  <2> DEFINE left == purchase.left - k
  <2>4. left \in Nat /\ Pieces(box) = Pieces(old) + purchase.count - left
    BY <1>2, <1>4, <2>1, <2>3
  <2>5. purchase' = [stage |-> "deliver", player |-> c, count |-> purchase.count, left |-> left, snapshot |-> old]
    BY <1>2, <1>6
  <2> HIDE DEF left, k, old, c
  <2> QED
    BY <1>5, <1>6, <2>1, <2>2, <2>4, <2>5
<1>7. ASSUME NEW box \in AfterFailedAdd(inbox[c], k), inbox' = [inbox EXCEPT ![c] = rollbackInboxDelivery(box, old)],
             purchase' = [purchase EXCEPT !.stage = "refund"]
      PROVE  CoinsKept
  <2>1. box \in [Slots -> 0 .. StackSize] /\ \A s \in Slots : box[s] >= inbox[c][s]
    BY <1>7 DEF AfterFailedAdd, WithPieces
  <2>2. ASSUME NEW s \in Slots PROVE (IF old[s] = 0 THEN 0 ELSE Min({box[s], old[s]})) = old[s]
    <3>1. box[s] \in Nat /\ inbox[c][s] \in Nat /\ old[s] \in Nat /\ box[s] >= inbox[c][s] /\ inbox[c][s] >= old[s]
      BY <1>2, <1>3, <2>1
    <3>2. Min({box[s], old[s]}) = IF box[s] <= old[s] THEN box[s] ELSE old[s]
      BY <3>1, MinOfTwo
    <3> QED
      BY <3>1, <3>2
  <2>3. rollbackInboxDelivery(box, old) = old
    BY <1>2, <2>2 DEF rollbackInboxDelivery
  <2>4. purchase' = [stage |-> "refund", player |-> c, count |-> purchase.count, left |-> purchase.left,
                     snapshot |-> old]
    BY <1>2, <1>7
  <2>5. inbox' = [inbox EXCEPT ![c] = old]
    BY <1>7, <2>3
  <2> HIDE DEF k, old, c
  <2> QED
    BY <1>2, <1>5, <2>4, <2>5
<1> HIDE DEF CoinsKept
<1> QED
  BY <1>6, <1>7 DEF deliverItem

\* The sums of a refund: the price leaves the purchase for the balances or for what is owed.
LEMMA RefundMoves ==
    ASSUME NEW c \in Nat, NEW d \in Nat, NEW held \in Nat, NEW price \in Nat, NEW t \in Nat,
           NEW u \in Nat, NEW v \in Nat, d + v = c + price + u
    PROVE  d + held + 0 + t + v = c + held + price + t + u
  OBVIOUS

\* The purchase ends: delivered and paid for, or credited again.
LEMMA PurchaseEndKeeps ==
    ASSUME CoinsInv, purchaseDelivered \/ purchaseRefund
    PROVE  CoinsKept
<1>1. /\ CoinsTypes /\ Delivery /\ purchase.stage # "idle" /\ purchase' = Idle
      /\ UNCHANGED <<inbox, owner, place, account, auction, selected>>
  BY DEF CoinsInv, purchaseDelivered, purchaseRefund, bazaarVars
<1>2. /\ purchase.player \in Characters /\ Price \in Nat /\ Price \in 0 .. MaxCoins /\ MaxCoins \in Nat
      /\ account[purchase.player] \in Accounts
  BY <1>1, CoinsAssumption DEF Delivery, CoinsTypes, CoinsTypeOK
<1>3. purchase # Idle /\ purchase'.stage = "idle"
  BY <1>1 DEF Idle
<1>4. InPurchase = Price /\ InPurchase' = 0 /\ HeldBids' = HeldBids
  BY <1>1, <1>3, HeldStays DEF InPurchase
<1>5. Delivery'
  BY <1>1, <1>3 DEF Delivery, DeliveryAllOrNothing
<1>6. Total(coins) \in Nat /\ Total(HeldBids) \in Nat /\ till \in Nat /\ unrefunded \in Nat
  BY WorthParts
<1>7. CASE purchaseDelivered
  <2>1. coins' = coins /\ till' = till + Price /\ unrefunded' = unrefunded
    BY <1>7 DEF purchaseDelivered
  <2>2. CoinsTypes'
    BY <1>1, <1>2, <1>6, <2>1 DEF CoinsTypes, CoinsTypeOK, Active
  <2>3. Worth' = Worth
    BY <1>2, <1>4, <1>6, <2>1 DEF Worth
  <2> QED
    BY <1>5, <2>2, <2>3 DEF CoinsKept, CoinsInv
<1>8. CASE purchaseRefund
  <2> DEFINE a == account[purchase.player]
  <2>1. PICK o \in credit(a, Price) :
           /\ coins' = [coins EXCEPT ![a] = o.coins]
           /\ unrefunded' = IF o.ok THEN unrefunded ELSE unrefunded + Price
    BY <1>8 DEF purchaseRefund
  <2>2. till' = till
    BY <1>8 DEF purchaseRefund
  <2>3. /\ o.coins \in 0 .. MaxCoins
        /\ AnswersArrive => o.coins = IF o.ok THEN coins[a] + Price ELSE coins[a]
    BY <1>1, <1>2, CreditOutcome
  <2>4. Rebalanced(coins', a, o.coins)
    BY <1>2, <2>1, <2>3 DEF Rebalanced
  <2>5. /\ coins' \in [Accounts -> 0 .. MaxCoins] /\ Total(coins') \in Nat /\ coins[a] \in Nat
        /\ Total(coins') + coins[a] = Total(coins) + o.coins
    BY <2>4, BalanceChange
  <2>6. unrefunded' \in Nat
    BY <1>2, <1>6, <2>1
  <2>7. CoinsTypes'
    BY <1>1, <2>2, <2>5, <2>6 DEF CoinsTypes, CoinsTypeOK, Active
  <2>8. ASSUME AnswersArrive PROVE Worth' = Worth
    <3>1. Total(coins') + unrefunded' = Total(coins) + Price + unrefunded
      BY <1>2, <1>6, <2>1, <2>3, <2>5, <2>8
    <3>2. Worth' = Total(coins') + Total(HeldBids) + 0 + till + unrefunded'
      BY <1>4, <2>2 DEF Worth
    <3>3. Worth = Total(coins) + Total(HeldBids) + Price + till + unrefunded
      BY <1>4 DEF Worth
    <3>4. Price \in Nat /\ Total(coins') \in Nat
      BY <1>2, <2>5
    <3> QED
      BY <1>6, <2>6, <3>1, <3>2, <3>3, <3>4, RefundMoves
  <2> QED
    BY <1>5, <2>7, <2>8 DEF CoinsKept, CoinsInv
<1> QED
  BY <1>7, <1>8

\* AccountCoins::transfer: what one account pays the other receives.
LEMMA TransferKeeps ==
    ASSUME CoinsInv, NEW a \in Accounts, NEW b \in Accounts, NEW amount \in Amounts, transfer(a, b, amount)
    PROVE  CoinsKept
<1> DEFINE paid == DebitOnce(coins[a], amount)
           received == CreditOnce(coins[b], amount)
<1>1. /\ CoinsTypes /\ Delivery /\ a # b /\ paid.ok /\ received.ok
      /\ coins' = [coins EXCEPT ![a] = paid.coins, ![b] = received.coins]
      /\ UNCHANGED <<till, unrefunded, owner, place, account, auction, selected>> /\ UNCHANGED storeVars
  BY DEF CoinsInv, transfer, bazaarVars
<1>2. /\ coins \in [Accounts -> 0 .. MaxCoins] /\ MaxCoins \in Nat /\ amount \in 1 .. MaxCoins /\ IsFiniteSet(Accounts)
  BY <1>1, CoinsAssumption DEF CoinsTypes, CoinsTypeOK
<1>3. paid.coins = coins[a] - amount /\ paid.coins \in 0 .. MaxCoins
  BY <1>1, <1>2 DEF DebitOnce
<1>4. received.coins = coins[b] + amount /\ received.coins \in 0 .. MaxCoins
  BY <1>1, <1>2 DEF CreditOnce
<1> HIDE DEF paid, received
<1>5. /\ coins' \in [Accounts -> 0 .. MaxCoins] /\ coins'[a] = coins[a] - amount /\ coins'[b] = coins[b] + amount
      /\ \A d \in Accounts \ {a, b} : coins'[d] = coins[d]
  BY <1>1, <1>2, <1>3, <1>4
<1>6. coins \in [Accounts -> Nat] /\ coins' \in [Accounts -> Nat]
  BY <1>2, <1>5
<1>7. /\ Total(coins') + coins[a] + coins[b] = Total(coins) + coins'[a] + coins'[b]
      /\ Total(coins) \in Nat /\ Total(coins') \in Nat
  <2>1. ASSUME NEW f \in [Accounts -> Nat], NEW g \in [Accounts -> Nat], \A d \in Accounts \ {a, b} : g[d] = f[d]
        PROVE  /\ Total(g) + f[a] + f[b] = Total(f) + g[a] + g[b] /\ Total(f) \in Nat /\ Total(g) \in Nat
    BY <1>1, <1>2, <2>1, TotalChangeTwo
  <2> QED
    BY <1>5, <1>6, <2>1
<1>8. Total(coins') = Total(coins)
  BY <1>2, <1>5, <1>6, <1>7
<1>9. CoinsTypes'
  BY <1>1, <1>5 DEF CoinsTypes, CoinsTypeOK, storeVars, Active
<1>10. Delivery' /\ InPurchase' = InPurchase /\ HeldBids' = HeldBids
  BY <1>1, DeliveryStays, HeldStays
<1>11. Worth' = Worth
  BY <1>1, <1>8, <1>10 DEF Worth
<1> QED
  BY <1>9, <1>10, <1>11 DEF CoinsKept, CoinsInv

\* A piece leaves an inbox while nothing is bought.
LEMMA TakeKeeps ==
    ASSUME CoinsInv, NEW c \in Characters, NEW s \in Slots, takePiece(c, s)
    PROVE  CoinsKept
<1>1. /\ CoinsTypes /\ Delivery /\ purchase = Idle /\ purchase' = purchase /\ inbox[c][s] > 0
      /\ inbox' = [inbox EXCEPT ![c][s] = @ - 1]
      /\ UNCHANGED <<coins, till, unrefunded, owner, place, account, auction, selected>>
  BY DEF CoinsInv, takePiece, Free, accountVars, bazaarVars
<1>2. inbox \in [Characters -> [Slots -> 0 .. StackSize]] /\ StackSize \in Nat
  BY <1>1, CoinsAssumption DEF CoinsTypes, CoinsTypeOK
<1>3. inbox' \in [Characters -> [Slots -> 0 .. StackSize]]
  <2>1. inbox[c] \in [Slots -> 0 .. StackSize] /\ inbox[c][s] - 1 \in 0 .. StackSize
    BY <1>1, <1>2
  <2>2. [inbox[c] EXCEPT ![s] = inbox[c][s] - 1] \in [Slots -> 0 .. StackSize]
    BY <2>1
  <2>3. inbox' = [inbox EXCEPT ![c] = [inbox[c] EXCEPT ![s] = inbox[c][s] - 1]]
    BY <1>1, <1>2
  <2> QED
    BY <1>2, <2>2, <2>3
<1>4. CoinsTypes'
  BY <1>1, <1>3 DEF CoinsTypes, CoinsTypeOK, Active
<1>5. purchase'.stage = "idle"
  BY <1>1 DEF Idle
<1>6. Delivery' /\ InPurchase' = InPurchase /\ HeldBids' = HeldBids
  BY <1>1, <1>5, HeldStays DEF Delivery, DeliveryAllOrNothing, InPurchase
<1>7. Worth' = Worth
  BY <1>1, <1>6 DEF Worth
<1> QED
  BY <1>4, <1>6, <1>7 DEF CoinsKept, CoinsInv

-----------------------------------------------------------------------------
\* The row of an auction.
LEMMA RowFields ==
    ASSUME CoinsInv, NEW r \in Rows, Active(r)
    PROVE  /\ auction[r] \in AuctionRow /\ auction[r].seller \in Accounts /\ auction[r].player \in Characters
           /\ auction[r].bidder \in Accounts \cup {NoBidder} /\ auction[r].bid \in Nat
           /\ auction[r].expired \in BOOLEAN /\ HeldBids[r] = auction[r].bid
           /\ auction[r].bidder = NoBidder => auction[r].bid = 0
<1>1. auction[r] \in AuctionRow
  BY DEF CoinsInv, CoinsTypes, Active
<1>2. HeldBids[r] = auction[r].bid /\ (auction[r].bidder = NoBidder => auction[r].bid = 0)
  BY DEF HeldBids, CoinsInv, CoinsTypes
<1> QED
  BY <1>1, <1>2 DEF AuctionRow

\* One row changes.
LEMMA RowChange ==
    ASSUME CoinsInv, NEW r \in Rows, NEW new \in AuctionRow \cup {NoAuction},
           auction' = [auction EXCEPT ![r] = new], new # NoAuction /\ new.bidder = NoBidder => new.bid = 0
    PROVE  /\ auction' \in [Rows -> AuctionRow \cup {NoAuction}] /\ auction'[r] = new
           /\ \A q \in Rows : Active(q)' /\ auction'[q].bidder = NoBidder => auction'[q].bid = 0
           /\ \A q \in Rows \ {r} : auction'[q] = auction[q]
           /\ HeldBids'[r] = IF new # NoAuction THEN new.bid ELSE 0
<1>1. /\ auction \in [Rows -> AuctionRow \cup {NoAuction}]
      /\ \A q \in Rows : Active(q) /\ auction[q].bidder = NoBidder => auction[q].bid = 0
  BY DEF CoinsInv, CoinsTypes
<1>2. /\ auction' \in [Rows -> AuctionRow \cup {NoAuction}] /\ auction'[r] = new
      /\ \A q \in Rows \ {r} : auction'[q] = auction[q]
  BY <1>1
<1>3. ASSUME NEW q \in Rows, Active(q)', auction'[q].bidder = NoBidder PROVE auction'[q].bid = 0
  BY <1>1, <1>2, <1>3 DEF Active
<1>4. HeldBids'[r] = IF new # NoAuction THEN new.bid ELSE 0
  BY <1>2 DEF HeldBids, Active
<1> QED
  BY <1>2, <1>3, <1>4

\* BazaarService::createAuction: the fee is paid.
LEMMA CreateKeeps ==
    ASSUME CoinsInv, NEW c \in Characters, NEW r \in Rows, createAuction(c, r)
    PROVE  CoinsKept
<1> DEFINE a == account[c]
           new == [player |-> c, seller |-> a, bidder |-> NoBidder, bid |-> 0, expired |-> FALSE]
           paid == DebitOnce(coins[a], Fee)
<1>1. /\ CoinsTypes /\ Delivery /\ ~Active(r) /\ paid.ok /\ coins' = [coins EXCEPT ![a] = paid.coins]
      /\ till' = till + Fee /\ auction' = [auction EXCEPT ![r] = new]
      /\ UNCHANGED <<unrefunded, owner, account, selected>> /\ UNCHANGED storeVars
      /\ \E told \in BOOLEAN : place' = [place EXCEPT ![c] = IF told THEN "leaving" ELSE @]
  BY DEF CoinsInv, createAuction, CommitAnswers
<1>2. /\ a \in Accounts /\ coins[a] \in 0 .. MaxCoins /\ MaxCoins \in Nat /\ Fee \in Nat
      /\ place \in [Characters -> {"out", "loading", "in", "leaving"}]
  BY <1>1, CoinsAssumption DEF CoinsTypes, CoinsTypeOK
<1>3. paid.coins = coins[a] - Fee /\ paid.coins \in 0 .. MaxCoins
  BY <1>1, <1>2 DEF DebitOnce
<1>4. new \in AuctionRow /\ new.bid = 0
  BY <1>2 DEF AuctionRow
<1> HIDE DEF new, paid
<1>5. Rebalanced(coins', a, paid.coins)
  BY <1>1, <1>2, <1>3 DEF Rebalanced
<1>6. /\ coins' \in [Accounts -> 0 .. MaxCoins] /\ Total(coins') \in Nat /\ coins[a] \in Nat
      /\ Total(coins') + coins[a] = Total(coins) + paid.coins
  BY <1>5, BalanceChange
<1>7. /\ auction' \in [Rows -> AuctionRow \cup {NoAuction}]
      /\ \A q \in Rows : Active(q)' /\ auction'[q].bidder = NoBidder => auction'[q].bid = 0
      /\ \A q \in Rows \ {r} : auction'[q] = auction[q]
      /\ HeldBids'[r] = 0
  BY <1>1, <1>4, RowChange
<1>8. place' \in [Characters -> {"out", "loading", "in", "leaving"}]
  BY <1>1, <1>2
<1>9. Total(coins) \in Nat /\ Total(HeldBids) \in Nat /\ till \in Nat /\ unrefunded \in Nat /\ InPurchase \in Nat
  BY WorthParts
<1>10. CoinsTypes'
  <2>1. UNCHANGED inbox /\ till' \in Nat
    BY <1>1, <1>2, <1>9 DEF storeVars
  <2> QED
    BY <1>1, <1>6, <1>7, <1>8, <2>1 DEF CoinsTypes, CoinsTypeOK
<1>11. HeldBids[r] = 0
  BY <1>1 DEF HeldBids
<1>12. Total(HeldBids') = Total(HeldBids)
  BY <1>1, <1>7, <1>9, <1>10, <1>11, HeldChange
<1>13. Delivery' /\ InPurchase' = InPurchase
  BY <1>1, DeliveryStays
<1>14. Total(coins') + till' = Total(coins) + till
  BY <1>1, <1>2, <1>3, <1>6, <1>9
<1>15. Worth' = Worth
  <2>1. Worth' = Total(coins') + Total(HeldBids) + InPurchase + till' + unrefunded
    BY <1>1, <1>12, <1>13 DEF Worth
  <2>2. till' \in Nat
    BY <1>10 DEF CoinsTypes
  <2> QED
    BY <1>6, <1>9, <1>14, <2>1, <2>2 DEF Worth
<1> QED
  BY <1>10, <1>13, <1>15 DEF CoinsKept, CoinsInv

\* A commission is a part of the bid.
LEMMA CommissionOfBid ==
    ASSUME NEW bid \in Nat
    PROVE  Commission(bid) \in 0 .. bid
<1>1. CommissionPercent \in 0 .. 100
  BY CoinsAssumption
<1> DEFINE p == CommissionPercent
           q == 100 - p
<1>2. p \in Nat /\ q \in Nat /\ p + q = 100
  BY <1>1
<1> HIDE DEF p, q
<1>3. bid * p \in Nat /\ bid * q \in Nat /\ bid * p + bid * q = bid * 100
  BY <1>2
<1>4. bid * p <= bid * 100 /\ bid * p \in Nat
  BY <1>3
<1>5. \A n \in Nat : n <= bid * 100 => n \div 100 \in 0 .. bid
  OBVIOUS
<1> QED
  BY <1>4, <1>5 DEF Commission, p

\* A row is closed: what was held for it is worth as much as what the seller and the till gain.
LEMMA CloseKeeps ==
    ASSUME CoinsInv, NEW r \in Rows, Active(r), auction' = [auction EXCEPT ![r] = NoAuction],
           coins' \in [Accounts -> 0 .. MaxCoins], till' \in Nat, owner' \in [Characters -> Accounts],
           selected' \in SUBSET Rows, Total(coins') \in Nat,
           Total(coins') + till' = Total(coins) + till + auction[r].bid,
           UNCHANGED <<unrefunded, place, account>>, UNCHANGED storeVars
    PROVE  CoinsKept
<1>1. CoinsTypes /\ Delivery
  BY DEF CoinsInv
<1>2. /\ auction' \in [Rows -> AuctionRow \cup {NoAuction}]
      /\ \A q \in Rows : Active(q)' /\ auction'[q].bidder = NoBidder => auction'[q].bid = 0
      /\ \A q \in Rows \ {r} : auction'[q] = auction[q]
      /\ HeldBids'[r] = 0
  BY RowChange
<1>3. auction[r].bid \in Nat /\ HeldBids[r] = auction[r].bid
  BY RowFields
<1>4. CoinsTypes'
  BY <1>1, <1>2 DEF CoinsTypes, CoinsTypeOK, storeVars
<1>5. /\ Total(HeldBids') + HeldBids[r] = Total(HeldBids) + HeldBids'[r]
      /\ Total(HeldBids) \in Nat /\ Total(HeldBids') \in Nat
  BY <1>1, <1>2, <1>4, HeldChange
<1>6. Total(coins) \in Nat /\ till \in Nat /\ unrefunded \in Nat /\ InPurchase \in Nat
  BY WorthParts
<1>7. Delivery' /\ InPurchase' = InPurchase
  BY <1>1, DeliveryStays
<1>8. Worth' = Worth
  <2>1. Worth' = Total(coins') + Total(HeldBids') + InPurchase + till' + unrefunded
    BY <1>7 DEF Worth
  <2> QED
    BY <1>2, <1>3, <1>5, <1>6, <2>1 DEF Worth
<1> QED
  BY <1>4, <1>7, <1>8 DEF CoinsKept, CoinsInv

\* BazaarService::finalizeAuction, and the web site's cancellation.
LEMMA FinalizeKeeps ==
    ASSUME CoinsInv, NEW r \in Rows, finalizeAuction(r) \/ webCancel(r)
    PROVE  CoinsKept
<1>1. CoinsTypes /\ Delivery /\ UNCHANGED <<unrefunded, place, account>> /\ UNCHANGED storeVars
  BY DEF CoinsInv, finalizeAuction, webCancel, accountVars
<1>2. /\ coins \in [Accounts -> 0 .. MaxCoins] /\ owner \in [Characters -> Accounts] /\ MaxCoins \in Nat
      /\ selected' \in SUBSET Rows
  BY <1>1, CoinsAssumption DEF CoinsTypes, CoinsTypeOK, finalizeAuction, webCancel
<1>3. Total(coins) \in Nat /\ till \in Nat
  BY WorthParts
<1>4. ASSUME Active(r), auction[r].bidder = NoBidder, auction' = [auction EXCEPT ![r] = NoAuction],
             UNCHANGED <<coins, owner, till>>
      PROVE  CoinsKept
  <2>1. auction[r].bid = 0
    BY <1>4, RowFields
  <2>2. Total(coins') + till' = Total(coins) + till + auction[r].bid /\ Total(coins') \in Nat
    BY <1>3, <1>4, <2>1
  <2> QED
    BY <1>1, <1>2, <1>3, <1>4, <2>2, CloseKeeps
<1>5. ASSUME Active(r), auction[r].bidder # NoBidder, Payable(r), Sale(r) PROVE CoinsKept
  <2> DEFINE a == auction[r].seller
             bid == auction[r].bid
             received == CreditOnce(coins[a], Payout(auction[r]))
  <2>1. /\ owner' = [owner EXCEPT ![auction[r].player] = auction[r].bidder] /\ coins' = [coins EXCEPT ![a] = received.coins]
        /\ till' = till + Commission(bid) /\ auction' = [auction EXCEPT ![r] = NoAuction] /\ received.ok
    BY <1>5 DEF Sale, Payable
  <2>2. a \in Accounts /\ bid \in Nat /\ auction[r].bidder \in Accounts /\ auction[r].player \in Characters
    BY <1>5, RowFields
  <2>3. Commission(bid) \in 0 .. bid
    BY <2>2, CommissionOfBid
  <2>4. Payout(auction[r]) = bid - Commission(bid) /\ Payout(auction[r]) \in Nat
    BY <2>2, <2>3 DEF Payout
  <2>5. received.coins = coins[a] + Payout(auction[r]) /\ received.coins \in 0 .. MaxCoins
    <3>1. coins[a] \in 0 .. MaxCoins
      BY <1>2, <2>2
    <3> QED
      BY <1>2, <2>1, <2>4, <3>1 DEF CreditOnce
  <2> HIDE DEF received
  <2>6. Rebalanced(coins', a, received.coins)
    BY <2>1, <2>2, <2>5 DEF Rebalanced
  <2>7. /\ coins' \in [Accounts -> 0 .. MaxCoins] /\ Total(coins') \in Nat /\ coins[a] \in Nat
        /\ Total(coins') + coins[a] = Total(coins) + received.coins
    BY <2>6, BalanceChange
  <2>8. Total(coins') + till' = Total(coins) + till + bid /\ till' \in Nat
    BY <1>3, <2>1, <2>2, <2>3, <2>4, <2>5, <2>7
  <2>9. owner' \in [Characters -> Accounts]
    BY <1>2, <2>1, <2>2
  <2> QED
    BY <1>1, <1>2, <1>5, <2>1, <2>7, <2>8, <2>9, CloseKeeps
<1>6. ASSUME UNCHANGED <<coins, owner, till, auction>> PROVE CoinsKept
  <2>1. CoinsTypes'
    BY <1>1, <1>2, <1>6 DEF CoinsTypes, CoinsTypeOK, Active, storeVars
  <2>2. Delivery' /\ InPurchase' = InPurchase /\ HeldBids' = HeldBids
    BY <1>1, <1>6, DeliveryStays, HeldStays
  <2> QED
    BY <1>1, <1>6, <2>1, <2>2 DEF CoinsKept, CoinsInv, Worth
<1> HIDE DEF CoinsKept
<1> QED
  BY <1>4, <1>5, <1>6 DEF finalizeAuction, Due, webCancel, accountVars

\* The web site takes a bid and gives the one before it back.
LEMMA BidKeeps ==
    ASSUME CoinsInv, NEW a \in Accounts, NEW r \in Rows, NEW amount \in Bids, webBid(a, r, amount)
    PROVE  CoinsKept
<1> DEFINE b == auction[r].bidder
           bid == auction[r].bid
           new == [auction[r] EXCEPT !.bidder = a, !.bid = amount]
<1>1. /\ CoinsTypes /\ Delivery /\ Active(r) /\ amount > bid /\ coins[a] >= amount /\ a # b
      /\ b # NoBidder => CreditOnce(coins[b], bid).ok
      /\ coins' = [d \in Accounts |-> CASE d = a -> coins[d] - amount
                                        [] d = b -> coins[d] + bid
                                        [] OTHER -> coins[d]]
      /\ auction' = [auction EXCEPT ![r] = new]
      /\ UNCHANGED <<till, unrefunded, owner, place, account, selected>> /\ UNCHANGED storeVars
  BY DEF CoinsInv, webBid
<1>2. /\ coins \in [Accounts -> 0 .. MaxCoins] /\ MaxCoins \in Nat /\ amount \in Nat /\ NoBidder \notin Accounts
      /\ IsFiniteSet(Accounts) /\ NoAuction \notin AuctionRow
  BY <1>1, CoinsAssumption DEF CoinsTypes, CoinsTypeOK
<1>3. /\ auction[r] \in AuctionRow /\ b \in Accounts \cup {NoBidder} /\ bid \in Nat
      /\ HeldBids[r] = bid /\ (b = NoBidder => bid = 0)
  BY <1>1, RowFields
<1>4. new \in AuctionRow /\ new.bid = amount /\ new.bidder = a
  BY <1>2, <1>3 DEF AuctionRow
<1> HIDE DEF new
<1>5. new # NoAuction /\ new.bidder # NoBidder
  BY <1>2, <1>4
<1>6. /\ auction' \in [Rows -> AuctionRow \cup {NoAuction}]
      /\ \A q \in Rows : Active(q)' /\ auction'[q].bidder = NoBidder => auction'[q].bid = 0
      /\ \A q \in Rows \ {r} : auction'[q] = auction[q]
      /\ HeldBids'[r] = amount
  BY <1>1, <1>4, <1>5, RowChange
<1>7. b # NoBidder => coins[b] + bid \in 0 .. MaxCoins
  <2>1. b # NoBidder => coins[b] \in 0 .. MaxCoins
    BY <1>2, <1>3
  <2> QED
    BY <1>1, <1>2, <1>3, <2>1 DEF CreditOnce
<1>8. /\ coins' \in [Accounts -> 0 .. MaxCoins] /\ coins'[a] = coins[a] - amount
      /\ b # NoBidder => coins'[b] = coins[b] + bid
      /\ \A d \in Accounts \ {a, b} : coins'[d] = coins[d]
  BY <1>1, <1>2, <1>3, <1>7
<1>9. Total(coins') + amount = Total(coins) + bid /\ Total(coins') \in Nat /\ Total(coins) \in Nat
  <2>1. coins \in [Accounts -> Nat] /\ coins' \in [Accounts -> Nat]
    BY <1>2, <1>8
  <2>2. CASE b = NoBidder
    <3>1. ButFor(Accounts, coins, coins', a)
      BY <1>2, <1>8, <2>1, <2>2 DEF ButFor
    <3>2. /\ Total(coins') + coins[a] = Total(coins) + coins'[a] /\ Total(coins) \in Nat /\ Total(coins') \in Nat
          /\ coins[a] \in Nat
      <4>1. ASSUME NEW f, NEW g, ButFor(Accounts, f, g, a)
            PROVE  Total(g) + f[a] = Total(f) + g[a] /\ Total(f) \in Nat /\ Total(g) \in Nat /\ f[a] \in Nat
        BY <1>2, <4>1, TotalChange
      <4> QED
        BY <3>1, <4>1
    <3> QED
      BY <1>1, <1>2, <1>3, <1>8, <2>2, <3>2
  <2>3. CASE b # NoBidder
    <3>1. b \in Accounts
      BY <1>3, <2>3
    <3>2. ASSUME NEW f \in [Accounts -> Nat], NEW g \in [Accounts -> Nat], \A d \in Accounts \ {a, b} : g[d] = f[d]
          PROVE  /\ Total(g) + f[a] + f[b] = Total(f) + g[a] + g[b] /\ Total(f) \in Nat /\ Total(g) \in Nat
      BY <1>1, <1>2, <3>1, <3>2, TotalChangeTwo
    <3>3. /\ Total(coins') + coins[a] + coins[b] = Total(coins) + coins'[a] + coins'[b]
          /\ Total(coins) \in Nat /\ Total(coins') \in Nat
      BY <1>8, <2>1, <3>2
    <3>4. coins[a] \in Nat /\ coins[b] \in Nat
      BY <2>1, <3>1
    <3> QED
      BY <1>1, <1>2, <1>3, <1>8, <2>3, <3>3, <3>4
  <2> QED
    BY <2>2, <2>3
<1>10. CoinsTypes'
  BY <1>1, <1>6, <1>8 DEF CoinsTypes, CoinsTypeOK, storeVars
<1>11. /\ Total(HeldBids') + bid = Total(HeldBids) + amount
       /\ Total(HeldBids) \in Nat /\ Total(HeldBids') \in Nat
  BY <1>1, <1>3, <1>6, <1>10, HeldChange
<1>12. Delivery' /\ InPurchase' = InPurchase
  BY <1>1, DeliveryStays
<1>13. till \in Nat /\ unrefunded \in Nat /\ InPurchase \in Nat
  BY WorthParts
<1>14. Worth' = Worth
  <2>1. Worth' = Total(coins') + Total(HeldBids') + InPurchase + till + unrefunded
    BY <1>1, <1>12 DEF Worth
  <2> QED
    BY <1>2, <1>3, <1>9, <1>11, <1>13, <2>1 DEF Worth
<1> QED
  BY <1>10, <1>12, <1>14 DEF CoinsKept, CoinsInv

\* An auction expires.
LEMMA ExpireKeeps ==
    ASSUME CoinsInv, NEW r \in Rows, expire(r)
    PROVE  CoinsKept
<1> DEFINE new == [auction[r] EXCEPT !.expired = TRUE]
<1>1. /\ CoinsTypes /\ Delivery /\ Active(r) /\ auction' = [auction EXCEPT ![r] = new]
      /\ UNCHANGED <<coins, till, unrefunded, owner, place, account, selected>> /\ UNCHANGED storeVars
  BY DEF CoinsInv, expire, accountVars
<1>2. /\ auction[r] \in AuctionRow /\ auction[r].bid \in Nat /\ HeldBids[r] = auction[r].bid
      /\ auction[r].bidder = NoBidder => auction[r].bid = 0
  BY <1>1, RowFields
<1>3. new \in AuctionRow /\ new.bid = auction[r].bid /\ new.bidder = auction[r].bidder
  BY <1>2 DEF AuctionRow
<1> HIDE DEF new
<1>4. new # NoAuction
  BY <1>3, CoinsAssumption
<1>5. /\ auction' \in [Rows -> AuctionRow \cup {NoAuction}]
      /\ \A q \in Rows : Active(q)' /\ auction'[q].bidder = NoBidder => auction'[q].bid = 0
      /\ \A q \in Rows \ {r} : auction'[q] = auction[q]
      /\ HeldBids'[r] = auction[r].bid
  BY <1>1, <1>2, <1>3, <1>4, RowChange
<1>6. CoinsTypes'
  BY <1>1, <1>5 DEF CoinsTypes, CoinsTypeOK, storeVars
<1>7. /\ Total(HeldBids') + auction[r].bid = Total(HeldBids) + auction[r].bid
      /\ Total(HeldBids) \in Nat /\ Total(HeldBids') \in Nat
  BY <1>1, <1>2, <1>5, <1>6, HeldChange
<1>8. Total(HeldBids') = Total(HeldBids)
  BY <1>2, <1>7
<1>9. Delivery' /\ InPurchase' = InPurchase
  BY <1>1, DeliveryStays
<1>10. Worth' = Worth
  BY <1>1, <1>8, <1>9 DEF Worth
<1> QED
  BY <1>6, <1>9, <1>10 DEF CoinsKept, CoinsInv

\* Sessions, and the search for auctions that are due, change no coins.
LEMMA SessionsKeep ==
    ASSUME CoinsInv,
           finalizeExpiredAuctions \/ \E c \in Characters : loginCharacter(c) \/ finishLogin(c) \/ leave(c)
    PROVE  CoinsKept
<1>1. /\ CoinsTypes /\ Delivery /\ UNCHANGED <<coins, till, unrefunded, owner, auction>> /\ UNCHANGED storeVars
  BY DEF CoinsInv, finalizeExpiredAuctions, loginCharacter, finishLogin, leave, accountVars
<1>2. /\ place \in [Characters -> {"out", "loading", "in", "leaving"}] /\ selected \subseteq Rows
      /\ account \in [Characters -> Accounts] /\ owner \in [Characters -> Accounts]
  BY <1>1 DEF CoinsTypes, CoinsTypeOK
<1>3. /\ place' \in [Characters -> {"out", "loading", "in", "leaving"}] /\ selected' \subseteq Rows
      /\ account' \in [Characters -> Accounts]
  BY <1>2 DEF finalizeExpiredAuctions, loginCharacter, finishLogin, leave
<1>4. CoinsTypes'
  BY <1>1, <1>3 DEF CoinsTypes, CoinsTypeOK, Active, storeVars
<1>5. Delivery' /\ InPurchase' = InPurchase /\ HeldBids' = HeldBids
  BY <1>1, DeliveryStays, HeldStays
<1> QED
  BY <1>1, <1>4, <1>5 DEF CoinsKept, CoinsInv, Worth

\* Every step of Coins keeps the invariant, and all coins if the answers of the database arrive.
LEMMA CoinsStep == CoinsInv /\ [CoinsNext]_coinVars => CoinsKept
<1> SUFFICES ASSUME CoinsInv, [CoinsNext]_coinVars PROVE CoinsKept
  OBVIOUS
<1>1. CASE UNCHANGED coinVars
  <2>1. UNCHANGED <<coins, owner, place, account, auction, selected, till, unrefunded>> /\ UNCHANGED storeVars
    BY <1>1 DEF coinVars, storeVars
  <2>2. Delivery' /\ InPurchase' = InPurchase /\ HeldBids' = HeldBids
    BY <2>1, DeliveryStays, HeldStays DEF CoinsInv
  <2>3. CoinsTypes'
    BY <2>1 DEF CoinsInv, CoinsTypes, CoinsTypeOK, Active, storeVars
  <2> QED
    BY <2>1, <2>2, <2>3 DEF CoinsKept, CoinsInv, Worth
<1>2. CASE finalizeExpiredAuctions \/ \E c \in Characters : loginCharacter(c) \/ finishLogin(c) \/ leave(c)
  BY <1>2, SessionsKeep
<1>3. ASSUME NEW r \in Rows, finalizeAuction(r) \/ expire(r) \/ webCancel(r) PROVE CoinsKept
  BY <1>3, FinalizeKeeps, ExpireKeeps
<1>9. ASSUME NEW c \in Characters, NEW r \in Rows, createAuction(c, r) PROVE CoinsKept
  BY <1>9, CreateKeeps
<1>4. ASSUME NEW c \in Characters, NEW n \in OfferCounts, purchaseDebit(c, n) PROVE CoinsKept
  BY <1>4, DebitKeeps
<1>5. ASSUME deliverItem \/ purchaseDelivered \/ purchaseRefund PROVE CoinsKept
  BY <1>5, DeliverKeeps, PurchaseEndKeeps
<1>6. ASSUME NEW a \in Accounts, NEW b \in Accounts, NEW amount \in Amounts, transfer(a, b, amount) PROVE CoinsKept
  BY <1>6, TransferKeeps
<1>7. ASSUME NEW c \in Characters, NEW s \in Slots, takePiece(c, s) PROVE CoinsKept
  BY <1>7, TakeKeeps
<1>8. ASSUME NEW a \in Accounts, NEW r \in Rows, NEW amount \in Bids, webBid(a, r, amount) PROVE CoinsKept
  BY <1>8, BidKeeps
<1> HIDE DEF CoinsKept
<1> QED
  BY <1>1, <1>2, <1>3, <1>4, <1>5, <1>6, <1>7, <1>8, <1>9 DEF CoinsNext

\* An active row of a character that no query that failed has let through.
Judged(r) == Active(r) /\ auction[r].player \notin misjudged

\* Whether q is another active row of the character or of the seller of r.
Beside(q, r) ==
    /\ q # r /\ Active(q)
    /\ auction[q].player = auction[r].player \/ auction[q].seller = auction[r].seller

\* What makes ListedIsAway inductive: by the end of an auction its character is out of the game, and
\* who is in the game plays on the account that owns the character.
Listing ==
    /\ \A r \in Rows : Judged(r) =>
          /\ place[auction[r].player] \in {"out", "leaving"}
          /\ owner[auction[r].player] = auction[r].seller
          /\ auction[r].expired => place[auction[r].player] = "out"
          /\ \A q \in Rows : Beside(q, r) => auction[q].player \in misjudged
    /\ \A c \in Characters \ misjudged : place[c] # "out" => account[c] = owner[c]

\* One row is closed, or changes in its bid, or expires, and only its character may change hands, when
\* it is out of the game.
LEMMA RowStepKeepsListing ==
    ASSUME CoinsInv, Listing, NEW r \in Rows, Active(r), NEW c, c = auction[r].player,
           \A q \in Rows \ {r} : auction'[q] = auction[q],
           UNCHANGED <<place, account, misjudged>>,
           \/ Active(r)' /\ auction'[r].player = c /\ auction'[r].seller = auction[r].seller /\ owner' = owner
              /\ (auction'[r].expired => auction[r].expired \/ place[c] # "leaving")
           \/ ~Active(r)' /\ \A d \in Characters : owner'[d] # owner[d] => d = c /\ auction[r].expired
    PROVE  Listing'
<1>1. c \in Characters /\ \A q \in Rows : Active(q) => auction[q].player \in Characters
  BY RowFields
<1>2. \A q \in Rows : Active(q)' => /\ Active(q) /\ auction'[q].player = auction[q].player
                                   /\ auction'[q].seller = auction[q].seller
  BY DEF Active
<1>3. \A q \in Rows : Judged(q)' => Judged(q)
  BY <1>2 DEF Judged
<1>4. \A p, q \in Rows : Active(p)' /\ Beside(q, p)' => Beside(q, p)
  BY <1>2 DEF Beside
<1>5. ASSUME NEW q \in Rows, Judged(q)' PROVE owner'[auction[q].player] = owner[auction[q].player]
  <2>1. CASE owner' = owner
    BY <2>1
  <2>2. CASE ~Active(r)' /\ \A d \in Characters : owner'[d] # owner[d] => d = c
    <3>1. q # r /\ Judged(q) /\ Active(q)
      BY <1>3, <1>5, <2>2 DEF Judged
    <3>2. auction[q].player # c
      BY <3>1 DEF Listing, Beside, Judged
    <3> QED
      BY <1>1, <2>2, <3>1, <3>2
  <2> QED
    BY <2>1, <2>2
<1>6. ASSUME NEW q \in Rows, Judged(q)'
      PROVE  /\ place'[auction'[q].player] \in {"out", "leaving"}
             /\ owner'[auction'[q].player] = auction'[q].seller
             /\ auction'[q].expired => place'[auction'[q].player] = "out"
             /\ \A p \in Rows : Beside(p, q)' => auction'[p].player \in misjudged'
  <2>1. Judged(q) /\ Active(q)' /\ auction'[q].player = auction[q].player /\ auction'[q].seller = auction[q].seller
    BY <1>2, <1>3, <1>6 DEF Judged
  <2>2. place'[auction'[q].player] \in {"out", "leaving"} /\ owner'[auction'[q].player] = auction'[q].seller
    BY <1>5, <1>6, <2>1 DEF Listing
  <2>3. auction'[q].expired => place'[auction'[q].player] = "out"
    BY <2>1 DEF Listing
  <2>4. \A p \in Rows : Beside(p, q)' => auction'[p].player \in misjudged'
    BY <1>2, <1>4, <2>1 DEF Listing, Beside
  <2> QED
    BY <2>2, <2>3, <2>4
<1>7. ASSUME NEW d \in Characters, d \notin misjudged, place[d] # "out" PROVE account[d] = owner'[d]
  <2>1. account[d] = owner[d]
    BY <1>7 DEF Listing
  <2>2. owner'[d] = owner[d]
    BY <1>7 DEF Listing, Judged
  <2> QED
    BY <2>1, <2>2
<1> QED
  BY <1>6, <1>7 DEF Listing

\* The character is put up: unless it is misjudged it has no other row, and neither has its account.
LEMMA CreateKeepsListing ==
    ASSUME CoinsInv, AnswersArrive, Listing, NEW c \in Characters, NEW r \in Rows, createAuction(c, r)
    PROVE  Listing'
<1> DEFINE new == [player |-> c, seller |-> account[c], bidder |-> NoBidder, bid |-> 0, expired |-> FALSE]
           found == RowsOf(c) \cup SoldBy(account[c])
<1>1. /\ ~Active(r) /\ UNCHANGED <<owner, account>> /\ place[c] \in {"in", "leaving"}
      /\ auction' = [auction EXCEPT ![r] = new] /\ place' = [place EXCEPT ![c] = "leaving"]
      /\ misjudged' = IF found = {} THEN misjudged ELSE misjudged \cup {c}
  BY DEF createAuction, CommitAnswers, AnswersArrive, Misjudge
<1>2. /\ auction \in [Rows -> AuctionRow \cup {NoAuction}] /\ place \in [Characters -> {"out", "loading", "in", "leaving"}]
  BY DEF CoinsInv, CoinsTypes, CoinsTypeOK
<1>3. new.player = c /\ new.seller = account[c] /\ new.expired = FALSE
  OBVIOUS
<1>4. \A q \in Rows : Active(q) /\ (auction[q].player = c \/ auction[q].seller = account[c]) => q \in found
  BY DEF RowsOf, SoldBy
<1> HIDE DEF new, found
<1>5. /\ auction'[r] = new /\ place'[c] = "leaving" /\ \A q \in Rows \ {r} : auction'[q] = auction[q]
      /\ \A d \in Characters \ {c} : place'[d] = place[d]
  BY <1>1, <1>2
<1>6. \A q \in Rows : Active(q) => auction[q].player \in Characters
  BY RowFields
<1>7. ASSUME NEW q \in Rows, Judged(q)', q # r
      PROVE  /\ Judged(q) /\ auction'[q] = auction[q] /\ auction[q].player \in Characters \ {c}
             /\ found = {} => auction[q].seller # account[c]
  <2>1. Judged(q) /\ auction'[q] = auction[q] /\ Active(q)
    BY <1>1, <1>5, <1>7 DEF Judged, Active
  <2>2. ~(auction[q].player = c)
    BY <1>1, <1>4, <1>5, <1>7, <2>1 DEF Judged
  <2> QED
    BY <1>4, <1>6, <2>1, <2>2
<1>8. ASSUME NEW q \in Rows, Judged(q)'
      PROVE  /\ place'[auction'[q].player] \in {"out", "leaving"}
             /\ owner'[auction'[q].player] = auction'[q].seller
             /\ auction'[q].expired => place'[auction'[q].player] = "out"
             /\ \A p \in Rows : Beside(p, q)' => auction'[p].player \in misjudged'
  <2>1. CASE q = r
    <3>1. c \notin misjudged' /\ found = {} /\ c \notin misjudged
      BY <1>1, <1>3, <1>5, <1>8, <2>1 DEF Judged
    <3>2. owner[c] = account[c]
      BY <1>1, <3>1 DEF Listing
    <3>3. ASSUME NEW p \in Rows, Beside(p, q)' PROVE FALSE
      <4>1. p # r /\ auction'[p] = auction[p] /\ Active(p)
        BY <1>5, <2>1, <3>3 DEF Beside, Active
      <4> QED
        BY <1>3, <1>4, <1>5, <2>1, <3>1, <3>3, <4>1 DEF Beside
    <3> QED
      BY <1>1, <1>3, <1>5, <2>1, <3>2, <3>3
  <2>2. CASE q # r
    <3>1. /\ Judged(q) /\ auction'[q] = auction[q] /\ auction[q].player \in Characters \ {c}
          /\ found = {} => auction[q].seller # account[c]
      BY <1>7, <1>8, <2>2
    <3>2. ASSUME NEW p \in Rows, Beside(p, q)' PROVE auction'[p].player \in misjudged'
      <4>1. CASE p = r
        BY <1>1, <1>3, <1>5, <3>1, <3>2, <4>1 DEF Beside
      <4>2. CASE p # r
        <5>1. Beside(p, q) /\ auction'[p] = auction[p]
          BY <1>5, <2>2, <3>1, <3>2, <4>2 DEF Beside, Active
        <5> QED
          BY <1>1, <3>1, <5>1 DEF Listing
      <4> QED
        BY <4>1, <4>2
    <3> QED
      BY <1>1, <1>5, <3>1, <3>2 DEF Listing
  <2> QED
    BY <2>1, <2>2
<1>9. \A d \in Characters \ misjudged' : place'[d] # "out" => account'[d] = owner'[d]
  BY <1>1, <1>5 DEF Listing
<1> QED
  BY <1>8, <1>9 DEF Listing

\* Who logs in has no row, or is misjudged; who is loading has none either.
LEMMA SessionKeepsListing ==
    ASSUME CoinsInv, Listing, NEW c \in Characters, loginCharacter(c) \/ finishLogin(c) \/ leave(c)
    PROVE  Listing'
<1>1. /\ UNCHANGED <<owner, auction>> /\ misjudged \subseteq misjudged'
      /\ misjudged' \subseteq misjudged \cup {c}
  BY DEF loginCharacter, finishLogin, leave, Misjudge
<1>2. /\ place \in [Characters -> {"out", "loading", "in", "leaving"}]
      /\ account \in [Characters -> Accounts] /\ owner \in [Characters -> Accounts]
  BY DEF CoinsInv, CoinsTypes, CoinsTypeOK
<1>3. \A d \in Characters \ {c} : place'[d] = place[d] /\ account'[d] = account[d]
  BY <1>2 DEF loginCharacter, finishLogin, leave
<1>4. ASSUME NEW q \in Rows, Active(q), auction[q].player = c, c \notin misjudged' PROVE place'[c] = "out"
  <2>1. CASE loginCharacter(c)
    <3>1. q \in RowsOf(c)
      BY <1>4 DEF RowsOf
    <3> QED
      BY <1>4, <2>1, <3>1 DEF loginCharacter, Misjudge
  <2>2. CASE finishLogin(c)
    <3>1. Judged(q)
      BY <1>1, <1>4 DEF Judged
    <3>2. place[c] = "loading" /\ place[c] \in {"out", "leaving"}
      BY <1>4, <2>2, <3>1 DEF finishLogin, Listing
    <3> QED
      BY <3>2
  <2>3. CASE leave(c)
    BY <1>2, <2>3 DEF leave
  <2> QED
    BY <2>1, <2>2, <2>3
<1>5. \A q \in Rows : (Active(q)' <=> Active(q)) /\ (Judged(q)' => Judged(q))
  BY <1>1 DEF Active, Judged
<1>6. \A p, q \in Rows : Beside(p, q)' <=> Beside(p, q)
  BY <1>1 DEF Active, Beside
<1>7. \A q \in Rows : Active(q) => auction[q].player \in Characters
  BY RowFields
<1>8. ASSUME NEW q \in Rows, Judged(q)'
      PROVE  /\ place'[auction'[q].player] \in {"out", "leaving"}
             /\ owner'[auction'[q].player] = auction'[q].seller
             /\ auction'[q].expired => place'[auction'[q].player] = "out"
             /\ \A p \in Rows : Beside(p, q)' => auction'[p].player \in misjudged'
  <2>1. Judged(q) /\ Active(q) /\ auction'[q] = auction[q] /\ auction[q].player \in Characters
    BY <1>1, <1>5, <1>7, <1>8 DEF Judged
  <2>2. \A p \in Rows : Beside(p, q)' => auction'[p].player \in misjudged'
    BY <1>1, <1>6, <2>1 DEF Listing
  <2>3. place'[auction[q].player] = "out" \/ place'[auction[q].player] = place[auction[q].player]
    BY <1>1, <1>3, <1>4, <1>8, <2>1 DEF Judged
  <2> QED
    BY <1>1, <2>1, <2>2, <2>3 DEF Listing
<1>9. ASSUME NEW d \in Characters, d \notin misjudged', place'[d] # "out" PROVE account'[d] = owner'[d]
  <2>1. CASE d # c
    BY <1>1, <1>3, <1>9, <2>1 DEF Listing
  <2>2. CASE d = c /\ loginCharacter(c)
    BY <1>2, <2>2 DEF loginCharacter
  <2>3. CASE d = c /\ finishLogin(c)
    <3>1. account[c] = owner[c]
      BY <1>1, <1>9, <2>3 DEF Listing, finishLogin
    <3> QED
      BY <1>1, <1>2, <2>3, <3>1 DEF finishLogin
  <2>4. CASE d = c /\ leave(c)
    BY <1>2, <1>9, <2>4 DEF leave
  <2> QED
    BY <2>1, <2>2, <2>3, <2>4
<1> QED
  BY <1>8, <1>9 DEF Listing

\* Listed characters stay away and with their sellers.
LEMMA ListedStep ==
    ASSUME CoinsInv, AnswersArrive, Listing, [CoinsNext]_coinVars
    PROVE  Listing'
<1>0. auction \in [Rows -> AuctionRow \cup {NoAuction}] /\ owner \in [Characters -> Accounts]
  BY DEF CoinsInv, CoinsTypes, CoinsTypeOK
<1>1. ASSUME UNCHANGED <<owner, place, account, auction, misjudged>> PROVE Listing'
  BY <1>1 DEF Listing, Judged, Beside, Active
<1>2. ASSUME NEW c \in Characters, NEW r \in Rows, createAuction(c, r) PROVE Listing'
  BY <1>2, CreateKeepsListing
<1>3. ASSUME NEW r \in Rows, finalizeAuction(r) \/ webCancel(r) PROVE Listing'
  <2>1. UNCHANGED <<place, account, misjudged>>
    BY <1>3 DEF finalizeAuction, webCancel
  <2>2. CASE UNCHANGED <<owner, auction>>
    BY <1>1, <2>1, <2>2
  <2>3. CASE Active(r) /\ auction' = [auction EXCEPT ![r] = NoAuction]
             /\ (owner' = owner \/ (Due(r) /\ owner' = [owner EXCEPT ![auction[r].player] = auction[r].bidder]))
    <3>1. auction'[r] = NoAuction /\ ~Active(r)' /\ \A q \in Rows \ {r} : auction'[q] = auction[q]
      BY <1>0, <2>3 DEF Active
    <3>2. \A d \in Characters : owner'[d] # owner[d] => d = auction[r].player /\ auction[r].expired
      BY <1>0, <2>3 DEF Due
    <3> QED
      BY <2>1, <2>3, <3>1, <3>2, RowStepKeepsListing
  <2> QED
    BY <1>3, <2>2, <2>3 DEF finalizeAuction, webCancel, Sale, Due
<1>4. ASSUME NEW r \in Rows, Active(r), NEW new \in AuctionRow, auction' = [auction EXCEPT ![r] = new],
             new.player = auction[r].player, new.seller = auction[r].seller,
             new.expired => auction[r].expired \/ place[auction[r].player] # "leaving",
             UNCHANGED <<owner, place, account, misjudged>>
      PROVE  Listing'
  <2>1. auction'[r] = new /\ Active(r)' /\ \A q \in Rows \ {r} : auction'[q] = auction[q]
    BY <1>0, <1>4, CoinsAssumption DEF Active
  <2> QED
    BY <1>4, <2>1, RowStepKeepsListing
<1>5. ASSUME NEW r \in Rows, expire(r) PROVE Listing'
  <2> DEFINE new == [auction[r] EXCEPT !.expired = TRUE]
  <2>1. /\ Active(r) /\ auction' = [auction EXCEPT ![r] = new] /\ place[auction[r].player] # "leaving"
        /\ UNCHANGED <<owner, place, account, misjudged>>
    BY <1>5 DEF expire
  <2>2. auction[r] \in AuctionRow
    BY <2>1, RowFields
  <2>3. new \in AuctionRow /\ new.player = auction[r].player /\ new.seller = auction[r].seller
    BY <2>2 DEF AuctionRow
  <2> HIDE DEF new
  <2> QED
    BY <1>4, <2>1, <2>3
<1>6. ASSUME NEW a \in Accounts, NEW r \in Rows, NEW amount \in Bids, webBid(a, r, amount) PROVE Listing'
  <2> DEFINE new == [auction[r] EXCEPT !.bidder = a, !.bid = amount]
  <2>1. Active(r) /\ auction' = [auction EXCEPT ![r] = new] /\ UNCHANGED <<owner, place, account, misjudged>>
    BY <1>6 DEF webBid
  <2>2. auction[r] \in AuctionRow /\ amount \in Nat
    BY <2>1, RowFields, CoinsAssumption
  <2>3. new \in AuctionRow /\ new.player = auction[r].player /\ new.seller = auction[r].seller
        /\ new.expired = auction[r].expired
    BY <2>2 DEF AuctionRow
  <2> HIDE DEF new
  <2> QED
    BY <1>4, <2>1, <2>3
<1>7. ASSUME NEW c \in Characters, loginCharacter(c) \/ finishLogin(c) \/ leave(c) PROVE Listing'
  BY <1>7, SessionKeepsListing
<1>8. CASE UNCHANGED coinVars
  BY <1>1, <1>8 DEF coinVars
<1>9. ASSUME NEW c \in Characters, NEW n \in OfferCounts, purchaseDebit(c, n) PROVE Listing'
  BY <1>1, <1>9 DEF purchaseDebit, bazaarVars
<1>10. ASSUME deliverItem \/ purchaseDelivered \/ purchaseRefund \/ finalizeExpiredAuctions PROVE Listing'
  BY <1>1, <1>10 DEF deliverItem, purchaseDelivered, purchaseRefund, finalizeExpiredAuctions, bazaarVars
<1>11. ASSUME NEW a \in Accounts, NEW b \in Accounts, NEW amount \in Amounts, transfer(a, b, amount)
       PROVE  Listing'
  BY <1>1, <1>11 DEF transfer, bazaarVars
<1>12. ASSUME NEW c \in Characters, NEW s \in Slots, takePiece(c, s) PROVE Listing'
  BY <1>1, <1>12 DEF takePiece, bazaarVars
<1> HIDE DEF Listing
<1> QED
  BY <1>2, <1>3, <1>5, <1>6, <1>7, <1>8, <1>9, <1>10, <1>11, <1>12 DEF CoinsNext

\* For any accounts, characters, prices and limits, and whatever statements fail or are run again: a
\* delivery to the store inbox is all or nothing (StoreService::purchase, rollbackInboxDelivery).
THEOREM DeliveryTheorem == CoinsSpec => []DeliveryAllOrNothing
<1>1. CoinsInv => DeliveryAllOrNothing
  BY DEF CoinsInv, Delivery
<1>2. CoinsInv /\ [CoinsNext]_coinVars => CoinsInv'
  BY CoinsStep DEF CoinsKept
<1> QED
  BY <1>1, <1>2, CoinsStarts, PTL DEF CoinsSpec

\* For any accounts, characters, prices, fees and bids, as long as no answer of the database is lost: no
\* step makes or destroys coins, and every balance stays within its limits (AccountCoins, StoreService,
\* the bazaar and the web site's bids).
THEOREM CoinsConservedTheorem == AnswersArrive => (CoinsSpec => CoinsConserved)
<1> SUFFICES ASSUME AnswersArrive PROVE CoinsSpec => CoinsConserved
  OBVIOUS
<1>1. CoinsInv /\ [CoinsNext]_coinVars => CoinsInv'
  BY CoinsStep DEF CoinsKept
<1>2. CoinsInv /\ [CoinsNext]_coinVars => [Worth' = Worth /\ CoinsTypeOK']_coinVars
  BY CoinsStep DEF CoinsKept, CoinsInv, CoinsTypes
<1> QED
  BY <1>1, <1>2, CoinsStarts, PTL DEF CoinsSpec, CoinsConserved

\* For any accounts and characters, as long as no answer of the database is lost: a character on auction
\* belongs to its seller, is not played, and is alone on auction, unless a query that failed let one
\* through; and then the others' auctions are as they should be (createAuction and queryHasRows in
\* src/src/character_bazaar.cpp, ProtocolGame::login, finalizeAuction).
THEOREM ListedIsAwayTheorem == AnswersArrive => (CoinsSpec => []ListedIsAway)
<1> SUFFICES ASSUME AnswersArrive PROVE CoinsSpec => []ListedIsAway
  OBVIOUS
<1>1. CoinsInv /\ [CoinsNext]_coinVars => CoinsInv'
  BY CoinsStep DEF CoinsKept
<1>2. CoinsInit => Listing
  BY DEF CoinsInit, Listing, Judged, Active
<1>3. CoinsInv /\ Listing /\ [CoinsNext]_coinVars => Listing'
  BY ListedStep
<1>4. Listing => ListedIsAway
  BY DEF Listing, Judged, Beside, ListedIsAway, RowsOf, SoldBy
<1> QED
  BY <1>1, <1>2, <1>3, <1>4, CoinsStarts, PTL DEF CoinsSpec

-----------------------------------------------------------------------------
(***************************************************************************)
(* The decay of items.  Every operation computes on a record of the item,  *)
(* the map and the checks; SoundWork says what it may rely on and must     *)
(* leave, so that the operations, which call each other, are proved one by *)
(* one.                                                                    *)
(***************************************************************************)
\* A set of numbers has a least one; induction is by the least exception.
LEMMA NatMin ==
    ASSUME NEW T \in SUBSET Nat, T # {}
    PROVE  \E x \in T : \A y \in T : x <= y
<1> DEFINE R == OpToRel(<, Nat)
<1>1. IsWellFoundedOn(R, Nat)
  BY NatLessThanWellFounded
<1>2. \A x, y \in Nat : x < y => <<x, y>> \in R
  BY DEF OpToRel
<1> HIDE DEF R
<1>3. PICK x \in T : \A y \in T : ~(<<y, x>> \in R)
  BY <1>1, WFMin, Zenon
<1>4. \A y \in T : x \in Nat /\ y \in Nat /\ ~(y < x)
  BY <1>2, <1>3
<1>5. \A y \in T : x <= y
  BY <1>4
<1> QED
  BY <1>5

\* The states of decay an item may be in.
DecayStates == {"absent", "false", "true", "pending", "stopping"}
\* An item, as far as decay is concerned.
DecayItem == [alive : BOOLEAN, removed : BOOLEAN, type : DOMAIN ItemTypes, state : DecayStates,
              duration : Nat, timestamp : Nat]
\* The entries of decayMap; no item is due at time 0.
DecayEntry == (Nat \ {0}) \X Items
\* What the operations compute on.
DecayWork == [it : DecayItem, map : SUBSET DecayEntry, event : Nat, orphans : SUBSET Nat]

\* The items in b.
InBatch(b) == {b[k] : k \in DOMAIN b}

\* One of the pending checks comes in time for every entry of map.
Timely(map, pending) ==
    map # {} => \E due \in pending :
                    \A e \in map : due <= e[1] + MIN_TASK_INTERVAL \/ due <= now + MIN_TASK_INTERVAL

\* The checks that are pending in s.
PendingIn(s) == ({s.event} \ {NoAttr}) \cup s.orphans

\* Item i has one entry at most, at its own timestamp.
OneEntryOf(s, i) == \A t \in Nat : <<t, i>> \in s.map => t = s.it.timestamp

\* If i is marked it has an entry or is in B.
MarkTracked(s, i, B) == s.it.state = "true" => i \in B \/ <<s.it.timestamp, i>> \in s.map

\* The entries of the other items are those of decayMap.
OthersKept(s, i) == \A t \in Nat, j \in Items \ {i} : <<t, j>> \in s.map <=> <<t, j>> \in decayMap

\* What an operation on item i, which is alive, starts from and leaves: B are the items of the batch.
SoundWork(s, i, B) ==
    /\ s \in DecayWork /\ s.it.alive /\ IsFiniteSet(s.map)
    /\ OneEntryOf(s, i) /\ MarkTracked(s, i, B) /\ OthersKept(s, i)
    /\ checking \/ Timely(s.map, PendingIn(s))

\* The inductive invariant: types, the entry of an item, marks tracked, a check in time.
DecayInv ==
    /\ item \in [Items -> DecayItem] /\ decayMap \subseteq DecayEntry /\ IsFiniteSet(decayMap)
    /\ event \in Nat /\ orphans \subseteq Nat /\ now \in Nat \ {0}
    /\ batch \in Seq(Items) /\ checking \in BOOLEAN /\ (~checking => batch = <<>>)
    /\ \A i \in Items : item[i].alive => \A t \in Nat : <<t, i>> \in decayMap => t = item[i].timestamp
    /\ \A i \in Items : item[i].alive /\ item[i].state = "true" =>
           i \in InBatch(batch) \/ <<item[i].timestamp, i>> \in decayMap
    /\ checking \/ Timely(decayMap, Pending)

\* Attributes makes an item of an item.
LEMMA AttributesFacts ==
    ASSUME NEW it \in DecayItem, NEW state \in DecayStates, NEW duration \in Nat, NEW timestamp \in Nat
    PROVE  LET r == Attributes(it, state, duration, timestamp)
           IN  /\ r \in DecayItem /\ r.alive = it.alive /\ r.removed = it.removed /\ r.type = it.type
               /\ r.state = state /\ r.duration = duration /\ r.timestamp = timestamp
  BY DEF Attributes, DecayItem

\* The remaining duration is a number.
LEMMA DurationIsNat ==
    ASSUME NEW it \in DecayItem, now \in Nat
    PROVE  getDuration(it) \in Nat
  BY DEF getDuration, DecayItem

\* The parts of a state that operations compute on.
LEMMA WorkParts ==
    ASSUME NEW s \in DecayWork
    PROVE  /\ s.it \in DecayItem /\ s.map \subseteq DecayEntry /\ s.event \in Nat /\ s.orphans \subseteq Nat
           /\ s.it.state \in DecayStates /\ s.it.duration \in Nat /\ s.it.timestamp \in Nat
           /\ s.it.type \in DOMAIN ItemTypes
  BY DEF DecayWork, DecayItem

\* Another item and another map, with the same checks.
LEMMA WithItemFacts ==
    ASSUME NEW s \in DecayWork, NEW it \in DecayItem, NEW map \in SUBSET DecayEntry
    PROVE  LET r == WithItem(s, it, map)
           IN  /\ r \in DecayWork /\ r.it = it /\ r.map = map /\ r.event = s.event /\ r.orphans = s.orphans
               /\ PendingIn(r) = PendingIn(s)
  BY DEF WithItem, DecayWork, PendingIn

\* Entries that are taken away make no check late.
LEMMA TimelyShrinks ==
    ASSUME NEW map, NEW less, less \subseteq map, NEW pending, Timely(map, pending)
    PROVE  Timely(less, pending)
  BY DEF Timely

\* An item whose state is replaced stays sound if it has not lost its place and is marked only if it was.
LEMMA ReplaceKeeps ==
    ASSUME NEW s, NEW i \in Items, NEW B, SoundWork(s, i, B), NEW it \in DecayItem, it.alive,
           it.timestamp = s.it.timestamp, it.state = "true" => s.it.state = "true"
    PROVE  SoundWork(WithItem(s, it, s.map), i, B)
<1> DEFINE r == WithItem(s, it, s.map)
<1>1. s \in DecayWork /\ s.map \in SUBSET DecayEntry
  BY WorkParts DEF SoundWork
<1>2. r \in DecayWork /\ r.it = it /\ r.map = s.map /\ PendingIn(r) = PendingIn(s)
  BY <1>1, WithItemFacts
<1> HIDE DEF r
<1>3. OneEntryOf(r, i) /\ MarkTracked(r, i, B) /\ OthersKept(r, i)
  BY <1>2 DEF SoundWork, OneEntryOf, MarkTracked, OthersKept
<1> QED
  BY <1>2, <1>3 DEF SoundWork, r

\* Decay::stopDecay leaves no entry of the item.
LEMMA DecayStopKeeps ==
    ASSUME NEW s, NEW i \in Items, NEW B, SoundWork(s, i, B), now \in Nat
    PROVE  /\ SoundWork(DecayStop(s, i), i, B) /\ DecayStop(s, i).it.type = s.it.type
           /\ \A t \in Nat : <<t, i>> \notin DecayStop(s, i).map
           /\ DecayStop(s, i).it.state = "true" => i \in B
<1> DEFINE entry == <<s.it.timestamp, i>>
           it == Attributes(s.it, "absent", IF s.it.duration # NoAttr THEN getDuration(s.it) ELSE NoAttr,
                            s.it.timestamp)
           map == s.map \ {entry}
           r == WithItem(s, it, map)
<1>1. s \in DecayWork /\ s.map \subseteq DecayEntry /\ s.it \in DecayItem /\ s.it.timestamp \in Nat
  BY WorkParts DEF SoundWork
<1>2. CASE entry \notin s.map
  <2>1. DecayStop(s, i) = s
    BY <1>2 DEF DecayStop
  <2>2. \A t \in Nat : <<t, i>> \notin s.map
    BY <1>2 DEF SoundWork, OneEntryOf
  <2>3. s.it.state = "true" => i \in B
    BY <1>2 DEF SoundWork, MarkTracked
  <2> QED
    BY <2>1, <2>2, <2>3
<1>3. CASE entry \in s.map
  <2>1. DecayStop(s, i) = r
    BY <1>3 DEF DecayStop
  <2>2. it \in DecayItem /\ it.alive /\ it.timestamp = s.it.timestamp /\ it.state = "absent" /\ it.type = s.it.type
    <3> DEFINE d == IF s.it.duration # NoAttr THEN getDuration(s.it) ELSE NoAttr
    <3>1. d \in Nat /\ "absent" \in DecayStates
      BY <1>1, DurationIsNat DEF NoAttr, DecayStates
    <3>2. s.it.alive
      BY DEF SoundWork
    <3> HIDE DEF d
    <3> DEFINE x == s.it
               u == s.it.timestamp
    <3>3. it = Attributes(x, "absent", d, u) /\ x \in DecayItem /\ u \in Nat /\ x.alive
      BY <1>1, <3>2 DEF d
    <3> HIDE DEF it, x, u
    <3>4. it \in DecayItem /\ it.alive /\ it.timestamp = u /\ it.state = "absent" /\ it.type = x.type
      BY <3>1, <3>3, AttributesFacts
    <3> QED
      BY <3>4 DEF x, u
  <2> HIDE DEF it
  <2>3. map \subseteq s.map /\ map \in SUBSET DecayEntry /\ IsFiniteSet(map)
    BY <1>1, FS_Subset DEF SoundWork
  <2>4. (\A t \in Nat : <<t, i>> \notin map) /\ \A t \in Nat, j \in Items \ {i} : <<t, j>> \in map <=> <<t, j>> \in s.map
    BY DEF SoundWork, OneEntryOf
  <2> HIDE DEF map
  <2>5. r \in DecayWork /\ r.it = it /\ r.map = map /\ PendingIn(r) = PendingIn(s)
    BY <1>1, <2>2, <2>3, WithItemFacts
  <2> HIDE DEF r
  <2>6. OneEntryOf(r, i) /\ MarkTracked(r, i, B) /\ OthersKept(r, i)
    BY <2>2, <2>4, <2>5 DEF SoundWork, OneEntryOf, MarkTracked, OthersKept
  <2>7. checking \/ Timely(r.map, PendingIn(r))
    BY <2>3, <2>5, TimelyShrinks DEF SoundWork
  <2> QED
    BY <2>1, <2>2, <2>3, <2>4, <2>5, <2>6, <2>7 DEF SoundWork
<1> QED
  BY <1>2, <1>3

\* Game::stopDecay: without an entry the timestamp may be forgotten.
LEMMA StopDecayKeeps ==
    ASSUME NEW s, NEW i \in Items, NEW B, SoundWork(s, i, B), now \in Nat
    PROVE  SoundWork(StopDecay(s, i), i, B)
<1> DEFINE r == DecayStop(s, i)
           a == Attributes(r.it, r.it.state, r.it.duration, NoAttr)
           b == Attributes(s.it, "absent", s.it.duration, NoAttr)
           w == WithItem(r, a, r.map)
<1>1. SoundWork(r, i, B) /\ (\A t \in Nat : <<t, i>> \notin r.map) /\ (r.it.state = "true" => i \in B)
  BY DecayStopKeeps
<1>2. r \in DecayWork /\ r.it.alive /\ s \in DecayWork /\ s.it.alive
  BY <1>1 DEF SoundWork
<1>3. CASE s.it.state # "absent" /\ s.it.timestamp # NoAttr
  <2>1. StopDecay(s, i) = w
    BY <1>3 DEF StopDecay
  <2> HIDE DEF r
  <2>2. a \in DecayItem /\ a.alive /\ a.state = r.it.state /\ r.map \in SUBSET DecayEntry
    BY <1>2, WorkParts, AttributesFacts DEF NoAttr
  <2> HIDE DEF a
  <2>3. w \in DecayWork /\ w.it = a /\ w.map = r.map /\ PendingIn(w) = PendingIn(r)
    BY <1>2, <2>2, WithItemFacts
  <2> HIDE DEF w
  <2>4. OneEntryOf(w, i) /\ MarkTracked(w, i, B) /\ OthersKept(w, i)
    BY <1>1, <2>2, <2>3 DEF SoundWork, OneEntryOf, MarkTracked, OthersKept
  <2> QED
    BY <1>1, <2>1, <2>2, <2>3, <2>4 DEF SoundWork
<1>4. CASE s.it.state # "absent" /\ s.it.timestamp = NoAttr
  <2>1. StopDecay(s, i) = WithItem(s, b, s.map)
    BY <1>4 DEF StopDecay
  <2>2. b \in DecayItem /\ b.alive /\ b.state = "absent" /\ b.timestamp = s.it.timestamp
    <3> DEFINE x == s.it
               y == s.it.duration
               z == NoAttr
    <3>1. x \in DecayItem /\ y \in Nat /\ "absent" \in DecayStates /\ x.alive /\ z \in Nat
      BY <1>2, WorkParts DEF DecayStates, NoAttr
    <3>2. b = Attributes(x, "absent", y, z) /\ x.timestamp = z
      BY <1>4
    <3> HIDE DEF b, x, y, z
    <3>3. b \in DecayItem /\ b.alive /\ b.state = "absent" /\ b.timestamp = x.timestamp
      BY <3>1, <3>2, AttributesFacts
    <3> QED
      BY <3>3 DEF x
  <2> HIDE DEF b
  <2> QED
    BY <2>1, <2>2, ReplaceKeeps
<1>5. CASE s.it.state = "absent"
  BY <1>5 DEF StopDecay
<1> QED
  BY <1>3, <1>4, <1>5

\* The earliest timestamp of a map.
LEMMA FirstFacts ==
    ASSUME NEW map \in SUBSET DecayEntry, map # {}
    PROVE  /\ First(map) \in Nat /\ \A e \in map : First(map) <= e[1]
           /\ \E e \in map : First(map) = e[1]
<1> DEFINE T == {e[1] : e \in map}
<1>1. T \in SUBSET Nat /\ T # {}
  BY DEF DecayEntry
<1>2. PICK x \in T : \A y \in T : x <= y
  <2> HIDE DEF T
  <2> QED
    BY <1>1, NatMin
<1>3. First(map) \in T /\ \A y \in T : First(map) <= y
  <2>1. First(map) = CHOOSE z \in T : \A y \in T : z <= y
    BY DEF First, Min
  <2> HIDE DEF T
  <2> QED
    BY <1>2, <2>1
<1>4. \A e \in map : e[1] \in T
  OBVIOUS
<1>5. \A y \in T : \E e \in map : y = e[1]
  OBVIOUS
<1> HIDE DEF T
<1> QED
  BY <1>1, <1>3, <1>4, <1>5

\* A check for the earliest of all, or the checks there were for an earlier one, come in time.
LEMMA AddIsTimely ==
    ASSUME now \in Nat, NEW map \in SUBSET DecayEntry, NEW pending \in SUBSET Nat, NEW d \in Nat, NEW t, t = now + d,
           NEW i \in Items, NEW more \in SUBSET Nat,
           \/ now + Clamped(d) \in more /\ (map = {} \/ t < First(map))
           \/ pending \subseteq more /\ map # {} /\ ~(t < First(map)) /\ Timely(map, pending)
    PROVE  Timely(map \cup {<<t, i>>}, more)
<1>0. MIN_TASK_INTERVAL \in Nat \ {0} /\ t \in Nat
  BY DecayConstants
<1>1. \A e \in map : e[1] \in Nat
  BY DEF DecayEntry
<1>2. CASE now + Clamped(d) \in more /\ (map = {} \/ t < First(map))
  <2>1. now + Clamped(d) <= t + MIN_TASK_INTERVAL /\ now + Clamped(d) \in Nat
    BY <1>0 DEF Clamped
  <2>2. \A e \in map : t <= e[1]
    BY <1>0, <1>1, <1>2, FirstFacts
  <2> HIDE DEF Clamped
  <2>3. \A e \in map \cup {<<t, i>>} : now + Clamped(d) <= e[1] + MIN_TASK_INTERVAL
    BY <1>0, <1>1, <2>1, <2>2
  <2> QED
    BY <1>2, <2>3 DEF Timely
<1>3. CASE pending \subseteq more /\ map # {} /\ ~(t < First(map)) /\ Timely(map, pending)
  <2>1. PICK due \in pending : \A e \in map : due <= e[1] + MIN_TASK_INTERVAL \/ due <= now + MIN_TASK_INTERVAL
    BY <1>3 DEF Timely
  <2>2. PICK e \in map : First(map) = e[1]
    BY <1>3, FirstFacts
  <2>3. due \in Nat /\ e[1] <= t
    BY <1>0, <1>1, <1>3, <2>2
  <2>4. due <= t + MIN_TASK_INTERVAL \/ due <= now + MIN_TASK_INTERVAL
    BY <1>0, <1>1, <2>1, <2>2, <2>3
  <2>5. \A x \in map \cup {<<t, i>>} : due <= x[1] + MIN_TASK_INTERVAL \/ due <= now + MIN_TASK_INTERVAL
    BY <2>1, <2>4
  <2> QED
    BY <1>3, <2>5 DEF Timely
<1> QED
  BY <1>2, <1>3

\* The due time of a new check; the one there was is cancelled or stays behind.
LEMMA ScheduleFacts ==
    ASSUME NEW s \in DecayWork, NEW stop, NEW due \in Nat \ {0}
    PROVE  LET r == Schedule(s, stop, due)
           IN  r \in DecayWork /\ r.it = s.it /\ r.map = s.map /\ due \in PendingIn(r)
<1> DEFINE o == IF stop \/ s.event = NoAttr THEN s.orphans ELSE s.orphans \cup {s.event}
           r == WithChecks(s, due, o)
<1>1. Schedule(s, stop, due) = r
  BY DEF Schedule
<1>2. o \in SUBSET Nat
  BY WorkParts
<1> HIDE DEF o
<1>3. r \in DecayWork /\ r.it = s.it /\ r.map = s.map /\ r.event = due
  BY <1>2 DEF WithChecks, DecayWork
<1> HIDE DEF r
<1> QED
  BY <1>1, <1>3 DEF PendingIn, NoAttr

\* Decay::startDecay.
LEMMA DecayStartKeeps ==
    ASSUME NEW s0, NEW i \in Items, NEW B, SoundWork(s0, i, B), now \in Nat \ {0}, NEW d \in Nat
    PROVE  SoundWork(DecayStart(s0, i, d), i, B)
<1> DEFINE s == IF s0.it.timestamp # NoAttr THEN DecayStop(s0, i) ELSE s0
           t == now + d
           moved == s.map = {} \/ t < First(s.map)
           r == IF moved THEN Schedule(s, s.map # {}, now + Clamped(d)) ELSE s
           a == Attributes(r.it, "true", r.it.duration, t)
           w == WithItem(r, a, r.map \cup {<<t, i>>})
<1>1. DecayStart(s0, i, d) = w
  BY DEF DecayStart
<1>2. SoundWork(s, i, B) /\ \A u \in Nat : <<u, i>> \notin s.map
  <2>1. CASE s0.it.timestamp # NoAttr
    BY <2>1, DecayStopKeeps
  <2>2. CASE s0.it.timestamp = NoAttr
    <3>1. s0.map \subseteq DecayEntry
      BY WorkParts DEF SoundWork
    <3> QED
      BY <2>2, <3>1 DEF SoundWork, OneEntryOf, NoAttr, DecayEntry
  <2> QED
    BY <2>1, <2>2
<1> HIDE DEF s
<1>3. s \in DecayWork /\ s.map \in SUBSET DecayEntry /\ s.it.alive /\ IsFiniteSet(s.map)
  BY <1>2, WorkParts DEF SoundWork
<1>4. t \in Nat \ {0} /\ now + Clamped(d) \in Nat \ {0}
  BY DecayConstants DEF Clamped
<1>5. r \in DecayWork /\ r.it = s.it /\ r.map = s.map /\ (moved => now + Clamped(d) \in PendingIn(r)) /\ (~moved => r = s)
  <2> HIDE DEF moved
  <2> QED
    BY <1>3, <1>4, ScheduleFacts
<1> HIDE DEF r
<1>6. a \in DecayItem /\ a.alive /\ a.timestamp = t /\ a.state = "true"
  <2> DEFINE x == r.it
             y == r.it.duration
  <2>1. x \in DecayItem /\ y \in Nat /\ "true" \in DecayStates /\ x.alive
    BY <1>3, <1>5, WorkParts DEF DecayStates
  <2>2. t \in Nat /\ a = Attributes(x, "true", y, t)
    BY <1>4
  <2> HIDE DEF a, t, x, y
  <2> QED
    BY <2>1, <2>2, AttributesFacts
<1> HIDE DEF a
<1>7. <<t, i>> \in DecayEntry
  BY <1>4 DEF DecayEntry
<1>8. w \in DecayWork /\ w.it = a /\ w.map = s.map \cup {<<t, i>>} /\ PendingIn(w) = PendingIn(r)
  <2>1. r.map \cup {<<t, i>>} \in SUBSET DecayEntry
    BY <1>3, <1>5, <1>7
  <2> QED
    BY <1>5, <1>6, <2>1, WithItemFacts
<1> HIDE DEF w
<1>9. IsFiniteSet(w.map)
  <2> DEFINE x == <<t, i>>
             S == s.map
  <2>1. w.map = S \cup {x} /\ IsFiniteSet(S)
    BY <1>3, <1>8
  <2> HIDE DEF x, S
  <2> QED
    BY <2>1, FS_AddElement
<1>10. OneEntryOf(w, i) /\ MarkTracked(w, i, B) /\ OthersKept(w, i)
  <2>1. OneEntryOf(w, i)
    BY <1>2, <1>6, <1>8 DEF OneEntryOf
  <2>2. MarkTracked(w, i, B)
    BY <1>6, <1>8 DEF MarkTracked
  <2>3. OthersKept(w, i)
    BY <1>2, <1>8 DEF OthersKept, SoundWork
  <2> QED
    BY <2>1, <2>2, <2>3
<1>11. checking \/ Timely(w.map, PendingIn(w))
  <2>1. PendingIn(r) \in SUBSET Nat /\ PendingIn(s) \in SUBSET Nat
    BY <1>3, <1>5, WorkParts DEF PendingIn
  <2>2. CASE moved
    <3> DEFINE T == t
    <3>1. T = now + d /\ now + Clamped(d) \in PendingIn(r) /\ (s.map = {} \/ T < First(s.map))
      BY <1>5, <2>2
    <3> HIDE DEF T
    <3>2. Timely(s.map \cup {<<T, i>>}, PendingIn(r))
      BY <1>3, <2>1, <3>1, AddIsTimely
    <3> QED
      BY <1>8, <3>2 DEF T
  <2>3. CASE ~moved /\ ~checking
    <3> DEFINE T == t
    <3>1. T = now + d /\ s.map # {} /\ ~(T < First(s.map)) /\ Timely(s.map, PendingIn(s))
      BY <1>2, <2>3 DEF SoundWork
    <3> HIDE DEF T
    <3>2. Timely(s.map \cup {<<T, i>>}, PendingIn(s))
      BY <1>3, <2>1, <3>1, AddIsTimely
    <3> QED
      BY <1>5, <1>8, <2>3, <3>2 DEF T
  <2> QED
    BY <2>2, <2>3
<1> QED
  BY <1>1, <1>6, <1>8, <1>9, <1>10, <1>11 DEF SoundWork

\* Item::setID keeps the timestamp and marks nothing as decaying.
LEMMA SetIDFacts ==
    ASSUME NEW it \in DecayItem, it.alive, NEW t \in DOMAIN ItemTypes
    PROVE  LET r == SetID(it, t)
           IN  /\ r \in DecayItem /\ r.alive /\ r.timestamp = it.timestamp
               /\ r.state = "true" => it.state = "true"
<1> DEFINE new == ItemTypes[t]
           old == ItemTypes[it.type]
           a == [it EXCEPT !.type = t]
           state == IF a.state # "absent" THEN "stopping" ELSE "absent"
           cleared == new.time = 0 /\ ~new.stopTime /\ new.decayTo = "never"
           b == IF cleared THEN Attributes(a, state, NoAttr, a.timestamp) ELSE a
           renewed == new.time > 0 /\ (~old.stopTime \/ b.duration = NoAttr)
           r == IF renewed THEN Attributes(b, "pending", new.time, b.timestamp) ELSE b
<1>1. SetID(it, t) = r
  BY DEF SetID
<1>2. new.time \in Nat
  BY DecayConstants DEF TypeRecord
<1>3. a \in DecayItem /\ a.alive /\ a.timestamp = it.timestamp /\ a.state = it.state /\ a.timestamp \in Nat
  BY DEF DecayItem
<1> HIDE DEF a, new
<1>4. state \in DecayStates /\ state # "true" /\ "pending" \in DecayStates /\ NoAttr \in Nat
  BY DEF DecayStates, NoAttr
<1> HIDE DEF state, cleared
<1>5. b \in DecayItem /\ b.alive /\ b.timestamp = it.timestamp /\ (b.state = "true" => it.state = "true")
  <2> DEFINE c == Attributes(a, state, NoAttr, a.timestamp)
             z == NoAttr
             u == a.timestamp
  <2>1. c = Attributes(a, state, z, u) /\ z \in Nat /\ u \in Nat /\ a \in DecayItem /\ state \in DecayStates
    BY <1>3, <1>4
  <2>2. b = IF cleared THEN c ELSE a
    OBVIOUS
  <2> HIDE DEF c, z, b
  <2>3. c \in DecayItem /\ c.alive = a.alive /\ c.timestamp = u /\ c.state = state
    <3> HIDE DEF u
    <3> QED
      BY <2>1, AttributesFacts
  <2> QED
    BY <1>3, <1>4, <2>2, <2>3
<1> HIDE DEF b, renewed
<1>6. r \in DecayItem /\ r.alive /\ r.timestamp = it.timestamp /\ (r.state = "true" => it.state = "true")
  <2> DEFINE c == Attributes(b, "pending", new.time, b.timestamp)
             z == new.time
             u == b.timestamp
  <2>1. c = Attributes(b, "pending", z, u) /\ z \in Nat /\ u \in Nat /\ b \in DecayItem /\ "pending" \in DecayStates
    BY <1>2, <1>3, <1>4, <1>5
  <2>2. r = IF renewed THEN c ELSE b
    OBVIOUS
  <2> HIDE DEF c, z, r
  <2>3. c \in DecayItem /\ c.alive = b.alive /\ c.timestamp = u /\ c.state = "pending"
    <3> HIDE DEF u
    <3> QED
      BY <2>1, AttributesFacts
  <2> QED
    BY <1>5, <2>2, <2>3
<1> QED
  BY <1>1, <1>6

\* The id of the item is replaced.
LEMMA SetIDKeeps ==
    ASSUME NEW s, NEW i \in Items, NEW B, SoundWork(s, i, B), NEW t \in DOMAIN ItemTypes
    PROVE  SoundWork(WithItem(s, SetID(s.it, t), s.map), i, B)
<1>1. s.it \in DecayItem /\ s.it.alive
  BY WorkParts DEF SoundWork
<1> DEFINE it == SetID(s.it, t)
<1>2. it \in DecayItem /\ it.alive /\ it.timestamp = s.it.timestamp /\ (it.state = "true" => s.it.state = "true")
  BY <1>1, SetIDFacts
<1> HIDE DEF it
<1>3. SoundWork(WithItem(s, it, s.map), i, B)
  BY <1>2, ReplaceKeeps
<1> QED
  BY <1>3 DEF it

\* internalRemoveItem.
LEMMA RemoveKeeps ==
    ASSUME NEW s, NEW i \in Items, NEW B, SoundWork(s, i, B), now \in Nat
    PROVE  SoundWork(Remove(s, i), i, B)
<1> DEFINE it == [s.it EXCEPT !.removed = TRUE]
<1>1. s.it \in DecayItem /\ s.it.alive
  BY WorkParts DEF SoundWork
<1>2. it \in DecayItem /\ it.alive /\ it.timestamp = s.it.timestamp /\ it.state = s.it.state
  BY <1>1 DEF DecayItem
<1>3. Remove(s, i) = StopDecay(WithItem(s, it, s.map), i)
  BY DEF Remove
<1> HIDE DEF it
<1>4. SoundWork(WithItem(s, it, s.map), i, B)
  BY <1>2, ReplaceKeeps
<1> QED
  BY <1>3, <1>4, StopDecayKeeps

\* Game::startDecay, whatever becomes of an item without duration.
LEMMA StartWithKeeps ==
    ASSUME NEW s, NEW i \in Items, NEW B, SoundWork(s, i, B), now \in Nat \ {0}, NEW decayed,
           canDecay(s.it) => SoundWork(decayed, i, B)
    PROVE  SoundWork(StartDecayWith(s, i, decayed), i, B)
<1>1. s.it.duration \in Nat
  BY WorkParts DEF SoundWork
<1>2. SoundWork(StopDecay(s, i), i, B) /\ SoundWork(DecayStart(s, i, s.it.duration), i, B)
  BY <1>1, StopDecayKeeps, DecayStartKeeps
<1> QED
  BY <1>2 DEF StartDecayWith

\* internalDecayItem.
LEMMA DecayItemKeeps ==
    ASSUME NEW s, NEW i \in Items, NEW B, SoundWork(s, i, B), now \in Nat \ {0}, canDecay(s.it)
    PROVE  SoundWork(internalDecayItem(s, i), i, B)
<1> DEFINE next == ItemTypes[s.it.type].decayTo
           t == WithItem(s, SetID(s.it, next), s.map)
<1>1. s.it.type \in DOMAIN ItemTypes
  BY WorkParts DEF SoundWork
<1>2. next \in DOMAIN ItemTypes \cup {"gone"}
  <2>1. next \in DOMAIN ItemTypes \cup {"gone", "never"}
    BY <1>1, DecayConstants DEF TypeRecord
  <2>2. next # "never"
    BY DEF canDecay
  <2> QED
    BY <2>1, <2>2
<1>3. internalDecayItem(s, i) = IF next = "gone" THEN Remove(s, i) ELSE StartDecayWith(t, i, Remove(t, i))
  BY DEF internalDecayItem
<1>4. SoundWork(Remove(s, i), i, B)
  BY RemoveKeeps
<1>5. ASSUME next # "gone" PROVE SoundWork(StartDecayWith(t, i, Remove(t, i)), i, B)
  <2>1. SoundWork(t, i, B)
    <3> HIDE DEF next
    <3> QED
      BY <1>2, <1>5, SetIDKeeps
  <2> HIDE DEF t
  <2> QED
    BY <2>1, RemoveKeeps, StartWithKeeps
<1> HIDE DEF next, t
<1> QED
  BY <1>3, <1>4, <1>5

\* Game::startDecay.
LEMMA StartDecayKeeps ==
    ASSUME NEW s, NEW i \in Items, NEW B, SoundWork(s, i, B), now \in Nat \ {0}
    PROVE  SoundWork(StartDecay(s, i), i, B)
  BY DecayItemKeeps, StartWithKeeps DEF StartDecay

\* What an operation leaves, when it leaves the other items of the batch there.
LEMMA LeavesKeeps ==
    ASSUME DecayInv, NEW i \in Items, NEW s, NEW B, SoundWork(s, i, B), Leaves(i, s), UNCHANGED <<checking, now>>,
           batch' \in Seq(Items), B \subseteq InBatch(batch'), InBatch(batch) \subseteq InBatch(batch') \cup {i},
           ~checking => batch' = <<>>
    PROVE  DecayInv'
<1>1. /\ item \in [Items -> DecayItem] /\ now \in Nat \ {0} /\ checking \in BOOLEAN
      /\ \A j \in Items : item[j].alive => \A t \in Nat : <<t, j>> \in decayMap => t = item[j].timestamp
      /\ \A j \in Items : item[j].alive /\ item[j].state = "true" =>
             j \in InBatch(batch) \/ <<item[j].timestamp, j>> \in decayMap
  BY DEF DecayInv
<1>2. /\ item' = [item EXCEPT ![i] = s.it] /\ decayMap' = s.map /\ event' = s.event /\ orphans' = s.orphans
      /\ now' = now /\ checking' = checking
  BY DEF Leaves
<1>3. s \in DecayWork /\ s.it \in DecayItem /\ s.map \subseteq DecayEntry /\ s.event \in Nat /\ s.orphans \subseteq Nat
      /\ IsFiniteSet(s.map)
  BY WorkParts DEF SoundWork
<1>4. item' \in [Items -> DecayItem] /\ item'[i] = s.it /\ \A j \in Items \ {i} : item'[j] = item[j]
  BY <1>1, <1>2, <1>3
<1>5. \A j \in Items : item'[j].alive => \A t \in Nat : <<t, j>> \in decayMap' => t = item'[j].timestamp
  BY <1>1, <1>2, <1>4 DEF SoundWork, OneEntryOf, OthersKept
<1>6. ASSUME NEW j \in Items, item'[j].alive, item'[j].state = "true"
      PROVE  j \in InBatch(batch') \/ <<item'[j].timestamp, j>> \in decayMap'
  <2>1. CASE j = i
    BY <1>2, <1>4, <1>6, <2>1 DEF SoundWork, MarkTracked
  <2>2. CASE j # i
    <3>1. item[j].timestamp \in Nat /\ item'[j] = item[j]
      BY <1>1, <1>4, <2>2 DEF DecayItem
    <3>2. j \in InBatch(batch) \/ <<item[j].timestamp, j>> \in decayMap
      BY <1>1, <1>6, <3>1
    <3> QED
      BY <1>2, <2>2, <3>1, <3>2 DEF SoundWork, OthersKept
  <2> QED
    BY <2>1, <2>2
<1>7. checking' \/ Timely(decayMap, Pending)'
  <2>1. checking \/ Timely(s.map, PendingIn(s))
    BY DEF SoundWork
  <2>2. Pending' = PendingIn(s)
    BY <1>2 DEF Pending, PendingIn
  <2>3. Timely(s.map, PendingIn(s)) => Timely(decayMap, Pending)'
    BY <1>2, <2>2 DEF Timely
  <2> QED
    BY <1>2, <2>1, <2>3
<1>8. InBatch(batch)' = InBatch(batch')
  BY DEF InBatch
<1> QED
  BY <1>1, <1>2, <1>3, <1>4, <1>5, <1>6, <1>7, <1>8 DEF DecayInv

\* What the operations start from is sound.
LEMMA BeforeIsSound ==
    ASSUME DecayInv, NEW i \in Items, item[i].alive
    PROVE  SoundWork(Before(i), i, InBatch(batch)) /\ Before(i).it = item[i] /\ Before(i).map = decayMap
<1> DEFINE s == Before(i)
<1>1. s.it = item[i] /\ s.map = decayMap /\ s.event = event /\ s.orphans = orphans /\ s \in DecayWork
  BY DEF Before, DecayInv, DecayWork
<1> HIDE DEF s
<1>2. OneEntryOf(s, i) /\ MarkTracked(s, i, InBatch(batch)) /\ OthersKept(s, i)
  BY <1>1 DEF OneEntryOf, MarkTracked, OthersKept, DecayInv
<1>3. PendingIn(s) = Pending
  BY <1>1 DEF PendingIn, Pending
<1> QED
  BY <1>1, <1>2, <1>3 DEF SoundWork, DecayInv, s

\* The operations of the game and its scripts on an item keep the invariant.
LEMMA ItemOperationsKeep ==
    ASSUME DecayInv, NEW i \in Items,
           startDecay(i) \/ stopDecay(i) \/ transformItem(i) \/ setDuration(i) \/ removeItem(i)
    PROVE  DecayInv'
<1> DEFINE B == InBatch(batch)
           s == Before(i)
<1>1. item[i].alive /\ UNCHANGED <<batch, checking, now>>
  BY DEF startDecay, stopDecay, transformItem, setDuration, removeItem, Present
<1>2. /\ now \in Nat \ {0} /\ batch' \in Seq(Items) /\ (~checking => batch' = <<>>) /\ InBatch(batch') = B
      /\ item[i] \in DecayItem
  BY <1>1 DEF DecayInv
<1>3. SoundWork(s, i, B) /\ s.it = item[i] /\ s.map = decayMap
  BY <1>1, BeforeIsSound
<1> HIDE DEF s
<1>4. ASSUME NEW r, SoundWork(r, i, B), Leaves(i, r) PROVE DecayInv'
  <2> HIDE DEF B
  <2>1. B \subseteq InBatch(batch') /\ InBatch(batch) \subseteq InBatch(batch') \cup {i}
    BY <1>2 DEF B
  <2> QED
    BY <1>1, <1>2, <1>4, <2>1, LeavesKeeps
<1> HIDE DEF B
<1>5. CASE startDecay(i)
  BY <1>2, <1>3, <1>4, <1>5, StartDecayKeeps DEF startDecay, s
<1>6. CASE stopDecay(i)
  BY <1>2, <1>3, <1>4, <1>6, StopDecayKeeps DEF stopDecay, s
<1>7. CASE transformItem(i)
  <2>1. PICK t \in DOMAIN ItemTypes : Leaves(i, StartDecay(WithItem(s, SetID(s.it, t), s.map), i))
    BY <1>3, <1>7 DEF transformItem, s
  <2>2. SoundWork(WithItem(s, SetID(s.it, t), s.map), i, B)
    BY <1>3, SetIDKeeps
  <2> QED
    BY <1>2, <1>4, <2>1, <2>2, StartDecayKeeps
<1>8. CASE setDuration(i)
  <2>1. PICK d \in Durations : Leaves(i, StartDecay(WithItem(s, Attributes(s.it, "pending", d, s.it.timestamp), s.map), i))
    BY <1>3, <1>8 DEF setDuration, s
  <2> DEFINE x == s.it
             u == s.it.timestamp
             it == Attributes(x, "pending", d, u)
  <2>2. d \in Nat /\ "pending" \in DecayStates /\ x \in DecayItem /\ u \in Nat /\ x.alive
    BY <1>1, <1>2, <1>3, DecayConstants DEF DecayStates, DecayItem
  <2>3. it \in DecayItem /\ it.alive /\ it.timestamp = s.it.timestamp /\ it.state # "true"
    <3>1. it = Attributes(x, "pending", d, u)
      OBVIOUS
    <3>2. it \in DecayItem /\ it.alive /\ it.timestamp = u /\ it.state = "pending"
      <4> HIDE DEF it, x, u
      <4> QED
        BY <2>2, <3>1, AttributesFacts
    <3> QED
      BY <2>2, <3>2
  <2>4. Leaves(i, StartDecay(WithItem(s, it, s.map), i))
    BY <2>1
  <2> HIDE DEF it
  <2>5. SoundWork(WithItem(s, it, s.map), i, B)
    BY <1>3, <2>3, ReplaceKeeps
  <2> QED
    BY <1>2, <1>4, <2>4, <2>5, StartDecayKeeps
<1>9. CASE removeItem(i)
  BY <1>2, <1>3, <1>4, <1>9, RemoveKeeps DEF removeItem, s
<1> QED
  BY <1>5, <1>6, <1>7, <1>8, <1>9

\* A destroyed item is of no concern any more.
LEMMA DestroyedKeeps ==
    ASSUME DecayInv, NEW i \in Items, Destroyed(i)
    PROVE  DecayInv'
<1> DEFINE x == [item[i] EXCEPT !.removed = TRUE]
           it == [x EXCEPT !.alive = FALSE]
<1>1. item' = [item EXCEPT ![i] = it] /\ UNCHANGED <<decayMap, event, orphans, batch, checking, now>>
  BY DEF Destroyed
<1>2. item \in [Items -> DecayItem]
  BY DEF DecayInv
<1>3. x \in DecayItem
  BY <1>2 DEF DecayItem
<1> HIDE DEF x
<1>4. it \in DecayItem /\ ~it.alive
  BY <1>3 DEF DecayItem
<1> HIDE DEF it
<1>5. item' \in [Items -> DecayItem] /\ ~item'[i].alive /\ \A j \in Items \ {i} : item'[j] = item[j]
  BY <1>1, <1>2, <1>4
<1>6. InBatch(batch)' = InBatch(batch) /\ Timely(decayMap, Pending)' = Timely(decayMap, Pending)
  BY <1>1 DEF InBatch, Timely, Pending
<1> QED
  BY <1>1, <1>5, <1>6 DEF DecayInv

\* One item of processDecayBatch.
LEMMA ProcessedKeeps ==
    ASSUME DecayInv, processDecayBatch
    PROVE  DecayInv'
<1> DEFINE i == Head(batch)
           s == Before(i)
           B == InBatch(Tail(batch))
<1>1. /\ checking /\ batch # <<>> /\ Leaves(i, Processed(s, i)) /\ batch' = Tail(batch)
      /\ checking' = checking /\ now' = now
  BY DEF processDecayBatch
<1>2. /\ batch \in Seq(Items) /\ now \in Nat \ {0} /\ item \in [Items -> DecayItem]
  BY DEF DecayInv
<1>3. i \in Items /\ Tail(batch) \in Seq(Items)
  BY <1>1, <1>2
<1>4. InBatch(batch) \subseteq B \cup {i}
  <2> SUFFICES ASSUME NEW k \in DOMAIN batch PROVE batch[k] \in B \cup {i}
    BY DEF InBatch
  <2>1. k \in 1 .. Len(batch) /\ Len(batch) \in Nat /\ DOMAIN Tail(batch) = 1 .. (Len(batch) - 1)
    BY <1>1, <1>2
  <2>2. CASE k = 1
    BY <1>2, <2>2
  <2>3. CASE k # 1
    <3>1. k - 1 \in DOMAIN Tail(batch) /\ Tail(batch)[k - 1] = batch[k]
      BY <1>1, <1>2, <2>1, <2>3
    <3> QED
      BY <3>1 DEF InBatch
  <2> QED
    BY <2>2, <2>3
<1>5. InBatch(batch') = B
  BY <1>1
<1>6. CASE ~item[i].alive
  <2>1. Processed(s, i) = s
    BY <1>6 DEF Processed, Before
  <2>2. item' = [item EXCEPT ![i] = item[i]] /\ UNCHANGED <<decayMap, event, orphans>>
    <3>1. Leaves(i, s)
      BY <1>1, <2>1
    <3>2. s.it = item[i] /\ s.map = decayMap /\ s.event = event /\ s.orphans = orphans
      BY DEF Before
    <3> HIDE DEF s, i
    <3> QED
      BY <3>1, <3>2 DEF Leaves
  <2>3. item' = item
    BY <1>2, <1>3, <2>2
  <2>4. InBatch(batch)' = B
    BY <1>1 DEF InBatch
  <2> HIDE DEF B, i
  <2>5. \A j \in Items : item'[j].alive /\ item'[j].state = "true" =>
            j \in InBatch(batch)' \/ <<item'[j].timestamp, j>> \in decayMap'
    BY <1>4, <1>6, <2>2, <2>3, <2>4 DEF DecayInv
  <2> QED
    BY <1>1, <1>3, <2>2, <2>3, <2>5 DEF DecayInv
<1>7. CASE item[i].alive
  <2>1. SoundWork(s, i, InBatch(batch)) /\ s.it = item[i]
    BY <1>3, <1>7, BeforeIsSound
  <2> HIDE DEF s
  <2>2. s.it \in DecayItem /\ s.it.alive /\ s.it.timestamp \in Nat
    BY <1>2, <1>3, <1>7, <2>1 DEF DecayItem
  <2>3. ASSUME NEW r, SoundWork(r, i, InBatch(batch)), r.it.state # "true"
        PROVE  SoundWork(r, i, B)
    BY <2>3 DEF SoundWork, MarkTracked
  <2>4. SoundWork(Processed(s, i), i, B)
    <3>1. CASE ~canDecay(s.it)
      <4> DEFINE x == s.it
                 d == getDuration(s.it)
                 u == s.it.timestamp
                 it == Attributes(x, "false", d, u)
                 r == WithItem(s, it, s.map)
      <4>1. Processed(s, i) = r
        BY <2>2, <3>1 DEF Processed
      <4>2. d \in Nat /\ x \in DecayItem /\ u \in Nat /\ x.alive /\ "false" \in DecayStates /\ it = Attributes(x, "false", d, u)
        BY <1>2, <2>2, DurationIsNat DEF DecayStates
      <4>3. it \in DecayItem /\ it.alive /\ it.timestamp = u /\ it.state = "false"
        <5> HIDE DEF it, x, u, d
        <5> QED
          BY <4>2, AttributesFacts
      <4> HIDE DEF it
      <4>4. SoundWork(r, i, InBatch(batch))
        BY <1>3, <2>1, <2>2, <4>3, ReplaceKeeps
      <4>5. r.it = it
        BY DEF WithItem
      <4> HIDE DEF r, i, B
      <4> QED
        BY <2>3, <4>1, <4>3, <4>4, <4>5
    <3>2. CASE canDecay(s.it)
      <4> DEFINE it == [s.it EXCEPT !.state = "false"]
                 r == WithItem(s, it, s.map)
      <4>1. Processed(s, i) = internalDecayItem(r, i)
        BY <2>2, <3>2 DEF Processed
      <4>2. it \in DecayItem /\ it.alive /\ it.timestamp = s.it.timestamp /\ it.state = "false"
        BY <2>2 DEF DecayItem, DecayStates
      <4>3. canDecay(it)
        BY <2>2, <3>2 DEF canDecay, DecayItem
      <4> HIDE DEF it
      <4>4. SoundWork(r, i, InBatch(batch))
        BY <1>3, <2>1, <2>2, <4>2, ReplaceKeeps
      <4>5. r.it = it
        BY DEF WithItem
      <4> HIDE DEF r, i, B
      <4>6. SoundWork(r, i, B)
        BY <2>3, <4>2, <4>4, <4>5
      <4> QED
        BY <1>2, <1>3, <4>1, <4>3, <4>5, <4>6, DecayItemKeeps
    <3> QED
      BY <3>1, <3>2
  <2> DEFINE r == Processed(s, i)
  <2>5. SoundWork(r, i, B) /\ Leaves(i, r)
    BY <1>1, <2>4 DEF s
  <2>6. batch' \in Seq(Items) /\ B \subseteq InBatch(batch') /\ InBatch(batch) \subseteq InBatch(batch') \cup {i}
    BY <1>1, <1>3, <1>4
  <2> HIDE DEF r, B, i
  <2> QED
    BY <1>1, <1>3, <2>5, <2>6, LeavesKeeps
<1> QED
  BY <1>6, <1>7

\* checkDecay: what is taken off the map is in the batch.
LEMMA CheckKeeps ==
    ASSUME DecayInv, checkDecay
    PROVE  DecayInv'
<1> DEFINE expired == {x \in decayMap : x[1] <= now}
<1>1. /\ ~checking /\ checking' = TRUE /\ item' = item /\ now' = now /\ decayMap' = decayMap \ expired
      /\ event' \in {event, NoAttr} /\ orphans' \subseteq orphans /\ batch = <<>>
  BY DEF checkDecay, DecayInv
<1>2. PICK order \in [1 .. Cardinality(expired) -> {x[2] : x \in expired}] :
          {order[k] : k \in DOMAIN order} = {x[2] : x \in expired} /\ batch' = order
  BY DEF checkDecay
<1>3. decayMap \subseteq DecayEntry /\ IsFiniteSet(decayMap) /\ expired \subseteq decayMap
  BY DEF DecayInv
<1>4. IsFiniteSet(expired) /\ IsFiniteSet(decayMap')
  BY <1>1, <1>3, FS_Subset
<1>5. Cardinality(expired) \in Nat
  BY <1>4, FS_CardinalityType
<1> HIDE DEF expired
<1>6. {x[2] : x \in expired} \subseteq Items
  BY <1>3 DEF DecayEntry
<1>7. batch' \in Seq(Items)
  BY <1>2, <1>5, <1>6
<1>8. InBatch(batch)' = {x[2] : x \in expired}
  BY <1>2 DEF InBatch
<1>9. ASSUME NEW j \in Items, item'[j].alive, item'[j].state = "true"
      PROVE  j \in InBatch(batch)' \/ <<item'[j].timestamp, j>> \in decayMap'
  <2>1. j \notin InBatch(batch)
    BY <1>1 DEF InBatch
  <2>2. <<item[j].timestamp, j>> \in decayMap
    BY <1>1, <1>9, <2>1 DEF DecayInv
  <2>3. CASE <<item[j].timestamp, j>> \in expired
    <3> DEFINE e == <<item[j].timestamp, j>>
    <3>1. e[2] = j /\ e \in expired
      BY <2>3
    <3> HIDE DEF e
    <3> QED
      BY <1>8, <3>1
  <2> QED
    BY <1>1, <2>2, <2>3
<1> QED
  BY <1>1, <1>3, <1>4, <1>7, <1>9 DEF DecayInv, NoAttr

\* scheduleNextCheck: the next check is for the earliest entry.
LEMMA EndKeeps ==
    ASSUME DecayInv, checkEnds
    PROVE  DecayInv'
<1>1. /\ batch = <<>> /\ UNCHANGED <<item, decayMap, orphans, batch, now>> /\ checking' = FALSE
      /\ event' = IF decayMap = {} THEN event ELSE NextCheck
  BY DEF checkEnds
<1>2. decayMap \in SUBSET DecayEntry /\ now \in Nat \ {0} /\ event \in Nat /\ MIN_TASK_INTERVAL \in Nat \ {0}
  BY DecayConstants DEF DecayInv
<1>3. \A e \in decayMap : e[1] \in Nat
  BY <1>2 DEF DecayEntry
<1>4. ASSUME decayMap # {}
      PROVE  NextCheck \in Nat \ {0}
             /\ \A e \in decayMap : NextCheck <= e[1] + MIN_TASK_INTERVAL \/ NextCheck <= now + MIN_TASK_INTERVAL
  <2>1. First(decayMap) \in Nat /\ \A e \in decayMap : First(decayMap) <= e[1]
    BY <1>2, <1>4, FirstFacts
  <2> DEFINE f == First(decayMap)
  <2>2. NextCheck = now + Clamped(IF f > now THEN f - now ELSE 0)
    BY DEF NextCheck
  <2> HIDE DEF f
  <2>3. f \in Nat /\ \A e \in decayMap : f <= e[1]
    BY <2>1 DEF f
  <2>4. NextCheck \in Nat \ {0} /\ (NextCheck <= f \/ NextCheck <= now + MIN_TASK_INTERVAL)
    BY <1>2, <2>2, <2>3 DEF Clamped
  <2> QED
    BY <1>2, <1>3, <2>3, <2>4
<1>5. event' \in Nat
  BY <1>1, <1>2, <1>4
<1>6. Timely(decayMap, Pending)'
  <2>1. CASE decayMap # {}
    <3>1. NextCheck \in Pending'
      BY <1>1, <1>4, <2>1 DEF Pending, NoAttr
    <3> QED
      BY <1>1, <1>4, <2>1, <3>1 DEF Timely
  <2> QED
    BY <1>1, <2>1 DEF Timely
<1> QED
  BY <1>1, <1>5, <1>6 DEF DecayInv, InBatch

\* Decay::clear: without a batch, what is marked has an entry.
LEMMA ClearKeeps ==
    ASSUME DecayInv, clear
    PROVE  DecayInv'
<1> DEFINE it(i) == [item[i] EXCEPT !.state = "absent"]
<1>1. /\ ~checking /\ event' = NoAttr /\ decayMap' = {} /\ UNCHANGED <<orphans, batch, checking, now>> /\ batch = <<>>
      /\ item' = [i \in Items |-> IF \E e \in decayMap : e[2] = i /\ item[i].alive THEN it(i) ELSE item[i]]
  BY DEF clear, DecayInv
<1>2. item \in [Items -> DecayItem]
  BY DEF DecayInv
<1>3. \A i \in Items : it(i) \in DecayItem /\ it(i).state = "absent"
  BY <1>2 DEF DecayItem, DecayStates
<1> HIDE DEF it
<1>4. item' \in [Items -> DecayItem]
  BY <1>1, <1>2, <1>3
<1>5. ASSUME NEW i \in Items, item'[i].alive PROVE item'[i].state # "true"
  <2>1. CASE \E e \in decayMap : e[2] = i /\ item[i].alive
    BY <1>1, <1>3, <2>1
  <2>2. CASE ~\E e \in decayMap : e[2] = i /\ item[i].alive
    <3>1. item'[i] = item[i] /\ item[i].alive /\ i \notin InBatch(batch)
      BY <1>1, <1>5, <2>2 DEF InBatch
    <3> DEFINE e == <<item[i].timestamp, i>>
    <3>2. e[2] = i /\ (item[i].state = "true" => e \in decayMap)
      BY <3>1 DEF DecayInv
    <3> HIDE DEF e
    <3> QED
      BY <2>2, <3>1, <3>2
  <2> QED
    BY <2>1, <2>2
<1>6. IsFiniteSet(decayMap') /\ Timely(decayMap, Pending)'
  BY <1>1, FS_EmptySet DEF Timely
<1> QED
  BY <1>1, <1>4, <1>5, <1>6 DEF DecayInv, NoAttr

\* Time passes: no check gets late that was not.
LEMMA ClockKeeps ==
    ASSUME DecayInv, now' = now + 1 \/ now' = now, UNCHANGED <<item, decayMap, event, orphans, batch, checking>>
    PROVE  DecayInv'
<1>1. now' \in Nat \ {0} /\ now <= now' /\ now \in Nat /\ MIN_TASK_INTERVAL \in Nat
  BY DecayConstants DEF DecayInv
<1>2. Pending' = Pending /\ Pending \subseteq Nat /\ InBatch(batch)' = InBatch(batch)
  BY DEF Pending, DecayInv, InBatch
<1>3. Timely(decayMap, Pending) => Timely(decayMap, Pending)'
  <2>1. \A due \in Pending : due <= now + MIN_TASK_INTERVAL => due <= now' + MIN_TASK_INTERVAL
    <3> SUFFICES ASSUME NEW due \in Pending, due <= now + MIN_TASK_INTERVAL PROVE due <= now' + MIN_TASK_INTERVAL
      OBVIOUS
    <3>1. due \in Nat
      BY <1>2
    <3>2. \A a, b, c, m \in Nat : a <= b + m /\ b <= c => a <= c + m
      OBVIOUS
    <3> QED
      BY <1>1, <3>1, <3>2
  <2> QED
    BY <1>2, <2>1 DEF Timely
<1> QED
  BY <1>1, <1>2, <1>3 DEF DecayInv

\* DecayInv is inductive.
LEMMA DecayStep == DecayInv /\ [DecayNext]_decayVars => DecayInv'
<1> SUFFICES ASSUME DecayInv, [DecayNext]_decayVars PROVE DecayInv'
  OBVIOUS
<1>1. CASE UNCHANGED decayVars
  BY <1>1, ClockKeeps DEF decayVars
<1>2. CASE Clock
  BY <1>2, ClockKeeps DEF Clock
<1>3. CASE \E i \in Items : startDecay(i) \/ stopDecay(i) \/ transformItem(i) \/ setDuration(i) \/ removeItem(i)
  BY <1>3, ItemOperationsKeep
<1>4. CASE \E i \in Items : Destroyed(i)
  BY <1>4, DestroyedKeeps
<1>5. CASE checkDecay \/ processDecayBatch \/ checkEnds \/ clear
  BY <1>5, CheckKeeps, ProcessedKeeps, EndKeeps, ClearKeeps
<1> QED
  BY <1>1, <1>2, <1>3, <1>4, <1>5 DEF DecayNext

\* For every number of items, every table of item types and every schedule of scripts: an item has one
\* entry in decayMap at most, one that is marked as decaying has an entry or is in the batch, and a
\* check is due in time (src/src/decay.cpp, src/src/game.cpp).
THEOREM DecayIsTrackedTheorem == DecaySpec => []DecayIsTracked
<1>1. DecayInit => DecayInv
  <2> SUFFICES ASSUME DecayInit PROVE DecayInv
    OBVIOUS
  <2>1. \A t \in DOMAIN ItemTypes : Loaded(t) \in DecayItem /\ Loaded(t).state = "absent"
    BY DecayConstants DEF Loaded, DecayItem, DecayStates, TypeRecord, NoAttr
  <2>2. item \in [Items -> {Loaded(t) : t \in DOMAIN ItemTypes}]
    BY DEF DecayInit
  <2>3. item \in [Items -> DecayItem] /\ \A i \in Items : item[i].state = "absent"
    <3> DEFINE L == {Loaded(t) : t \in DOMAIN ItemTypes}
    <3>1. \A x \in L : x \in DecayItem /\ x.state = "absent"
      BY <2>1
    <3>2. item \in [Items -> L]
      BY <2>2
    <3> HIDE DEF L
    <3> QED
      BY <3>1, <3>2
  <2>4. decayMap = {} /\ event = 0 /\ orphans = {} /\ batch = <<>> /\ checking = FALSE /\ now = 1
    BY DEF DecayInit, NoAttr
  <2>5. IsFiniteSet(decayMap)
    BY <2>4, FS_EmptySet
  <2>6. batch \in Seq(Items) /\ checking \in BOOLEAN /\ now \in Nat \ {0}
    <3>1. batch \in Seq(Items) /\ now \in Nat \ {0}
      BY <2>4
    <3>2. checking \in BOOLEAN
      BY <2>4, Zenon
    <3> QED
      BY <3>1, <3>2
  <2>7. Timely(decayMap, Pending)
    BY <2>4 DEF Timely
  <2> QED
    BY <2>3, <2>4, <2>5, <2>6, <2>7 DEF DecayInv
<1>2. DecayInv => DecayIsTracked
  <2> SUFFICES ASSUME DecayInv PROVE DecayIsTracked
    OBVIOUS
  <2>1. item \in [Items -> DecayItem] /\ decayMap \in SUBSET DecayEntry /\ event \in Nat /\ orphans \subseteq Nat
        /\ now \in Nat \ {0}
    BY DEF DecayInv
  <2>2. DecayTypeOK
    <3>1. \A x \in DecayItem : x.type \in DOMAIN ItemTypes /\ x.state \in DecayStates
      BY DEF DecayItem
    <3>2. DecayEntry \subseteq Nat \X Items
      BY DEF DecayEntry
    <3> QED
      BY <2>1, <3>1, <3>2 DEF DecayTypeOK, DecayStates
  <2>3. OneEntry
    <3> SUFFICES ASSUME NEW e \in decayMap, item[e[2]].alive PROVE item[e[2]].timestamp = e[1]
      BY DEF OneEntry
    <3>1. e[1] \in Nat /\ e[2] \in Items /\ e = <<e[1], e[2]>>
      BY <2>1 DEF DecayEntry
    <3> QED
      BY <3>1 DEF DecayInv
  <2>4. MarkedIsTracked
    BY DEF MarkedIsTracked, DecayInv, InBatch
  <2>5. CheckIsDue
    <3> SUFFICES ASSUME decayMap # {}, ~checking
                 PROVE  \E due \in Pending : due <= Max({First(decayMap), now}) + MIN_TASK_INTERVAL
      BY DEF CheckIsDue
    <3>1. PICK due \in Pending : \A e \in decayMap : due <= e[1] + MIN_TASK_INTERVAL \/ due <= now + MIN_TASK_INTERVAL
      BY DEF DecayInv, Timely
    <3>2. PICK e \in decayMap : First(decayMap) = e[1]
      BY <2>1, FirstFacts
    <3> DEFINE f == First(decayMap)
    <3>3. f \in Nat /\ now \in Nat /\ due \in Nat /\ MIN_TASK_INTERVAL \in Nat
      BY <2>1, FirstFacts, DecayConstants DEF Pending
    <3>4. due <= f + MIN_TASK_INTERVAL \/ due <= now + MIN_TASK_INTERVAL
      BY <3>1, <3>2
    <3> HIDE DEF f
    <3>5. Max({f, now}) = IF f >= now THEN f ELSE now
      BY <3>3 DEF Max
    <3>6. due <= Max({f, now}) + MIN_TASK_INTERVAL
      BY <3>3, <3>4, <3>5
    <3> QED
      BY <3>6 DEF f
  <2> QED
    BY <2>2, <2>3, <2>4, <2>5 DEF DecayIsTracked
<1> QED
  BY <1>1, <1>2, DecayStep, PTL DEF DecaySpec
====
