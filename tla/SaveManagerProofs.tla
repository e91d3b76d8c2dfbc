------------------------- MODULE SaveManagerProofs -------------------------
(* Theorems about SaveManager for any set of characters, updates and callers. *)
EXTENDS SaveManager, FiniteSetTheorems, TLAPS

-----------------------------------------------------------------------------
(* The types of what the helpers of the module leave behind.                *)

Trackers == [count : Nat, saving : BOOLEAN]

\* Begin and complete keep a natural count: fetch_sub never underflows.
LEMMA TrackerType ==
    ASSUME NEW t \in Trackers, NEW b \in BOOLEAN
    PROVE  /\ beginTrackedFlush(t) \in Trackers
           /\ completeTrackedFlush(t) \in Trackers
           /\ BeginIf(b, t) \in Trackers
           /\ CompleteIf(b, t) \in Trackers
  BY DEF Trackers, beginTrackedFlush, completeTrackedFlush, BeginIf, CompleteIf

\* The tracker is well typed whenever the variables behind it are.
LEMMA CurrentTracker ==
    ASSUME TypeOK
    PROVE  Tracker \in Trackers
  BY DEF TypeOK, Tracker, Trackers

\* Storing a well-typed tracker stores well-typed variables.
LEMMA TrackerSet ==
    ASSUME NEW t \in Trackers, SetTracker(t)
    PROVE  pendingSaveFlushes' \in Nat /\ saving' \in BOOLEAN
  BY DEF Trackers, SetTracker

\* Notifying a chain only moves registered callers to an answer.
LEMMA NotifyType ==
    ASSUME TypeOK, NEW g \in Guids, NEW success \in BOOLEAN, NotifyChain(g, success)
    PROVE  drains' \in [Waiters -> Drains]
  BY DEF TypeOK, NotifyChain, Drains, NoDrain

\* The log stays a log, whether it takes an entry or refuses it.
LEMMA WalType ==
    ASSUME TypeOK, NEW g \in Guids, NEW save \in States, WalWritten(g, save) \/ WalRefused(g)
    PROVE  wal' \in [Guids -> {None} \cup States]
  BY DEF TypeOK, WalWritten, WalRefused

QueueType ==
    /\ wal \in [Guids -> {None} \cup States]
    /\ flushInFlight \in SUBSET Guids
    /\ pendingFlushes \in [Guids -> {None} \cup PendingPlayerFlush]
    /\ flushes \in SUBSET Flushes
    /\ pendingSaveFlushes \in Nat
    /\ saving \in BOOLEAN
    /\ drains \in [Waiters -> Drains]

\* dispatchPlayerFlush keeps the types, on both of its branches.
LEMMA DispatchType ==
    ASSUME TypeOK, NEW g \in Guids, NEW p \in PendingPlayerFlush,
           NEW fs \in SUBSET Flushes, NEW t \in Trackers,
           dispatchPlayerFlush(g, p, fs, t)
    PROVE  QueueType'
<1>1. p.save \in States /\ p.tracked \in BOOLEAN
  BY DEF PendingPlayerFlush
<1>2. pendingFlushes' \in [Guids -> {None} \cup PendingPlayerFlush]
  BY DEF TypeOK, dispatchPlayerFlush
<1>3. wal' \in [Guids -> {None} \cup States]
  BY <1>1, WalType DEF dispatchPlayerFlush
<1>4. CASE WalWritten(g, p.save) /\ flushInFlight' = flushInFlight \cup {g}
           /\ flushes' = fs \cup {[guid |-> g, save |-> p.save, tracked |-> p.tracked, stage |-> "queued"]}
           /\ SetTracker(t) /\ UNCHANGED drains
  BY <1>1, <1>2, <1>3, <1>4, TrackerSet DEF TypeOK, QueueType, Flushes
<1>5. CASE WalRefused(g) /\ flushInFlight' = flushInFlight \ {g} /\ flushes' = fs
           /\ NotifyChain(g, FALSE) /\ SetTracker(CompleteIf(p.tracked, t))
  <2>1. CompleteIf(p.tracked, t) \in Trackers
    BY <1>1, TrackerType
  <2>2. pendingSaveFlushes' \in Nat /\ saving' \in BOOLEAN
    BY <1>5, <2>1, TrackerSet
  <2> QED
    BY <1>2, <1>3, <1>5, <2>2, NotifyType DEF TypeOK, QueueType
<1> QED
  BY <1>4, <1>5 DEF dispatchPlayerFlush

\* So does leaving a save to wait behind the flush.
LEMMA EnqueueType ==
    ASSUME TypeOK, NEW g \in Guids, NEW save \in States, NEW b \in BOOLEAN, Enqueue(g, save, b),
           pendingSaveFlushes' \in Nat, saving' \in BOOLEAN
    PROVE  QueueType'
  BY WalType DEF TypeOK, Enqueue, QueueType, PendingPlayerFlush

\* schedulePlayerFlush keeps the types when the character is online.
LEMMA ScheduleType ==
    ASSUME TypeOK, NEW g \in Guids, mem[g] # None, NEW b \in BOOLEAN, schedulePlayerFlush(g, b)
    PROVE  QueueType' /\ accepted' \in [Guids -> States] /\ db' = db
<1>1. mem[g] \in States /\ PendingTracked(g) \in BOOLEAN
  BY DEF TypeOK, PendingTracked, PendingPlayerFlush
<1>2. accepted' \in [Guids -> States] /\ db' = db
  BY <1>1 DEF TypeOK, schedulePlayerFlush
<1>3. Tracker \in Trackers
  BY CurrentTracker
<1>4. CASE g \in flushInFlight
  <2>1. BeginIf(b /\ ~PendingTracked(g), Tracker) \in Trackers
    BY <1>1, <1>3, TrackerType
  <2>2. pendingSaveFlushes' \in Nat /\ saving' \in BOOLEAN
    BY <1>4, <2>1, TrackerSet DEF schedulePlayerFlush
  <2>3. Enqueue(g, mem[g], PendingTracked(g) \/ b)
    BY <1>4 DEF schedulePlayerFlush
  <2> QED
    BY <1>1, <1>2, <2>2, <2>3, EnqueueType
<1>5. CASE g \notin flushInFlight
  <2>1. BeginIf(b, Tracker) \in Trackers
    BY <1>3, TrackerType
  <2>2. [save |-> mem[g], tracked |-> b] \in PendingPlayerFlush
    BY <1>1 DEF PendingPlayerFlush
  <2>3. dispatchPlayerFlush(g, [save |-> mem[g], tracked |-> b], flushes, BeginIf(b, Tracker))
    BY <1>5 DEF schedulePlayerFlush
  <2> QED
    BY <1>2, <2>1, <2>2, <2>3, DispatchType DEF TypeOK
<1> QED
  BY <1>4, <1>5

\* savePlayerSync keeps the types for any snapshot it is given.
LEMMA SyncType ==
    ASSUME TypeOK, NEW g \in Guids, NEW save \in States, savePlayerSync(g, save)
    PROVE  QueueType' /\ accepted' \in [Guids -> States] /\ db' \in [Guids -> States]
<1>1. accepted' \in [Guids -> States] /\ db' \in [Guids -> States]
  BY DEF TypeOK, savePlayerSync, disk
<1>2. pendingSaveFlushes' \in Nat /\ saving' \in BOOLEAN
  BY DEF TypeOK, savePlayerSync, tracker
<1>3. CASE g \in flushInFlight
  <2>1. PendingTracked(g) \in BOOLEAN
    BY DEF TypeOK, PendingTracked, PendingPlayerFlush
  <2>2. Enqueue(g, save, PendingTracked(g))
    BY <1>3 DEF savePlayerSync
  <2> QED
    BY <1>1, <1>2, <2>1, <2>2, EnqueueType
<1>4. CASE g \notin flushInFlight
  BY <1>1, <1>2, <1>4 DEF TypeOK, savePlayerSync, QueueType, disk, tracker
<1> QED
  BY <1>3, <1>4

-----------------------------------------------------------------------------
(* Type correctness.                                                        *)

\* Type correctness needs the phases of the dispatcher: saveAll visits players
\* that are online and runs only after startup, and startup replays entries that
\* exist.
Phases ==
    /\ saveTodo # {} => inSaveAll
    /\ inSaveAll => toRecover = {}
    /\ \A g \in saveTodo : mem[g] # None
    /\ \A g \in toRecover : wal[g] # None

TypeInv == TypeOK /\ Phases

\* A caller that waits for nothing is a legal caller.
LEMMA NoDrainType == NoDrain \in Drains
  BY DEF NoDrain, Drains

\* The fresh database and the empty process are well typed.
LEMMA TypeInit == Init => TypeInv
<1>1. {} \in States
  BY DEF States
<1>2. Init => TypeOK
  <2> SUFFICES ASSUME Init PROVE TypeOK
    OBVIOUS
  <2>1. db \in [Guids -> States] /\ accepted \in [Guids -> States]
    BY <1>1 DEF Init
  <2>2. wal \in [Guids -> {None} \cup States] /\ mem \in [Guids -> {None} \cup States]
    BY DEF Init
  <2>3. pendingFlushes \in [Guids -> {None} \cup PendingPlayerFlush]
    BY DEF Init
  <2>4. drains \in [Waiters -> Drains]
    BY NoDrainType DEF Init
  <2> QED
    BY <2>1, <2>2, <2>3, <2>4 DEF Init, TypeOK
<1>3. Init => Phases
  BY DEF Init, Phases
<1> QED
  BY <1>2, <1>3 DEF TypeInv

\* Every step keeps the types, with the phases of the dispatcher they rest on.
LEMMA TypeNext == TypeInv /\ [Next]_vars => TypeInv'
<1> SUFFICES ASSUME TypeOK, Phases, [Next]_vars
             PROVE  TypeOK' /\ Phases'
  BY DEF TypeInv
<1> USE DEF disk, queue, tracker, loop, startup
<1>1. ASSUME NEW g \in Guids, Play(g) PROVE TypeOK' /\ Phases'
  <2>1. mem' \in [Guids -> {None} \cup States]
    BY <1>1 DEF TypeOK, Play, States
  <2> QED
    BY <1>1, <2>1 DEF TypeOK, Phases, Idle, Play
<1>2. ASSUME NEW g \in Guids, savePlayer(g) PROVE TypeOK' /\ Phases'
  <2>1. QueueType' /\ accepted' \in [Guids -> States] /\ db' = db
    BY <1>2, ScheduleType DEF savePlayer
  <2> QED
    BY <1>2, <2>1 DEF TypeOK, Phases, Idle, QueueType, savePlayer
<1>3. ASSUME NEW g \in Guids, SaveOnline(g) \/ Logout(g) PROVE TypeOK' /\ Phases'
  <2>1. mem[g] \in States
    BY <1>3 DEF TypeOK, SaveOnline, Logout
  <2>2. QueueType' /\ accepted' \in [Guids -> States] /\ db' \in [Guids -> States]
    BY <1>3, <2>1, SyncType DEF SaveOnline, Logout
  <2> QED
    BY <1>3, <2>2 DEF TypeOK, Phases, Idle, QueueType, SaveOnline, Logout
<1>4. ASSUME NEW g \in Guids, SaveOffline(g) PROVE TypeOK' /\ Phases'
  <2>1. PICK u \in Updates \ db[g] : savePlayerSync(g, db[g] \cup {u})
    BY <1>4 DEF SaveOffline
  <2>2. db[g] \cup {u} \in States
    BY DEF TypeOK, States
  <2>3. QueueType' /\ accepted' \in [Guids -> States] /\ db' \in [Guids -> States]
    BY <2>1, <2>2, SyncType
  <2> QED
    BY <1>4, <2>3 DEF TypeOK, Phases, Idle, QueueType, SaveOffline
<1>5. ASSUME NEW G \in SUBSET Guids, savePlayersSync(G) PROVE TypeOK' /\ Phases'
  <2>1. \A g \in Guids, u \in Updates : db[g] \cup {u} \in States
    BY DEF TypeOK, States
  <2>2. db' \in [Guids -> States] /\ accepted' \in [Guids -> States]
    BY <1>5, <2>1 DEF TypeOK, savePlayersSync
  <2> QED
    BY <1>5, <2>2 DEF TypeOK, Phases, Idle, savePlayersSync
<1>6. ASSUME SaveAllBegin PROVE TypeOK' /\ Phases'
  BY <1>6 DEF TypeOK, Phases, Idle, SaveAllBegin
<1>7. ASSUME NEW g \in Guids, SaveAllPlayer(g) PROVE TypeOK' /\ Phases'
  <2>1. mem[g] # None /\ toRecover = {}
    BY <1>7 DEF SaveAllPlayer, Phases
  <2>2. QueueType' /\ accepted' \in [Guids -> States] /\ db' = db
    BY <1>7, <2>1, ScheduleType DEF SaveAllPlayer
  <2> QED
    BY <1>7, <2>1, <2>2 DEF TypeOK, Phases, QueueType, SaveAllPlayer
<1>8. ASSUME SaveAllEnd PROVE TypeOK' /\ Phases'
  <2>1. completeTrackedFlush(beginTrackedFlush(Tracker)) \in Trackers
    BY CurrentTracker, TrackerType
  <2>2. pendingSaveFlushes' \in Nat /\ saving' \in BOOLEAN
    BY <1>8, <2>1, TrackerSet DEF SaveAllEnd
  <2> QED
    BY <1>8, <2>2 DEF TypeOK, Phases, SaveAllEnd
<1>9. ASSUME NEW w \in Waiters, NEW g \in Guids, NEW login \in BOOLEAN,
             drainPlayerFlushAsync(w, g, login)
      PROVE  TypeOK' /\ Phases'
  BY <1>9 DEF TypeOK, Phases, drainPlayerFlushAsync, Drains
<1>10. ASSUME NEW w \in Waiters, DrainTask(w) \/ LoginTimeout(w) PROVE TypeOK' /\ Phases'
  <2>1. \A d \in Drains :
          /\ d.state = "asked" => \A st \in {"registered", "drained"} : [d EXCEPT !.state = st] \in Drains
          /\ d.login => [d EXCEPT !.login = FALSE] \in Drains
    <3>1. NoDrain.state # "asked" /\ ~NoDrain.login
      BY DEF NoDrain
    <3>2. \A d \in Drains : d # NoDrain =>
            /\ \A st \in {"registered", "drained"} : [d EXCEPT !.state = st] \in Drains
            /\ [d EXCEPT !.login = FALSE] \in Drains
      BY DEF Drains
    <3> QED
      BY <3>1, <3>2, Zenon
  <2>2. drains' \in [Waiters -> Drains]
    <3>1. PICK d \in Drains : drains' = [drains EXCEPT ![w] = d]
      <4>1. CASE DrainTask(w)
        <5>1. PICK st \in {"registered", "drained"} : drains' = [drains EXCEPT ![w].state = st]
          BY <4>1 DEF DrainTask
        <5> QED
          BY <2>1, <4>1, <5>1 DEF TypeOK, DrainTask
      <4>2. CASE LoginTimeout(w)
        BY <2>1, <4>2 DEF TypeOK, LoginTimeout
      <4> QED
        BY <1>10, <4>1, <4>2
    <3> QED
      BY <3>1 DEF TypeOK
  <2> QED
    BY <1>10, <2>2 DEF TypeOK, Phases, DrainTask, LoginTimeout
<1>11. ASSUME NEW w \in Waiters, DrainCallback(w) \/ loadPlayerById(w) \/ finishLogin(w)
       PROVE  TypeOK' /\ Phases'
  <2>1. drains[w] \in Drains /\ (drains[w].state # "none" => drains[w] # NoDrain)
    BY DEF TypeOK, NoDrain
  <2>2. drains[w] # NoDrain =>
          /\ drains[w].guid \in Guids /\ drains[w].loaded \in {None} \cup States
          /\ [drains[w] EXCEPT !.state = "loading"] \in Drains
          /\ \A p \in {None} \cup States : [drains[w] EXCEPT !.state = "loaded", !.loaded = p] \in Drains
    BY <2>1 DEF Drains
  <2>3. drains[w] # NoDrain
    BY <1>11, <2>1 DEF DrainCallback, loadPlayerById, finishLogin
  <2>4. PICK d \in Drains : drains' = [drains EXCEPT ![w] = d]
    <3>1. CASE DrainCallback(w)
      BY <2>2, <2>3, <3>1, NoDrainType DEF TypeOK, DrainCallback
    <3>2. CASE loadPlayerById(w)
      <4>1. PICK p \in {None, db[drains[w].guid]} :
              drains' = [drains EXCEPT ![w] = [drains[w] EXCEPT !.state = "loaded", !.loaded = p]]
        BY <3>2 DEF TypeOK, loadPlayerById
      <4>2. p \in {None} \cup States
        BY <2>2, <2>3 DEF TypeOK
      <4> QED
        BY <2>2, <2>3, <4>1, <4>2
    <3>3. CASE finishLogin(w)
      BY <3>3, NoDrainType DEF finishLogin
    <3> QED
      BY <1>11, <3>1, <3>2, <3>3
  <2>5. drains' \in [Waiters -> Drains]
    BY <2>4 DEF TypeOK
  <2>6. mem' = mem \/ (finishLogin(w) /\ drains[w].loaded # None /\ mem' = [mem EXCEPT ![drains[w].guid] = drains[w].loaded])
    BY <1>11 DEF DrainCallback, loadPlayerById, finishLogin
  <2>7. mem' \in [Guids -> {None} \cup States] /\ \A g \in saveTodo : mem'[g] # None
    BY <2>2, <2>3, <2>6 DEF TypeOK, Phases
  <2>8. UNCHANGED <<disk, accepted, queue, tracker, loop, startup>>
    BY <1>11 DEF DrainCallback, loadPlayerById, finishLogin
  <2> QED
    BY <2>5, <2>7, <2>8 DEF TypeOK, Phases
<1>12. ASSUME NEW g \in Guids, RunFlush(g) PROVE TypeOK' /\ Phases'
  <2>1. PICK f \in flushes : f.guid = g /\ flushPlayerSave(f)
    BY <1>12 DEF RunFlush
  <2>2. f \in Flushes
    BY DEF TypeOK
  <2>3. [f EXCEPT !.stage = "ok"] \in Flushes /\ [f EXCEPT !.stage = "failed"] \in Flushes
    BY <2>2 DEF Flushes
  <2>4. flushes' \in SUBSET Flushes
    BY <2>1, <2>3 DEF TypeOK, flushPlayerSave, FlushDone
  <2>5. db' \in [Guids -> States]
    BY <2>1, <2>2 DEF TypeOK, flushPlayerSave, Flushes
  <2> QED
    BY <2>1, <2>4, <2>5 DEF TypeOK, Phases, flushPlayerSave
<1>13. ASSUME NEW g \in Guids, RunFlushed(g) PROVE TypeOK' /\ Phases'
  <2>1. PICK f \in flushes : f.guid = g /\ onPlayerFlushed(f)
    BY <1>13 DEF RunFlushed
  <2>2. f.tracked \in BOOLEAN /\ flushes \ {f} \in SUBSET Flushes
    BY DEF TypeOK, Flushes
  <2>3. CompleteIf(f.tracked, Tracker) \in Trackers
    BY <2>2, CurrentTracker, TrackerType
  <2>4. CASE pendingFlushes[g] = None
    <3>1. pendingSaveFlushes' \in Nat /\ saving' \in BOOLEAN
      BY <2>1, <2>3, <2>4, TrackerSet DEF onPlayerFlushed
    <3>2. NotifyChain(g, f.stage = "ok")
      BY <2>1, <2>4 DEF onPlayerFlushed
    <3>3. wal' \in [Guids -> {None} \cup States]
      BY <2>1, <2>4 DEF TypeOK, onPlayerFlushed
    <3>4. QueueType'
      BY <2>1, <2>2, <2>4, <3>1, <3>2, <3>3, NotifyType DEF TypeOK, QueueType, onPlayerFlushed
    <3> QED
      BY <2>1, <3>4 DEF TypeOK, QueueType, Phases, Idle, onPlayerFlushed
  <2>5. CASE pendingFlushes[g] # None
    <3>1. pendingFlushes[g] \in PendingPlayerFlush
      BY <2>5 DEF TypeOK
    <3>2. dispatchPlayerFlush(g, pendingFlushes[g], flushes \ {f}, CompleteIf(f.tracked, Tracker))
      BY <2>1, <2>5 DEF onPlayerFlushed
    <3>3. QueueType'
      BY <2>2, <2>3, <3>1, <3>2, DispatchType
    <3> QED
      BY <2>1, <3>3 DEF TypeOK, QueueType, Phases, Idle, onPlayerFlushed
  <2> QED
    BY <2>4, <2>5
<1>14. ASSUME Crash PROVE TypeOK' /\ Phases'
  BY <1>14, NoDrainType DEF TypeOK, Phases, Crash
<1>15. ASSUME NEW g \in Guids, RecoverGuid(g) PROVE TypeOK' /\ Phases'
  <2>1. db' \in [Guids -> States] /\ wal' \in [Guids -> {None} \cup States]
    BY <1>15 DEF TypeOK, Phases, RecoverGuid
  <2> QED
    BY <1>15, <2>1 DEF TypeOK, Phases, RecoverGuid
<1>16. ASSUME NEW g \in Guids, RecoverFails(g) PROVE TypeOK' /\ Phases'
  BY <1>16 DEF TypeOK, Phases, RecoverFails
<1>17. CASE UNCHANGED vars
  BY <1>17 DEF TypeOK, Phases, vars
<1> QED
  BY <1>1, <1>2, <1>3, <1>4, <1>5, <1>6, <1>7, <1>8, <1>9, <1>10, <1>11, <1>12, <1>13,
     <1>14, <1>15, <1>16, <1>17 DEF Next, RunSaveAll, RunRecovery

\* Every variable keeps its type, whatever fails: in particular the counter of
\* tracked flushes never goes below zero and no offline character is snapshotted.
THEOREM TypeCorrect == Spec => []TypeOK
<1>1. Spec => []TypeInv
  BY TypeInit, TypeNext, PTL DEF Spec
<1>2. TypeInv => TypeOK
  BY DEF TypeInv
<1> QED
  BY <1>1, <1>2, PTL

-----------------------------------------------------------------------------
(* The flush chains.  OneFlushPerGuid is inductive only together with       *)
(* ChainConsistent: a flush is dispatched when its character is not in      *)
(* flushInFlight, and that set has to tell the truth about the pool.        *)

ChainInv == OneFlushPerGuid /\ ChainConsistent

\* Dispatching for g, when no flush of g is left, keeps the chains consistent
\* whether the log takes the entry or refuses it.
LEMMA DispatchChain ==
    ASSUME TypeOK, ChainConsistent, NEW g \in Guids, NEW p \in PendingPlayerFlush,
           NEW fs \in SUBSET flushes, NEW t \in Trackers,
           \A f1, f2 \in fs : f1.guid = f2.guid => f1 = f2,
           \A f \in fs : f.guid # g,
           flushInFlight \ {g} = {f.guid : f \in fs},
           dispatchPlayerFlush(g, p, fs, t)
    PROVE  ChainInv'
<1>1. \A h \in Guids : pendingFlushes'[h] # None => h # g /\ h \in flushInFlight
  BY DEF TypeOK, ChainConsistent, dispatchPlayerFlush
<1>2. CASE flushInFlight' = flushInFlight \cup {g} /\ UNCHANGED drains
           /\ flushes' = fs \cup {[guid |-> g, save |-> p.save, tracked |-> p.tracked, stage |-> "queued"]}
  <2> DEFINE new == [guid |-> g, save |-> p.save, tracked |-> p.tracked, stage |-> "queued"]
  <2>1. new.guid = g
    OBVIOUS
  <2> HIDE DEF new
  <2>2. flushes' = fs \cup {new}
    BY <1>2 DEF new
  <2>3. OneFlushPerGuid'
    BY <2>1, <2>2 DEF OneFlushPerGuid
  <2>4. flushInFlight' = {f.guid : f \in flushes'}
    BY <1>2, <2>1, <2>2
  <2> QED
    BY <1>1, <1>2, <2>3, <2>4 DEF ChainInv, ChainConsistent
<1>3. CASE flushInFlight' = flushInFlight \ {g} /\ flushes' = fs /\ NotifyChain(g, FALSE)
  <2>1. \A w \in Waiters : drains'[w].state = "registered" =>
            drains[w].state = "registered" /\ drains'[w].guid = drains[w].guid /\ drains[w].guid # g
    BY <1>3 DEF TypeOK, NotifyChain, Drains
  <2> QED
    BY <1>1, <1>3, <2>1 DEF ChainInv, ChainConsistent, OneFlushPerGuid
<1> QED
  BY <1>2, <1>3 DEF dispatchPlayerFlush

\* A save waits only behind a flush that is out.
LEMMA EnqueueChain ==
    ASSUME TypeOK, ChainInv, NEW g \in flushInFlight, NEW save, NEW b, Enqueue(g, save, b)
    PROVE  ChainInv'
  BY DEF TypeOK, ChainInv, OneFlushPerGuid, ChainConsistent, Enqueue

\* schedulePlayerFlush keeps the chains consistent: it dispatches only for a
\* character without a flush.
LEMMA ScheduleChain ==
    ASSUME TypeOK, ChainInv, NEW g \in Guids, mem[g] # None, NEW b \in BOOLEAN,
           schedulePlayerFlush(g, b)
    PROVE  ChainInv'
<1>1. CASE g \in flushInFlight
  BY <1>1, EnqueueChain DEF schedulePlayerFlush
<1>2. CASE g \notin flushInFlight
  <2>1. BeginIf(b, Tracker) \in Trackers
    BY CurrentTracker, TrackerType
  <2>2. [save |-> mem[g], tracked |-> b] \in PendingPlayerFlush
    BY DEF TypeOK, PendingPlayerFlush
  <2>3. dispatchPlayerFlush(g, [save |-> mem[g], tracked |-> b], flushes, BeginIf(b, Tracker))
    BY <1>2 DEF schedulePlayerFlush
  <2>4. \A f \in flushes : f.guid # g
    BY <1>2 DEF ChainInv, ChainConsistent
  <2>5. flushInFlight \ {g} = {f.guid : f \in flushes}
    BY <1>2 DEF ChainInv, ChainConsistent
  <2> QED
    BY <2>1, <2>2, <2>3, <2>4, <2>5, DispatchChain DEF ChainInv, OneFlushPerGuid
<1> QED
  BY <1>1, <1>2

\* savePlayerSync starts no flush, so it keeps them consistent too.
LEMMA SyncChain ==
    ASSUME TypeOK, ChainInv, NEW g \in Guids, NEW save, savePlayerSync(g, save)
    PROVE  ChainInv'
<1>1. CASE g \in flushInFlight
  BY <1>1, EnqueueChain DEF savePlayerSync
<1>2. CASE g \notin flushInFlight
  BY <1>2 DEF ChainInv, OneFlushPerGuid, ChainConsistent, savePlayerSync
<1> QED
  BY <1>1, <1>2

\* Every step, failures and crashes included, keeps the chains consistent.
LEMMA ChainNext == TypeInv /\ ChainInv /\ [Next]_vars => ChainInv'
<1> SUFFICES ASSUME TypeOK, Phases, ChainInv, [Next]_vars
             PROVE  ChainInv'
  BY DEF TypeInv
<1> USE DEF queue, startup
<1>1. ASSUME UNCHANGED <<queue, drains>> PROVE ChainInv'
  BY <1>1 DEF ChainInv, OneFlushPerGuid, ChainConsistent
<1>2. ASSUME NEW g \in Guids, savePlayer(g) \/ SaveAllPlayer(g) PROVE ChainInv'
  BY <1>2, ScheduleChain DEF savePlayer, SaveAllPlayer, Phases
<1>3. ASSUME NEW g \in Guids, SaveOnline(g) \/ Logout(g) \/ SaveOffline(g) PROVE ChainInv'
  BY <1>3, SyncChain DEF SaveOnline, Logout, SaveOffline
<1>4. ASSUME NEW w \in Waiters, NEW g \in Guids, NEW login \in BOOLEAN,
             drainPlayerFlushAsync(w, g, login)
      PROVE  ChainInv'
  <2>1. \A v \in Waiters : drains'[v].state = "registered" => drains'[v] = drains[v]
    BY <1>4 DEF TypeOK, drainPlayerFlushAsync
  <2> QED
    BY <1>4, <2>1 DEF ChainInv, OneFlushPerGuid, ChainConsistent, drainPlayerFlushAsync
<1>5. ASSUME NEW w \in Waiters, DrainTask(w) PROVE ChainInv'
  <2>1. \A v \in Waiters \ {w} : drains'[v] = drains[v]
    BY <1>5 DEF TypeOK, DrainTask
  <2>2. /\ drains'[w].guid = drains[w].guid
        /\ drains'[w].state = "registered" => hasPendingPlayerSave(drains[w].guid)
        /\ drains[w].guid \in Guids
    BY <1>5 DEF TypeOK, DrainTask, Drains, NoDrain
  <2>3. hasPendingPlayerSave(drains[w].guid) => drains[w].guid \in flushInFlight
    BY <2>2 DEF hasPendingPlayerSave, ChainInv, ChainConsistent
  <2> QED
    BY <1>5, <2>1, <2>2, <2>3 DEF ChainInv, OneFlushPerGuid, ChainConsistent, DrainTask
<1>6. ASSUME NEW w \in Waiters, LoginTimeout(w) \/ DrainCallback(w) \/ loadPlayerById(w) \/ finishLogin(w)
      PROVE  ChainInv'
  <2>1. \A v \in Waiters : drains'[v].state = "registered" =>
            drains[v].state = "registered" /\ drains'[v].guid = drains[v].guid
    BY <1>6 DEF TypeOK, LoginTimeout, DrainCallback, loadPlayerById, finishLogin, NoDrain, Drains
  <2> QED
    BY <1>6, <2>1 DEF ChainInv, OneFlushPerGuid, ChainConsistent, LoginTimeout, DrainCallback,
      loadPlayerById, finishLogin
<1>7. ASSUME NEW g \in Guids, RunFlush(g) PROVE ChainInv'
  <2>1. PICK f \in flushes : f.guid = g /\ flushPlayerSave(f)
    BY <1>7 DEF RunFlush
  <2>2. PICK st \in {"ok", "failed"} : flushes' = (flushes \ {f}) \cup {[f EXCEPT !.stage = st]}
    BY <2>1 DEF flushPlayerSave, FlushDone
  <2>3. [f EXCEPT !.stage = st].guid = f.guid
    BY DEF TypeOK, Flushes
  <2> DEFINE done == [f EXCEPT !.stage = st]
  <2> HIDE DEF done
  <2>4. done.guid = f.guid /\ flushes' = (flushes \ {f}) \cup {done}
    BY <2>2, <2>3 DEF done
  <2>5. OneFlushPerGuid'
    BY <2>4 DEF ChainInv, OneFlushPerGuid
  <2>6. {h.guid : h \in flushes'} = {h.guid : h \in flushes}
    BY <2>4
  <2> QED
    BY <2>1, <2>5, <2>6 DEF ChainInv, ChainConsistent, flushPlayerSave
<1>8. ASSUME NEW g \in Guids, RunFlushed(g) PROVE ChainInv'
  <2>1. PICK f \in flushes : f.guid = g /\ onPlayerFlushed(f)
    BY <1>8 DEF RunFlushed
  <2>2. /\ \A f1, f2 \in flushes \ {f} : f1.guid = f2.guid => f1 = f2
        /\ \A h \in flushes \ {f} : h.guid # g
    BY <2>1 DEF ChainInv, OneFlushPerGuid
  <2>3. flushInFlight \ {g} = {h.guid : h \in flushes \ {f}}
    BY <2>1, <2>2 DEF ChainInv, ChainConsistent
  <2>4. CASE pendingFlushes[g] = None
    <3>1. /\ flushes' = flushes \ {f} /\ flushInFlight' = flushInFlight \ {g}
          /\ NotifyChain(g, f.stage = "ok") /\ UNCHANGED pendingFlushes
      BY <2>1, <2>4 DEF onPlayerFlushed
    <3>2. \A w \in Waiters : drains'[w].state = "registered" =>
              drains[w].state = "registered" /\ drains'[w].guid = drains[w].guid /\ drains[w].guid # g
      BY <3>1 DEF TypeOK, NotifyChain, Drains
    <3> QED
      BY <2>2, <2>3, <2>4, <3>1, <3>2 DEF ChainInv, OneFlushPerGuid, ChainConsistent
  <2>5. CASE pendingFlushes[g] # None
    <3>1. f.tracked \in BOOLEAN /\ pendingFlushes[g] \in PendingPlayerFlush
      BY <2>5 DEF TypeOK, Flushes
    <3>2. CompleteIf(f.tracked, Tracker) \in Trackers
      BY <3>1, CurrentTracker, TrackerType
    <3>3. dispatchPlayerFlush(g, pendingFlushes[g], flushes \ {f}, CompleteIf(f.tracked, Tracker))
      BY <2>1, <2>5 DEF onPlayerFlushed
    <3> QED
      BY <2>2, <2>3, <3>1, <3>2, <3>3, DispatchChain DEF ChainInv
  <2> QED
    BY <2>4, <2>5
<1>9. ASSUME Crash PROVE ChainInv'
  BY <1>9 DEF Crash, NoDrain, ChainInv, OneFlushPerGuid, ChainConsistent
<1> QED
  BY <1>1, <1>2, <1>3, <1>4, <1>5, <1>6, <1>7, <1>8, <1>9
  DEF Next, vars, RunSaveAll, RunRecovery, Play, savePlayersSync, SaveAllBegin, SaveAllEnd,
      RecoverGuid, RecoverFails

\* The invariant the later proofs start from.
LEMMA ChainsAlways == Spec => [](TypeInv /\ ChainInv)
<1>1. Init => ChainInv
  BY DEF Init, NoDrain, ChainInv, OneFlushPerGuid, ChainConsistent
<1> QED
  BY <1>1, TypeInit, TypeNext, ChainNext, PTL DEF Spec

\* However the pool, the database and the callers behave, no two flushes of one
\* character are ever out together, and no waiting save or registered callback is
\* left without a flush that will serve it.
THEOREM FlushChainsConsistent == Spec => [](OneFlushPerGuid /\ ChainConsistent)
<1>1. ChainInv => OneFlushPerGuid /\ ChainConsistent
  BY DEF ChainInv
<1> QED
  BY <1>1, ChainsAlways, PTL

\* "two saves for the same GUID are never flushed concurrently" (save_manager.h), whatever the pool
\* and the database do.
THEOREM OneFlushPerGuidTheorem == Spec => []OneFlushPerGuid
<1>1. ChainInv => OneFlushPerGuid
  BY DEF ChainInv
<1> QED
  BY <1>1, ChainsAlways, PTL

-----------------------------------------------------------------------------
(* The reservation of a login.  That its character is offline is inductive  *)
(* once a reservation is known to be exclusive and to last until the load   *)
(* has been handed over.                                                    *)

HoldInv ==
    /\ \A w \in Waiters : drains[w].login => mem[drains[w].guid] = None
    /\ \A w \in Waiters : drains[w].state \in {"loading", "loaded"} => drains[w].login
    /\ \A v, w \in Waiters : drains[v].login /\ drains[w].login /\ drains[v].guid = drains[w].guid => v = w

\* The callers as the reservations see them: from one state to the next they may only give up.
HoldsLess ==
    \A w \in Waiters : /\ drains'[w].login => drains[w].login /\ drains'[w].guid = drains[w].guid
                       /\ drains'[w].state \in {"loading", "loaded"} => drains'[w].login

\* Steps that bring nobody online and reserve nothing keep the reservations.
LEMMA HoldsLessKeeps ==
    ASSUME HoldInv, HoldsLess, \A w \in Waiters : drains[w].login => mem'[drains[w].guid] = None
    PROVE  HoldInv'
  BY DEF HoldInv, HoldsLess

\* The queue operations leave the reservations alone: at most they answer callers.
LEMMA QueueHolds ==
    ASSUME TypeOK, HoldInv, NEW g \in Guids, NEW b \in BOOLEAN,
           drains' = drains \/ NotifyChain(g, b)
    PROVE  HoldsLess
<1>1. CASE drains' = drains
  BY <1>1 DEF HoldsLess, HoldInv
<1>2. CASE NotifyChain(g, b)
  <2> SUFFICES ASSUME NEW w \in Waiters
               PROVE  /\ drains'[w].login => drains[w].login /\ drains'[w].guid = drains[w].guid
                      /\ drains'[w].state \in {"loading", "loaded"} => drains'[w].login
    BY DEF HoldsLess
  <2>1. CASE drains[w].state = "registered" /\ drains[w].guid = g
    <3> DEFINE st == IF b THEN "drained" ELSE "failed"
    <3>1. drains'[w] = [drains[w] EXCEPT !.state = st]
      BY <1>2, <2>1 DEF NotifyChain
    <3>2. st \in {"drained", "failed"} /\ drains[w] \in Drains /\ drains[w] # NoDrain
      BY <2>1 DEF TypeOK, NoDrain
    <3> HIDE DEF st
    <3>3. drains'[w].state = st /\ drains'[w].login = drains[w].login /\ drains'[w].guid = drains[w].guid
      BY <3>1, <3>2 DEF Drains
    <3> QED
      BY <3>2, <3>3
  <2>2. CASE ~(drains[w].state = "registered" /\ drains[w].guid = g)
    <3>1. drains'[w] = drains[w]
      BY <1>2, <2>2 DEF NotifyChain
    <3> QED
      BY <3>1 DEF HoldInv
  <2> QED
    BY <2>1, <2>2
<1> QED
  BY <1>1, <1>2

\* Every step, crashes included, keeps the reservations exclusive and their characters offline.
LEMMA HoldNext == TypeInv /\ HoldInv /\ [Next]_vars => HoldInv'
<1> SUFFICES ASSUME TypeOK, HoldInv, [Next]_vars PROVE HoldInv'
  BY DEF TypeInv
<1> USE DEF queue, startup
<1>1. ASSUME drains' = drains, \A h \in Guids : mem[h] = None => mem'[h] = None PROVE HoldInv'
  <2>1. \A w \in Waiters : drains[w].login => drains[w].guid \in Guids
    BY DEF TypeOK, Drains, NoDrain
  <2> QED
    BY <1>1, <2>1, HoldsLessKeeps DEF HoldInv, HoldsLess
<1>2. ASSUME NEW g \in Guids, mem' = mem, drains' = drains \/ (\E b \in BOOLEAN : NotifyChain(g, b))
      PROVE  HoldInv'
  BY <1>2, QueueHolds, HoldsLessKeeps DEF HoldInv
<1>3. ASSUME NEW g \in Guids, Play(g) PROVE HoldInv'
  BY <1>1, <1>3 DEF Play, TypeOK
<1>4. ASSUME NEW g \in Guids, savePlayer(g) \/ SaveAllPlayer(g) PROVE HoldInv'
  <2>1. mem' = mem /\ (drains' = drains \/ NotifyChain(g, FALSE))
    BY <1>4 DEF savePlayer, SaveAllPlayer, schedulePlayerFlush, Enqueue, dispatchPlayerFlush
  <2> QED
    BY <1>2, <2>1
<1>5. ASSUME NEW g \in Guids, SaveOnline(g) \/ Logout(g) \/ SaveOffline(g) PROVE HoldInv'
  <2>1. drains' = drains /\ \A h \in Guids : mem[h] = None => mem'[h] = None
    BY <1>5 DEF SaveOnline, Logout, SaveOffline, savePlayerSync, TypeOK
  <2> QED
    BY <1>1, <2>1
<1>6. ASSUME NEW w \in Waiters, NEW g \in Guids, NEW login \in BOOLEAN,
             drainPlayerFlushAsync(w, g, login)
      PROVE  HoldInv'
  <2> DEFINE d == [state |-> "asked", guid |-> g, login |-> login, loaded |-> None]
  <2>1. /\ drains' = [drains EXCEPT ![w] = d] /\ mem' = mem
        /\ login => mem[g] = None /\ ~LoginReserved(g)
    BY <1>6 DEF drainPlayerFlushAsync
  <2>2. d.state = "asked" /\ d.guid = g /\ d.login = login
    OBVIOUS
  <2> HIDE DEF d
  <2>3. drains'[w] = d /\ \A v \in Waiters \ {w} : drains'[v] = drains[v]
    BY <2>1 DEF TypeOK
  <2>4. login => \A v \in Waiters : ~(drains[v].login /\ drains[v].guid = g)
    BY <2>1 DEF LoginReserved
  <2> QED
    BY <2>1, <2>2, <2>3, <2>4 DEF HoldInv
<1>7. ASSUME NEW w \in Waiters, DrainTask(w) \/ LoginTimeout(w) \/ DrainCallback(w) \/ loadPlayerById(w)
      PROVE  HoldInv'
  <2>1. mem' = mem /\ \A v \in Waiters \ {w} : drains'[v] = drains[v]
    BY <1>7 DEF TypeOK, DrainTask, LoginTimeout, DrainCallback, loadPlayerById
  <2>2. drains[w] \in Drains /\ drains[w].login \in BOOLEAN /\ (drains[w].state \in {"loading", "loaded"} => drains[w].login)
    <3>1. drains[w] \in Drains /\ (drains[w].state \in {"loading", "loaded"} => drains[w].login)
      BY DEF TypeOK, HoldInv
    <3>2. drains[w] = NoDrain => drains[w].login \in BOOLEAN
      BY DEF NoDrain
    <3>3. drains[w] # NoDrain => drains[w].login \in BOOLEAN
      BY <3>1 DEF Drains
    <3> QED
      BY <3>1, <3>2, <3>3
  <2>3. /\ drains'[w].login => drains[w].login /\ drains'[w].guid = drains[w].guid
        /\ drains'[w].state \in {"loading", "loaded"} => drains'[w].login
    <3>1. CASE DrainTask(w)
      <4>1. PICK st \in {"registered", "drained"} : drains' = [drains EXCEPT ![w].state = st]
        BY <3>1 DEF DrainTask
      <4> QED
        BY <2>2, <4>1 DEF TypeOK, Drains, NoDrain
    <3>2. CASE LoginTimeout(w)
      BY <2>2, <3>2 DEF TypeOK, LoginTimeout, Drains, NoDrain
    <3>3. CASE DrainCallback(w)
      <4>1. CASE drains[w].login /\ drains' = [drains EXCEPT ![w].state = "loading"]
        BY <2>2, <4>1 DEF TypeOK, Drains, NoDrain
      <4>2. CASE drains' = [drains EXCEPT ![w] = NoDrain]
        BY <4>2 DEF TypeOK, NoDrain
      <4> QED
        BY <3>3, <4>1, <4>2 DEF DrainCallback
    <3>4. CASE loadPlayerById(w)
      <4>1. PICK p : drains' = [drains EXCEPT ![w] = [drains[w] EXCEPT !.state = "loaded", !.loaded = p]]
        BY <3>4 DEF TypeOK, loadPlayerById
      <4>2. drains[w].login
        BY <2>2, <3>4 DEF loadPlayerById
      <4> DEFINE d == [drains[w] EXCEPT !.state = "loaded", !.loaded = p]
      <4>3. d.login = drains[w].login /\ d.guid = drains[w].guid
        BY <2>2 DEF Drains, NoDrain
      <4> HIDE DEF d
      <4>4. drains'[w] = d
        BY <4>1 DEF TypeOK, d
      <4> QED
        BY <4>2, <4>3, <4>4
    <3> QED
      BY <1>7, <3>1, <3>2, <3>3, <3>4
  <2>4. HoldsLess
    BY <2>1, <2>3 DEF HoldsLess, HoldInv
  <2> QED
    BY <2>1, <2>4, HoldsLessKeeps DEF HoldInv
<1>8. ASSUME NEW w \in Waiters, finishLogin(w) PROVE HoldInv'
  <2>1. /\ drains[w].state = "loaded" /\ drains' = [drains EXCEPT ![w] = NoDrain]
        /\ mem' = mem \/ mem' = [mem EXCEPT ![drains[w].guid] = drains[w].loaded]
    BY <1>8 DEF finishLogin
  <2>2. /\ ~drains'[w].login /\ drains'[w].state = "none"
        /\ \A v \in Waiters \ {w} : drains'[v] = drains[v]
    BY <2>1 DEF TypeOK, NoDrain
  <2>3. drains[w].login
    BY <2>1 DEF HoldInv
  <2>4. \A v \in Waiters \ {w} : drains[v].login => drains[v].guid # drains[w].guid /\ drains[v].guid \in Guids
    BY <2>3 DEF HoldInv, TypeOK, Drains, NoDrain
  <2>5. \A v \in Waiters \ {w} : drains[v].login => mem'[drains[v].guid] = None
    BY <2>1, <2>4 DEF HoldInv, TypeOK
  <2> QED
    BY <2>2, <2>5 DEF HoldInv
<1>9. ASSUME NEW g \in Guids, RunFlush(g) \/ RunFlushed(g) PROVE HoldInv'
  <2>1. PICK f \in flushes : f.guid = g /\ (flushPlayerSave(f) \/ onPlayerFlushed(f))
    BY <1>9 DEF RunFlush, RunFlushed
  <2>2. mem' = mem /\ (drains' = drains \/ NotifyChain(g, FALSE) \/ NotifyChain(g, f.stage = "ok"))
    BY <2>1 DEF flushPlayerSave, onPlayerFlushed, dispatchPlayerFlush
  <2>3. (f.stage = "ok") \in BOOLEAN
    OBVIOUS
  <2> QED
    BY <1>2, <2>2, <2>3
<1>10. ASSUME Crash PROVE HoldInv'
  BY <1>10 DEF Crash, HoldInv, NoDrain
<1>11. ASSUME UNCHANGED <<mem, drains>> PROVE HoldInv'
  BY <1>1, <1>11
<1> QED
  BY <1>3, <1>4, <1>5, <1>6, <1>7, <1>8, <1>9, <1>10, <1>11
  DEF Next, vars, RunSaveAll, RunRecovery, savePlayersSync, SaveAllBegin, SaveAllEnd, RecoverGuid, RecoverFails

\* A login that waits at the drain barrier, loads or has loaded finds its character offline until it
\* is placed, with every failure and every writer of offline characters allowed.
THEOREM LoginHoldsOfflineTheorem == Spec => []LoginHoldsOffline
<1>1. Init => HoldInv
  BY DEF Init, NoDrain, HoldInv
<1>2. HoldInv => LoginHoldsOffline
  BY DEF HoldInv, LoginHoldsOffline
<1> QED
  BY <1>1, <1>2, TypeInit, TypeNext, HoldNext, PTL DEF Spec

-----------------------------------------------------------------------------
(* The books of saveAll.  The counter equals two cardinalities, so each     *)
(* operation is shown to move one of the sets by one element exactly when   *)
(* it moves the counter.                                                    *)

Bit(b) == IF b THEN 1 ELSE 0
TrackedOf(fs) == {f \in fs : f.tracked}

\* A tracker that is at zero is not saving.
Closed(t) == t.count = 0 => ~t.saving

\* Begin adds one, complete takes one off if there is one, and neither leaves `saving` set at zero.
LEMMA TrackerCounts ==
    ASSUME NEW t \in Trackers, NEW b \in BOOLEAN
    PROVE  /\ BeginIf(b, t).count = t.count + Bit(b)
           /\ t.count >= Bit(b) => CompleteIf(b, t).count = t.count - Bit(b)
           /\ Closed(t) => Closed(BeginIf(b, t)) /\ Closed(CompleteIf(b, t))
           /\ Closed(completeTrackedFlush(beginTrackedFlush(t)))
           /\ completeTrackedFlush(beginTrackedFlush(t)).count = t.count
<1> DEFINE up == beginTrackedFlush(t)
           down == completeTrackedFlush(t)
           both == completeTrackedFlush(up)
<1>1. t.count \in Nat /\ t.saving \in BOOLEAN
  BY DEF Trackers
<1>2. up.count = t.count + 1 /\ up \in Trackers
  BY <1>1, TrackerType DEF Trackers, beginTrackedFlush
<1>3. /\ t.count >= 1 => down.count = t.count - 1
      /\ down.count = 0 => t.count = 0 \/ t.count = 1
  BY <1>1 DEF completeTrackedFlush
<1>4. down.saving = (t.saving /\ t.count > 1)
  BY DEF completeTrackedFlush
<1>5. both.count = t.count /\ both.saving = (up.saving /\ up.count > 1)
  BY <1>1, <1>2 DEF completeTrackedFlush
<1> HIDE DEF up, down, both
<1>6. Closed(up) /\ Closed(down) /\ Closed(both)
  <2>1. Closed(up)
    BY <1>1, <1>2 DEF Closed
  <2>2. Closed(down)
    <3>1. down.count = 0 => ~(t.count > 1)
      BY <1>1, <1>3
    <3> QED
      BY <1>4, <3>1, Zenon DEF Closed
  <2>3. Closed(both)
    <3>1. both.count = 0 => ~(up.count > 1)
      BY <1>1, <1>2, <1>5
    <3> QED
      BY <1>5, <3>1, Zenon DEF Closed
  <2> QED
    BY <2>1, <2>2, <2>3
<1>7. CASE b
  <2>1. BeginIf(b, t) = up /\ CompleteIf(b, t) = down /\ Bit(b) = 1
    BY <1>7 DEF BeginIf, CompleteIf, Bit, up, down
  <2> QED
    BY <1>2, <1>3, <1>5, <1>6, <2>1 DEF both, up
<1>8. CASE ~b
  <2>1. BeginIf(b, t) = t /\ CompleteIf(b, t) = t /\ Bit(b) = 0
    BY <1>8 DEF BeginIf, CompleteIf, Bit
  <2> QED
    BY <1>1, <1>5, <1>6, <2>1 DEF both, up
<1> QED
  BY <1>7, <1>8

\* One flush more.
LEMMA FlushAdded ==
    ASSUME NEW fs, IsFiniteSet(fs), NEW f, f \notin fs, f.tracked \in BOOLEAN
    PROVE  /\ IsFiniteSet(fs \cup {f})
           /\ Cardinality(TrackedOf(fs \cup {f})) = Cardinality(TrackedOf(fs)) + Bit(f.tracked)
           /\ Cardinality(TrackedOf(fs)) \in Nat
<1>1. IsFiniteSet(TrackedOf(fs)) /\ f \notin TrackedOf(fs)
  BY FS_Subset DEF TrackedOf
<1>2. Cardinality(TrackedOf(fs)) \in Nat
  BY <1>1, FS_CardinalityType
<1>3. CASE f.tracked
  <2>1. TrackedOf(fs \cup {f}) = TrackedOf(fs) \cup {f}
    BY <1>3 DEF TrackedOf
  <2> QED
    BY <1>1, <1>2, <1>3, <2>1, FS_AddElement DEF Bit
<1>4. CASE ~f.tracked
  <2>1. TrackedOf(fs \cup {f}) = TrackedOf(fs)
    BY <1>4 DEF TrackedOf
  <2> QED
    BY <1>1, <1>2, <1>4, <2>1, FS_AddElement DEF Bit
<1> QED
  BY <1>3, <1>4

\* One flush less.
LEMMA FlushRemoved ==
    ASSUME NEW fs, IsFiniteSet(fs), NEW f \in fs, f.tracked \in BOOLEAN
    PROVE  /\ IsFiniteSet(fs \ {f})
           /\ Cardinality(TrackedOf(fs)) = Cardinality(TrackedOf(fs \ {f})) + Bit(f.tracked)
           /\ Cardinality(TrackedOf(fs \ {f})) \in Nat
<1>1. IsFiniteSet(fs \ {f}) /\ f \notin fs \ {f} /\ fs = (fs \ {f}) \cup {f}
  BY FS_RemoveElement
<1> QED
  BY <1>1, FlushAdded

TrackedIn(pf) == {g \in Guids : pf[g] # None /\ pf[g].tracked}
IsTracked(v) == v # None /\ v.tracked

\* What waits, with the character g set apart.
LEMMA PendingApart ==
    ASSUME NEW pf \in [Guids -> {None} \cup PendingPlayerFlush], NEW g \in Guids
    PROVE  /\ Cardinality(TrackedIn(pf)) = Cardinality(TrackedIn(pf) \ {g}) + Bit(IsTracked(pf[g]))
           /\ Cardinality(TrackedIn(pf) \ {g}) \in Nat
<1>1. IsFiniteSet(TrackedIn(pf))
  BY GuidsFinite, FS_Subset DEF TrackedIn
<1>2. IsFiniteSet(TrackedIn(pf) \ {g}) /\ Cardinality(TrackedIn(pf) \ {g}) \in Nat /\ Cardinality(TrackedIn(pf)) \in Nat
  BY <1>1, FS_RemoveElement, FS_CardinalityType
<1>3. CASE IsTracked(pf[g])
  <2>1. g \in TrackedIn(pf) /\ Bit(IsTracked(pf[g])) = 1
    BY <1>3 DEF TrackedIn, IsTracked, Bit
  <2> QED
    BY <1>1, <1>2, <2>1, FS_RemoveElement
<1>4. CASE ~IsTracked(pf[g])
  <2>1. TrackedIn(pf) \ {g} = TrackedIn(pf) /\ Bit(IsTracked(pf[g])) = 0
    BY <1>4 DEF TrackedIn, IsTracked, Bit
  <2> QED
    BY <1>2, <2>1
<1> QED
  BY <1>3, <1>4

\* Replacing what waits for g changes nothing else.
LEMMA PendingReplaced ==
    ASSUME NEW pf \in [Guids -> {None} \cup PendingPlayerFlush], NEW g \in Guids,
           NEW v \in {None} \cup PendingPlayerFlush, NEW qf, qf = [pf EXCEPT ![g] = v]
    PROVE  Cardinality(TrackedIn(qf)) = Cardinality(TrackedIn(pf) \ {g}) + Bit(IsTracked(v))
<1>1. qf \in [Guids -> {None} \cup PendingPlayerFlush] /\ qf[g] = v
  OBVIOUS
<1>2. TrackedIn(qf) \ {g} = TrackedIn(pf) \ {g}
  BY DEF TrackedIn
<1> QED
  BY <1>1, <1>2, PendingApart

CountInv == TrackedCount /\ SavingHasEnd /\ IsFiniteSet(flushes)

\* The counter and the mark after a handler.
CountOK ==
    /\ pendingSaveFlushes = Cardinality(TrackedOf(flushes)) + Cardinality(TrackedIn(pendingFlushes))
    /\ IsFiniteSet(flushes)

\* The counter is what the sets say.
LEMMA CountMeans == (CountOK <=> TrackedCount /\ IsFiniteSet(flushes)) /\ (CountOK' <=> (TrackedCount /\ IsFiniteSet(flushes))')
  BY DEF CountOK, TrackedCount, TrackedFlushes, TrackedPending, TrackedOf, TrackedIn

\* A dispatch for g, with the tracker already counting the save it dispatches, leaves the books exact
\* whether the log takes the entry or refuses it.
LEMMA DispatchCounts ==
    ASSUME TypeOK, NEW g \in Guids, NEW p \in PendingPlayerFlush, NEW fs \in SUBSET Flushes, IsFiniteSet(fs),
           \A f \in fs : f.guid # g, NEW t \in Trackers,
           t.count = Cardinality(TrackedOf(fs)) + Cardinality(TrackedIn(pendingFlushes) \ {g}) + Bit(p.tracked),
           dispatchPlayerFlush(g, p, fs, t)
    PROVE  CountOK' /\ (Closed(t) => (pendingSaveFlushes' = 0 => ~saving'))
<1>1. p.tracked \in BOOLEAN /\ pendingFlushes \in [Guids -> {None} \cup PendingPlayerFlush] /\ t.count \in Nat
  BY DEF PendingPlayerFlush, TypeOK, Trackers
<1>2. /\ Cardinality(TrackedIn(pendingFlushes')) = Cardinality(TrackedIn(pendingFlushes) \ {g})
      /\ Cardinality(TrackedIn(pendingFlushes) \ {g}) \in Nat
  <2> DEFINE qf == pendingFlushes'
  <2>1. qf = [pendingFlushes EXCEPT ![g] = None] /\ Bit(IsTracked(None)) = 0
    BY DEF dispatchPlayerFlush, Bit, IsTracked
  <2> HIDE DEF qf
  <2>2. Cardinality(TrackedIn(pendingFlushes) \ {g}) \in Nat
    BY <1>1, PendingApart
  <2>3. Cardinality(TrackedIn(qf)) = Cardinality(TrackedIn(pendingFlushes) \ {g}) + Bit(IsTracked(None))
    BY <1>1, <2>1, PendingReplaced, ZenonT(60)
  <2> QED
    BY <2>1, <2>2, <2>3 DEF qf
<1>3. Cardinality(TrackedOf(fs)) \in Nat
  BY FS_Subset, FS_CardinalityType DEF TrackedOf
<1>4. CASE /\ flushes' = fs \cup {[guid |-> g, save |-> p.save, tracked |-> p.tracked, stage |-> "queued"]}
           /\ SetTracker(t)
  <2> DEFINE new == [guid |-> g, save |-> p.save, tracked |-> p.tracked, stage |-> "queued"]
  <2>1. new.guid = g /\ new.tracked = p.tracked
    OBVIOUS
  <2>2. flushes' = fs \cup {new} /\ pendingSaveFlushes' = t.count /\ saving' = t.saving
    BY <1>4 DEF SetTracker
  <2> HIDE DEF new
  <2>3. new \notin fs
    BY <2>1
  <2>4. IsFiniteSet(flushes') /\ Cardinality(TrackedOf(flushes')) = Cardinality(TrackedOf(fs)) + Bit(p.tracked)
    BY <1>1, <2>1, <2>2, <2>3, FlushAdded
  <2>5. Bit(p.tracked) \in Nat
    BY DEF Bit
  <2>6. CountOK'
    BY <1>2, <1>3, <2>2, <2>4, <2>5 DEF CountOK
  <2> QED
    BY <2>2, <2>6 DEF Closed
<1>5. CASE flushes' = fs /\ SetTracker(CompleteIf(p.tracked, t))
  <2> DEFINE u == CompleteIf(p.tracked, t)
  <2>1. flushes' = fs /\ pendingSaveFlushes' = u.count /\ saving' = u.saving
    BY <1>5 DEF SetTracker
  <2>2. Bit(p.tracked) \in Nat
    BY DEF Bit
  <2>3. t.count >= Bit(p.tracked)
    BY <1>2, <1>3, <2>2
  <2>4. u.count = t.count - Bit(p.tracked) /\ (Closed(t) => Closed(u))
    BY <1>1, <2>3, TrackerCounts
  <2> HIDE DEF u
  <2>5. CountOK'
    BY <1>2, <1>3, <2>1, <2>2, <2>4 DEF CountOK
  <2> QED
    BY <2>1, <2>4, <2>5 DEF Closed
<1> QED
  BY <1>4, <1>5 DEF dispatchPlayerFlush

\* schedulePlayerFlush keeps the books, for a tracked and for an untracked save.
LEMMA ScheduleCounts ==
    ASSUME TypeOK, ChainInv, CountOK, NEW g \in Guids, mem[g] # None, NEW b \in BOOLEAN,
           schedulePlayerFlush(g, b)
    PROVE  CountOK' /\ (Closed(Tracker) => (pendingSaveFlushes' = 0 => ~saving'))
<1>1. /\ Tracker \in Trackers /\ Tracker.count = pendingSaveFlushes /\ flushes \in SUBSET Flushes
      /\ pendingFlushes \in [Guids -> {None} \cup PendingPlayerFlush] /\ mem[g] \in States
      /\ pendingSaveFlushes \in Nat
  BY CurrentTracker DEF Tracker, TypeOK
<1>2. /\ Cardinality(TrackedIn(pendingFlushes)) = Cardinality(TrackedIn(pendingFlushes) \ {g}) + Bit(IsTracked(pendingFlushes[g]))
      /\ Cardinality(TrackedIn(pendingFlushes) \ {g}) \in Nat
  BY <1>1, PendingApart
<1>3. Cardinality(TrackedOf(flushes)) \in Nat
  BY FS_Subset, FS_CardinalityType DEF TrackedOf, CountOK
<1>4. CASE g \in flushInFlight
  <2> DEFINE k == IsTracked(pendingFlushes[g])
             c == b /\ ~k
             u == BeginIf(c, Tracker)
             v == [save |-> mem[g], tracked |-> k \/ b]
             qf == pendingFlushes'
  <2>1. /\ qf = [pendingFlushes EXCEPT ![g] = v] /\ flushes' = flushes
        /\ pendingSaveFlushes' = u.count /\ saving' = u.saving
    BY <1>4 DEF schedulePlayerFlush, Enqueue, SetTracker, PendingTracked, IsTracked
  <2>2. k \in BOOLEAN /\ c \in BOOLEAN
    BY <1>1 DEF IsTracked, PendingPlayerFlush
  <2>3. v \in PendingPlayerFlush /\ v.tracked = (k \/ b) /\ v # None
    BY <1>1, <2>2, NoneFresh DEF PendingPlayerFlush, States
  <2>4. u.count = pendingSaveFlushes + Bit(c) /\ (Closed(Tracker) => Closed(u))
    BY <1>1, <2>2, TrackerCounts
  <2> HIDE DEF v, u, qf
  <2>5. Cardinality(TrackedIn(qf)) = Cardinality(TrackedIn(pendingFlushes) \ {g}) + Bit(IsTracked(v))
    <3>1. /\ v \in {None} \cup PendingPlayerFlush
          /\ pendingFlushes \in [Guids -> {None} \cup PendingPlayerFlush]
      BY <1>1, <2>3
    <3> QED
      BY <2>1, <3>1, PendingReplaced
  <2>6. IsTracked(v) = (k \/ b)
    BY <2>3 DEF IsTracked
  <2>7. Bit(IsTracked(v)) = Bit(k) + Bit(c) /\ Bit(k) \in Nat /\ Bit(c) \in Nat
    BY <2>2, <2>6 DEF Bit
  <2> HIDE DEF k, c
  <2>8. Cardinality(TrackedIn(pendingFlushes)) = Cardinality(TrackedIn(pendingFlushes) \ {g}) + Bit(k)
    BY <1>2 DEF k
  <2>9. pendingSaveFlushes' = Cardinality(TrackedOf(flushes)) + Cardinality(TrackedIn(qf))
    BY <1>2, <1>3, <2>1, <2>4, <2>5, <2>7, <2>8 DEF CountOK
  <2>10. CountOK'
    BY <2>1, <2>9 DEF CountOK, qf
  <2> QED
    BY <2>1, <2>4, <2>10 DEF Closed
<1>5. CASE g \notin flushInFlight
  <2> DEFINE p == [save |-> mem[g], tracked |-> b]
             t == BeginIf(b, Tracker)
  <2>1. dispatchPlayerFlush(g, p, flushes, t)
    BY <1>5 DEF schedulePlayerFlush
  <2>2. p \in PendingPlayerFlush /\ p.tracked = b
    BY <1>1 DEF PendingPlayerFlush
  <2>3. t \in Trackers /\ t.count = pendingSaveFlushes + Bit(b) /\ (Closed(Tracker) => Closed(t))
    BY <1>1, TrackerType, TrackerCounts
  <2> HIDE DEF p, t
  <2>4. pendingFlushes[g] = None /\ \A f \in flushes : f.guid # g
    BY <1>5 DEF ChainInv, ChainConsistent
  <2>5. Bit(IsTracked(pendingFlushes[g])) = 0 /\ Bit(b) \in Nat
    BY <2>4 DEF Bit, IsTracked
  <2>6. t.count = Cardinality(TrackedOf(flushes)) + Cardinality(TrackedIn(pendingFlushes) \ {g}) + Bit(p.tracked)
    BY <1>2, <1>3, <2>2, <2>3, <2>5 DEF CountOK
  <2> QED
    BY <1>1, <2>1, <2>2, <2>3, <2>4, <2>6, DispatchCounts DEF CountOK
<1> QED
  BY <1>4, <1>5

\* Steps that leave the pool, the waiting saves and the tracker alone.
LEMMA UntouchedCounts ==
    ASSUME CountInv, flushes' = flushes, pendingFlushes' = pendingFlushes, UNCHANGED tracker,
           inSaveAll' = inSaveAll
    PROVE  CountInv'
  BY DEF CountInv, TrackedCount, TrackedFlushes, TrackedPending, SavingHasEnd, tracker

\* savePlayerSync leaves the tracker alone: a save that replaces a waiting one inherits its mark.
LEMMA SyncCounts ==
    ASSUME TypeOK, CountOK, NEW g \in Guids, NEW save \in States, savePlayerSync(g, save)
    PROVE  CountOK'
<1>1. /\ pendingSaveFlushes' = pendingSaveFlushes /\ flushes' = flushes
      /\ pendingFlushes \in [Guids -> {None} \cup PendingPlayerFlush]
  BY DEF savePlayerSync, TypeOK, tracker
<1>2. CASE g \notin flushInFlight
  BY <1>1, <1>2 DEF savePlayerSync, CountOK
<1>3. CASE g \in flushInFlight
  <2> DEFINE k == IsTracked(pendingFlushes[g])
             v == [save |-> save, tracked |-> k]
             qf == pendingFlushes'
  <2>1. qf = [pendingFlushes EXCEPT ![g] = v]
    BY <1>3 DEF savePlayerSync, Enqueue, PendingTracked, IsTracked
  <2>2. k \in BOOLEAN
    BY <1>1 DEF IsTracked, PendingPlayerFlush
  <2>3. v \in PendingPlayerFlush /\ v.tracked = k /\ v # None
    BY <2>2, NoneFresh DEF PendingPlayerFlush, States
  <2> HIDE DEF v, qf
  <2>4. IsTracked(v) = k
    BY <2>2, <2>3 DEF IsTracked
  <2> HIDE DEF k
  <2>5. Cardinality(TrackedIn(qf)) = Cardinality(TrackedIn(pendingFlushes) \ {g}) + Bit(IsTracked(v))
    <3>1. /\ v \in {None} \cup PendingPlayerFlush
          /\ pendingFlushes \in [Guids -> {None} \cup PendingPlayerFlush]
      BY <1>1, <2>3
    <3> QED
      BY <2>1, <3>1, PendingReplaced
  <2>6. Cardinality(TrackedIn(qf)) = Cardinality(TrackedIn(pendingFlushes))
    BY <1>1, <2>4, <2>5, PendingApart DEF k
  <2> QED
    BY <1>1, <2>6 DEF CountOK, qf
<1> QED
  BY <1>2, <1>3

\* The closed tracker is the mark of saveAll's end.
LEMMA ClosedMeans == SavingHasEnd <=> (inSaveAll \/ Closed(Tracker))
<1>1. Tracker.count = pendingSaveFlushes /\ Tracker.saving = saving
  BY DEF Tracker
<1> QED
  BY <1>1 DEF SavingHasEnd, Closed

\* Every step keeps the books of saveAll exact.
LEMMA CountNext == TypeInv /\ ChainInv /\ CountInv /\ [Next]_vars => CountInv'
<1> SUFFICES ASSUME TypeOK, Phases, ChainInv, CountInv, [Next]_vars PROVE CountInv'
  BY DEF TypeInv
<1> USE DEF queue, loop
<1>1. CountOK /\ (inSaveAll \/ Closed(Tracker)) /\ IsFiniteSet(flushes)
  BY CountMeans, ClosedMeans DEF CountInv
<1>2. ASSUME CountOK', inSaveAll' \/ (pendingSaveFlushes' = 0 => ~saving') PROVE CountInv'
  BY <1>2, CountMeans DEF CountInv, SavingHasEnd
<1>3. Tracker \in Trackers /\ Tracker.count = pendingSaveFlushes /\ Tracker.saving = saving /\ pendingSaveFlushes \in Nat
  BY CurrentTracker DEF Tracker, TypeOK
<1>4. ASSUME NEW g \in Guids, savePlayer(g) \/ SaveAllPlayer(g) PROVE CountInv'
  <2>1. mem[g] # None /\ inSaveAll' = inSaveAll /\ \E b \in BOOLEAN : schedulePlayerFlush(g, b)
    BY <1>4 DEF savePlayer, SaveAllPlayer, Phases
  <2>2. CountOK' /\ (Closed(Tracker) => (pendingSaveFlushes' = 0 => ~saving'))
    BY <1>1, <2>1, ScheduleCounts
  <2> QED
    BY <1>1, <1>2, <2>1, <2>2
<1>5. ASSUME NEW g \in Guids, NEW save \in States, savePlayerSync(g, save), inSaveAll' = inSaveAll PROVE CountInv'
  <2>1. CountOK' /\ pendingSaveFlushes' = pendingSaveFlushes /\ saving' = saving
    BY <1>1, <1>5, SyncCounts DEF savePlayerSync, tracker
  <2> QED
    BY <1>1, <1>2, <1>3, <1>5, <2>1 DEF Closed
<1>6. ASSUME NEW g \in Guids, SaveOnline(g) \/ Logout(g) PROVE CountInv'
  <2>1. mem[g] \in States /\ savePlayerSync(g, mem[g]) /\ inSaveAll' = inSaveAll
    BY <1>6 DEF SaveOnline, Logout, TypeOK
  <2> QED
    BY <1>5, <2>1
<1>7. ASSUME NEW g \in Guids, SaveOffline(g) PROVE CountInv'
  <2>1. PICK u \in Updates : savePlayerSync(g, db[g] \cup {u})
    BY <1>7 DEF SaveOffline
  <2>2. db[g] \cup {u} \in States /\ inSaveAll' = inSaveAll
    BY <1>7 DEF TypeOK, States, SaveOffline
  <2> QED
    BY <1>5, <2>1, <2>2
<1>8. ASSUME SaveAllBegin PROVE CountInv'
  <2>1. CountOK' /\ inSaveAll'
    BY <1>1, <1>8 DEF SaveAllBegin, CountOK
  <2> QED
    BY <1>2, <2>1
<1>9. ASSUME SaveAllEnd PROVE CountInv'
  <2> DEFINE t == completeTrackedFlush(beginTrackedFlush(Tracker))
  <2>1. /\ pendingSaveFlushes' = t.count /\ saving' = t.saving
        /\ flushes' = flushes /\ pendingFlushes' = pendingFlushes
    BY <1>9 DEF SaveAllEnd, SetTracker
  <2>2. Closed(t) /\ t.count = Tracker.count
    BY <1>3, TrackerCounts
  <2> HIDE DEF t
  <2>3. CountOK'
    BY <1>1, <1>3, <2>1, <2>2 DEF CountOK
  <2> QED
    BY <1>2, <2>1, <2>2, <2>3 DEF Closed
<1>10. ASSUME NEW g \in Guids, RunFlush(g) PROVE CountInv'
  <2>1. PICK f \in flushes : f.guid = g /\ flushPlayerSave(f)
    BY <1>10 DEF RunFlush
  <2>2. PICK st \in {"ok", "failed"} : flushes' = (flushes \ {f}) \cup {[f EXCEPT !.stage = st]}
    BY <2>1 DEF flushPlayerSave, FlushDone
  <2> DEFINE done == [f EXCEPT !.stage = st]
             fs == flushes \ {f}
  <2>3. done.guid = f.guid /\ done.tracked = f.tracked /\ f.tracked \in BOOLEAN
    BY DEF TypeOK, Flushes
  <2> HIDE DEF done
  <2>4. flushes' = fs \cup {done}
    BY <2>2 DEF done
  <2>5. done \notin fs
    BY <2>3 DEF ChainInv, OneFlushPerGuid
  <2>6. /\ IsFiniteSet(fs) /\ Cardinality(TrackedOf(flushes)) = Cardinality(TrackedOf(fs)) + Bit(f.tracked)
    BY <1>1, <2>3, FlushRemoved
  <2> HIDE DEF fs
  <2>7. /\ IsFiniteSet(fs \cup {done})
        /\ Cardinality(TrackedOf(fs \cup {done})) = Cardinality(TrackedOf(fs)) + Bit(f.tracked)
    BY <2>3, <2>5, <2>6, FlushAdded
  <2>8. pendingFlushes' = pendingFlushes /\ pendingSaveFlushes' = pendingSaveFlushes /\ saving' = saving
        /\ inSaveAll' = inSaveAll
    BY <2>1 DEF flushPlayerSave, tracker
  <2>9. CountOK'
    BY <1>1, <2>4, <2>6, <2>7, <2>8 DEF CountOK
  <2> QED
    BY <1>1, <1>2, <1>3, <2>8, <2>9 DEF Closed
<1>11. ASSUME NEW g \in Guids, RunFlushed(g) PROVE CountInv'
  <2>1. PICK f \in flushes : f.guid = g /\ onPlayerFlushed(f)
    BY <1>11 DEF RunFlushed
  <2> DEFINE fs == flushes \ {f}
             t == CompleteIf(f.tracked, Tracker)
  <2>2. f.tracked \in BOOLEAN /\ fs \in SUBSET Flushes /\ inSaveAll' = inSaveAll
    BY <2>1 DEF TypeOK, Flushes, onPlayerFlushed
  <2>3. /\ IsFiniteSet(fs) /\ Cardinality(TrackedOf(flushes)) = Cardinality(TrackedOf(fs)) + Bit(f.tracked)
        /\ Cardinality(TrackedOf(fs)) \in Nat
    BY <1>1, <2>2, FlushRemoved
  <2>4. /\ Cardinality(TrackedIn(pendingFlushes)) = Cardinality(TrackedIn(pendingFlushes) \ {g}) + Bit(IsTracked(pendingFlushes[g]))
        /\ Cardinality(TrackedIn(pendingFlushes) \ {g}) \in Nat
    BY PendingApart DEF TypeOK
  <2>5. Bit(f.tracked) \in Nat /\ Bit(IsTracked(pendingFlushes[g])) \in Nat
    BY DEF Bit
  <2>6. Tracker.count >= Bit(f.tracked)
    BY <1>1, <1>3, <2>3, <2>4, <2>5 DEF CountOK
  <2>7. t \in Trackers /\ t.count = Tracker.count - Bit(f.tracked) /\ (Closed(Tracker) => Closed(t))
    BY <1>3, <2>2, <2>6, TrackerType, TrackerCounts
  <2>8. t.count = Cardinality(TrackedOf(fs)) + Cardinality(TrackedIn(pendingFlushes))
    BY <1>1, <1>3, <2>3, <2>4, <2>5, <2>7 DEF CountOK
  <2>9. CASE pendingFlushes[g] = None
    <3>1. /\ flushes' = fs /\ pendingFlushes' = pendingFlushes
          /\ pendingSaveFlushes' = t.count /\ saving' = t.saving
      BY <2>1, <2>9 DEF onPlayerFlushed, SetTracker
    <3> HIDE DEF t, fs
    <3>2. CountOK'
      BY <2>3, <2>8, <3>1 DEF CountOK
    <3> QED
      BY <1>1, <1>2, <2>2, <2>7, <3>1, <3>2 DEF Closed
  <2>10. CASE pendingFlushes[g] # None
    <3> DEFINE p == pendingFlushes[g]
    <3>1. dispatchPlayerFlush(g, p, fs, t)
      BY <2>1, <2>10 DEF onPlayerFlushed
    <3>2. p \in PendingPlayerFlush /\ IsTracked(p) = p.tracked
      <4>1. p \in PendingPlayerFlush
        BY <2>10 DEF TypeOK
      <4>2. p.tracked \in BOOLEAN
        BY <4>1 DEF PendingPlayerFlush
      <4> QED
        BY <2>10, <4>1, <4>2 DEF IsTracked
    <3>3. \A h \in fs : h.guid # g
      BY <2>1 DEF ChainInv, OneFlushPerGuid
    <3> HIDE DEF t, fs, p
    <3>4. t.count = Cardinality(TrackedOf(fs)) + Cardinality(TrackedIn(pendingFlushes) \ {g}) + Bit(p.tracked)
      BY <2>3, <2>4, <2>5, <2>8, <3>2 DEF p
    <3>5. CountOK' /\ (Closed(t) => (pendingSaveFlushes' = 0 => ~saving'))
      BY <2>2, <2>3, <2>7, <3>1, <3>2, <3>3, <3>4, DispatchCounts
    <3> QED
      BY <1>1, <1>2, <2>2, <2>7, <3>5
  <2> QED
    BY <2>9, <2>10
<1>12. ASSUME Crash PROVE CountInv'
  <2>1. flushes' = {} /\ pendingFlushes' = [g \in Guids |-> None] /\ pendingSaveFlushes' = 0 /\ saving' = FALSE
    BY <1>12 DEF Crash
  <2>2. TrackedOf(flushes') = {} /\ TrackedIn(pendingFlushes') = {}
    BY <2>1 DEF TrackedOf, TrackedIn
  <2>3. CountOK'
    BY <2>1, <2>2, FS_EmptySet DEF CountOK
  <2> QED
    BY <1>2, <2>1, <2>3
<1>13. ASSUME UNCHANGED <<flushes, pendingFlushes, tracker, inSaveAll>> PROVE CountInv'
  BY <1>13, UntouchedCounts
<1> QED
  BY <1>4, <1>6, <1>7, <1>8, <1>9, <1>10, <1>11, <1>12, <1>13
  DEF Next, vars, RunSaveAll, RunRecovery, Play, savePlayersSync, drainPlayerFlushAsync, DrainTask, LoginTimeout,
      DrainCallback, loadPlayerById, finishLogin, RecoverGuid, RecoverFails

\* For any set of characters and whatever fails, the counter of saveAll is exact and `saving` ends with
\* it: begin and complete are paired through coalesced saves, refused log writes and crashes.
THEOREM SaveAllCountsTheorem == Spec => []SaveAllCounts
<1>1. Init => CountInv
  <2> SUFFICES ASSUME Init PROVE CountInv
    OBVIOUS
  <2>1. flushes = {} /\ pendingSaveFlushes = 0 /\ saving = FALSE /\ TrackedFlushes = {} /\ TrackedPending = {}
    BY DEF Init, TrackedFlushes, TrackedPending
  <2> QED
    BY <2>1, FS_EmptySet DEF CountInv, TrackedCount, SavingHasEnd
<1>2. CountInv => SaveAllCounts
  BY DEF CountInv, SaveAllCounts
<1>3. Spec => [][Next]_vars /\ Init
  BY PTL DEF Spec
<1> QED
  BY <1>1, <1>2, <1>3, ChainsAlways, CountNext, PTL
=============================================================================
