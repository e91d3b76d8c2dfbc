---------------------------- MODULE SaveManager ----------------------------
(***************************************************************************)
(* The coordination of player saves (src/src/save_manager.h and .cpp).     *)
(*                                                                         *)
(* All bookkeeping runs on the dispatcher thread.  A save is a snapshot of *)
(* the player taken there; it is written to the write-ahead log            *)
(* (`player_save_async_pending`), flushed to the player tables by a worker *)
(* of the thread pool, and completed by a task posted back to the          *)
(* dispatcher.  At most one flush per character is out; a save that        *)
(* arrives meanwhile replaces the one waiting behind it.  At startup the   *)
(* log entries that are still there are replayed.                          *)
(*                                                                         *)
(* A character's state is the set of updates whose effect it includes, so  *)
(* any history of the character is a growing set and a lost update is a    *)
(* missing element.  Tasks waiting on the dispatcher are run in any order, *)
(* which includes the FIFO order of the real queue.  A failed transaction  *)
(* leaves its tables alone (DBTransaction rolls back).                     *)
(*                                                                         *)
(* A "wrong variant" above a definition is a plausible slip in that code;   *)
(* it is not part of the specification, only substituted to see that the   *)
(* properties notice it.                                                   *)
(*                                                                         *)
(* Not here: the throttle of saveAll (a skipped saveAll changes nothing),  *)
(* snapshots that cannot be built (the call returns), the dirty marks that *)
(* a completed flush clears (PlayerStorage), and the SQL text.             *)
(***************************************************************************)
EXTENDS Naturals, FiniteSets

CONSTANTS
    Guids,           \* characters
    Updates,         \* changes a character can undergo
    Waiters,         \* callers of drainPlayerFlushAsync (logins, scripts)
    None,            \* absent log entry, absent pending save, offline
    Faults,          \* the failures of the environment that may happen
    OfflineWriters   \* who may write an offline character: "mail" (and houses), "bed"

AllFaults == {"wal", "flush", "delete", "crash", "recoverBegin", "recoverQuery"}

ASSUME GuidsFinite == IsFiniteSet(Guids)
ASSUME NoneFresh == /\ None \notin Guids
                    /\ \A s \in SUBSET Updates : s # None
                    /\ \A r \in [save : SUBSET Updates, tracked : BOOLEAN] : r # None
ASSUME FaultsKnown == Faults \subseteq AllFaults /\ OfflineWriters \subseteq {"mail", "bed"}

States == SUBSET Updates
PendingPlayerFlush == [save : States, tracked : BOOLEAN]
Flushes == [guid : Guids, save : States, tracked : BOOLEAN, stage : {"queued", "ok", "failed"}]

NoDrain == [state |-> "none", guid |-> None, login |-> FALSE, loaded |-> None]
Drains == {NoDrain} \cup [state : {"asked", "registered", "drained", "failed", "loading", "loaded"},
                          guid : Guids, login : BOOLEAN, loaded : {None} \cup States]

VARIABLES
    db,                  \* what the player tables hold
    wal,                 \* the log entry of each character
    accepted,            \* history: the newest save each character handed over
    mem,                 \* the Player object of an online character
    flushInFlight,
    pendingFlushes,
    flushes,             \* closures in the pool, then posted to the dispatcher
    pendingSaveFlushes,
    saving,
    saveTodo,            \* players saveAll has yet to visit
    inSaveAll,           \* the dispatcher is inside saveAll
    drains,              \* each caller of drainPlayerFlushAsync
    failedRecoveryGuids,
    unrecovered,         \* history: log entries this startup could not replay
    toRecover            \* log entries recoverPendingFlushes has yet to visit

disk == <<db, wal>>
queue == <<flushInFlight, pendingFlushes, flushes>>
tracker == <<pendingSaveFlushes, saving>>
loop == <<saveTodo, inSaveAll>>
startup == <<failedRecoveryGuids, unrecovered, toRecover>>
vars == <<disk, accepted, mem, queue, tracker, loop, drains, startup>>

-----------------------------------------------------------------------------
(* The tracked-flush counter of saveAll, threaded through one handler.      *)

Tracker == [count |-> pendingSaveFlushes, saving |-> saving]

SetTracker(t) == pendingSaveFlushes' = t.count /\ saving' = t.saving

beginTrackedFlush(t) == [t EXCEPT !.count = t.count + 1]

\* Wrong variant: the test for the last flush reads `prev == 0`.
completeTestsZero(t) ==
    [count |-> IF t.count = 0 THEN 0 ELSE t.count - 1, saving |-> t.saving /\ t.count # 0]

\* fetch_sub, with the underflow undone; the last one out ends the saveAll.
completeTrackedFlush(t) ==
    [count |-> IF t.count = 0 THEN 0 ELSE t.count - 1,
     saving |-> t.saving /\ t.count > 1]

BeginIf(b, t) == IF b THEN beginTrackedFlush(t) ELSE t
CompleteIf(b, t) == IF b THEN completeTrackedFlush(t) ELSE t

isSaving == saving \/ pendingSaveFlushes # 0

-----------------------------------------------------------------------------
\* Wrong variant: a flush that is out is forgotten.
onlyWaitingSaves(g) == pendingFlushes[g] # None

hasPendingPlayerSave(g) == g \in flushInFlight \/ pendingFlushes[g] # None

\* The dispatcher is free to run a task: startup is over, no saveAll is running.
Idle == toRecover = {} /\ ~inSaveAll

\* The log write is one transaction and is refused after a failed recovery.
WalWritten(g, save) ==
    /\ g \notin failedRecoveryGuids
    /\ wal' = [wal EXCEPT ![g] = save]
WalRefused(g) ==
    /\ g \in failedRecoveryGuids \/ "wal" \in Faults
    /\ wal' = wal

\* Wrong variant: a chain that fails tells nobody.
NotifyOnSuccess(g, success) ==
    drains' = [w \in Waiters |->
                IF success /\ drains[w].state = "registered" /\ drains[w].guid = g
                THEN [drains[w] EXCEPT !.state = "drained"]
                ELSE drains[w]]

\* Every callback registered for the chain is posted with the outcome.
NotifyChain(g, success) ==
    drains' = [w \in Waiters |->
                IF drains[w].state = "registered" /\ drains[w].guid = g
                THEN [drains[w] EXCEPT !.state = IF success THEN "drained" ELSE "failed"]
                ELSE drains[w]]

\* Wrong variant: the refused branch keeps the character in flushInFlight.
dispatchLeaksMark(g, pending, fs, t) ==
    /\ pendingFlushes' = [pendingFlushes EXCEPT ![g] = None]
    /\ flushInFlight' = flushInFlight \cup {g}
    /\ \/ /\ WalWritten(g, pending.save)
          /\ flushes' = fs \cup {[guid |-> g, save |-> pending.save,
                                  tracked |-> pending.tracked, stage |-> "queued"]}
          /\ SetTracker(t)
          /\ UNCHANGED drains
       \/ /\ WalRefused(g)
          /\ flushes' = fs
          /\ NotifyChain(g, FALSE)
          /\ SetTracker(CompleteIf(pending.tracked, t))

\* Run by a handler that has left the flushes fs and the tracker t so far.
dispatchPlayerFlush(g, pending, fs, t) ==
    /\ pendingFlushes' = [pendingFlushes EXCEPT ![g] = None]
    /\ \/ /\ WalWritten(g, pending.save)
          /\ flushInFlight' = flushInFlight \cup {g}
          /\ flushes' = fs \cup {[guid |-> g, save |-> pending.save,
                                  tracked |-> pending.tracked, stage |-> "queued"]}
          /\ SetTracker(t)
          /\ UNCHANGED drains
       \/ /\ WalRefused(g)
          /\ flushInFlight' = flushInFlight \ {g}
          /\ flushes' = fs
          /\ NotifyChain(g, FALSE)
          /\ SetTracker(CompleteIf(pending.tracked, t))

\* Wrong variant: a save that has to wait is kept in memory only.
EnqueueUnlogged(g, save, tracked) ==
    /\ pendingFlushes' = [pendingFlushes EXCEPT ![g] = [save |-> save, tracked |-> tracked]]
    /\ UNCHANGED <<wal, flushInFlight, flushes, drains>>

\* The save replaces the one waiting; a failed log write is only logged.
Enqueue(g, save, tracked) ==
    /\ WalWritten(g, save) \/ WalRefused(g)
    /\ pendingFlushes' = [pendingFlushes EXCEPT ![g] = [save |-> save, tracked |-> tracked]]
    /\ UNCHANGED <<flushInFlight, flushes, drains>>

\* Wrong variant: the save that replaces a tracked one is not tracked.
TrackingDropped(g) == FALSE

PendingTracked(g) == pendingFlushes[g] # None /\ pendingFlushes[g].tracked

\* Wrong variant: a flush that is already out is not looked for.
scheduleAlways(g, trackSaveAll) ==
    /\ accepted' = [accepted EXCEPT ![g] = mem[g]]
    /\ UNCHANGED db
    /\ dispatchPlayerFlush(g, [save |-> mem[g], tracked |-> trackSaveAll],
                           flushes, BeginIf(trackSaveAll, Tracker))

schedulePlayerFlush(g, trackSaveAll) ==
    /\ accepted' = [accepted EXCEPT ![g] = mem[g]]
    /\ UNCHANGED db
    /\ \/ /\ g \in flushInFlight
          /\ Enqueue(g, mem[g], PendingTracked(g) \/ trackSaveAll)
          /\ SetTracker(BeginIf(trackSaveAll /\ ~PendingTracked(g), Tracker))
       \/ /\ g \notin flushInFlight
          /\ dispatchPlayerFlush(g, [save |-> mem[g], tracked |-> trackSaveAll],
                                 flushes, BeginIf(trackSaveAll, Tracker))

-----------------------------------------------------------------------------
(* Requests, all on the dispatcher.                                         *)

Play(g) ==
    /\ Idle
    /\ mem[g] # None
    /\ \E u \in Updates \ mem[g] : mem' = [mem EXCEPT ![g] = @ \cup {u}]
    /\ UNCHANGED <<disk, accepted, queue, tracker, loop, drains, startup>>

savePlayer(g) ==
    /\ Idle
    /\ mem[g] # None
    /\ schedulePlayerFlush(g, FALSE)
    /\ UNCHANGED <<mem, loop, startup>>

\* saveAll: refused while one is under way; then one step per online player,
\* then the map, whose own begin/complete pair closes the bookkeeping.
SaveAllBegin ==
    /\ Idle
    /\ ~isSaving
    /\ saving' = TRUE
    /\ inSaveAll' = TRUE
    /\ saveTodo' = {g \in Guids : mem[g] # None}
    /\ UNCHANGED <<disk, accepted, mem, queue, pendingSaveFlushes, drains, startup>>

SaveAllPlayer(g) ==
    /\ g \in saveTodo
    /\ saveTodo' = saveTodo \ {g}
    /\ schedulePlayerFlush(g, TRUE)
    /\ UNCHANGED <<mem, inSaveAll, startup>>

SaveAllEnd ==
    /\ inSaveAll /\ saveTodo = {}
    /\ inSaveAll' = FALSE
    /\ SetTracker(completeTrackedFlush(beginTrackedFlush(Tracker)))
    /\ UNCHANGED <<disk, accepted, mem, queue, saveTodo, drains, startup>>

\* A snapshot of one Player object, online or a temporary one.  The direct
\* path tries the transaction up to three times and never touches the log.
\* (Its code to dispatch a waiting save is unreachable: see ChainConsistent.)
savePlayerSync(g, save) ==
    /\ UNCHANGED <<tracker, drains, flushInFlight, flushes>>
    /\ \/ /\ g \in flushInFlight
          /\ accepted' = [accepted EXCEPT ![g] = save]
          /\ Enqueue(g, save, PendingTracked(g))
          /\ UNCHANGED db
       \/ /\ g \notin flushInFlight
          /\ accepted' = [accepted EXCEPT ![g] = save]
          /\ db' = [db EXCEPT ![g] = save]
          /\ UNCHANGED <<wal, pendingFlushes>>
       \/ /\ g \notin flushInFlight
          /\ "flush" \in Faults
          /\ UNCHANGED <<accepted, disk, pendingFlushes>>

\* player:save()
SaveOnline(g) ==
    /\ Idle
    /\ mem[g] # None
    /\ savePlayerSync(g, mem[g])
    /\ UNCHANGED <<mem, loop, startup>>

\* Player::onRemoveCreature; its retries repeat the same snapshot.
Logout(g) ==
    /\ Idle
    /\ mem[g] # None
    /\ savePlayerSync(g, mem[g])
    /\ mem' = [mem EXCEPT ![g] = None]
    /\ UNCHANGED <<loop, startup>>

\* Mailbox and House: load a temporary Player from the tables, change it, save.
SaveOffline(g) ==
    /\ "mail" \in OfflineWriters
    /\ Idle
    /\ mem[g] = None
    /\ \E u \in Updates \ db[g] : savePlayerSync(g, db[g] \cup {u})
    /\ UNCHANGED <<mem, loop, startup>>

\* BedItem::wakeUpAll: offline sleepers, none with a save under way, are loaded
\* and saved in one transaction.  Neither asks whether a login is pending.
savePlayersSync(G) ==
    /\ "bed" \in OfflineWriters
    /\ Idle
    /\ \A g \in G : mem[g] = None /\ ~hasPendingPlayerSave(g) /\ g \notin failedRecoveryGuids
    /\ \E u \in Updates :
          /\ db' = [g \in Guids |-> IF g \in G THEN db[g] \cup {u} ELSE db[g]]
          /\ accepted' = [g \in Guids |-> IF g \in G THEN db[g] \cup {u} ELSE accepted[g]]
    /\ UNCHANGED <<wal, mem, queue, tracker, loop, drains, startup>>

-----------------------------------------------------------------------------
(* The drain barrier.                                                       *)

\* Wrong variant: nothing is reserved.
NeverReserved(g) == FALSE

\* Game::reserveLogin: one login per character at a time.
LoginReserved(g) == \E w \in Waiters : drains[w].guid = g /\ drains[w].login

\* Posts a task.  A login asks for a character that is offline, not reserved by
\* another login and not blocked by a failed recovery, and reserves it; a script
\* asks for any.
drainPlayerFlushAsync(w, g, login) ==
    /\ Idle
    /\ drains[w] = NoDrain
    /\ login => mem[g] = None /\ ~LoginReserved(g) /\ g \notin failedRecoveryGuids
    /\ drains' = [drains EXCEPT ![w] = [state |-> "asked", guid |-> g, login |-> login, loaded |-> None]]
    /\ UNCHANGED <<disk, accepted, mem, queue, tracker, loop, startup>>

DrainTask(w) ==
    /\ Idle
    /\ drains[w].state = "asked"
    /\ drains' = [drains EXCEPT ![w].state =
                    IF hasPendingPlayerSave(drains[w].guid) THEN "registered" ELSE "drained"]
    /\ UNCHANGED <<disk, accepted, mem, queue, tracker, loop, startup>>

\* The ten second event of the login: the reservation is released and the
\* callback, when it comes, finds `completed` set and does nothing.
LoginTimeout(w) ==
    /\ Idle
    /\ drains[w].login
    /\ drains[w].state \notin {"loading", "loaded"}
    /\ drains' = [drains EXCEPT ![w].login = FALSE]
    /\ UNCHANGED <<disk, accepted, mem, queue, tracker, loop, startup>>

\* The callback.  A login answered TRUE has a worker load the character; any
\* other caller only takes the answer.
DrainCallback(w) ==
    /\ Idle
    /\ \/ /\ drains[w].login /\ drains[w].state = "drained"
          /\ drains' = [drains EXCEPT ![w].state = "loading"]
       \/ /\ drains[w].state = "failed" \/ (drains[w].state = "drained" /\ ~drains[w].login)
          /\ drains' = [drains EXCEPT ![w] = NoDrain]
    /\ UNCHANGED <<disk, accepted, mem, queue, tracker, loop, startup>>

\* On a worker, while the dispatcher goes on.  The load may fail.
loadPlayerById(w) ==
    /\ drains[w].state = "loading"
    /\ \E p \in {None, db[drains[w].guid]} :
          drains' = [drains EXCEPT ![w].state = "loaded", ![w].loaded = p]
    /\ UNCHANGED <<disk, accepted, mem, queue, tracker, loop, startup>>

\* Wrong variant: the reservation is kept.
finishKeepsReservation(w) ==
    /\ Idle
    /\ drains[w].state = "loaded"
    /\ drains' = [drains EXCEPT ![w].state = "none"]
    /\ \/ mem' = mem
       \/ /\ drains[w].loaded # None
          /\ mem' = [mem EXCEPT ![drains[w].guid] = drains[w].loaded]
    /\ UNCHANGED <<disk, accepted, queue, tracker, loop, startup>>

\* The player enters the world, unless the load failed, the client is gone or no
\* tile takes it; the reservation ends on every path.
finishLogin(w) ==
    /\ Idle
    /\ drains[w].state = "loaded"
    /\ drains' = [drains EXCEPT ![w] = NoDrain]
    /\ \/ mem' = mem
       \/ /\ drains[w].loaded # None
          /\ mem' = [mem EXCEPT ![drains[w].guid] = drains[w].loaded]
    /\ UNCHANGED <<disk, accepted, queue, tracker, loop, startup>>

-----------------------------------------------------------------------------
(* The thread pool and the completion of a flush.                           *)

FlushDone(f, outcome) ==
    flushes' = (flushes \ {f}) \cup {[f EXCEPT !.stage = outcome]}

flushPlayerSave(f) ==
    /\ f \in flushes /\ f.stage = "queued"
    /\ \/ /\ db' = [db EXCEPT ![f.guid] = f.save]
          /\ FlushDone(f, "ok")
       \/ /\ "flush" \in Faults
          /\ db' = db
          /\ FlushDone(f, "failed")
    /\ UNCHANGED <<wal, accepted, mem, flushInFlight, pendingFlushes, tracker, loop, drains, startup>>

onPlayerFlushed(f) ==
    LET g == f.guid
        success == f.stage = "ok"
        t == CompleteIf(f.tracked, Tracker)
    IN
    /\ Idle
    /\ f \in flushes /\ f.stage # "queued"
    /\ \/ /\ pendingFlushes[g] = None
          /\ flushes' = flushes \ {f}
          /\ flushInFlight' = flushInFlight \ {g}
          /\ \/ success /\ wal' = [wal EXCEPT ![g] = None]
             \/ (success => "delete" \in Faults) /\ wal' = wal
          /\ NotifyChain(g, success)
          /\ SetTracker(t)
          /\ UNCHANGED pendingFlushes
       \/ /\ pendingFlushes[g] # None
          /\ dispatchPlayerFlush(g, pendingFlushes[g], flushes \ {f}, t)
    /\ UNCHANGED <<db, accepted, mem, loop, startup>>

-----------------------------------------------------------------------------
(* Crash and recovery: only the tables and the log survive.                 *)

\* A crash may come between the commit of a replay and the deletion of its entry.
Crash ==
    /\ "crash" \in Faults
    /\ db' \in {db} \cup {[db EXCEPT ![g] = wal[g]] : g \in toRecover}
    /\ mem' = [g \in Guids |-> None]
    /\ flushInFlight' = {} /\ flushes' = {}
    /\ pendingFlushes' = [g \in Guids |-> None]
    /\ pendingSaveFlushes' = 0 /\ saving' = FALSE
    /\ saveTodo' = {} /\ inSaveAll' = FALSE
    /\ drains' = [w \in Waiters |-> NoDrain]
    /\ failedRecoveryGuids' = {} /\ unrecovered' = {}
    /\ toRecover' = {g \in Guids : wal[g] # None}
    /\ UNCHANGED <<wal, accepted>>

\* Wrong variant: the entry is deleted without having been replayed.
RecoverDeletes(g) ==
    /\ g \in toRecover
    /\ toRecover' = toRecover \ {g}
    /\ wal' = [wal EXCEPT ![g] = None]
    /\ UNCHANGED <<db, accepted, mem, queue, tracker, loop, drains, failedRecoveryGuids, unrecovered>>

\* Replay committed; the entry is then deleted by a query of its own.
RecoverGuid(g) ==
    /\ g \in toRecover
    /\ toRecover' = toRecover \ {g}
    /\ db' = [db EXCEPT ![g] = wal[g]]
    /\ \/ wal' = [wal EXCEPT ![g] = None]
       \/ "delete" \in Faults /\ wal' = wal
    /\ UNCHANGED <<accepted, mem, queue, tracker, loop, drains, failedRecoveryGuids, unrecovered>>

\* A failed query marks the character; a failed begin or commit does not.
RecoverFails(g) ==
    /\ g \in toRecover
    /\ toRecover' = toRecover \ {g}
    /\ unrecovered' = unrecovered \cup {g}
    /\ \/ "recoverQuery" \in Faults /\ failedRecoveryGuids' = failedRecoveryGuids \cup {g}
       \/ "recoverBegin" \in Faults /\ UNCHANGED failedRecoveryGuids
    /\ UNCHANGED <<disk, accepted, mem, queue, tracker, loop, drains>>

-----------------------------------------------------------------------------
Init ==
    /\ db = [g \in Guids |-> {}]
    /\ wal = [g \in Guids |-> None]
    /\ accepted = [g \in Guids |-> {}]
    /\ mem = [g \in Guids |-> None]
    /\ flushInFlight = {} /\ flushes = {}
    /\ pendingFlushes = [g \in Guids |-> None]
    /\ pendingSaveFlushes = 0 /\ saving = FALSE
    /\ saveTodo = {} /\ inSaveAll = FALSE
    /\ drains = [w \in Waiters |-> NoDrain]
    /\ failedRecoveryGuids = {} /\ unrecovered = {} /\ toRecover = {}

RunRecovery == \E g \in Guids : RecoverGuid(g) \/ RecoverFails(g)
RunSaveAll == (\E g \in Guids : SaveAllPlayer(g)) \/ SaveAllEnd
RunFlush(g) == \E f \in flushes : f.guid = g /\ flushPlayerSave(f)
RunFlushed(g) == \E f \in flushes : f.guid = g /\ onPlayerFlushed(f)

Next ==
    \/ \E g \in Guids : Play(g) \/ savePlayer(g) \/ SaveOnline(g) \/ Logout(g) \/ SaveOffline(g)
    \/ \E G \in SUBSET Guids \ {{}} : savePlayersSync(G)
    \/ SaveAllBegin \/ RunSaveAll
    \/ \E w \in Waiters, g \in Guids, login \in BOOLEAN : drainPlayerFlushAsync(w, g, login)
    \/ \E w \in Waiters : DrainTask(w) \/ LoginTimeout(w) \/ DrainCallback(w)
                        \/ loadPlayerById(w) \/ finishLogin(w)
    \/ \E g \in Guids : RunFlush(g) \/ RunFlushed(g)
    \/ Crash
    \/ RunRecovery

Spec == Init /\ [][Next]_vars

\* The pool runs every flush it was given and the dispatcher every task posted to
\* it; a task waits while saveAll runs, so being posted must be enough (SF).
Fairness ==
    /\ \A g \in Guids : WF_vars(RunFlush(g)) /\ SF_vars(RunFlushed(g))
    /\ WF_vars(RunSaveAll)
    /\ WF_vars(RunRecovery)
    /\ \A w \in Waiters :
          /\ SF_vars(DrainTask(w) \/ DrainCallback(w) \/ finishLogin(w))   \* never two at once
          /\ WF_vars(loadPlayerById(w))

FairSpec == Spec /\ Fairness

-----------------------------------------------------------------------------
(* Properties.                                                              *)

\* Every variable has its type; an absent log entry, save or player is None, and a
\* caller of the drain barrier that is done holds no reservation.
TypeOK ==
    /\ db \in [Guids -> States]
    /\ wal \in [Guids -> {None} \cup States]
    /\ accepted \in [Guids -> States]
    /\ mem \in [Guids -> {None} \cup States]
    /\ flushInFlight \in SUBSET Guids
    /\ pendingFlushes \in [Guids -> {None} \cup PendingPlayerFlush]
    /\ flushes \in SUBSET Flushes
    /\ pendingSaveFlushes \in Nat
    /\ saving \in BOOLEAN
    /\ saveTodo \in SUBSET Guids
    /\ inSaveAll \in BOOLEAN
    /\ drains \in [Waiters -> Drains]
    /\ failedRecoveryGuids \in SUBSET Guids
    /\ unrecovered \in SUBSET Guids
    /\ toRecover \in SUBSET Guids

\* "two saves for the same GUID are never flushed concurrently": whatever fails,
\* at most one flush per character is with the pool or on its way back.
OneFlushPerGuid ==
    \A f1, f2 \in flushes : f1.guid = f2.guid => f1 = f2

\* flushInFlight marks exactly the characters with a flush out; a waiting save or
\* a registered callback always has a flush out that will pick it up.
ChainConsistent ==
    /\ flushInFlight = {f.guid : f \in flushes}
    /\ \A g \in Guids : pendingFlushes[g] # None => g \in flushInFlight
    /\ \A w \in Waiters : drains[w].state = "registered" => drains[w].guid \in flushInFlight

\* pendingSaveFlushes counts exactly the tracked flushes and the tracked saves
\* that wait, so begin and complete are paired whatever fails on the way.
TrackedFlushes == {f \in flushes : f.tracked}
TrackedPending == {g \in Guids : pendingFlushes[g] # None /\ pendingFlushes[g].tracked}
TrackedCount ==
    pendingSaveFlushes = Cardinality(TrackedFlushes) + Cardinality(TrackedPending)

\* Once saveAll has returned, `saving` never outlives the tracked flushes: a log
\* write that fails half way through leaves saveAll able to run again.
SavingHasEnd ==
    ~inSaveAll /\ pendingSaveFlushes = 0 => ~saving

\* saveAll's books close: the counter is exact across coalesced saves and refused
\* log writes, and the mark `saving` ends with it.
SaveAllCounts == TrackedCount /\ SavingHasEnd

\* A login waits only for a character that is offline: its reservation holds the
\* character against a second login until the load, across timeouts.
LoginHoldsOffline ==
    \A w \in Waiters : drains[w].login => mem[drains[w].guid] = None

\* What a restart would restore.
Durable(g) == IF wal[g] # None THEN wal[g] ELSE db[g]

\* No step, crash and recovery included, takes away an update that had reached
\* the tables or the log: recovery replays nothing older than the tables, and no
\* save writes a character back from an older state.
NothingPersistedIsLost ==
    [][\A g \in Guids : Durable(g) \subseteq Durable(g)']_vars

\* The log and the tables together implement one stable state per character:
\* every save is durable the moment its call returns, a flush, its completion, a
\* crash and a recovery change nothing, and a login starts from the newest save.
Stable == INSTANCE DurableCharacters WITH live <- mem, stable <- [g \in Guids |-> Durable(g)]
SavesAreDurable == Stable!Spec

\* A drain answered TRUE means that the tables hold the newest save that was
\* handed over, and the state a login loaded afterwards on its worker includes it
\* until the player is placed.
DrainedMeansPersisted ==
    \A w \in Waiters : drains[w].login =>
        /\ drains[w].state \in {"drained", "loading"} => accepted[drains[w].guid] \subseteq db[drains[w].guid]
        /\ drains[w].loaded # None => accepted[drains[w].guid] \subseteq drains[w].loaded

\* A temporary Player of an offline character is not loaded from tables that an
\* accepted save has yet to reach: what it writes includes every earlier save.
OfflineWriteKeepsNewest ==
    [][\A g \in Guids : SaveOffline(g) => accepted[g] \subseteq accepted'[g]]_vars

\* Recovery replays a log entry only if it is the newest save handed over.
RecoveryReplaysNewest ==
    [][\A g \in Guids : RecoverGuid(g) => accepted[g] \subseteq db'[g]]_vars

\* A log entry that startup could not replay is not overwritten afterwards.
UnrecoveredWalKept ==
    [][\A g \in unrecovered : g \in unrecovered' => wal'[g] = wal[g]]_vars

\* A login that waits for the saves of an offline character ends and gives up its
\* reservation, whatever fails: its chain ends because nothing else extends it.
LoginAnswered ==
    \A w \in Waiters : drains[w].login ~> ~drains[w].login

\* A saveAll that was begun is over at some point, so the next can start.
SaveAllEnds == isSaving ~> ~isSaving

=============================================================================
