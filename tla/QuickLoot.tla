----------------------------- MODULE QuickLoot ------------------------------
(***************************************************************************)
(* The quick loot settings of a character (src/src/player.cpp): a change   *)
(* is cached in the KV store at once and written to the database later, by *)
(* a debounced task of DatabaseTasks (src/src/databasetasks.cpp), or by    *)
(* the logout itself.  The next session reads the database, not the cache. *)
(*                                                                         *)
(* The dispatcher runs changes, timers, callbacks, saves of the KV store   *)
(* (src/src/kv/kv.cpp) and logouts, one at a time; the database worker     *)
(* runs beside it.  While the dispatcher waits in DatabaseTasks::flush     *)
(* nothing else of it runs.  Settings are the set of the changes that made *)
(* them: the defaults, and an absent entry or row, are the empty set.  The *)
(* two keys of a character are one entry, read together.  A session is a   *)
(* Player object with an id of its own.                                    *)
(***************************************************************************)
EXTENDS Naturals, Sequences

CONSTANTS
    MaxChanges,     \* bound on the changes
    MaxSessions,    \* bound on the sessions
    MaxTasks        \* bound on the tasks and callbacks under way at once

ASSUME QuickLootBounds == MaxChanges \in Nat /\ MaxSessions \in Nat /\ MaxTasks \in Nat

VARIABLES
    session,        \* [id, online, loaded, generation, dirty, event]; loaded is what the Player holds
    changes,        \* history: how many changes were made,
    newest,         \*   the settings that the last of them made,
    misread,        \*   the session could not read the settings that there were,
    overwritten,    \*   and a session that could not has made a change
    cached,         \* the KV store's entry
    row,            \* the database's row
    dbTasks,        \* DatabaseTasks::tasks: [id, generation, settings]
    active,         \* the task the worker runs: a sequence of at most one
    callbacks,      \* posted to the dispatcher: [id, generation, success]
    dbWorker,       \* "running", "terminated" or "ended"
    waits,          \* the dispatcher waits in flush, for a logout
    outage          \* a logout gave up: all its attempts failed

settingsHistory == <<changes, newest, misread, overwritten>>
quickLootVars == <<session, settingsHistory, cached, row, dbTasks, active, callbacks, dbWorker, waits, outage>>

Offline(id) == [id |-> id, online |-> FALSE, loaded |-> {}, generation |-> 0, dirty |-> FALSE,
                event |-> FALSE]

QuickLootInit ==
    /\ session = Offline(0) /\ changes = 0 /\ newest = {} /\ cached = {} /\ row = {}
    /\ misread = FALSE /\ overwritten = FALSE
    /\ dbTasks = <<>> /\ active = <<>> /\ callbacks = <<>>
    /\ dbWorker = "running" /\ waits = FALSE /\ outage = FALSE

Busy == Len(dbTasks) + Len(active) + Len(callbacks)

-----------------------------------------------------------------------------
(* The dispatcher.                                                          *)

\* ensureQuickLootStateLoaded with forceLoad: an absent cache entry is filled.  A query that fails
\* looks like an absent row, and the session goes on with the defaults.
loadSettings(success) ==
    /\ ~waits /\ ~session.online /\ session.id < MaxSessions /\ dbWorker = "running"
    /\ session' = [Offline(session.id + 1) EXCEPT !.online = TRUE,
                                                  !.loaded = IF success THEN row ELSE {}]
    /\ cached' = IF success /\ cached = {} THEN row ELSE cached
    /\ misread' = (~success /\ row # {})
    /\ UNCHANGED <<changes, newest, overwritten, row, dbTasks, active, callbacks, dbWorker, waits, outage>>

\* scheduleQuickLootPersistence replaces a pending event.
Scheduled(s) == [s EXCEPT !.event = TRUE]

\* The change is made to the settings the session holds, whatever they are.
saveQuickLootState ==
    /\ ~waits /\ session.online /\ changes < MaxChanges
    /\ changes' = changes + 1
    /\ newest' = session.loaded \cup {changes + 1}
    /\ cached' = newest'
    /\ session' = Scheduled([session EXCEPT !.loaded = newest', !.generation = @ + 1, !.dirty = TRUE])
    /\ overwritten' = (overwritten \/ misread) /\ misread' = FALSE
    /\ UNCHANGED <<row, dbTasks, active, callbacks, dbWorker, waits, outage>>

\* The event flushes; clean settings need no task.  One that comes too early after a write is
\* repeated, which only delays it, and a player in the game implies a worker that accepts the task.
persistenceTimer ==
    /\ ~waits /\ session.online /\ session.event
    /\ LET s == [session EXCEPT !.event = FALSE] IN
       \/ ~s.dirty /\ session' = s /\ UNCHANGED dbTasks
       \/ /\ s.dirty /\ dbWorker = "running" /\ Busy < MaxTasks
          /\ session' = s
          /\ dbTasks' = Append(dbTasks, [id |-> s.id, generation |-> s.generation,
                                         settings |-> s.loaded])
    /\ UNCHANGED <<settingsHistory, cached, row, active, callbacks, dbWorker, waits, outage>>

\* Wrong variant: the callback does not compare generations.
AfterFlushAnyGeneration(s, c) ==
    IF c.success THEN [s EXCEPT !.dirty = FALSE] ELSE Scheduled(s)

\* Wrong variant: a write that failed is not repeated.
AfterFlushGivesUp(s, c) ==
    IF c.success /\ s.generation = c.generation THEN [s EXCEPT !.dirty = FALSE] ELSE s

\* What the callback makes of its player's state.
AfterFlush(s, c) ==
    IF c.success /\ s.generation = c.generation THEN [s EXCEPT !.dirty = FALSE] ELSE Scheduled(s)

\* The player of an earlier session is not found.
flushCallback ==
    /\ ~waits /\ callbacks # <<>>
    /\ callbacks' = Tail(callbacks)
    /\ session' = IF session.online /\ session.id = Head(callbacks).id
                  THEN AfterFlush(session, Head(callbacks)) ELSE session
    /\ UNCHANGED <<settingsHistory, cached, row, dbTasks, active, dbWorker, waits, outage>>

\* KVStore::saveAll, within a transaction that may fail.
kvSaveAll ==
    /\ ~waits /\ cached # {}
    /\ row' \in {row, cached}
    /\ UNCHANGED <<session, settingsHistory, cached, dbTasks, active, callbacks, dbWorker, waits, outage>>

\* onRemoveCreature calls flushQuickLootPersistence(true).
quickLootLogout ==
    /\ ~waits /\ session.online
    /\ IF session.dirty
       THEN waits' = TRUE /\ session' = [session EXCEPT !.event = FALSE] /\ UNCHANGED misread
       ELSE session' = Offline(session.id) /\ misread' = FALSE /\ UNCHANGED waits
    /\ UNCHANGED <<changes, newest, overwritten, cached, row, dbTasks, active, callbacks, dbWorker, outage>>

\* Wrong variant: the callbacks are waited for, which only the dispatcher runs.
TasksDoneWithCallbacks == dbTasks = <<>> /\ active = <<>> /\ callbacks = <<>>

\* DatabaseTasks::flush returns.
TasksDone == dbTasks = <<>> /\ active = <<>>

\* The attempts: up to nine, of which one succeeds unless the database is out.
logoutFlush ==
    /\ waits /\ TasksDone
    /\ waits' = FALSE
    /\ session' = Offline(session.id)
    /\ \/ row' = session.loaded /\ UNCHANGED outage
       \/ outage' = TRUE /\ UNCHANGED row
    /\ UNCHANGED <<settingsHistory, cached, dbTasks, active, callbacks, dbWorker>>

\* The server ends, when all players are out: DatabaseTasks::shutdown.
shutdownDbTasks ==
    /\ ~waits /\ ~session.online /\ dbWorker = "running"
    /\ dbWorker' = "terminated"
    /\ UNCHANGED <<session, settingsHistory, cached, row, dbTasks, active, callbacks, waits, outage>>

-----------------------------------------------------------------------------
(* The database worker: threadMain.                                         *)

takeTask ==
    /\ dbWorker # "ended" /\ active = <<>> /\ dbTasks # <<>>
    /\ active' = <<Head(dbTasks)>> /\ dbTasks' = Tail(dbTasks)
    /\ UNCHANGED <<session, settingsHistory, cached, row, callbacks, dbWorker, waits, outage>>

runTask(success) ==
    /\ active # <<>>
    /\ LET t == active[1] IN
       /\ row' = IF success THEN t.settings ELSE row
       /\ callbacks' = Append(callbacks, [id |-> t.id, generation |-> t.generation,
                                          success |-> success])
    /\ active' = <<>>
    /\ UNCHANGED <<session, settingsHistory, cached, dbTasks, dbWorker, waits, outage>>

MayEnd == dbWorker = "terminated" /\ active = <<>> /\ dbTasks = <<>>

workerEnds ==
    /\ MayEnd
    /\ dbWorker' = "ended"
    /\ UNCHANGED <<session, settingsHistory, cached, row, dbTasks, active, callbacks, waits, outage>>

QuickLootNext ==
    \/ (\E success \in BOOLEAN : loadSettings(success)) \/ saveQuickLootState \/ persistenceTimer \/ flushCallback \/ kvSaveAll
    \/ quickLootLogout \/ logoutFlush \/ shutdownDbTasks
    \/ takeTask \/ (\E success \in BOOLEAN : runTask(success)) \/ workerEnds

QuickLootSpec == QuickLootInit /\ [][QuickLootNext]_quickLootVars

\* The threads go on, timers fire, and the database does not fail for ever.
QuickLootFairness ==
    /\ WF_quickLootVars(persistenceTimer) /\ WF_quickLootVars(flushCallback)
    /\ WF_quickLootVars(logoutFlush) /\ WF_quickLootVars(takeTask)
    /\ WF_quickLootVars(\E success \in BOOLEAN : runTask(success))
    /\ SF_quickLootVars(runTask(TRUE))

-----------------------------------------------------------------------------
(* Properties.                                                              *)

\* The variables have their types, and what is limited stays within its limit.
QuickLootTypeOK ==
    /\ session.id \in 0 .. MaxSessions /\ changes \in 0 .. MaxChanges
    /\ session.loaded \cup newest \cup cached \cup row \subseteq 1 .. MaxChanges
    /\ Len(active) <= 1 /\ Busy <= MaxTasks
    /\ dbWorker \in {"running", "terminated", "ended"}

\* While nothing is marked dirty the database holds the newest settings: no late callback of an older
\* write clears the mark of newer settings, and no late write of older settings follows.  The session
\* holds them too, unless it could not read them.  (A logout that failed leaves the cache ahead of the
\* database, and the next save of the cache undoes the next session.)
CleanSettingsPersist ==
    session.online /\ ~session.dirty /\ ~outage => row = newest /\ (session.loaded = newest \/ misread)

\* Between sessions the database holds the newest settings, whatever writes were under way when the
\* last session ended, and no change is missing in them unless a session that could not read its
\* settings made one: that change replaces all the earlier ones.
LogoutPersists ==
    ~session.online /\ ~outage => row = newest /\ (~overwritten => newest = 1 .. changes)

\* No task that was accepted is left behind when the worker ends.
AcceptedTasksRun == dbWorker = "ended" => dbTasks = <<>> /\ active = <<>>

\* Changed settings are written while the player stays, without waiting for the logout.
DirtySettingsAreSaved == session.dirty ~> (~session.dirty \/ waits)

\* The dispatcher, waiting for the database worker, does not wait for ever.
LogoutReturns == waits ~> ~waits

\* No settings are lost by late callbacks, writes of an earlier session, a logout or the shutdown of
\* the database worker; a failed read does lose them, once a change is made on top of it.
SettingsAreKept == QuickLootTypeOK /\ CleanSettingsPersist /\ LogoutPersists /\ AcceptedTasksRun

=============================================================================
