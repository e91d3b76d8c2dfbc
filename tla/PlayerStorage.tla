--------------------------- MODULE PlayerStorage ---------------------------
(***************************************************************************)
(* The dirty marks of one character's storage map (src/src/player.cpp) and *)
(* the delta saves built from them (src/src/iologindata.cpp), along the    *)
(* flush chain of SaveManager.                                             *)
(*                                                                         *)
(* A save carries only the keys that are dirty, so whether the tables ever *)
(* get a value depends on when the mark is cleared: a mark is cleared by   *)
(* the acknowledgement of a flush, possibly several saves and changes      *)
(* later.  Each change stamps its key with a revision; a snapshot carries  *)
(* the revision it was taken at, and acknowledging it leaves alone the     *)
(* keys stamped later.                                                     *)
(*                                                                         *)
(* The claim of a daily reward bypasses the chain: it writes its own keys  *)
(* straight to the table and acknowledges them.  The kill counts of the    *)
(* bestiary are tracked by the same code with no removals.                 *)
(*                                                                         *)
(* One character; what concerns several of them, logins and the failures   *)
(* of recovery is in SaveManager.  A player whose `save` flag is off is    *)
(* left out.  MaxRevision bounds the changes of one Player object.         *)
(***************************************************************************)
EXTENDS Naturals

CONSTANTS
    Keys,
    DailyKeys,     \* the keys that saveDailyReward writes
    Values,
    Zero,          \* what saveDailyReward writes for an absent key
    None,          \* no value, no row; no save
    Faults,        \* among "wal", "flush", "delete", "crash"
    MaxRevision

ASSUME DailyAreKeys == DailyKeys \subseteq Keys
ASSUME ValuesKnown == Zero \in Values /\ None \notin Values
ASSUME MaxRevisionNat == MaxRevision \in Nat

Maps == [Keys -> {None} \cup Values]
Snapshots == [id : Nat, modified : SUBSET Keys, removed : SUBSET Keys, rows : Maps]
ASSUME NoneIsNoSave == None \notin Snapshots

VARIABLES
    online,
    storage,       \* the storage map of the Player object
    modified, removed,
    revisions,     \* storageDirtyKeyRevisions, 0 where the key has no entry
    revision,      \* storageDirtyRevision
    table,         \* the rows of `player_storage`
    wal,           \* the save in the log
    inFlight, stage,
    pending,
    recovering,    \* startup has yet to replay the log
    saved,         \* history: the storage map at the newest save
    failed         \* history: a write failed, and no save has been logged or written since

object == <<online, storage, modified, removed, revisions, revision>>
chain == <<inFlight, stage, pending>>
history == <<saved, failed>>
vars == <<object, table, wal, chain, recovering, history>>

-----------------------------------------------------------------------------
(* The Player object.                                                       *)

Empty == [k \in Keys |-> None]

setStorageValue(k, v) ==
    /\ online /\ revision < MaxRevision
    /\ v # storage[k]
    /\ storage' = [storage EXCEPT ![k] = v]
    /\ \/ v # None /\ modified' = modified \cup {k} /\ removed' = removed \ {k}
       \/ v = None /\ modified' = modified \ {k} /\ removed' = removed \cup {k}
    /\ revision' = revision + 1
    /\ revisions' = [revisions EXCEPT ![k] = revision + 1]
    /\ UNCHANGED <<online, table, wal, chain, recovering, history>>

\* getStorageDirtySnapshot, with the rows that buildPlayerSave captures.
getStorageDirtySnapshot ==
    [id |-> revision, modified |-> modified, removed |-> removed,
     rows |-> [k \in Keys |-> IF k \in modified THEN storage[k] ELSE None]]

DirtyKeys(s) == s.modified \cup s.removed

\* The storage part of savePlayerQueries: delete the removed, upsert the modified.
Replay(t, s) ==
    [k \in Keys |-> IF k \in s.modified THEN s.rows[k]
                    ELSE IF k \in s.removed THEN None ELSE t[k]]

\* Wrong variant: the revision is not compared.
AckedAlways(s, keys) == DirtyKeys(s) \cap keys

Acked(s, keys) == {k \in DirtyKeys(s) \cap keys : revisions[k] <= s.id}

acknowledgeStorageDirty(s, keys) ==
    /\ modified' = modified \ Acked(s, keys)
    /\ removed' = removed \ Acked(s, keys)
    /\ revisions' = [k \in Keys |-> IF k \in Acked(s, keys) THEN 0 ELSE revisions[k]]
    /\ UNCHANGED <<online, storage, revision>>

NewObject(o, map) ==
    /\ online' = o
    /\ storage' = map
    /\ modified' = {} /\ removed' = {}
    /\ revisions' = [k \in Keys |-> 0] /\ revision' = 0

-----------------------------------------------------------------------------
(* The flush chain.                                                         *)

\* dispatchPlayerFlush: a log that refuses the save ends the chain.
Dispatch(s) ==
    /\ pending' = None
    /\ \/ wal' = s /\ inFlight' = s /\ stage' = "queued" /\ failed' = FALSE
       \/ "wal" \in Faults /\ wal' = wal /\ inFlight' = None /\ stage' = "idle" /\ failed' = TRUE

\* Wrong variant: a save behind another one is not written to the log.
WaitUnlogged(s) ==
    /\ pending' = s
    /\ failed' = FALSE
    /\ UNCHANGED <<wal, inFlight, stage>>

\* Behind the flush that is out, replacing the save that waits there.
Wait(s) ==
    /\ pending' = s
    /\ \/ wal' = s /\ failed' = FALSE
       \/ "wal" \in Faults /\ wal' = wal /\ failed' = TRUE
    /\ UNCHANGED <<inFlight, stage>>

savePlayer ==
    /\ online
    /\ saved' = storage
    /\ \/ inFlight = None /\ Dispatch(getStorageDirtySnapshot)
       \/ inFlight # None /\ Wait(getStorageDirtySnapshot)
    /\ UNCHANGED <<object, table, recovering>>

\* The part of savePlayerSync that both its callers share.  It leaves a log entry alone that outlived
\* its chain.
SaveDirect ==
    /\ inFlight = None
    /\ table' = Replay(table, getStorageDirtySnapshot)
    /\ saved' = storage
    /\ failed' = (wal # None)
    /\ UNCHANGED <<wal, chain, recovering>>
SaveRefused ==
    /\ inFlight = None
    /\ "flush" \in Faults /\ failed' = TRUE
    /\ UNCHANGED <<table, wal, chain, recovering, saved>>
SaveBehind ==
    /\ inFlight # None
    /\ Wait(getStorageDirtySnapshot)
    /\ saved' = storage
    /\ UNCHANGED <<table, recovering>>

savePlayerSync ==
    /\ online
    /\ \/ SaveDirect /\ acknowledgeStorageDirty(getStorageDirtySnapshot, Keys)
       \/ (SaveRefused \/ SaveBehind) /\ UNCHANGED object

\* onRemoveCreature: the object is saved and goes away with its marks.
logout ==
    /\ online
    /\ SaveDirect \/ SaveRefused \/ SaveBehind
    /\ NewObject(FALSE, Empty)

\* A new Player object, loaded once the flush chain has ended.
login ==
    /\ ~online /\ ~recovering
    /\ inFlight = None
    /\ NewObject(TRUE, table)
    /\ UNCHANGED <<table, wal, chain, recovering, history>>

flushPlayerSave ==
    /\ stage = "queued"
    /\ \/ table' = Replay(table, inFlight) /\ stage' = "ok" /\ failed' = failed
       \/ "flush" \in Faults /\ table' = table /\ stage' = "failed" /\ failed' = TRUE
    /\ UNCHANGED <<object, wal, inFlight, pending, recovering, saved>>

\* deletePendingFlushFromDB: nobody looks at its outcome.
DeleteEntry ==
    \/ wal' = None /\ failed' = failed
    \/ "delete" \in Faults /\ wal' = wal /\ failed' = TRUE

\* The acknowledgement reaches whichever Player object is online under the guid.
onPlayerFlushed ==
    /\ stage \in {"ok", "failed"}
    /\ \/ stage = "ok" /\ online /\ acknowledgeStorageDirty(inFlight, Keys)
       \/ ~(stage = "ok" /\ online) /\ UNCHANGED object
    /\ \/ /\ pending = None
          /\ inFlight' = None /\ stage' = "idle"
          /\ \/ stage = "ok" /\ DeleteEntry
             \/ stage = "failed" /\ UNCHANGED <<wal, failed>>
          /\ UNCHANGED pending
       \/ /\ pending # None
          /\ Dispatch(pending)
    /\ UNCHANGED <<table, recovering, saved>>

\* One upsert of the daily keys outside the chain, then their acknowledgement.
savePlayerDailyRewardStorages ==
    /\ online
    /\ table' = [k \in Keys |-> IF k \notin DailyKeys THEN table[k]
                                ELSE IF storage[k] = None THEN Zero ELSE storage[k]]
    /\ acknowledgeStorageDirty(getStorageDirtySnapshot, DailyKeys)
    /\ UNCHANGED <<wal, chain, recovering, history>>

Crash ==
    /\ "crash" \in Faults
    /\ NewObject(FALSE, Empty)
    /\ inFlight' = None /\ stage' = "idle" /\ pending' = None
    /\ recovering' = (wal # None)
    /\ UNCHANGED <<table, wal, history>>

recoverPendingFlushes ==
    /\ recovering
    /\ recovering' = FALSE
    /\ table' = Replay(table, wal)
    /\ DeleteEntry
    /\ UNCHANGED <<object, chain, saved>>

-----------------------------------------------------------------------------
Init ==
    /\ online = FALSE
    /\ storage = Empty /\ table = Empty /\ saved = Empty
    /\ modified = {} /\ removed = {}
    /\ revisions = [k \in Keys |-> 0] /\ revision = 0
    /\ wal = None /\ inFlight = None /\ stage = "idle" /\ pending = None
    /\ recovering = FALSE /\ failed = FALSE

Next ==
    \/ \E k \in Keys, v \in {None} \cup Values : setStorageValue(k, v)
    \/ savePlayer \/ savePlayerSync \/ logout \/ login
    \/ flushPlayerSave \/ onPlayerFlushed
    \/ savePlayerDailyRewardStorages
    \/ Crash \/ recoverPendingFlushes

Spec == Init /\ [][Next]_vars

-----------------------------------------------------------------------------
(* Properties.                                                              *)

\* Every variable has its type; a flush is out exactly while it has a stage.
TypeOK ==
    /\ online \in BOOLEAN /\ recovering \in BOOLEAN /\ failed \in BOOLEAN
    /\ storage \in Maps /\ table \in Maps /\ saved \in Maps
    /\ modified \in SUBSET Keys /\ removed \in SUBSET Keys
    /\ revisions \in [Keys -> Nat] /\ revision \in Nat
    /\ wal \in {None} \cup Snapshots
    /\ inFlight \in {None} \cup Snapshots
    /\ pending \in {None} \cup Snapshots
    /\ stage \in {"idle", "queued", "ok", "failed"}
    /\ stage = "idle" <=> inFlight = None

Dirty(k) == k \in modified \cup removed

\* An online character's key without a mark needs no save: the table has its
\* value, through every flush, late acknowledgement, failure and relogin.  (The
\* daily keys, written outside the chain, are DailyCleanIsDurable's.)
CleanIsDurable ==
    online => \A k \in Keys \ DailyKeys : ~Dirty(k) => table[k] = storage[k]

\* The same of the keys of the daily reward, where an absent value may be Zero.
DailyCleanIsDurable ==
    online => \A k \in DailyKeys : ~Dirty(k) =>
        table[k] = storage[k] \/ (storage[k] = None /\ table[k] = Zero)

\* What a restart makes of the table and the log.
Restored == IF wal # None THEN Replay(table, wal) ELSE table

\* A crash at any moment restores the storage map of the newest save, unless a
\* write failed since, though the log holds one delta only: a save that waits
\* covers the one it waits behind.
SavedIsRestored == ~failed => \A k \in Keys \ DailyKeys : Restored[k] = saved[k]

\* The part of a map that is saved by the chain alone.
OrdinaryPart(map) == [k \in Keys \ DailyKeys |-> map[k]]

Durable == INSTANCE DurableStorage
    WITH Keys <- Keys \ DailyKeys, playing <- online, live <- OrdinaryPart(storage),
         stable <- OrdinaryPart(Restored), handed <- OrdinaryPart(saved)

\* Delta saves along the chain are whole saves: the table and the one logged delta
\* are a stable map that a save replaces at once and a login starts from.  After a
\* failure the next save that is logged, or written with no entry left over, makes
\* them so again, whatever marks, waiting saves and entries the failure left.
StorageIsDurable == Durable!Spec

=============================================================================
