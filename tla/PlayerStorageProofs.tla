------------------------ MODULE PlayerStorageProofs ------------------------
(* Theorems about PlayerStorage for any keys, values, bounds and failures.  *)
EXTENDS PlayerStorage, TLAPS

\* The value a snapshot writes for one of its keys.
Row(s, k) == IF k \in s.modified THEN s.rows[k] ELSE None

\* Replaying a snapshot touches its keys only.
LEMMA ReplayRow ==
    ASSUME NEW t \in Maps, NEW s \in Snapshots
    PROVE  /\ Replay(t, s) \in Maps
           /\ \A k \in Keys : Replay(t, s)[k] = IF k \in DirtyKeys(s) THEN Row(s, k) ELSE t[k]
  BY DEF Replay, Maps, Snapshots, DirtyKeys, Row

\* A snapshot is well typed.
LEMMA SnapshotType ==
    ASSUME TypeOK
    PROVE  getStorageDirtySnapshot \in Snapshots
<1>1. [k \in Keys |-> IF k \in modified THEN storage[k] ELSE None] \in Maps
  BY DEF TypeOK, Maps
<1> QED
  BY <1>1 DEF TypeOK, Snapshots, getStorageDirtySnapshot

\* An acknowledgement keeps the types of the object, and so does a new object.
LEMMA ObjectType ==
    ASSUME TypeOK, NEW s \in Snapshots, NEW keys \in SUBSET Keys, NEW map \in Maps, NEW o \in BOOLEAN,
           acknowledgeStorageDirty(s, keys) \/ NewObject(o, map) \/ UNCHANGED object
    PROVE  /\ online' \in BOOLEAN /\ storage' \in Maps
           /\ modified' \in SUBSET Keys /\ removed' \in SUBSET Keys
           /\ revisions' \in [Keys -> Nat] /\ revision' \in Nat
<1>1. CASE acknowledgeStorageDirty(s, keys)
  BY <1>1 DEF TypeOK, acknowledgeStorageDirty, Acked
<1>2. CASE NewObject(o, map)
  BY <1>2 DEF TypeOK, NewObject
<1>3. CASE UNCHANGED object
  BY <1>3 DEF TypeOK, object
<1> QED
  BY <1>1, <1>2, <1>3

ChainType ==
    /\ wal \in {None} \cup Snapshots
    /\ inFlight \in {None} \cup Snapshots
    /\ pending \in {None} \cup Snapshots
    /\ stage \in {"idle", "queued", "ok", "failed"}
    /\ stage = "idle" <=> inFlight = None

\* Dispatching a save, or leaving it to wait, keeps the types of the chain.
LEMMA ChainTypes ==
    ASSUME TypeOK, NEW s \in Snapshots,
           Dispatch(s) \/ (inFlight # None /\ Wait(s)) \/ UNCHANGED <<wal, chain>>
    PROVE  ChainType'
<1>1. s # None
  BY NoneIsNoSave
<1> QED
  BY <1>1 DEF TypeOK, ChainType, Dispatch, Wait, chain

\* Recovery runs only over a log that holds a save.
RecoveryInv == recovering => wal # None /\ inFlight = None /\ pending = None /\ ~online
TypeInv == TypeOK /\ RecoveryInv

\* The history is what the failing branches say.
LEMMA FailedType ==
    ASSUME failed \in BOOLEAN, [Next]_vars
    PROVE  failed' \in BOOLEAN
  BY DEF Next, vars, history, setStorageValue, savePlayer, savePlayerSync, logout, login, flushPlayerSave,
         onPlayerFlushed, savePlayerDailyRewardStorages, Crash, recoverPendingFlushes, Dispatch, Wait,
         SaveDirect, SaveRefused, SaveBehind, DeleteEntry

\* Every step keeps the types.
LEMMA TypeNext == TypeInv /\ [Next]_vars => TypeInv'
<1> SUFFICES ASSUME TypeOK, RecoveryInv, [Next]_vars PROVE TypeOK' /\ RecoveryInv'
  BY DEF TypeInv
<1>f. failed' \in BOOLEAN
  BY FailedType DEF TypeOK
<1>0. getStorageDirtySnapshot \in Snapshots /\ Empty \in Maps /\ Keys \in SUBSET Keys
  BY SnapshotType DEF Empty, Maps
<1>a. ChainType
  BY DEF TypeOK, ChainType
<1>1. ASSUME NEW k \in Keys, NEW v \in {None} \cup Values, setStorageValue(k, v) PROVE TypeOK' /\ RecoveryInv'
  BY <1>f, <1>1 DEF TypeOK, RecoveryInv, setStorageValue, Maps, chain, history
<1>2. CASE savePlayer
  <2>1. ChainType'
    BY <1>0, <1>2, ChainTypes DEF savePlayer
  <2>2. ~recovering
    BY <1>2 DEF savePlayer, RecoveryInv
  <2> QED
    BY <1>f, <1>2, <2>1, <2>2 DEF TypeOK, RecoveryInv, ChainType, savePlayer, object, history
<1>3. ASSUME SaveDirect \/ SaveRefused \/ SaveBehind, online
      PROVE  ChainType' /\ table' \in Maps /\ saved' \in Maps /\ ~recovering /\ recovering' = recovering
  <2>1. ChainType'
    BY <1>0, <1>3, ChainTypes DEF SaveDirect, SaveRefused, SaveBehind
  <2>2. Replay(table, getStorageDirtySnapshot) \in Maps
    BY <1>0, ReplayRow DEF TypeOK
  <2> QED
    BY <1>f, <1>3, <2>1, <2>2 DEF TypeOK, RecoveryInv, SaveDirect, SaveRefused, SaveBehind, history
<1>4. CASE savePlayerSync
  <2>1. ChainType' /\ table' \in Maps /\ saved' \in Maps /\ ~recovering /\ recovering' = recovering
    BY <1>3, <1>4 DEF savePlayerSync
  <2>2. acknowledgeStorageDirty(getStorageDirtySnapshot, Keys) \/ UNCHANGED object
    BY <1>4 DEF savePlayerSync
  <2> QED
    BY <1>f, <1>0, <2>1, <2>2, ObjectType DEF TypeOK, RecoveryInv, ChainType, history
<1>5. CASE logout
  <2>1. ChainType' /\ table' \in Maps /\ saved' \in Maps /\ ~recovering /\ recovering' = recovering
    BY <1>3, <1>5 DEF logout
  <2> QED
    BY <1>f, <1>0, <1>5, <2>1, ObjectType DEF TypeOK, RecoveryInv, ChainType, logout, history
<1>6. CASE login
  BY <1>f, <1>6 DEF TypeOK, RecoveryInv, login, NewObject, chain, history
<1>7. CASE flushPlayerSave
  <2>1. inFlight \in Snapshots
    BY <1>7 DEF TypeOK, flushPlayerSave
  <2>2. Replay(table, inFlight) \in Maps
    BY <2>1, ReplayRow DEF TypeOK
  <2> QED
    BY <1>f, <1>7, <2>2 DEF TypeOK, RecoveryInv, flushPlayerSave, object, history
<1>8. CASE onPlayerFlushed
  <2>1. inFlight \in Snapshots /\ inFlight # None
    BY <1>8, NoneIsNoSave DEF TypeOK, onPlayerFlushed
  <2>2. acknowledgeStorageDirty(inFlight, Keys) \/ UNCHANGED object
    BY <1>8 DEF onPlayerFlushed
  <2>3. ChainType'
    <3>1. CASE pending = None
      BY <1>8, <3>1 DEF TypeOK, ChainType, onPlayerFlushed, DeleteEntry
    <3>2. CASE pending # None
      BY <1>8, <3>2, ChainTypes DEF TypeOK, onPlayerFlushed
    <3> QED
      BY <3>1, <3>2
  <2>4. table' = table /\ saved' = saved /\ recovering' = recovering /\ ~recovering
    BY <1>8, <2>1 DEF onPlayerFlushed, RecoveryInv
  <2> QED
    BY <1>f, <1>0, <2>1, <2>2, <2>3, <2>4, ObjectType DEF TypeOK, RecoveryInv, ChainType, history
<1>9. CASE savePlayerDailyRewardStorages
  <2>1. table' \in Maps
    BY <1>9, ValuesKnown DEF TypeOK, Maps, savePlayerDailyRewardStorages
  <2>2. DailyKeys \in SUBSET Keys
    BY DailyAreKeys
  <2>3. acknowledgeStorageDirty(getStorageDirtySnapshot, DailyKeys)
    BY <1>9 DEF savePlayerDailyRewardStorages
  <2>4. ChainType' /\ saved' = saved /\ recovering' = recovering /\ ~recovering
    BY <1>a, <1>9 DEF savePlayerDailyRewardStorages, ChainType, RecoveryInv, chain, history
  <2> QED
    BY <1>f, <1>0, <2>1, <2>2, <2>3, <2>4, ObjectType DEF TypeOK, RecoveryInv, ChainType, history
<1>10. CASE Crash
  BY <1>f, <1>0, <1>10 DEF TypeOK, RecoveryInv, Crash, NewObject, history
<1>11. CASE recoverPendingFlushes
  <2>1. Replay(table, wal) \in Maps
    BY <1>f, <1>11, ReplayRow DEF TypeOK, RecoveryInv, recoverPendingFlushes, history
  <2> QED
    BY <1>f, <1>11, <2>1 DEF TypeOK, RecoveryInv, recoverPendingFlushes, DeleteEntry, object, chain, history
<1>12. CASE UNCHANGED vars
  BY <1>f, <1>12 DEF TypeOK, RecoveryInv, vars, object, chain, history
<1> QED
  BY <1>1, <1>2, <1>4, <1>5, <1>6, <1>7, <1>8, <1>9, <1>10, <1>11, <1>12 DEF Next

\* A fresh character is well typed.
LEMMA TypeInit == Init => TypeInv
<1>1. Empty \in Maps /\ [k \in Keys |-> 0] \in [Keys -> Nat]
  BY DEF Empty, Maps
<1>2. ASSUME Init PROVE TypeOK
  <2>1. online \in BOOLEAN /\ recovering \in BOOLEAN /\ failed \in BOOLEAN
    BY <1>2 DEF Init
  <2>2. storage \in Maps /\ table \in Maps /\ saved \in Maps
    BY <1>1, <1>2 DEF Init
  <2>3. /\ modified \in SUBSET Keys /\ removed \in SUBSET Keys
        /\ revisions \in [Keys -> Nat] /\ revision \in Nat
    BY <1>2 DEF Init
  <2>4. ChainType
    BY <1>2 DEF Init, ChainType
  <2> QED
    BY <2>1, <2>2, <2>3, <2>4 DEF TypeOK, ChainType
<1> QED
  BY <1>2 DEF Init, TypeInv, RecoveryInv

\* Every variable keeps its type, and a flush has a stage exactly while it is out.
THEOREM StorageTypeCorrect == Spec => []TypeOK
<1> QED
  BY TypeInit, TypeNext, PTL DEF Spec, TypeInv
-----------------------------------------------------------------------------
(* Clean keys.  That a clean key is in the table is not inductive: a flush  *)
(* that is still queued will overwrite the table, and a flush that is back  *)
(* will clear marks.  The invariant says what the marks promise about the   *)
(* snapshots that are on their way.                                         *)

Ordinary == Keys \ DailyKeys

\* The revision of a key tells whether it is dirty and never runs ahead; the
\* value of a dirty key agrees with the set it is in.
MarkInv ==
    \A k \in Keys :
        /\ revisions[k] <= revision
        /\ ~Dirty(k) => revisions[k] = 0
        /\ k \in removed => storage[k] = None /\ k \notin modified

\* A key that was not stamped after s still has the value that s writes for it.
Faithful(s) ==
    /\ s.id <= revision
    /\ \A k \in DirtyKeys(s) \cap Ordinary : revisions[k] <= s.id => Row(s, k) = storage[k]

\* The saves on their way are those of the object that is online, in order, and
\* a flush that succeeded is in the table.
FlightInv ==
    /\ pending # None => inFlight # None
    /\ online /\ inFlight # None => Faithful(inFlight)
    /\ online /\ pending # None => Faithful(pending) /\ inFlight.id <= pending.id
    /\ stage = "ok" => \A k \in DirtyKeys(inFlight) \cap Ordinary : table[k] = Row(inFlight, k)

CleanInv == MarkInv /\ FlightInv /\ CleanIsDurable

\* A snapshot taken now is faithful and has every dirty key.
LEMMA SnapshotFaithful ==
    ASSUME TypeOK, MarkInv
    PROVE  /\ Faithful(getStorageDirtySnapshot)
           /\ getStorageDirtySnapshot.id = revision
           /\ DirtyKeys(getStorageDirtySnapshot) = modified \cup removed
<1>1. /\ getStorageDirtySnapshot.id = revision
      /\ getStorageDirtySnapshot.modified = modified
      /\ getStorageDirtySnapshot.removed = removed
      /\ \A k \in modified : getStorageDirtySnapshot.rows[k] = storage[k]
  BY DEF TypeOK, getStorageDirtySnapshot
<1>2. \A k \in modified \cup removed : Row(getStorageDirtySnapshot, k) = storage[k]
  BY <1>1 DEF TypeOK, MarkInv, Row
<1> QED
  BY <1>1, <1>2 DEF TypeOK, Faithful, DirtyKeys, Ordinary

\* Clearing the marks of keys not stamped after r keeps the marks right, and keeps
\* faithful every snapshot taken at r or later.
LEMMA AckKeeps ==
    ASSUME TypeOK, MarkInv, NEW s \in Snapshots, NEW keys \in SUBSET Keys,
           acknowledgeStorageDirty(s, keys)
    PROVE  /\ MarkInv'
           /\ \A p \in Snapshots : Faithful(p) /\ (s.id <= p.id \/ keys \cap Ordinary = {}) => Faithful(p)'
           /\ \A k \in Keys : Dirty(k)' <=> Dirty(k) /\ k \notin Acked(s, keys)
<1>1. s.id \in Nat /\ \A p \in Snapshots : p.id \in Nat
  BY DEF Snapshots
<1>2. \A k \in Keys : Dirty(k)' <=> Dirty(k) /\ k \notin Acked(s, keys)
  BY DEF Dirty, acknowledgeStorageDirty
<1>3. \A k \in Keys : revisions'[k] = IF k \in Acked(s, keys) THEN 0 ELSE revisions[k]
  BY DEF acknowledgeStorageDirty
<1>4. MarkInv'
  BY <1>2, <1>3 DEF TypeOK, MarkInv, acknowledgeStorageDirty
<1>5. ASSUME NEW p \in Snapshots, Faithful(p), s.id <= p.id \/ keys \cap Ordinary = {}
      PROVE  Faithful(p)'
  <2>1. \A k \in Ordinary : revisions'[k] <= p.id => revisions[k] <= p.id
    BY <1>1, <1>3, <1>5 DEF TypeOK, Acked, Ordinary
  <2>2. storage' = storage /\ revision' = revision
    BY DEF acknowledgeStorageDirty
  <2> QED
    BY <1>5, <2>1, <2>2 DEF Faithful, Row, DirtyKeys
<1> QED
  BY <1>2, <1>4, <1>5

\* Every step keeps the marks honest, whatever fails.
LEMMA CleanNext == TypeInv /\ CleanInv /\ [Next]_vars => CleanInv'
<1> SUFFICES ASSUME TypeOK, RecoveryInv, TypeOK', MarkInv, FlightInv, CleanIsDurable, [Next]_vars
             PROVE  MarkInv' /\ FlightInv' /\ CleanIsDurable'
  BY TypeNext DEF TypeInv, CleanInv
<1> DEFINE S == getStorageDirtySnapshot
<1>0. S \in Snapshots /\ S # None /\ Faithful(S) /\ S.id = revision /\ DirtyKeys(S) = modified \cup removed
  BY SnapshotType, SnapshotFaithful, NoneIsNoSave
<1> HIDE DEF S
<1>1. ASSUME NEW k \in Keys, NEW v \in {None} \cup Values, setStorageValue(k, v)
      PROVE  MarkInv' /\ FlightInv' /\ CleanIsDurable'
  <2>1. /\ storage' = [storage EXCEPT ![k] = v] /\ revision' = revision + 1
        /\ revisions' = [revisions EXCEPT ![k] = revision + 1]
        /\ UNCHANGED <<online, table, inFlight, pending, stage>>
        /\ \A h \in Keys : Dirty(h)' <=> Dirty(h) \/ h = k
    BY <1>1 DEF setStorageValue, chain, Dirty
  <2>2. MarkInv'
    BY <1>1, <2>1 DEF TypeOK, Maps, MarkInv, setStorageValue
  <2>3. ASSUME NEW s \in Snapshots, Faithful(s) PROVE Faithful(s)'
    BY <2>1, <2>3 DEF TypeOK, Snapshots, Faithful, Row, DirtyKeys, Ordinary
  <2>4. FlightInv'
    BY <2>1, <2>3 DEF TypeOK, FlightInv, Row, DirtyKeys
  <2>5. CleanIsDurable'
    BY <2>1 DEF TypeOK, CleanIsDurable
  <2> QED
    BY <2>2, <2>4, <2>5
<1>2. ASSUME online, UNCHANGED object, table' = table,
             (inFlight = None /\ Dispatch(S)) \/ (inFlight # None /\ Wait(S))
      PROVE  MarkInv' /\ FlightInv' /\ CleanIsDurable'
  <2>1. \A s : Faithful(s)' <=> Faithful(s)
    BY <1>2 DEF object, Faithful, Row, DirtyKeys
  <2>2. inFlight # None => inFlight.id <= S.id
    BY <1>0, <1>2 DEF FlightInv, Faithful
  <2>3. FlightInv'
    BY <1>0, <1>2, <2>1, <2>2 DEF TypeOK, FlightInv, Dispatch, Wait, object
  <2> QED
    BY <1>2, <2>3 DEF MarkInv, CleanIsDurable, Dirty, object
<1>3. CASE savePlayer
  BY <1>2, <1>3 DEF savePlayer, S
<1>4. CASE savePlayerSync
  <2>1. CASE SaveDirect /\ acknowledgeStorageDirty(S, Keys)
    <3>1. Replay(table, S) = table' /\ inFlight = None /\ pending = None /\ UNCHANGED <<inFlight, pending, stage>>
      BY <2>1 DEF SaveDirect, S, chain, FlightInv
    <3>2. \A k \in Keys : table'[k] = IF k \in DirtyKeys(S) THEN Row(S, k) ELSE table[k]
      BY <1>0, <3>1, ReplayRow DEF TypeOK
    <3>3. \A k \in Ordinary : Dirty(k) => Row(S, k) = storage[k]
      BY <1>0 DEF Faithful, TypeOK, MarkInv, Dirty, Ordinary
    <3>4. MarkInv'
      BY <1>0, <2>1, AckKeeps
    <3>5. online' = online /\ storage' = storage
      BY <2>1 DEF acknowledgeStorageDirty
    <3>6. CleanIsDurable'
      BY <1>0, <3>2, <3>3, <3>5 DEF CleanIsDurable, Ordinary, Dirty
    <3> QED
      BY <3>1, <3>4, <3>6 DEF FlightInv, TypeOK
  <2>2. CASE SaveRefused /\ UNCHANGED object
    BY <2>2 DEF SaveRefused, object, chain, MarkInv, FlightInv, CleanIsDurable, Faithful, Row, DirtyKeys, Dirty
  <2>3. CASE SaveBehind /\ UNCHANGED object
    BY <1>2, <1>4, <2>3 DEF SaveBehind, savePlayerSync, S
  <2> QED
    BY <1>4, <2>1, <2>2, <2>3 DEF savePlayerSync, S
<1>5. ASSUME NEW o \in BOOLEAN, NEW m \in Maps, NewObject(o, m) PROVE MarkInv' /\ online' = o
  BY <1>5 DEF NewObject, MarkInv, Dirty
<1>a. Empty \in Maps
  BY DEF Empty, Maps
<1>6. CASE logout
  <2>1. MarkInv' /\ ~online'
    BY <1>5, <1>6, <1>a DEF logout
  <2>2. FlightInv'
    BY <1>6, <2>1 DEF TypeOK, FlightInv, logout, SaveDirect, SaveRefused, SaveBehind, Wait, chain, Row, DirtyKeys
  <2> QED
    BY <2>1, <2>2 DEF CleanIsDurable
<1>7. CASE login
  <2>1. MarkInv'
    BY <1>5, <1>7 DEF login, TypeOK
  <2>2. inFlight' = None /\ pending' = None /\ stage' = "idle"
    BY <1>7 DEF login, chain, FlightInv, TypeOK
  <2>3. CleanIsDurable'
    BY <1>7 DEF login, NewObject, CleanIsDurable
  <2> QED
    BY <2>1, <2>2, <2>3 DEF FlightInv
<1>8. CASE flushPlayerSave
  <2>1. inFlight \in Snapshots /\ inFlight # None
    BY <1>8, NoneIsNoSave DEF TypeOK, flushPlayerSave
  <2>2. UNCHANGED object /\ UNCHANGED <<inFlight, pending>>
    BY <1>8 DEF flushPlayerSave
  <2>3. \A s : Faithful(s)' <=> Faithful(s)
    BY <2>2 DEF object, Faithful, Row, DirtyKeys
  <2>4. CASE table' = Replay(table, inFlight) /\ stage' = "ok"
    <3>1. \A k \in Keys : table'[k] = IF k \in DirtyKeys(inFlight) THEN Row(inFlight, k) ELSE table[k]
      BY <2>1, <2>4, ReplayRow DEF TypeOK
    <3>2. CleanIsDurable'
      <4>1. ASSUME online, NEW k \in Ordinary, ~Dirty(k), k \in DirtyKeys(inFlight)
            PROVE  Row(inFlight, k) = storage[k]
        <5>1. revisions[k] = 0 /\ inFlight.id \in Nat /\ Faithful(inFlight)
          BY <2>1, <4>1 DEF MarkInv, Snapshots, FlightInv, Ordinary
        <5> QED
          BY <4>1, <5>1 DEF Faithful
      <4> QED
        BY <2>2, <3>1, <4>1 DEF CleanIsDurable, Dirty, object, Ordinary
    <3>3. FlightInv'
      BY <2>2, <2>3, <3>1 DEF FlightInv, Row, DirtyKeys, object, Ordinary
    <3> QED
      BY <2>2, <3>2, <3>3 DEF MarkInv, Dirty, object
  <2>5. CASE table' = table /\ stage' = "failed"
    BY <2>2, <2>3, <2>5 DEF MarkInv, FlightInv, CleanIsDurable, Dirty, object
  <2> QED
    BY <1>8, <2>4, <2>5 DEF flushPlayerSave
<1>9. CASE onPlayerFlushed
  <2>1. inFlight \in Snapshots /\ inFlight # None /\ table' = table
    BY <1>9, NoneIsNoSave DEF TypeOK, onPlayerFlushed
  <2>2. /\ MarkInv' /\ CleanIsDurable'
        /\ online' = online
        /\ \A s \in Snapshots : online /\ s = pending => Faithful(s)'
    <3>1. CASE stage = "ok" /\ online /\ acknowledgeStorageDirty(inFlight, Keys)
      <4>1. /\ MarkInv'
            /\ \A s \in Snapshots : s = pending => Faithful(s)'
            /\ \A k \in Keys : Dirty(k)' <=> Dirty(k) /\ k \notin Acked(inFlight, Keys)
        <5>1. \A s \in Snapshots : s = pending => Faithful(s) /\ inFlight.id <= s.id
          BY <3>1, NoneIsNoSave DEF FlightInv
        <5> QED
          BY <2>1, <3>1, <5>1, AckKeeps
      <4>2. storage' = storage /\ online' = online
        BY <3>1 DEF acknowledgeStorageDirty
      <4>3. \A k \in Ordinary : k \in Acked(inFlight, Keys) => table[k] = storage[k]
        BY <2>1, <3>1 DEF Acked, FlightInv, Faithful
      <4>4. CleanIsDurable'
        BY <2>1, <4>1, <4>2, <4>3 DEF CleanIsDurable, Ordinary
      <4> QED
        BY <4>1, <4>2, <4>4
    <3>2. CASE UNCHANGED object
      <4>1. \A s \in Snapshots : Faithful(s) => Faithful(s)'
        BY <3>2 DEF object, Faithful, Row, DirtyKeys
      <4>2. \A s \in Snapshots : online /\ s = pending => Faithful(s)
        BY NoneIsNoSave DEF FlightInv
      <4> QED
        BY <2>1, <3>2, <4>1, <4>2 DEF object, MarkInv, CleanIsDurable, Dirty
    <3> QED
      BY <1>9, <3>1, <3>2 DEF onPlayerFlushed
  <2>3. FlightInv'
    <3>1. CASE pending = None
      BY <1>9, <3>1 DEF FlightInv, onPlayerFlushed
    <3>2. CASE pending # None
      <4>1. pending \in Snapshots /\ Dispatch(pending)
        BY <1>9, <3>2 DEF TypeOK, onPlayerFlushed
      <4>2. pending' = None /\ stage' # "ok" /\ inFlight' \in {None, pending}
        BY <4>1 DEF Dispatch
      <4>3. online' /\ inFlight' # None => Faithful(inFlight)'
        BY <2>2, <4>1, <4>2 DEF Faithful, Row, DirtyKeys
      <4> QED
        BY <4>2, <4>3 DEF FlightInv
    <3> QED
      BY <3>1, <3>2
  <2> QED
    BY <2>2, <2>3
<1>10. CASE savePlayerDailyRewardStorages
  <2>1. /\ acknowledgeStorageDirty(S, DailyKeys) /\ UNCHANGED <<inFlight, pending, stage>>
        /\ \A k \in Ordinary : table'[k] = table[k]
    BY <1>10 DEF savePlayerDailyRewardStorages, S, chain, Ordinary
  <2>2. DailyKeys \in SUBSET Keys /\ DailyKeys \cap Ordinary = {}
    BY DailyAreKeys DEF Ordinary
  <2>3. /\ MarkInv'
        /\ \A p \in Snapshots : Faithful(p) => Faithful(p)'
        /\ \A k \in Ordinary : Dirty(k)' <=> Dirty(k)
    BY <1>0, <2>1, <2>2, AckKeeps DEF Acked, Ordinary
  <2>4. storage' = storage /\ online' = online
    BY <2>1 DEF acknowledgeStorageDirty
  <2>5. FlightInv'
    BY <2>1, <2>3, <2>4 DEF TypeOK, FlightInv, Row, DirtyKeys, Ordinary
  <2>6. CleanIsDurable'
    BY <2>1, <2>3, <2>4 DEF CleanIsDurable, Ordinary
  <2> QED
    BY <2>3, <2>5, <2>6
<1>11. CASE Crash
  <2>1. MarkInv' /\ ~online'
    BY <1>5, <1>11, <1>a DEF Crash
  <2> QED
    BY <1>11, <2>1 DEF Crash, FlightInv, CleanIsDurable
<1>12. CASE recoverPendingFlushes
  BY <1>12 DEF recoverPendingFlushes, RecoveryInv, TypeOK, object, chain, MarkInv, FlightInv, CleanIsDurable, Dirty
<1>13. CASE UNCHANGED vars
  BY <1>13 DEF vars, object, chain, MarkInv, FlightInv, CleanIsDurable, Faithful, Row, DirtyKeys, Dirty
<1> QED
  BY <1>1, <1>3, <1>4, <1>6, <1>7, <1>8, <1>9, <1>10, <1>11, <1>12, <1>13 DEF Next

\* For any keys, values and number of changes, and whatever fails: a mark is
\* cleared only when the table has the value, and stays right afterwards, so a key
\* that is left out of the next save needs none.
THEOREM CleanIsDurableTheorem == Spec => []CleanIsDurable
<1>1. Init => CleanInv
  BY DEF Init, CleanInv, MarkInv, FlightInv, CleanIsDurable, Dirty, Empty
<1>2. CleanInv => CleanIsDurable
  BY DEF CleanInv
<1> QED
  BY <1>1, <1>2, TypeInit, TypeNext, CleanNext, PTL DEF Spec

-----------------------------------------------------------------------------
(* What a restart restores, whatever failed.  A snapshot has every key      *)
(* whose value the table does not have, so the table with a snapshot of now *)
(* over it is the storage map of now: a save that is logged makes good all  *)
(* earlier failures.  The rest of the invariant says what becomes of that   *)
(* while the save waits, is written and is acknowledged.                    *)

\* What a save that is logged now leaves to be restored.
Covers(s, k) == IF k \in DirtyKeys(s) THEN Row(s, k) ELSE table[k]

RestoreInv ==
    /\ SavedIsRestored
    /\ wal # None /\ inFlight = None /\ ~recovering => failed
    /\ inFlight # None => wal # None /\ (pending = None => wal = inFlight)
    /\ stage = "failed" => failed \/ pending # None
    /\ stage = "queued" => \A k \in Ordinary :
           k \in DirtyKeys(inFlight) /\ k \notin DirtyKeys(wal) => Row(inFlight, k) = table[k]
    /\ pending # None => \A k \in Ordinary :
           /\ Covers(pending, k) = saved[k]
           /\ k \in DirtyKeys(inFlight) /\ k \notin DirtyKeys(pending) => Row(inFlight, k) = saved[k]

\* What the log and the table restore, key by key.
LEMMA RestoredRow ==
    ASSUME TypeOK
    PROVE  \A k \in Keys : Restored[k] = IF wal # None /\ k \in DirtyKeys(wal) THEN Row(wal, k) ELSE table[k]
<1>1. CASE wal = None
  BY <1>1 DEF Restored
<1>2. CASE wal # None
  <2>1. wal \in Snapshots /\ table \in Maps
    BY <1>2 DEF TypeOK
  <2> QED
    BY <1>2, <2>1, ReplayRow DEF Restored
<1> QED
  BY <1>1, <1>2

\* A snapshot of now covers the storage map, and agrees with the flush that is out on the keys it omits.
LEMMA SnapshotCovers ==
    ASSUME TypeOK, CleanInv, online, NEW k \in Ordinary
    PROVE  /\ Covers(getStorageDirtySnapshot, k) = storage[k]
           /\ inFlight # None /\ k \in DirtyKeys(inFlight) /\ k \notin DirtyKeys(getStorageDirtySnapshot) =>
                  Row(inFlight, k) = storage[k] /\ table[k] = storage[k]
<1> DEFINE S == getStorageDirtySnapshot
<1>0. /\ S \in Snapshots /\ Faithful(S) /\ S.id = revision /\ DirtyKeys(S) = modified \cup removed
      /\ MarkInv /\ FlightInv /\ CleanIsDurable /\ k \in Keys
  BY SnapshotType, SnapshotFaithful DEF CleanInv, Ordinary
<1> HIDE DEF S
<1>1. CASE k \in DirtyKeys(S)
  <2>1. revisions[k] <= S.id
    BY <1>0 DEF MarkInv
  <2> QED
    BY <1>0, <1>1, <2>1 DEF Faithful, Covers, S
<1>2. CASE k \notin DirtyKeys(S)
  <2>1. table[k] = storage[k] /\ revisions[k] = 0
    BY <1>0, <1>2 DEF CleanIsDurable, Dirty, Ordinary, MarkInv
  <2>2. ASSUME inFlight # None, k \in DirtyKeys(inFlight) PROVE Row(inFlight, k) = storage[k]
    <3>1. Faithful(inFlight) /\ inFlight.id \in Nat
      BY <1>0, <2>2 DEF FlightInv, TypeOK, Snapshots
    <3> QED
      BY <2>1, <2>2, <3>1 DEF Faithful
  <2> QED
    BY <1>2, <2>1, <2>2 DEF Covers, S
<1> QED
  BY <1>1, <1>2

-----------------------------------------------------------------------------
(* The steps of DurableStorage, in terms of the variables here.             *)

durable == <<online, OrdinaryPart(storage), OrdinaryPart(Restored), OrdinaryPart(saved), failed>>
DurableStep == Durable!Next \/ UNCHANGED durable

Stays == UNCHANGED <<online, storage>>
Leaves == online' = FALSE /\ storage' = Empty
Keeps == \A k \in Ordinary : Restored'[k] = Restored[k]

\* Maps agree where their ordinary keys do.
LEMMA SamePart ==
    ASSUME NEW m, NEW n, \A k \in Ordinary : m[k] = n[k]
    PROVE  OrdinaryPart(m) = OrdinaryPart(n)
  BY DEF OrdinaryPart, Ordinary

\* Staying in the game and leaving it.
LEMMA PlayerMoves ==
    /\ Stays => Durable!Stays
    /\ Leaves => Durable!Leaves
<1>1. OrdinaryPart(Empty) = Durable!Nothing
  BY DEF OrdinaryPart, Empty, Durable!Nothing
<1> QED
  BY <1>1 DEF Stays, Leaves, Durable!Stays, Durable!Leaves, OrdinaryPart

\* A save that becomes stable at once.
LEMMA StepSaves ==
    ASSUME online, Stays \/ Leaves, saved' = storage, failed' = FALSE,
           \A k \in Ordinary : Restored'[k] = storage[k]
    PROVE  DurableStep
<1>1. OrdinaryPart(Restored') = OrdinaryPart(storage)
  BY SamePart
<1> QED
  BY <1>1, PlayerMoves DEF DurableStep, Durable!Next, Durable!Save, OrdinaryPart

\* A save that is handed over only, or one of which a log entry hides some keys.
LEMMA StepHandsOver ==
    ASSUME TypeOK, TypeOK', online, Stays \/ Leaves, saved' = storage, failed' = TRUE,
           \/ Keeps
           \/ failed /\ \A k \in Ordinary : Restored'[k] \in {storage[k], Restored[k]}
    PROVE  DurableStep
<1>1. CASE Keeps
  <2>1. OrdinaryPart(Restored') = OrdinaryPart(Restored)
    BY <1>1, SamePart DEF Keeps
  <2> QED
    BY <2>1, PlayerMoves DEF DurableStep, Durable!Next, Durable!SaveUnlogged, OrdinaryPart
<1>2. CASE failed /\ \A k \in Ordinary : Restored'[k] \in {storage[k], Restored[k]}
  <2>1. /\ \A k \in Ordinary : OrdinaryPart(Restored')[k] \in {OrdinaryPart(storage)[k], OrdinaryPart(Restored)[k]}
        /\ \A k \in Ordinary : Restored'[k] \in {None} \cup Values
    <3>1. \A k \in Keys : Restored[k] \in {None} \cup Values /\ storage[k] \in {None} \cup Values
      BY RestoredRow DEF TypeOK, Maps, Snapshots, Row
    <3> QED
      BY <1>2, <3>1 DEF OrdinaryPart, Ordinary
  <2>2. OrdinaryPart(Restored') \in Durable!Maps
    BY <2>1 DEF OrdinaryPart, Ordinary, Durable!Maps
  <2> QED
    BY <1>2, <2>1, <2>2, PlayerMoves DEF DurableStep, Durable!Next, Durable!SaveInPart, OrdinaryPart, Ordinary
<1> QED
  BY <1>1, <1>2

\* A step that leaves alone what is restored: nothing happens, a write fails, or the player goes.
LEMMA StepKeeps ==
    ASSUME TypeOK, Keeps, saved' = saved,
           \/ Stays /\ (failed' = failed \/ failed' = TRUE)
           \/ online /\ Leaves /\ failed' = TRUE
           \/ Leaves /\ failed' = failed
    PROVE  DurableStep
<1>1. OrdinaryPart(Restored') = OrdinaryPart(Restored)
  BY SamePart DEF Keeps
<1>2. CASE Stays /\ failed' = failed
  BY <1>1, <1>2 DEF DurableStep, durable, Stays, OrdinaryPart
<1>3. CASE (Stays \/ (online /\ Leaves)) /\ failed' = TRUE
  BY <1>1, <1>3, PlayerMoves DEF DurableStep, Durable!Next, Durable!Fail, OrdinaryPart
<1>4. CASE Leaves /\ failed' = failed
  BY <1>1, <1>4, PlayerMoves DEF DurableStep, Durable!Next, Durable!Crash, OrdinaryPart
<1> QED
  BY <1>2, <1>3, <1>4

\* The save that waited is logged: it is stable now, if it was not before.
LEMMA StepCatchesUp ==
    ASSUME TypeOK, SavedIsRestored, Stays, saved' = saved, failed' = FALSE,
           \A k \in Ordinary : Restored'[k] = saved[k]
    PROVE  DurableStep
<1>1. OrdinaryPart(Restored') = OrdinaryPart(saved)
  BY SamePart
<1>2. CASE failed
  BY <1>1, <1>2 DEF DurableStep, Durable!Next, Durable!CatchUp, OrdinaryPart, Stays
<1>3. CASE ~failed
  <2>1. OrdinaryPart(Restored) = OrdinaryPart(saved) /\ failed' = failed
    BY <1>3, SamePart DEF SavedIsRestored, Ordinary, TypeOK
  <2> QED
    BY <1>1, <2>1 DEF DurableStep, durable, OrdinaryPart, Stays
<1> QED
  BY <1>2, <1>3

-----------------------------------------------------------------------------
(* The induction.                                                           *)

\* Every step keeps the invariant and is a step of DurableStorage, or none that it sees.
LEMMA RestoreNext == TypeInv /\ CleanInv /\ RestoreInv /\ [Next]_vars => RestoreInv' /\ DurableStep
<1> SUFFICES ASSUME TypeOK, RecoveryInv, TypeOK', CleanInv, RestoreInv, [Next]_vars
             PROVE  RestoreInv' /\ DurableStep
  BY TypeNext DEF TypeInv
<1> DEFINE S == getStorageDirtySnapshot
<1>0. S \in Snapshots /\ S # None
  BY SnapshotType, NoneIsNoSave
<1>1. ASSUME online, NEW k \in Ordinary
      PROVE  /\ Covers(S, k) = storage[k]
             /\ inFlight # None /\ k \in DirtyKeys(inFlight) /\ k \notin DirtyKeys(S) =>
                    Row(inFlight, k) = storage[k] /\ table[k] = storage[k]
  BY <1>1, SnapshotCovers
<1> HIDE DEF S
<1>a. \A k \in Ordinary : k \in Keys
  BY DEF Ordinary
<1>b. /\ \A k \in Ordinary : Restored[k] = IF wal # None /\ k \in DirtyKeys(wal) THEN Row(wal, k) ELSE table[k]
      /\ \A k \in Ordinary : Restored'[k] = IF wal' # None /\ k \in DirtyKeys(wal') THEN Row(wal', k) ELSE table'[k]
      /\ ~failed => \A k \in Ordinary : Restored[k] = saved[k]
  <2>1. \A k \in Keys : Restored'[k] = IF wal' # None /\ k \in DirtyKeys(wal') THEN Row(wal', k) ELSE table'[k]
    BY RestoredRow DEF TypeOK, Restored, Replay, Maps, Snapshots, DirtyKeys, Row
  <2> QED
    BY <1>a, <2>1, RestoredRow DEF RestoreInv, SavedIsRestored, Ordinary
<1>c. ASSUME NEW s \in Snapshots, \A k \in Ordinary : Covers(s, k) = saved'[k], wal' = s, table' = table
      PROVE  SavedIsRestored' /\ \A k \in Ordinary : Restored'[k] = saved'[k]
  BY <1>a, <1>b, <1>c, NoneIsNoSave DEF Covers, SavedIsRestored, Ordinary
<1>d. ASSUME Keeps, saved' = saved, failed' = failed \/ failed' = TRUE
      PROVE  SavedIsRestored'
  BY <1>a, <1>b, <1>d DEF Keeps, SavedIsRestored, Ordinary
<1>e. ASSUME UNCHANGED wal, \A k \in Ordinary : table'[k] = table[k] PROVE Keeps
  BY <1>b, <1>e DEF Keeps, DirtyKeys, Row
<1>2. ASSUME online, Stays \/ Leaves, saved' = storage, table' = table, recovering' = recovering,
             (inFlight = None /\ Dispatch(S)) \/ (inFlight # None /\ Wait(S))
      PROVE  RestoreInv' /\ DurableStep
  <2>1. ~recovering /\ ~recovering'
    BY <1>2 DEF RecoveryInv
  <2>2. pending' # None => /\ pending' = S /\ inFlight' = inFlight /\ inFlight # None
                           /\ stage' = stage
    BY <1>2 DEF Dispatch, Wait
  <2>3. pending' # None => \A k \in Ordinary :
           /\ Covers(pending, k)' = saved'[k]
           /\ k \in DirtyKeys(inFlight') /\ k \notin DirtyKeys(pending') => Row(inFlight', k) = saved'[k]
    BY <1>1, <1>2, <2>2 DEF Covers, DirtyKeys, Row
  <2>4. CASE wal' = S /\ failed' = FALSE
    <3>1. SavedIsRestored' /\ \A k \in Ordinary : Restored'[k] = saved'[k]
      BY <1>0, <1>1, <1>2, <1>c, <2>4
    <3>2. stage' = "queued" => \A k \in Ordinary :
             k \in DirtyKeys(inFlight') /\ k \notin DirtyKeys(wal') => Row(inFlight', k) = table'[k]
      <4>1. CASE inFlight = None
        <5>1. inFlight' = S
          BY <1>2, <2>4, <4>1, <1>0 DEF Dispatch, Wait, RestoreInv
        <5> QED
          BY <2>4, <5>1
      <4>2. CASE inFlight # None
        BY <1>1, <1>2, <2>4, <4>2 DEF Wait
      <4> QED
        BY <4>1, <4>2
    <3>3. inFlight' # None => wal' # None /\ (pending' = None => wal' = inFlight')
      BY <1>0, <1>2, <2>4 DEF Dispatch, Wait
    <3>4. stage' = "failed" => failed' \/ pending' # None
      BY <1>0, <1>2 DEF Dispatch, Wait
    <3>5. wal' # None /\ inFlight' = None /\ ~recovering' => failed'
      BY <1>0, <1>2, <2>4 DEF Dispatch, Wait, RestoreInv
    <3>6. RestoreInv'
      BY <2>3, <3>1, <3>2, <3>3, <3>4, <3>5 DEF RestoreInv, DirtyKeys, Row
    <3> QED
      BY <1>2, <2>4, <3>1, <3>6, StepSaves
  <2>5. CASE wal' = wal /\ failed' = TRUE
    <3>1. Keeps
      BY <1>2, <1>e, <2>5
    <3>2. SavedIsRestored'
      BY <2>5 DEF SavedIsRestored
    <3>3. \/ inFlight' = None /\ stage' = "idle"
          \/ inFlight' = inFlight /\ stage' = stage /\ inFlight # None /\ pending' # None
      BY <1>0, <1>2, <2>5 DEF Dispatch, Wait
    <3>4. RestoreInv'
      BY <1>2, <2>3, <2>5, <3>2, <3>3 DEF RestoreInv, DirtyKeys, Row
    <3> QED
      BY <1>2, <2>5, <3>1, <3>4, StepHandsOver
  <2> QED
    BY <1>2, <2>4, <2>5 DEF Dispatch, Wait
<1>3. ASSUME online, Stays \/ Leaves, SaveDirect
      PROVE  RestoreInv' /\ DurableStep
  <2>1. /\ inFlight = None /\ pending = None /\ stage = "idle" /\ ~recovering
        /\ table' = Replay(table, S) /\ saved' = storage /\ failed' = (wal # None)
        /\ UNCHANGED <<wal, inFlight, pending, stage, recovering>>
    BY <1>3 DEF SaveDirect, S, chain, CleanInv, FlightInv, RecoveryInv, TypeOK
  <2>2. \A k \in Ordinary : table'[k] = storage[k]
    <3>1. \A k \in Keys : table'[k] = Covers(S, k)
      BY <1>0, <2>1, ReplayRow DEF TypeOK, Covers
    <3> QED
      BY <1>1, <1>3, <1>a, <3>1
  <2>3. CASE wal = None
    <3>1. \A k \in Ordinary : Restored'[k] = storage[k]
      BY <1>b, <2>1, <2>2, <2>3
    <3>2. SavedIsRestored'
      BY <2>1, <3>1 DEF SavedIsRestored, Ordinary
    <3>3. RestoreInv'
      BY <2>1, <2>3, <3>2 DEF RestoreInv
    <3> QED
      BY <1>3, <2>1, <2>3, <3>1, <3>3, StepSaves
  <2>4. CASE wal # None
    <3>1. failed
      BY <2>1, <2>4 DEF RestoreInv
    <3>2. \A k \in Ordinary : Restored'[k] \in {storage[k], Restored[k]}
      BY <1>b, <2>1, <2>2, <2>4
    <3>3. RestoreInv'
      BY <2>1, <2>4 DEF RestoreInv, SavedIsRestored
    <3> QED
      BY <1>3, <2>1, <2>4, <3>1, <3>2, <3>3, StepHandsOver
  <2> QED
    BY <2>3, <2>4
\* What leaves the table's ordinary keys, the log and the chain alone.
<1>4. ASSUME UNCHANGED <<wal, inFlight, pending, stage, recovering, saved>>, \A k \in Ordinary : table'[k] = table[k],
             failed' = failed \/ failed' = TRUE
      PROVE  RestoreInv' /\ Keeps
  <2>1. Keeps
    BY <1>4, <1>e
  <2>2. SavedIsRestored'
    BY <1>4, <1>d, <2>1
  <2>3. \A k \in Ordinary : Covers(pending, k)' = Covers(pending, k)
    BY <1>4 DEF Covers, DirtyKeys, Row
  <2> QED
    BY <1>4, <2>1, <2>2, <2>3 DEF RestoreInv, DirtyKeys, Row
<1>5. ASSUME online, Stays \/ Leaves, SaveRefused
      PROVE  RestoreInv' /\ DurableStep
  BY <1>4, <1>5, StepKeeps DEF SaveRefused, chain
<1>6. ASSUME online, Stays \/ Leaves, SaveBehind
      PROVE  RestoreInv' /\ DurableStep
  BY <1>2, <1>6 DEF SaveBehind, S
<1>7. CASE savePlayer
  BY <1>2, <1>7 DEF savePlayer, S, Stays, object
<1>8. CASE savePlayerSync
  BY <1>3, <1>5, <1>6, <1>8 DEF savePlayerSync, Stays, object, acknowledgeStorageDirty
<1>9. CASE logout
  BY <1>3, <1>5, <1>6, <1>9 DEF logout, Leaves, NewObject
<1>10. ASSUME NEW k \in Keys, NEW v \in {None} \cup Values, setStorageValue(k, v)
       PROVE  RestoreInv' /\ DurableStep
  <2>1. /\ UNCHANGED <<online, wal, table, inFlight, pending, stage, recovering, saved, failed>>
        /\ online /\ storage' = [storage EXCEPT ![k] = v]
    BY <1>10 DEF setStorageValue, chain, history
  <2>2. RestoreInv' /\ Keeps
    BY <1>4, <2>1
  <2>3. OrdinaryPart(Restored') = OrdinaryPart(Restored) /\ OrdinaryPart(saved') = OrdinaryPart(saved)
    BY <2>1, <2>2, SamePart DEF Keeps
  <2>4. CASE k \in Ordinary
    <3>1. OrdinaryPart(storage') = [OrdinaryPart(storage) EXCEPT ![k] = v]
      BY <2>1, <2>4 DEF OrdinaryPart, Ordinary, TypeOK, Maps
    <3>2. Durable!Change
      BY <2>1, <2>3, <2>4, <3>1 DEF Durable!Change, Ordinary, OrdinaryPart
    <3> QED
      BY <2>2, <3>2 DEF DurableStep, Durable!Next
  <2>5. CASE k \notin Ordinary
    <3>1. \A h \in Ordinary : storage'[h] = storage[h]
      BY <2>1, <2>5 DEF TypeOK, Maps, Ordinary
    <3>2. OrdinaryPart(storage') = OrdinaryPart(storage)
      BY <3>1, SamePart
    <3> QED
      BY <2>1, <2>2, <2>3, <3>2 DEF DurableStep, durable, OrdinaryPart
  <2> QED
    BY <2>4, <2>5
<1>11. CASE login
  <2>1. /\ UNCHANGED <<wal, table, inFlight, pending, stage, recovering, saved, failed>>
        /\ ~online /\ ~recovering /\ inFlight = None /\ online' = TRUE /\ storage' = table
    BY <1>11 DEF login, chain, history, NewObject
  <2>2. RestoreInv' /\ Keeps
    BY <1>4, <2>1
  <2>3. OrdinaryPart(Restored') = OrdinaryPart(Restored) /\ OrdinaryPart(saved') = OrdinaryPart(saved)
    BY <2>1, <2>2, SamePart DEF Keeps
  <2>4. OrdinaryPart(storage') \in Durable!Maps
    BY <2>1 DEF OrdinaryPart, Durable!Maps, TypeOK, Maps
  <2>5. ~failed => OrdinaryPart(storage') = OrdinaryPart(Restored)
    BY <2>1 DEF RestoreInv, Restored
  <2>6. Durable!Enter
    BY <2>1, <2>3, <2>4, <2>5 DEF Durable!Enter, OrdinaryPart
  <2> QED
    BY <2>2, <2>6 DEF DurableStep, Durable!Next
<1>12. CASE savePlayerDailyRewardStorages
  BY <1>4, <1>12, StepKeeps DEF savePlayerDailyRewardStorages, acknowledgeStorageDirty, chain, history, Ordinary, Stays
<1>13. CASE flushPlayerSave
  <2>1. /\ inFlight \in Snapshots /\ inFlight # None /\ stage = "queued"
        /\ UNCHANGED <<online, storage, wal, inFlight, pending, recovering, saved>>
    BY <1>13, NoneIsNoSave DEF TypeOK, flushPlayerSave, object
  <2>2. CASE table' = Replay(table, inFlight) /\ stage' = "ok" /\ failed' = failed
    <3>1. \A k \in Ordinary : table'[k] = Covers(inFlight, k)
      BY <1>a, <2>1, <2>2, ReplayRow DEF TypeOK, Covers
    <3>2. Keeps
      BY <1>b, <2>1, <3>1 DEF Keeps, RestoreInv, Covers
    <3>3. SavedIsRestored'
      BY <1>d, <2>1, <2>2, <3>2
    <3>4. pending # None => \A k \in Ordinary : Covers(pending, k)' = saved[k]
      BY <2>1, <3>1 DEF RestoreInv, Covers, DirtyKeys, Row
    <3>5. RestoreInv'
      BY <2>1, <2>2, <3>3, <3>4 DEF RestoreInv, DirtyKeys, Row
    <3> QED
      BY <2>1, <2>2, <3>2, <3>5, StepKeeps DEF Stays
  <2>3. CASE table' = table /\ stage' = "failed" /\ failed' = TRUE
    <3>1. Keeps
      BY <1>e, <2>1, <2>3
    <3>2. RestoreInv'
      BY <2>1, <2>3 DEF RestoreInv, SavedIsRestored, Covers, DirtyKeys, Row
    <3> QED
      BY <2>1, <2>3, <3>1, <3>2, StepKeeps DEF Stays
  <2> QED
    BY <1>13, <2>2, <2>3 DEF flushPlayerSave
<1>14. CASE onPlayerFlushed
  <2>1. /\ inFlight \in Snapshots /\ inFlight # None /\ stage \in {"ok", "failed"}
        /\ Stays /\ table' = table /\ saved' = saved /\ recovering' = recovering /\ ~recovering
    BY <1>14, NoneIsNoSave DEF TypeOK, onPlayerFlushed, Stays, object, acknowledgeStorageDirty, RecoveryInv
  <2>2. CASE pending = None
    <3>1. /\ inFlight' = None /\ stage' = "idle" /\ pending' = None /\ wal = inFlight
          /\ (stage = "ok" /\ DeleteEntry) \/ (stage = "failed" /\ UNCHANGED <<wal, failed>>)
      BY <1>14, <2>1, <2>2 DEF onPlayerFlushed, RestoreInv
    <3>2. stage = "ok" => \A k \in Ordinary : Restored[k] = table[k]
      BY <1>b, <2>1, <3>1 DEF CleanInv, FlightInv
    <3>3. Keeps
      BY <1>b, <2>1, <3>1, <3>2 DEF Keeps, DeleteEntry
    <3>4. failed' = failed \/ failed' = TRUE
      BY <3>1 DEF DeleteEntry
    <3>5. SavedIsRestored'
      BY <1>d, <2>1, <3>3, <3>4
    <3>6. wal' # None => failed'
      BY <2>1, <2>2, <3>1 DEF DeleteEntry, RestoreInv
    <3>7. RestoreInv'
      BY <3>1, <3>5, <3>6 DEF RestoreInv
    <3> QED
      BY <2>1, <3>3, <3>4, <3>7, StepKeeps
  <2>3. CASE pending # None
    <3>1. pending \in Snapshots /\ Dispatch(pending) /\ \A k \in Ordinary : Covers(pending, k) = saved'[k]
      BY <1>14, <2>1, <2>3 DEF onPlayerFlushed, RestoreInv, TypeOK
    <3>2. CASE wal' = pending /\ inFlight' = pending /\ stage' = "queued" /\ failed' = FALSE /\ pending' = None
      <4>1. SavedIsRestored' /\ \A k \in Ordinary : Restored'[k] = saved[k]
        BY <1>c, <2>1, <3>1, <3>2
      <4>2. RestoreInv'
        BY <2>3, <3>2, <4>1 DEF RestoreInv, DirtyKeys
      <4> QED
        BY <2>1, <3>2, <4>1, <4>2, StepCatchesUp DEF RestoreInv
    <3>3. CASE wal' = wal /\ inFlight' = None /\ stage' = "idle" /\ failed' = TRUE /\ pending' = None
      <4>1. Keeps
        BY <1>e, <2>1, <3>3
      <4>2. RestoreInv'
        BY <3>3 DEF RestoreInv, SavedIsRestored
      <4> QED
        BY <2>1, <3>3, <4>1, <4>2, StepKeeps
    <3> QED
      BY <3>1, <3>2, <3>3 DEF Dispatch
  <2> QED
    BY <2>2, <2>3
<1>15. CASE Crash
  <2>1. /\ UNCHANGED <<table, wal, saved, failed>> /\ inFlight' = None /\ stage' = "idle" /\ pending' = None
        /\ recovering' = (wal # None) /\ Leaves
    BY <1>15 DEF Crash, history, Leaves, NewObject
  <2>2. Keeps
    BY <1>e, <2>1
  <2>3. SavedIsRestored'
    BY <1>d, <2>1, <2>2
  <2>4. RestoreInv'
    BY <2>1, <2>3 DEF RestoreInv
  <2> QED
    BY <2>1, <2>2, <2>4, StepKeeps
<1>16. CASE recoverPendingFlushes
  <2>1. /\ wal \in Snapshots /\ wal # None /\ inFlight = None /\ pending = None /\ stage = "idle"
        /\ table' = Replay(table, wal) /\ DeleteEntry /\ Stays
        /\ UNCHANGED <<inFlight, pending, stage, saved>>
    BY <1>16 DEF recoverPendingFlushes, RecoveryInv, chain, object, Stays, TypeOK
  <2>2. \A k \in Ordinary : table'[k] = Restored[k]
    BY <1>a, <1>b, <2>1, ReplayRow DEF TypeOK
  <2>3. Keeps
    BY <1>b, <2>1, <2>2 DEF Keeps, DeleteEntry
  <2>4. (failed' = failed \/ failed' = TRUE) /\ (wal' # None => failed')
    BY <2>1 DEF DeleteEntry
  <2>5. SavedIsRestored'
    BY <1>d, <2>1, <2>3, <2>4
  <2>6. RestoreInv'
    BY <2>1, <2>4, <2>5 DEF RestoreInv
  <2> QED
    BY <2>1, <2>3, <2>4, <2>6, StepKeeps
<1>17. CASE UNCHANGED vars
  BY <1>4, <1>17, StepKeeps DEF vars, object, chain, history, Stays
<1> QED
  BY <1>7, <1>8, <1>9, <1>10, <1>11, <1>12, <1>13, <1>14, <1>15, <1>16, <1>17 DEF Next

\* A fresh character is saved as it is.
LEMMA RestoreInit == Init => CleanInv /\ RestoreInv
<1>1. Init => CleanInv
  BY DEF Init, CleanInv, MarkInv, FlightInv, CleanIsDurable, Dirty, Empty
<1>2. Init => RestoreInv
  BY DEF Init, RestoreInv, SavedIsRestored, Restored, Empty
<1> QED
  BY <1>1, <1>2

\* For any keys, values and number of changes, and whatever fails: a crash at any moment restores the
\* storage map of the newest save unless a write failed since, though deltas are all that is saved and
\* the log holds one of them.
THEOREM SavedIsRestoredTheorem == Spec => []SavedIsRestored
<1>1. RestoreInv => SavedIsRestored
  BY DEF RestoreInv
<1> QED
  BY <1>1, RestoreInit, TypeInit, TypeNext, CleanNext, RestoreNext, PTL DEF Spec

\* For any keys, values and number of changes, and whatever fails: table, log and marks implement one
\* stable map.  What is saved becomes stable whole, a login starts from it, a crash leaves it alone, and
\* after a failure nothing becomes stable that was not live or handed over.
THEOREM StorageIsDurableTheorem == Spec => StorageIsDurable
<1>1. Init => Durable!Init
  <2>1. OrdinaryPart(Empty) = Durable!Nothing
    BY DEF OrdinaryPart, Empty, Durable!Nothing
  <2> QED
    BY <2>1 DEF Init, Durable!Init, Restored
<1>2. TypeInv /\ CleanInv /\ RestoreInv /\ [Next]_vars => [Durable!Next]_durable
  BY RestoreNext DEF DurableStep
<1> QED
  BY <1>1, <1>2, RestoreInit, TypeInit, TypeNext, CleanNext, RestoreNext, PTL
     DEF Spec, StorageIsDurable, Durable!Spec, durable
=============================================================================
