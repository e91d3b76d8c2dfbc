----------------------- MODULE SaveManagerDurability -----------------------
(* What the log and the tables promise together: proofs of durability.      *)
EXTENDS SaveManagerProofs

-----------------------------------------------------------------------------
(* Durability.  The database takes every write (it may be killed, and at    *)
(* startup an entry may turn out not to replay) and no temporary Player of  *)
(* an offline character is saved (no mail, no house, no bed).               *)

Benign == Faults \subseteq {"crash", "recoverQuery"} /\ OfflineWriters = {}

\* A log entry belongs to a flush that is out or to startup; it is the newest save
\* of its chain; a flush that came back has put its save in the tables.
LogInv ==
    /\ \A g \in Guids : wal[g] # None =>
            g \in flushInFlight \cup toRecover \cup failedRecoveryGuids
    /\ \A g \in Guids : pendingFlushes[g] # None => wal[g] = pendingFlushes[g].save
    /\ \A f \in flushes : pendingFlushes[f.guid] = None => wal[f.guid] = f.save
    /\ \A f \in flushes : f.stage # "queued" => f.stage = "ok" /\ db[f.guid] = f.save

\* Characters that startup has not restored, or could not restore, stay out.
StartupInv ==
    /\ \A g \in toRecover \cup failedRecoveryGuids : mem[g] = None /\ g \notin flushInFlight
    /\ toRecover # {} => \A w \in Waiters : drains[w] = NoDrain

\* A login holds its character offline, alone, and once drained without a flush;
\* what it loaded is what the tables hold.
LoginInv ==
    /\ \A w \in Waiters : drains[w].login =>
            /\ mem[drains[w].guid] = None
            /\ drains[w].guid \notin failedRecoveryGuids
            /\ drains[w].state \in {"drained", "loading", "loaded"} => drains[w].guid \notin flushInFlight
    /\ \A w \in Waiters : drains[w].state \in {"loading", "loaded"} => drains[w].login
    /\ \A w \in Waiters : drains[w].loaded # None =>
            drains[w].state = "loaded" /\ drains[w].loaded = db[drains[w].guid]
    /\ \A v, w \in Waiters : drains[v].login /\ drains[w].login /\ drains[v].guid = drains[w].guid => v = w

DurableInv == LogInv /\ StartupInv /\ LoginInv

Unfailing == Benign => ~("wal" \in Faults) /\ ~("flush" \in Faults) /\ ~("delete" \in Faults) /\ ~("recoverBegin" \in Faults)

\* What the assumption leaves out: every write of the log and the tables works.
LEMMA NoWriteFaults == Unfailing
  BY DEF Benign, Unfailing

\* Without write faults the log takes the entry and the flush goes to the pool.
LEMMA DispatchGoesOut ==
    ASSUME Benign, NEW g \in Guids, g \notin failedRecoveryGuids, NEW p, NEW fs, NEW t,
           dispatchPlayerFlush(g, p, fs, t)
    PROVE  /\ wal' = [wal EXCEPT ![g] = p.save]
           /\ pendingFlushes' = [pendingFlushes EXCEPT ![g] = None]
           /\ flushInFlight' = flushInFlight \cup {g}
           /\ flushes' = fs \cup {[guid |-> g, save |-> p.save, tracked |-> p.tracked, stage |-> "queued"]}
           /\ drains' = drains
  BY NoWriteFaults DEF Unfailing, dispatchPlayerFlush, WalWritten, WalRefused

\* A save that waits is in the log as well.
LEMMA EnqueueLogged ==
    ASSUME Benign, NEW g \in Guids, g \notin failedRecoveryGuids, NEW save, NEW b, Enqueue(g, save, b)
    PROVE  /\ wal' = [wal EXCEPT ![g] = save]
           /\ pendingFlushes' = [pendingFlushes EXCEPT ![g] = [save |-> save, tracked |-> b]]
           /\ flushInFlight' = flushInFlight /\ flushes' = flushes /\ drains' = drains
  BY NoWriteFaults DEF Unfailing, Enqueue, WalWritten, WalRefused

\* A new flush of g, after the last one of g is gone.
LEMMA NewFlushLog ==
    ASSUME TypeOK, LogInv, NEW g \in Guids, NEW save \in States, NEW b \in BOOLEAN,
           NEW fs \in SUBSET flushes, \A f \in fs : f.guid # g,
           wal' = [wal EXCEPT ![g] = save],
           pendingFlushes' = [pendingFlushes EXCEPT ![g] = None],
           flushInFlight' = flushInFlight \cup {g},
           flushes' = fs \cup {[guid |-> g, save |-> save, tracked |-> b, stage |-> "queued"]},
           db' = db, UNCHANGED startup
    PROVE  LogInv'
<1> DEFINE new == [guid |-> g, save |-> save, tracked |-> b, stage |-> "queued"]
<1>1. new.guid = g /\ new.save = save /\ new.stage = "queued"
  OBVIOUS
<1>2. flushes' = fs \cup {new}
  OBVIOUS
<1> HIDE DEF new
<1>3. \A f \in fs : f \in flushes /\ f.guid \in Guids
  BY DEF TypeOK, Flushes
<1> QED
  BY <1>1, <1>2, <1>3 DEF TypeOK, LogInv, startup

\* A save that waits behind the flush of g.
LEMMA WaitingSaveLog ==
    ASSUME TypeOK, LogInv, NEW g \in flushInFlight, NEW save \in States, NEW b \in BOOLEAN,
           wal' = [wal EXCEPT ![g] = save],
           pendingFlushes' = [pendingFlushes EXCEPT ![g] = [save |-> save, tracked |-> b]],
           flushInFlight' = flushInFlight, flushes' = flushes, db' = db, UNCHANGED startup
    PROVE  LogInv'
<1>1. [save |-> save, tracked |-> b] # None
  BY NoneFresh DEF States
<1>2. \A f \in flushes : f.guid \in Guids
  BY DEF TypeOK, Flushes
<1> QED
  BY <1>1, <1>2 DEF TypeOK, LogInv, startup

\* Scheduling a save of an online character makes its state durable at once.
LEMMA ScheduleDurable ==
    ASSUME Benign, TypeOK, ChainInv, LogInv, NEW g \in Guids, mem[g] # None,
           g \notin failedRecoveryGuids, NEW b \in BOOLEAN,
           schedulePlayerFlush(g, b), UNCHANGED startup
    PROVE  /\ LogInv'
           /\ wal' = [wal EXCEPT ![g] = mem[g]] /\ db' = db
           /\ flushInFlight' = flushInFlight \cup {g} /\ drains' = drains
<1>1. mem[g] \in States /\ PendingTracked(g) \in BOOLEAN
  BY DEF TypeOK, PendingTracked, PendingPlayerFlush
<1>2. db' = db
  BY DEF schedulePlayerFlush
<1>3. CASE g \in flushInFlight
  <2>1. Enqueue(g, mem[g], PendingTracked(g) \/ b)
    BY <1>3 DEF schedulePlayerFlush
  <2>2. /\ wal' = [wal EXCEPT ![g] = mem[g]]
        /\ pendingFlushes' = [pendingFlushes EXCEPT ![g] = [save |-> mem[g], tracked |-> PendingTracked(g) \/ b]]
        /\ flushInFlight' = flushInFlight /\ flushes' = flushes /\ drains' = drains
    BY <2>1, EnqueueLogged
  <2>3. LogInv'
    BY <1>1, <1>2, <1>3, <2>2, WaitingSaveLog
  <2> QED
    BY <1>2, <1>3, <2>2, <2>3
<1>4. CASE g \notin flushInFlight
  <2>1. dispatchPlayerFlush(g, [save |-> mem[g], tracked |-> b], flushes, BeginIf(b, Tracker))
    BY <1>4 DEF schedulePlayerFlush
  <2>2. /\ wal' = [wal EXCEPT ![g] = mem[g]]
        /\ pendingFlushes' = [pendingFlushes EXCEPT ![g] = None]
        /\ flushInFlight' = flushInFlight \cup {g}
        /\ flushes' = flushes \cup {[guid |-> g, save |-> mem[g], tracked |-> b, stage |-> "queued"]}
        /\ drains' = drains
    BY <2>1, DispatchGoesOut
  <2>3. \A f \in flushes : f.guid # g
    BY <1>4 DEF ChainInv, ChainConsistent
  <2>4. LogInv'
    BY <1>1, <1>2, <2>2, <2>3, NewFlushLog
  <2> QED
    BY <1>2, <2>2, <2>4
<1> QED
  BY <1>3, <1>4

\* A synchronous save of an online character: into the log behind a flush, into
\* the tables otherwise, where no log entry stands in front of it.
LEMMA SyncDurable ==
    ASSUME Benign, TypeOK, ChainInv, LogInv, NEW g \in Guids, toRecover = {},
           g \notin failedRecoveryGuids, NEW save \in States,
           savePlayerSync(g, save), UNCHANGED startup
    PROVE  /\ LogInv'
           /\ flushInFlight' = flushInFlight /\ drains' = drains
           /\ \/ wal' = [wal EXCEPT ![g] = save] /\ db' = db
              \/ wal[g] = None /\ wal' = wal /\ db' = [db EXCEPT ![g] = save]
<1>1. PendingTracked(g) \in BOOLEAN
  BY DEF TypeOK, PendingTracked, PendingPlayerFlush
<1>2. CASE g \in flushInFlight
  <2>1. Enqueue(g, save, PendingTracked(g)) /\ db' = db
    BY <1>2 DEF savePlayerSync
  <2>2. /\ wal' = [wal EXCEPT ![g] = save]
        /\ pendingFlushes' = [pendingFlushes EXCEPT ![g] = [save |-> save, tracked |-> PendingTracked(g)]]
        /\ flushInFlight' = flushInFlight /\ flushes' = flushes /\ drains' = drains
    BY <2>1, EnqueueLogged
  <2>3. LogInv'
    BY <1>1, <1>2, <2>1, <2>2, WaitingSaveLog
  <2> QED
    BY <2>1, <2>2, <2>3
<1>3. CASE g \notin flushInFlight
  <2>1. /\ flushInFlight' = flushInFlight /\ drains' = drains /\ flushes' = flushes
        /\ wal' = wal /\ pendingFlushes' = pendingFlushes /\ db' = [db EXCEPT ![g] = save]
    BY <1>3, NoWriteFaults DEF Unfailing, savePlayerSync
  <2>2. wal[g] = None
    BY <1>3 DEF LogInv
  <2>3. \A f \in flushes : f.guid # g /\ f.guid \in Guids
    BY <1>3 DEF ChainInv, ChainConsistent, TypeOK, Flushes
  <2>4. LogInv'
    BY <2>1, <2>3 DEF TypeOK, LogInv, startup
  <2> QED
    BY <2>1, <2>2, <2>4
<1> QED
  BY <1>2, <1>3

-----------------------------------------------------------------------------
(* One step of Next at a time: the invariant is kept and the pair of live   *)
(* and durable states moves as DurableCharacters allows.                    *)

Stables == [g \in Guids |-> Durable(g)]
StableStep == Stable!Next \/ (mem' = mem /\ Stables' = Stables)

\* The newest save handed over stays the durable state.
AcceptedStep == accepted = Stables => accepted' = Stables'

\* Saving g, by whichever way, is the step Save of the abstract specification.
LEMMA SaveStep ==
    ASSUME TypeOK, TypeOK', NEW g \in Guids, mem[g] # None,
           \/ wal' = [wal EXCEPT ![g] = mem[g]] /\ db' = db
           \/ wal[g] = None /\ wal' = wal /\ db' = [db EXCEPT ![g] = mem[g]]
    PROVE  Stables' = [Stables EXCEPT ![g] = mem[g]]
<1>1. \A h \in Guids : Durable(h)' = IF h = g THEN mem[g] ELSE Durable(h)
  BY DEF TypeOK, Durable
<1> QED
  BY <1>1 DEF Stables

\* While the dispatcher handles a character that is online, the invariants on
\* startup and logins survive any change to that character's own chain.
LEMMA OnlineOnly ==
    ASSUME TypeOK, StartupInv, LoginInv, NEW g \in Guids, mem[g] # None,
           mem' = mem \/ mem' = [mem EXCEPT ![g] = None], flushInFlight' \subseteq flushInFlight \cup {g},
           db' = db \/ db' = [db EXCEPT ![g] = mem[g]], drains' = drains, UNCHANGED startup
    PROVE  StartupInv' /\ LoginInv'
<1>1. \A h \in Guids : mem[h] = None => mem'[h] = None /\ h # g
  BY DEF TypeOK
<1>2. g \notin toRecover \cup failedRecoveryGuids
  BY DEF StartupInv
<1>3. \A w \in Waiters : drains[w].login => drains[w].guid \in Guids
  BY DEF TypeOK, Drains, NoDrain
<1>4. \A w \in Waiters : drains[w].loaded # None => drains[w].login /\ db'[drains[w].guid] = db[drains[w].guid]
  BY <1>1, <1>3 DEF TypeOK, LoginInv
<1> QED
  BY <1>1, <1>2, <1>3, <1>4 DEF TypeOK, StartupInv, LoginInv, startup

\* Every step keeps the invariant and is a step, or a stutter, of the stable states.
LEMMA DurableStep ==
    ASSUME Benign, TypeInv, TypeInv', ChainInv, DurableInv, [Next]_vars
    PROVE  DurableInv' /\ StableStep /\ AcceptedStep
<1> USE DEF disk, queue, loop
<1>0. TypeOK /\ TypeOK' /\ Phases /\ LogInv /\ StartupInv /\ LoginInv
  BY DEF TypeInv, DurableInv
<1>1. ASSUME UNCHANGED <<disk, accepted, mem, queue, drains, startup>> PROVE DurableInv' /\ StableStep /\ AcceptedStep
  BY <1>0, <1>1 DEF DurableInv, LogInv, StartupInv, LoginInv, StableStep, AcceptedStep, Stables, Durable, startup
<1>2. ASSUME NEW g \in Guids, Play(g) PROVE DurableInv' /\ StableStep /\ AcceptedStep
  <2>1. PICK u \in Updates : mem' = [mem EXCEPT ![g] = mem[g] \cup {u}]
    BY <1>2 DEF Play
  <2>2. Stables' = Stables
    BY <1>2 DEF Play, Stables, Durable
  <2>3. Stable!Change(g)
    BY <1>2, <2>1, <2>2 DEF Play, Stable!Change, Stables
  <2>4. \A h \in Guids : mem[h] = None => mem'[h] = None
    BY <1>0, <1>2, <2>1 DEF Play, TypeOK
  <2>5. StartupInv' /\ LoginInv'
    <3>1. \A w \in Waiters : drains[w].login => drains[w].guid \in Guids
      BY <1>0 DEF TypeOK, Drains, NoDrain
    <3> QED
      BY <1>0, <1>2, <2>4, <3>1 DEF TypeOK, Play, StartupInv, LoginInv, startup
  <2>6. LogInv'
    BY <1>0, <1>2 DEF Play, LogInv, startup
  <2> QED
    BY <1>2, <2>2, <2>3, <2>5, <2>6 DEF Play, DurableInv, StableStep, AcceptedStep, Stable!Next
<1>3. ASSUME NEW g \in Guids, savePlayer(g) \/ SaveAllPlayer(g) PROVE DurableInv' /\ StableStep /\ AcceptedStep
  <2>1. mem[g] # None /\ mem' = mem /\ UNCHANGED startup
    BY <1>0, <1>3 DEF savePlayer, SaveAllPlayer, Phases
  <2>2. g \notin failedRecoveryGuids
    BY <1>0, <2>1 DEF StartupInv
  <2>3. PICK b \in BOOLEAN : schedulePlayerFlush(g, b)
    BY <1>3 DEF savePlayer, SaveAllPlayer
  <2>4. /\ LogInv'
        /\ wal' = [wal EXCEPT ![g] = mem[g]] /\ db' = db
        /\ flushInFlight' = flushInFlight \cup {g} /\ drains' = drains
    BY <1>0, <2>1, <2>2, <2>3, ScheduleDurable
  <2>5. StartupInv' /\ LoginInv'
    BY <1>0, <2>1, <2>4, OnlineOnly
  <2>6. Stables' = [Stables EXCEPT ![g] = mem[g]]
    BY <1>0, <2>1, <2>4, SaveStep
  <2>7. Stable!Save(g)
    BY <2>1, <2>6 DEF Stable!Save, Stables
  <2>8. AcceptedStep
    BY <2>3, <2>6 DEF AcceptedStep, schedulePlayerFlush
  <2> QED
    BY <2>4, <2>5, <2>7, <2>8 DEF DurableInv, StableStep, Stable!Next
<1>4. ASSUME NEW g \in Guids, SaveOnline(g) \/ Logout(g) PROVE DurableInv' /\ StableStep /\ AcceptedStep
  <2>1. mem[g] # None /\ UNCHANGED startup /\ toRecover = {} /\ savePlayerSync(g, mem[g])
    BY <1>4 DEF SaveOnline, Logout, Idle
  <2>2. g \notin failedRecoveryGuids /\ mem[g] \in States
    BY <1>0, <2>1 DEF StartupInv, TypeOK
  <2>3. /\ LogInv'
        /\ flushInFlight' = flushInFlight /\ drains' = drains
        /\ \/ wal' = [wal EXCEPT ![g] = mem[g]] /\ db' = db
           \/ wal[g] = None /\ wal' = wal /\ db' = [db EXCEPT ![g] = mem[g]]
    BY <1>0, <2>1, <2>2, SyncDurable
  <2>4. mem' = mem \/ mem' = [mem EXCEPT ![g] = None]
    BY <1>4 DEF SaveOnline, Logout
  <2>5. StartupInv' /\ LoginInv'
    BY <1>0, <2>1, <2>3, <2>4, OnlineOnly
  <2>6. Stables' = [Stables EXCEPT ![g] = mem[g]]
    BY <1>0, <2>1, <2>3, SaveStep
  <2>7. Stable!Save(g) \/ Stable!Leave(g)
    BY <2>1, <2>4, <2>6 DEF Stable!Save, Stable!Leave, Stables
  <2>8. AcceptedStep
    BY <2>1, <2>6, NoWriteFaults DEF Unfailing, AcceptedStep, savePlayerSync
  <2> QED
    BY <2>3, <2>5, <2>7, <2>8 DEF DurableInv, StableStep, Stable!Next
<1>5. ASSUME NEW g \in Guids, SaveOffline(g) PROVE FALSE
  BY <1>5 DEF SaveOffline, Benign
<1>6. ASSUME NEW G \in SUBSET Guids, savePlayersSync(G) PROVE FALSE
  BY <1>6 DEF savePlayersSync, Benign
<1>7. ASSUME NEW w \in Waiters, NEW g \in Guids, NEW login \in BOOLEAN,
             drainPlayerFlushAsync(w, g, login)
      PROVE  DurableInv' /\ StableStep /\ AcceptedStep
  <2> DEFINE d == [state |-> "asked", guid |-> g, login |-> login, loaded |-> None]
  <2>1. d.state = "asked" /\ d.guid = g /\ d.login = login /\ d.loaded = None
    OBVIOUS
  <2> HIDE DEF d
  <2>2. drains' = [drains EXCEPT ![w] = d]
    BY <1>7 DEF drainPlayerFlushAsync, d
  <2>3. ~drains[w].login
    BY <1>7 DEF drainPlayerFlushAsync, NoDrain
  <2>4. LoginInv'
    BY <1>0, <1>7, <2>1, <2>2, <2>3 DEF drainPlayerFlushAsync, TypeOK, LoginInv, LoginReserved, startup
  <2>5. LogInv' /\ StartupInv'
    BY <1>0, <1>7 DEF drainPlayerFlushAsync, Idle, LogInv, StartupInv, startup
  <2>6. mem' = mem /\ Stables' = Stables /\ accepted' = accepted
    BY <1>7 DEF drainPlayerFlushAsync, Stables, Durable
  <2> QED
    BY <2>4, <2>5, <2>6 DEF DurableInv, StableStep, AcceptedStep
<1>8. ASSUME NEW w \in Waiters, DrainTask(w) \/ LoginTimeout(w) PROVE DurableInv' /\ StableStep /\ AcceptedStep
  <2>0. drains[w] # NoDrain /\ drains[w].state \notin {"loading", "loaded"} /\ drains[w].loaded = None
    BY <1>0, <1>8 DEF DrainTask, LoginTimeout, NoDrain, LoginInv
  <2>1. \A v \in Waiters : /\ drains'[v].login => drains[v].login
                           /\ drains'[v].guid = drains[v].guid /\ drains'[v].loaded = drains[v].loaded
                           /\ v # w => drains'[v] = drains[v]
    BY <1>0, <1>8, <2>0 DEF DrainTask, LoginTimeout, TypeOK, Drains
  <2>2. /\ drains'[w].state \notin {"loading", "loaded"}
        /\ drains'[w].login /\ drains'[w].state = "drained" => drains[w].guid \notin flushInFlight
    BY <1>0, <1>8, <2>0 DEF DrainTask, LoginTimeout, TypeOK, Drains, hasPendingPlayerSave, LoginInv
  <2>3. LoginInv'
    BY <1>0, <1>8, <2>0, <2>1, <2>2 DEF DrainTask, LoginTimeout, LoginInv, startup
  <2>4. LogInv' /\ StartupInv'
    BY <1>0, <1>8 DEF DrainTask, LoginTimeout, Idle, LogInv, StartupInv, startup
  <2>5. mem' = mem /\ Stables' = Stables /\ accepted' = accepted
    BY <1>8 DEF DrainTask, LoginTimeout, Stables, Durable
  <2> QED
    BY <2>3, <2>4, <2>5 DEF DurableInv, StableStep, AcceptedStep
<1>9. ASSUME NEW w \in Waiters, DrainCallback(w) \/ loadPlayerById(w) \/ finishLogin(w)
      PROVE  DurableInv' /\ StableStep /\ AcceptedStep
  <2> DEFINE g == drains[w].guid
  <2>1. UNCHANGED <<disk, accepted, queue, startup>>
    BY <1>9 DEF DrainCallback, loadPlayerById, finishLogin
  <2>2. drains[w] # NoDrain /\ drains[w] \in Drains
    BY <1>0, <1>9 DEF DrainCallback, loadPlayerById, finishLogin, NoDrain, TypeOK
  <2>3. g \in Guids /\ toRecover = {}
    BY <1>0, <2>2 DEF Drains, StartupInv
  <2>4. Stables' = Stables
    BY <2>1 DEF Stables, Durable
  <2>5. LogInv'
    BY <1>0, <2>1 DEF LogInv, startup
  <2>6. CASE mem' = mem
    <3>1. StartupInv'
      BY <1>0, <2>1, <2>3, <2>6 DEF StartupInv, startup
    <3>2. PICK d : /\ drains' = [drains EXCEPT ![w] = d]
                   /\ d.login => /\ drains[w].login /\ d.guid = g
                                 /\ d.state \in {"drained", "loading", "loaded"} => g \notin flushInFlight
                   /\ d.state \in {"loading", "loaded"} => d.login
                   /\ d.loaded # None => d.state = "loaded" /\ d.loaded = db[d.guid]
      <4>1. CASE drains' = [drains EXCEPT ![w] = NoDrain]
        <5>1. /\ ~NoDrain.login /\ NoDrain.state \notin {"loading", "loaded"} /\ NoDrain.loaded = None
          BY DEF NoDrain
        <5> QED
          BY <4>1, <5>1
      <4>2. CASE DrainCallback(w) /\ drains' # [drains EXCEPT ![w] = NoDrain]
        <5> DEFINE d == [drains[w] EXCEPT !.state = "loading"]
        <5>1. /\ d.login = drains[w].login /\ d.guid = g /\ d.state = "loading" /\ d.loaded = drains[w].loaded
          BY <2>2 DEF Drains
        <5>2. /\ drains' = [drains EXCEPT ![w] = d] /\ drains[w].login /\ drains[w].state = "drained"
          BY <1>0, <4>2 DEF DrainCallback, TypeOK
        <5>3. drains[w].loaded = None /\ g \notin flushInFlight
          BY <1>0, <5>2 DEF LoginInv
        <5> HIDE DEF d
        <5> QED
          BY <5>1, <5>2, <5>3
      <4>3. CASE loadPlayerById(w)
        <5>1. PICK p \in {None, db[g]} :
                drains' = [drains EXCEPT ![w] = [drains[w] EXCEPT !.state = "loaded", !.loaded = p]]
          BY <1>0, <4>3 DEF loadPlayerById, TypeOK
        <5> DEFINE d == [drains[w] EXCEPT !.state = "loaded", !.loaded = p]
        <5>2. /\ d.login = drains[w].login /\ d.guid = g /\ d.state = "loaded" /\ d.loaded = p
          BY <2>2 DEF Drains
        <5>3. drains[w].login /\ g \notin flushInFlight
          BY <1>0, <4>3 DEF LoginInv, loadPlayerById
        <5>4. drains' = [drains EXCEPT ![w] = d]
          BY <5>1
        <5> HIDE DEF d
        <5> QED
          BY <5>1, <5>2, <5>3, <5>4
      <4> QED
        BY <1>9, <4>1, <4>2, <4>3 DEF finishLogin
    <3>3. LoginInv'
      BY <1>0, <2>1, <2>6, <3>2 DEF TypeOK, LoginInv, startup
    <3> QED
      BY <2>1, <2>4, <2>5, <2>6, <3>1, <3>3 DEF DurableInv, StableStep, AcceptedStep
  <2>7. CASE finishLogin(w) /\ drains[w].loaded # None /\ mem' = [mem EXCEPT ![g] = drains[w].loaded]
    <3>0. drains' = [drains EXCEPT ![w] = NoDrain] /\ drains[w].login /\ drains[w].loaded = db[g]
      BY <1>0, <2>7 DEF finishLogin, LoginInv
    <3>1. \A v \in Waiters : drains'[v].login => v # w /\ drains'[v] = drains[v] /\ drains[v].login
      BY <1>0, <3>0 DEF TypeOK, NoDrain
    <3>2. mem[g] = None /\ g \notin failedRecoveryGuids /\ g \notin flushInFlight
      BY <1>0, <2>7, <3>0 DEF LoginInv, finishLogin
    <3>3. wal[g] = None
      BY <1>0, <2>3, <3>2 DEF LogInv
    <3>4. Stable!Enter(g)
      BY <2>1, <2>3, <2>7, <3>0, <3>2, <3>3 DEF Stable!Enter, Durable
    <3>5. \A v \in Waiters : drains'[v].login => drains[v].guid # g /\ drains[v].guid \in Guids
      BY <1>0, <3>0, <3>1 DEF LoginInv, TypeOK, Drains, NoDrain
    <3>6. \A v \in Waiters : v # w => drains'[v] = drains[v]
      BY <1>0, <3>0 DEF TypeOK
    <3>7. drains'[w] = NoDrain
      BY <1>0, <3>0 DEF TypeOK
    <3>8. StartupInv'
      BY <1>0, <2>1, <2>3, <2>7, <3>2 DEF TypeOK, StartupInv, startup
    <3>9. LoginInv'
      <4>1. ~NoDrain.login /\ NoDrain.state = "none" /\ NoDrain.loaded = None
        BY DEF NoDrain
      <4> QED
        BY <1>0, <2>1, <2>7, <3>1, <3>5, <3>6, <3>7, <4>1 DEF TypeOK, LoginInv, startup
    <3>10. AcceptedStep
      BY <2>1, <2>4 DEF AcceptedStep
    <3> QED
      BY <2>3, <2>5, <3>4, <3>8, <3>9, <3>10 DEF DurableInv, StableStep, Stable!Next
  <2> QED
    BY <1>9, <2>6, <2>7 DEF DrainCallback, loadPlayerById, finishLogin
<1>10. ASSUME NEW g \in Guids, RunFlush(g) PROVE DurableInv' /\ StableStep /\ AcceptedStep
  <2>1. PICK f \in flushes : f.guid = g /\ flushPlayerSave(f)
    BY <1>10 DEF RunFlush
  <2> DEFINE done == [f EXCEPT !.stage = "ok"]
  <2>2. done.guid = g /\ done.save = f.save /\ done.stage = "ok"
    BY <1>0, <2>1 DEF TypeOK, Flushes
  <2>3. db' = [db EXCEPT ![g] = f.save] /\ flushes' = (flushes \ {f}) \cup {done}
    BY <2>1, NoWriteFaults DEF Unfailing, flushPlayerSave, FlushDone
  <2> HIDE DEF done
  <2>4. UNCHANGED <<wal, accepted, mem, flushInFlight, pendingFlushes, drains, startup>>
    BY <2>1 DEF flushPlayerSave
  <2>5. \A h \in flushes \ {f} : h.guid # g /\ h.guid \in Guids
    BY <1>0, <2>1 DEF ChainInv, OneFlushPerGuid, TypeOK, Flushes
  <2>6. wal[g] # None
    <3>1. wal[g] = f.save \/ (pendingFlushes[g] \in PendingPlayerFlush /\ wal[g] = pendingFlushes[g].save)
      BY <1>0, <2>1 DEF LogInv, TypeOK
    <3>2. wal[g] \in States
      BY <1>0, <3>1 DEF TypeOK, Flushes, PendingPlayerFlush
    <3> QED
      BY <3>2, NoneFresh DEF States
  <2>7. Stables' = Stables
    BY <1>0, <2>3, <2>4, <2>6 DEF TypeOK, Stables, Durable
  <2>8. LogInv'
    BY <1>0, <2>1, <2>2, <2>3, <2>4, <2>5 DEF TypeOK, LogInv, startup
  <2>9. \A w \in Waiters : drains[w].loaded # None => db'[drains[w].guid] = db[drains[w].guid]
    <3>1. g \in flushInFlight
      BY <2>1 DEF ChainInv, ChainConsistent
    <3> QED
      BY <1>0, <2>3, <3>1 DEF TypeOK, LoginInv
  <2>10. StartupInv' /\ LoginInv'
    BY <1>0, <2>4, <2>9 DEF StartupInv, LoginInv, startup
  <2> QED
    BY <2>4, <2>7, <2>8, <2>10 DEF DurableInv, StableStep, AcceptedStep
<1>11. ASSUME NEW g \in Guids, RunFlushed(g) PROVE DurableInv' /\ StableStep /\ AcceptedStep
  <2>1. PICK f \in flushes : f.guid = g /\ onPlayerFlushed(f)
    BY <1>11 DEF RunFlushed
  <2>2. /\ f.stage = "ok" /\ db[g] = f.save /\ f.save \in States
        /\ toRecover = {} /\ UNCHANGED <<db, accepted, mem, startup>>
    BY <1>0, <2>1 DEF onPlayerFlushed, Idle, LogInv, TypeOK, Flushes
  <2>3. \A h \in flushes \ {f} : h.guid # g /\ h.guid \in Guids
    BY <1>0, <2>1 DEF ChainInv, OneFlushPerGuid, TypeOK, Flushes
  <2>4. g \in flushInFlight /\ g \notin failedRecoveryGuids
    BY <1>0, <2>1 DEF ChainInv, ChainConsistent, StartupInv
  <2>5. CASE pendingFlushes[g] = None
    <3>1. /\ flushes' = flushes \ {f} /\ flushInFlight' = flushInFlight \ {g}
          /\ wal' = [wal EXCEPT ![g] = None] /\ pendingFlushes' = pendingFlushes
          /\ NotifyChain(g, TRUE)
      BY <2>1, <2>2, <2>5, NoWriteFaults DEF Unfailing, onPlayerFlushed
    <3>2. wal[g] = f.save
      BY <1>0, <2>1, <2>5 DEF LogInv
    <3>3. \A h \in Guids : Durable(h)' = Durable(h)
      BY <1>0, <2>2, <3>1, <3>2 DEF TypeOK, Durable
    <3>4. Stables' = Stables
      BY <3>3 DEF Stables
    <3>5. LogInv'
      BY <1>0, <2>2, <2>3, <2>5, <3>1 DEF TypeOK, LogInv, startup
    <3>6. \A w \in Waiters : /\ drains'[w].login = drains[w].login /\ drains'[w].guid = drains[w].guid
                             /\ drains'[w].loaded = drains[w].loaded
                             /\ drains'[w] = drains[w] \/ (drains'[w].state = "drained" /\ drains[w].guid = g
                                                          /\ drains[w].state = "registered")
      BY <1>0, <3>1 DEF TypeOK, NotifyChain, Drains, NoDrain
    <3>7. LoginInv'
      BY <1>0, <2>2, <3>1, <3>6 DEF LoginInv, startup
    <3>8. StartupInv'
      BY <1>0, <2>2, <3>1 DEF StartupInv, startup
    <3> QED
      BY <2>2, <3>4, <3>5, <3>7, <3>8 DEF DurableInv, StableStep, AcceptedStep
  <2>6. CASE pendingFlushes[g] # None
    <3> DEFINE p == pendingFlushes[g]
    <3>1. p \in PendingPlayerFlush /\ wal[g] = p.save
      BY <1>0, <2>6 DEF TypeOK, LogInv
    <3>2. p.save \in States /\ p.tracked \in BOOLEAN
      BY <3>1 DEF PendingPlayerFlush
    <3>3. dispatchPlayerFlush(g, p, flushes \ {f}, CompleteIf(f.tracked, Tracker))
      BY <2>1, <2>6 DEF onPlayerFlushed
    <3>4. /\ wal' = [wal EXCEPT ![g] = p.save]
          /\ pendingFlushes' = [pendingFlushes EXCEPT ![g] = None]
          /\ flushInFlight' = flushInFlight \cup {g}
          /\ flushes' = (flushes \ {f}) \cup {[guid |-> g, save |-> p.save, tracked |-> p.tracked, stage |-> "queued"]}
          /\ drains' = drains
      BY <2>4, <3>3, DispatchGoesOut
    <3>5. LogInv'
      BY <1>0, <2>2, <2>3, <3>2, <3>4, NewFlushLog, ZenonT(60)
    <3>6. wal' = wal
      BY <1>0, <3>1, <3>4 DEF TypeOK
    <3>7. Stables' = Stables
      BY <2>2, <3>6 DEF Stables, Durable
    <3>8. flushInFlight' = flushInFlight
      BY <2>4, <3>4
    <3>9. StartupInv' /\ LoginInv'
      BY <1>0, <2>2, <3>4, <3>8 DEF StartupInv, LoginInv, startup
    <3> QED
      BY <2>2, <3>5, <3>7, <3>9 DEF DurableInv, StableStep, AcceptedStep
  <2> QED
    BY <2>5, <2>6
<1>12. ASSUME Crash PROVE DurableInv' /\ StableStep /\ AcceptedStep
  <2>1. LogInv' /\ StartupInv'
    BY <1>0, <1>12 DEF Crash, LogInv, StartupInv
  <2>2. LoginInv'
    BY <1>0, <1>12 DEF Crash, LoginInv, NoDrain
  <2>3. \A h \in Guids : Durable(h)' = Durable(h)
    BY <1>0, <1>12 DEF Crash, Durable, Phases, TypeOK
  <2>4. Stables' = Stables
    BY <2>3 DEF Stables
  <2>5. Stable!Crash
    BY <1>12, <2>4 DEF Crash, Stable!Crash, Stables
  <2>6. AcceptedStep
    BY <1>12, <2>4 DEF Crash, AcceptedStep
  <2> QED
    BY <2>1, <2>2, <2>5, <2>6 DEF DurableInv, StableStep, Stable!Next
<1>13. ASSUME NEW g \in Guids, RecoverGuid(g) \/ RecoverFails(g) PROVE DurableInv' /\ StableStep /\ AcceptedStep
  <2>1. /\ g \in toRecover /\ toRecover' = toRecover \ {g}
        /\ UNCHANGED <<accepted, mem, flushInFlight, pendingFlushes, flushes, drains>>
    BY <1>13 DEF RecoverGuid, RecoverFails
  <2>2. /\ mem[g] = None /\ g \notin flushInFlight /\ wal[g] # None
        /\ \A w \in Waiters : drains[w] = NoDrain
    BY <1>0, <2>1 DEF StartupInv, Phases
  <2>3. \A f \in flushes : f.guid # g /\ f.guid \in Guids
    BY <1>0, <2>2 DEF ChainInv, ChainConsistent, TypeOK, Flushes
  <2>4. LoginInv'
    BY <2>1, <2>2 DEF LoginInv, NoDrain
  <2>5. CASE RecoverGuid(g)
    <3>1. /\ db' = [db EXCEPT ![g] = wal[g]] /\ wal' = [wal EXCEPT ![g] = None]
          /\ failedRecoveryGuids' = failedRecoveryGuids
      BY <2>5, NoWriteFaults DEF Unfailing, RecoverGuid
    <3>2. \A h \in Guids : Durable(h)' = Durable(h)
      BY <1>0, <2>2, <3>1 DEF TypeOK, Durable
    <3>3. Stables' = Stables
      BY <3>2 DEF Stables
    <3>4. pendingFlushes[g] = None
      BY <1>0, <2>2 DEF ChainInv, ChainConsistent
    <3>5. LogInv'
      BY <1>0, <2>1, <2>3, <3>1, <3>4 DEF TypeOK, LogInv
    <3>6. StartupInv'
      BY <1>0, <2>1, <2>2, <3>1 DEF StartupInv
    <3> QED
      BY <2>1, <2>4, <3>3, <3>5, <3>6 DEF DurableInv, StableStep, AcceptedStep
  <2>6. CASE RecoverFails(g)
    <3>1. failedRecoveryGuids' = failedRecoveryGuids \cup {g} /\ UNCHANGED disk
      BY <2>6, NoWriteFaults DEF Unfailing, RecoverFails
    <3>2. LogInv' /\ StartupInv'
      BY <1>0, <2>1, <2>2, <3>1 DEF LogInv, StartupInv
    <3>3. Stables' = Stables
      BY <3>1 DEF Stables, Durable
    <3> QED
      BY <2>1, <2>4, <3>2, <3>3 DEF DurableInv, StableStep, AcceptedStep
  <2> QED
    BY <1>13, <2>5, <2>6
<1> QED
  BY <1>1, <1>2, <1>3, <1>4, <1>5, <1>6, <1>7, <1>8, <1>9, <1>10, <1>11, <1>12, <1>13
  DEF Next, vars, RunSaveAll, RunRecovery, SaveAllBegin, SaveAllEnd

\* A fresh database satisfies the invariant and maps to the initial stable states.
LEMMA DurableInit == Init => DurableInv /\ Stable!Init
<1> SUFFICES ASSUME Init PROVE DurableInv /\ Stable!Init
  OBVIOUS
<1>1. DurableInv
  BY DEF Init, DurableInv, LogInv, StartupInv, LoginInv, NoDrain
<1>2. Stable!Init
  BY DEF Init, Stable!Init, Durable
<1> QED
  BY <1>1, <1>2

\* The invariant holds throughout, and with it the abstract step at every step.
LEMMA DurableAlways ==
    ASSUME Benign
    PROVE  Spec => /\ [](TypeInv /\ ChainInv /\ DurableInv /\ accepted = Stables)
                   /\ [][StableStep]_vars
<1>1. TypeInv /\ TypeInv' /\ ChainInv /\ DurableInv /\ [Next]_vars =>
          DurableInv' /\ StableStep /\ AcceptedStep
  BY DurableStep
<1>2. Init => accepted = Stables
  BY DEF Init, Stables, Durable
<1>3. accepted = Stables /\ AcceptedStep => (accepted = Stables)'
  BY DEF AcceptedStep
<1> QED
  BY <1>1, <1>2, <1>3, ChainsAlways, DurableInit, PTL DEF Spec

\* When the database takes every write, and whatever the interleaving of saves,
\* flushes, logins, crashes and recoveries, the log and the tables behave as one
\* stable state per character that every save replaces at once.
THEOREM SavesAreDurableTheorem == Benign => (Spec => SavesAreDurable)
<1> SUFFICES ASSUME Benign PROVE Spec => SavesAreDurable
  OBVIOUS
<1>1. [StableStep]_vars => [Stable!Next]_<<mem, [g \in Guids |-> Durable(g)]>>
  BY DEF StableStep, Stables, vars, disk, Durable
<1> QED
  BY <1>1, DurableAlways, DurableInit, PTL DEF Spec, SavesAreDurable, Stable!Spec

\* Under the same assumptions a login whose drain was answered TRUE reads the
\* newest save of its character from the tables.
THEOREM DrainedMeansPersistedTheorem == Benign => (Spec => []DrainedMeansPersisted)
<1> SUFFICES ASSUME Benign PROVE Spec => []DrainedMeansPersisted
  OBVIOUS
<1>1. TypeInv /\ ChainInv /\ DurableInv /\ accepted = Stables => DrainedMeansPersisted
  <2> SUFFICES ASSUME TypeOK, LogInv, StartupInv, LoginInv, accepted = Stables,
                      NEW w \in Waiters, drains[w].login,
                      drains[w].state \in {"drained", "loading", "loaded"}
               PROVE  accepted[drains[w].guid] = db[drains[w].guid]
    BY DEF TypeInv, DurableInv, LoginInv, DrainedMeansPersisted
  <2>1. drains[w].guid \in Guids /\ drains[w] # NoDrain
    BY DEF TypeOK, Drains, NoDrain
  <2>2. wal[drains[w].guid] = None
    BY <2>1 DEF LogInv, StartupInv, LoginInv
  <2> QED
    BY <2>1, <2>2 DEF Stables, Durable
<1> QED
  BY <1>1, DurableAlways, PTL

\* An online character always includes what is durable of it.
MemInv == \A g \in Guids : mem[g] # None => Stables[g] \subseteq mem[g]

\* Under the same assumptions no update that reached the log or the tables is
\* ever lost, by a save, a login, a crash or a recovery.
THEOREM NothingPersistedIsLostTheorem == Benign => (Spec => NothingPersistedIsLost)
<1> SUFFICES ASSUME Benign PROVE Spec => NothingPersistedIsLost
  OBVIOUS
<1>1. Init => MemInv
  BY DEF Init, MemInv
<1>2. TypeInv /\ MemInv /\ [StableStep]_vars => MemInv' /\ \A g \in Guids : Durable(g) \subseteq Durable(g)'
  <2> SUFFICES ASSUME TypeOK, MemInv, [StableStep]_vars
               PROVE  MemInv' /\ \A g \in Guids : Stables[g] \subseteq Stables'[g]
    BY DEF TypeInv, Stables
  <2>0. /\ DOMAIN Stables = Guids /\ Stables = [g \in Guids |-> Durable(g)]
        /\ mem = [g \in Guids |-> mem[g]]
    BY DEF Stables, TypeOK
  <2>1. CASE UNCHANGED vars
    BY <2>1 DEF vars, disk, MemInv, Stables, Durable
  <2>2. CASE mem' = mem /\ Stables' = Stables
    BY <2>2 DEF MemInv
  <2>3. ASSUME NEW g \in Guids, Stable!Change(g) \/ Stable!Save(g) \/ Stable!Enter(g) \/ Stable!Leave(g)
        PROVE  MemInv' /\ \A h \in Guids : Stables[h] \subseteq Stables'[h]
    <3>1. CASE Stable!Change(g)
      BY <2>0, <3>1 DEF Stable!Change, MemInv, Stables
    <3>2. CASE Stable!Save(g)
      BY <2>0, <3>2 DEF Stable!Save, MemInv, Stables
    <3>3. CASE Stable!Enter(g)
      BY <2>0, <3>3 DEF Stable!Enter, MemInv, Stables
    <3>4. CASE Stable!Leave(g)
      BY <2>0, <3>4 DEF Stable!Leave, MemInv, Stables
    <3> QED
      BY <2>3, <3>1, <3>2, <3>3, <3>4
  <2>4. ASSUME NEW G \in SUBSET Guids, Stable!ChangeOffline(G)
        PROVE  MemInv' /\ \A g \in Guids : Stables[g] \subseteq Stables'[g]
    BY <2>0, <2>4 DEF Stable!ChangeOffline, MemInv, Stables
  <2>5. CASE Stable!Crash
    BY <2>0, <2>5 DEF Stable!Crash, MemInv, Stables
  <2> QED
    BY <2>1, <2>2, <2>3, <2>4, <2>5 DEF StableStep, Stable!Next
<1> QED
  BY <1>1, <1>2, DurableAlways, PTL DEF Spec, NothingPersistedIsLost
=============================================================================
