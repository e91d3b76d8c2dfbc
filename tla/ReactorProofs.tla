--------------------------- MODULE ReactorProofs ---------------------------
(* Proofs about TaskReactor: types, identifiers, cancellation and order.    *)
EXTENDS Reactor, TLAPS

-----------------------------------------------------------------------------
(* Types.                                                                   *)

\* A callback runs only while the cycle is below its limit.
BelowLimit == pc = "running" => ~LimitReached

TypeInv == TypeOK /\ BelowLimit

\* A container is a set of tasks.
LEMMA MoveType ==
    ASSUME place \in [Tasks -> Places], NEW T, NEW p \in Places
    PROVE  Move(T, p) \in [Tasks -> Places]
  BY DEF Move

\* The initial state has its types.
LEMMA TypeInit == Init => TypeInv
<1> SUFFICES ASSUME Init PROVE TypeInv
  OBVIOUS
<1>1. TypeOK
  BY BoundsNat, LimitsNat DEF Init, TypeOK, Places
<1>2. BelowLimit
  BY DEF Init, BelowLimit
<1> QED
  BY <1>1, <1>2 DEF TypeInv

\* retireIdentifier leaves sets of identifiers.
LEMMA RetireType ==
    ASSUME TypeOK, NEW T, retireIdentifier(T)
    PROVE  /\ cancelInbox' \in SUBSET Ids /\ activeIdentifiers' \in SUBSET Ids /\ cancelled' \in SUBSET Ids
           /\ nextIdentifier' = nextIdentifier /\ requested' = requested /\ deferred' = deferred
  BY DEF TypeOK, retireIdentifier

\* Every step keeps the types.
LEMMA TypeStep == TypeInv /\ [Next]_vars => TypeInv'
<1> SUFFICES ASSUME TypeInv, [Next]_vars PROVE TypeInv'
  OBVIOUS
<1> USE DEF TypeInv
<1> USE BoundsNat, LimitsNat
<1>0. TypeOK
  OBVIOUS
<1>1. ASSUME NEW th \in Threads, NEW delay \in Nat, NEW until \in Nat, NEW kind \in Nat,
             Prepare(th, delay, until, kind)
      PROVE TypeInv'
  <2>1. nextSequence + 1 \in Nat /\ clock + delay \in Nat
    BY DEF TypeOK
  <2>2. place' \in [Tasks -> Places]
    BY <1>1, MoveType DEF Prepare, TypeOK, Places
  <2>3. /\ owner' \in [Tasks -> Threads] /\ fireAt' \in [Tasks -> Nat]
        /\ deadline' \in [Tasks -> Nat] /\ identifier' \in [Tasks -> Nat]
    BY <1>1, <2>1 DEF Prepare, TypeOK
  <2>4. nextSequence' \in Nat
    BY <1>1, <2>1 DEF Prepare
  <2> QED
    BY <1>1, <2>2, <2>3, <2>4 DEF Prepare, TypeOK, BelowLimit, LimitReached, ids
<1>2. ASSUME NEW th \in Threads, send(th) PROVE TypeInv'
  <2>1. place' \in [Tasks -> Places]
    BY <1>2, MoveType DEF send, TypeOK, Places
  <2>2. notifying' \in SUBSET Threads
    BY <1>2 DEF send, TypeOK
  <2> QED
    BY <1>2, <2>1, <2>2 DEF send, TypeOK, BelowLimit, LimitReached, ids
<1>3. ASSUME NEW th \in Threads, schedule(th) PROVE TypeInv'
  <2>1. place' \in [Tasks -> Places]
    BY <1>3, MoveType DEF schedule, TypeOK, Places
  <2>2. notifying' \in SUBSET Threads
    BY <1>3 DEF schedule, TypeOK
  <2>3. /\ identifier' \in [Tasks -> Nat] /\ activeIdentifiers' \in SUBSET Ids
        /\ nextIdentifier' \in Nat /\ nextIdentifier' <= MaxId
        /\ cancelInbox' = cancelInbox /\ cancelled' = cancelled /\ requested' = requested /\ deferred' = deferred
    <3>1. CASE UNCHANGED <<identifier, ids>>
      BY <3>1 DEF TypeOK, ids
    <3>2. ASSUME NEW t \in Tasks, NEW i \in Ids,
                 nextIdentifier' = i, activeIdentifiers' = activeIdentifiers \cup {i},
                 identifier' = [identifier EXCEPT ![t] = i],
                 UNCHANGED <<cancelInbox, cancelled, requested, deferred>>
          PROVE /\ identifier' \in [Tasks -> Nat] /\ activeIdentifiers' \in SUBSET Ids
                /\ nextIdentifier' \in Nat /\ nextIdentifier' <= MaxId
      BY <3>2 DEF TypeOK, Ids
    <3> QED
      BY <1>3, <3>1, <3>2 DEF schedule, In, ids
  <2> QED
    BY <1>3, <2>1, <2>2, <2>3 DEF schedule, TypeOK, BelowLimit, LimitReached
<1>4. ASSUME NEW th \in Threads, NEW i \in Ids, cancel(th, i) PROVE TypeInv'
  BY <1>4 DEF cancel, TypeOK, BelowLimit, LimitReached, task
<1>5. ASSUME NEW th \in Threads, shutdown(th) \/ Notify(th) PROVE TypeInv'
  BY <1>5 DEF shutdown, Notify, TypeOK, BelowLimit, LimitReached, task, ids
<1>6. CASE runLoop \/ waitForWork \/ Timer \/ Tick
  BY <1>6 DEF runLoop, waitForWork, Timer, Tick, TypeOK, BelowLimit, LimitReached, task, ids
<1>7. CASE drainInbox
  BY <1>7 DEF drainInbox, Loop, TypeOK, Places, BelowLimit
<1>8. ASSUME NEW T, Filter(T) PROVE place' \in [Tasks -> Places]
  BY <1>8 DEF Filter, TypeOK, Places
<1>9. CASE FilterSent
  <2>1. PICK T : Filter(T) /\ pc' = "drainReady" /\ UNCHANGED tasksExecuted /\ Loop
    BY <1>9 DEF FilterSent
  <2>2. PICK G : retireIdentifier(G)
    BY <2>1 DEF Filter
  <2> QED
    BY <2>1, <2>2, <1>8, RetireType DEF Loop, TypeOK, BelowLimit
<1>10. CASE drainReadyTasks
  <2>1. PICK T : Filter(T) /\ pc' = "execute" /\ tasksExecuted' = 0 /\ Loop
    BY <1>10 DEF drainReadyTasks
  <2>2. PICK G : retireIdentifier(G)
    BY <2>1 DEF Filter
  <2> QED
    BY <2>1, <2>2, <1>8, RetireType DEF Loop, TypeOK, BelowLimit
<1>11. CASE consumeCancellation
  <2>1. PICK t \in Tasks : place' = Move({t}, "cancelled") /\ retireIdentifier({t})
    BY <1>11 DEF consumeCancellation
  <2>2. place' \in [Tasks -> Places]
    BY <2>1, MoveType DEF TypeOK, Places
  <2>3. tasksExecuted' \in Nat /\ (maxTasksPerCycle > 0 => tasksExecuted' <= maxTasksPerCycle)
    BY <1>11 DEF consumeCancellation, LimitReached, TypeOK
  <2> QED
    BY <1>11, <2>1, <2>2, <2>3, RetireType DEF consumeCancellation, Loop, TypeOK, BelowLimit
<1>12. CASE RunTask
  <2>1. place' \in [Tasks -> Places]
    BY <1>12, MoveType DEF RunTask, TypeOK, Places
  <2> QED
    BY <1>12, <2>1 DEF RunTask, Loop, ids, TypeOK, BelowLimit, LimitReached
<1>13. CASE TaskEnd
  <2>1. place' \in [Tasks -> Places]
    BY <1>13, MoveType DEF TaskEnd, TypeOK, Places
  <2>2. tasksExecuted' \in Nat /\ (maxTasksPerCycle > 0 => tasksExecuted' <= maxTasksPerCycle)
    BY <1>13 DEF TaskEnd, BelowLimit, LimitReached, TypeOK
  <2>3. retireIdentifier(In("running"))
    BY <1>13 DEF TaskEnd
  <2> QED
    BY <1>13, <2>1, <2>2, <2>3, RetireType DEF TaskEnd, Loop, TypeOK, BelowLimit
<1>14. CASE Defer
  <2>1. place' \in [Tasks -> Places]
    BY <1>14, MoveType DEF Defer, TypeOK, Places
  <2>2. deferred' \in SUBSET Tasks
    BY <1>14 DEF Defer, In
  <2> QED
    BY <1>14, <2>1, <2>2 DEF Defer, Loop, TypeOK, BelowLimit
<1>15. CASE UNCHANGED vars
  BY <1>15 DEF vars, task, ids, TypeOK, BelowLimit, LimitReached
<1>16. /\ distantFuture \in Nat /\ Unassigned \in Nat
       /\ \A e \in Expirations : clock + e \in Nat
       /\ Delays \subseteq Nat
  BY DEF distantFuture, Unassigned, TypeOK
<1>17. CASE Next
  <2>1. CASE \E th \in Threads :
                \/ \E until \in {distantFuture} \cup {clock + e : e \in Expirations} : Prepare(th, 0, until, 0)
                \/ \E delay \in Delays : Prepare(th, delay, distantFuture, Unassigned)
    BY <2>1, <1>1, <1>16
  <2> QED
    BY <2>1, <1>17, <1>2, <1>3, <1>4, <1>5, <1>6, <1>7, <1>9, <1>10, <1>11, <1>12, <1>13, <1>14
    DEF Next, LoopStep, Publish
<1> QED
  BY <1>15, <1>17

\* TypeOK holds in every reachable state; in particular no cycle of the loop
\* handles more tasks than maxTasksPerCycle.
THEOREM ReactorTypeCorrect == Spec => []TypeOK
<1>1. TypeInv => TypeOK
  BY DEF TypeInv
<1> QED
  BY TypeInit, TypeStep, <1>1, PTL DEF Spec

-----------------------------------------------------------------------------
(* Identifiers and cancellations.                                           *)

Held(t) == place[t] \in Waiting \cup {"running"}
HasId(t) == Held(t) /\ identifier[t] # 0

\* A sequence number not drawn yet belongs to no task.
FutureInv == \A t \in Tasks : t > nextSequence => place[t] = "unused"

\* IdsReserved, element by element.
Reserved ==
    /\ \A t \in Tasks : HasId(t) => identifier[t] \in activeIdentifiers
    /\ \A i \in activeIdentifiers : \E t \in Tasks : HasId(t) /\ identifier[t] = i
    /\ \A t, u \in Tasks : HasId(t) /\ HasId(u) /\ identifier[t] = identifier[u] => t = u

Requests == cancelInbox \cup cancelled

\* A request on its way names a task that is still held and was meant by it, or is
\* running and will consume it; and a task that was meant keeps its request.
CancelInv ==
    /\ \A i \in Requests : i \in activeIdentifiers
    /\ \A t \in Tasks : HasId(t) /\ identifier[t] \in Requests => t \in requested \/ place[t] = "running"
    /\ \A t \in requested : place[t] \in Waiting \cup {"cancelled", "expired"}
    /\ \A t \in requested : place[t] \in Waiting => identifier[t] \in Requests
    /\ \A t \in Tasks : place[t] = "cancelled" => t \in requested

IdInv == FutureInv /\ Reserved /\ CancelInv

\* No task is known initially.
LEMMA IdInit == Init => IdInv
  BY BoundsNat DEF Init, IdInv, FutureInv, Reserved, CancelInv, HasId, Held, Waiting, Requests

\* Tasks that wait change place, requests go from the inbox to `cancelled`.
LEMMA WaitingMove ==
    ASSUME TypeOK, IdInv, place' \in [Tasks -> Places],
           UNCHANGED <<identifier, nextSequence, activeIdentifiers, requested>>,
           Requests' = Requests,
           \A t \in Tasks : place'[t] = place[t] \/ (place[t] \in Waiting /\ place'[t] \in Waiting)
    PROVE  IdInv'
<1>1. \A t \in Tasks : HasId(t)' <=> HasId(t)
  BY DEF HasId, Held
<1>2. FutureInv'
  BY DEF IdInv, FutureInv, Waiting
<1>3. Reserved'
  BY <1>1 DEF IdInv, Reserved
<1>4. CancelInv'
  <2>1. requested \subseteq Tasks
    BY DEF TypeOK
  <2> QED
    BY <1>1, <2>1 DEF IdInv, CancelInv, Waiting
<1> QED
  BY <1>2, <1>3, <1>4 DEF IdInv

\* The tasks T leave and their identifiers are retired.
LEMMA Retired ==
    ASSUME TypeOK, IdInv, place' \in [Tasks -> Places],
           UNCHANGED <<identifier, nextSequence>>,
           NEW T \in SUBSET Tasks, retireIdentifier(T),
           \A t \in T : Held(t) /\ place'[t] \in {"done", "cancelled", "expired"},
           \A t \in T : t \in requested => place'[t] # "done",
           \A t \in T : place'[t] = "cancelled" => t \in requested,
           \A t \in Tasks \ T : place'[t] = place[t] \/ (place[t] \in Waiting /\ place'[t] \in Waiting)
    PROVE  IdInv'
<1>1. \A t \in Tasks : HasId(t)' <=> HasId(t) /\ t \notin T
  BY DEF HasId, Held, Waiting
<1>2. \A t \in Tasks : HasId(t) => (identifier[t] \in IdsOf(T) <=> t \in T)
  BY DEF IdInv, Reserved, HasId, IdsOf
<1>3. FutureInv'
  BY DEF IdInv, FutureInv, Held, Waiting
<1>4. /\ \A i : i \in activeIdentifiers' <=> i \in activeIdentifiers /\ i \notin IdsOf(T)
      /\ \A i : i \in Requests' <=> i \in Requests /\ i \notin IdsOf(T)
      /\ requested' = requested
  BY DEF retireIdentifier, Requests
<1>5. Reserved'
  BY <1>1, <1>2, <1>4 DEF IdInv, Reserved
<1>6. CancelInv'
  <2>1. requested \subseteq Tasks
    BY DEF TypeOK
  <2>2. \A i \in Requests' : i \in activeIdentifiers'
    BY <1>4 DEF IdInv, CancelInv
  <2>3. \A t \in Tasks : HasId(t)' /\ identifier'[t] \in Requests' => t \in requested' \/ place'[t] = "running"
    BY <1>1, <1>4 DEF IdInv, CancelInv, Waiting
  <2>4. \A t \in requested' : place'[t] \in Waiting \cup {"cancelled", "expired"}
    BY <1>4, <2>1 DEF IdInv, CancelInv, Waiting
  <2>5. ASSUME NEW t \in requested', place'[t] \in Waiting PROVE identifier'[t] \in Requests'
    <3>1. t \in Tasks /\ t \notin T /\ place[t] \in Waiting
      BY <1>4, <2>1, <2>5 DEF Waiting
    <3>2. identifier[t] \in Requests
      BY <1>4, <2>5, <3>1 DEF IdInv, CancelInv
    <3>3. HasId(t)
      BY <3>1, <3>2 DEF HasId, Held, Requests, TypeOK, Ids
    <3> QED
      BY <1>2, <1>4, <3>1, <3>2, <3>3
  <2>6. \A t \in Tasks : place'[t] = "cancelled" => t \in requested'
    BY <1>4 DEF IdInv, CancelInv, Waiting
  <2> QED
    BY <2>2, <2>3, <2>4, <2>5, <2>6 DEF CancelInv
<1> QED
  BY <1>3, <1>5, <1>6 DEF IdInv

\* The rest of drainInbox and drainReadyTasks retire what is cancelled or expired.
LEMMA FilterId ==
    ASSUME TypeOK, IdInv, place' \in [Tasks -> Places],
           UNCHANGED <<identifier, nextSequence>>,
           NEW T \in SUBSET Tasks, \A t \in T : place[t] \in Waiting, Filter(T)
    PROVE  IdInv'
<1> DEFINE gone == {t \in T : identifier[t] \in cancelled \/ hasExpired(t)}
<1>1. /\ retireIdentifier(gone)
      /\ \A t \in Tasks : place'[t] = IF t \in T \ gone THEN "ready"
                                      ELSE IF t \notin T THEN place[t]
                                      ELSE IF identifier[t] \in cancelled THEN "cancelled" ELSE "expired"
  BY DEF Filter
<1>2. gone \in SUBSET Tasks /\ gone \subseteq T
  OBVIOUS
<1>3. ASSUME NEW t \in gone, identifier[t] \in cancelled PROVE t \in requested
  <2>1. HasId(t) /\ identifier[t] \in Requests /\ place[t] # "running"
    BY <1>2, <1>3 DEF HasId, Held, Requests, TypeOK, Ids, Waiting
  <2> QED
    BY <1>2, <2>1 DEF IdInv, CancelInv
<1> HIDE DEF gone
<1>4. \A t \in gone : Held(t) /\ place'[t] \in {"done", "cancelled", "expired"} /\ place'[t] # "done"
  BY <1>1, <1>2 DEF Held
<1>5. \A t \in gone : place'[t] = "cancelled" => t \in requested
  BY <1>1, <1>2, <1>3
<1>6. \A t \in Tasks \ gone : place'[t] = place[t] \/ (place[t] \in Waiting /\ place'[t] \in Waiting)
  BY <1>1, <1>2 DEF Waiting
<1> QED
  BY <1>1, <1>2, <1>4, <1>5, <1>6, Retired

\* Every step keeps the reservations and the requests exact.
LEMMA IdStep == TypeInv /\ TypeInv' /\ IdInv /\ [Next]_vars => IdInv'
<1> SUFFICES ASSUME TypeInv, TypeInv', IdInv, [Next]_vars PROVE IdInv'
  OBVIOUS
<1> USE DEF TypeInv
<1>0. TypeOK /\ place' \in [Tasks -> Places] /\ requested \subseteq Tasks
  BY DEF TypeOK
<1>1. ASSUME NEW th \in Threads, NEW delay, NEW until, NEW kind, Prepare(th, delay, until, kind)
      PROVE IdInv'
  <2>1. /\ nextSequence + 1 \in Tasks /\ place[nextSequence + 1] = "unused"
        /\ nextSequence' = nextSequence + 1
    BY <1>1, BoundsNat DEF Prepare, TypeOK, IdInv, FutureInv, Tasks
  <2>2. \A t \in Tasks : /\ place'[t] = IF t = nextSequence + 1 THEN "prepared" ELSE place[t]
                         /\ t # nextSequence + 1 => identifier'[t] = identifier[t]
    BY <1>1 DEF Prepare, Move, TypeOK
  <2>3. UNCHANGED <<activeIdentifiers, requested>> /\ Requests' = Requests
    BY <1>1 DEF Prepare, ids, Requests
  <2>4. \A t \in Tasks : /\ HasId(t)' <=> HasId(t)
                         /\ HasId(t) => identifier'[t] = identifier[t]
    BY <2>1, <2>2 DEF HasId, Held, Waiting
  <2>5. FutureInv'
    BY <2>1, <2>2 DEF IdInv, FutureInv, TypeOK, Tasks
  <2>6. Reserved'
    BY <2>3, <2>4 DEF IdInv, Reserved
  <2>7. CancelInv'
    BY <1>0, <2>1, <2>2, <2>3, <2>4 DEF IdInv, CancelInv, Waiting
  <2> QED
    BY <2>5, <2>6, <2>7 DEF IdInv
<1>2. ASSUME NEW th \in Threads, send(th) PROVE IdInv'
  <2>1. PICK t \in Tasks : /\ place[t] = "prepared" /\ identifier[t] = 0
                           /\ place' = Move({t}, "dropped") \/ place' = Move({t}, "sendInbox")
    BY <1>2 DEF send, In
  <2>2. UNCHANGED <<activeIdentifiers, requested, identifier, nextSequence>> /\ Requests' = Requests
    BY <1>2 DEF send, ids, Requests
  <2>3. \A u \in Tasks : u # t => place'[u] = place[u]
    BY <2>1 DEF Move
  <2>4. place'[t] \in {"dropped", "sendInbox"}
    BY <2>1 DEF Move
  <2>5. \A u \in Tasks : HasId(u)' <=> HasId(u)
    BY <2>1, <2>2, <2>3 DEF HasId, Held
  <2>6. t \notin requested
    BY <2>1 DEF IdInv, CancelInv, Waiting
  <2>7. FutureInv'
    BY <2>1, <2>2, <2>3 DEF IdInv, FutureInv
  <2>8. Reserved'
    BY <2>2, <2>5 DEF IdInv, Reserved
  <2>9. CancelInv'
    BY <1>0, <2>1, <2>2, <2>3, <2>4, <2>5, <2>6 DEF IdInv, CancelInv, HasId
  <2> QED
    BY <2>7, <2>8, <2>9 DEF IdInv
<1>3. ASSUME NEW th \in Threads, schedule(th) PROVE IdInv'
  <2>1. PICK t \in Tasks :
            /\ place[t] = "prepared"
            /\ \/ place' = Move({t}, "dropped") /\ UNCHANGED <<identifier, ids>>
               \/ /\ \E i \in Ids : /\ Fresh(i)
                                   /\ activeIdentifiers' = activeIdentifiers \cup {i}
                                   /\ identifier' = [identifier EXCEPT ![t] = i]
                  /\ place' = Move({t}, "scheduleInbox")
                  /\ UNCHANGED <<cancelInbox, cancelled, requested>>
    BY <1>3 DEF schedule, In
  <2>2. nextSequence' = nextSequence /\ requested' = requested /\ Requests' = Requests
    BY <1>3 DEF schedule, ids, Requests
  <2>3. \A u \in Tasks : u # t => place'[u] = place[u]
    BY <2>1 DEF Move
  <2>4. t \notin requested /\ ~HasId(t)
    BY <2>1 DEF IdInv, CancelInv, HasId, Held, Waiting
  <2>5. FutureInv'
    BY <2>1, <2>2, <2>3 DEF IdInv, FutureInv
  <2>6. CASE place' = Move({t}, "dropped") /\ UNCHANGED <<identifier, ids>>
    <3>1. place'[t] = "dropped" /\ UNCHANGED activeIdentifiers
      BY <2>6 DEF Move, ids
    <3>2. \A u \in Tasks : HasId(u)' <=> HasId(u)
      BY <2>3, <2>4, <2>6, <3>1 DEF HasId, Held, Waiting
    <3>3. Reserved'
      BY <2>6, <3>1, <3>2 DEF IdInv, Reserved
    <3>4. CancelInv'
      BY <1>0, <2>2, <2>3, <2>4, <2>6, <3>1, <3>2 DEF IdInv, CancelInv
    <3> QED
      BY <2>5, <3>3, <3>4 DEF IdInv
  <2>7. ASSUME NEW i \in Ids, Fresh(i),
               activeIdentifiers' = activeIdentifiers \cup {i},
               identifier' = [identifier EXCEPT ![t] = i],
               place' = Move({t}, "scheduleInbox")
        PROVE IdInv'
    <3>1. place'[t] = "scheduleInbox" /\ identifier'[t] = i /\ i # 0 /\ i \notin activeIdentifiers
      BY <2>7 DEF Move, TypeOK, Ids, Fresh
    <3>2. \A u \in Tasks : u # t => identifier'[u] = identifier[u] /\ (HasId(u)' <=> HasId(u))
      BY <2>3, <2>7 DEF TypeOK, HasId, Held
    <3>3. HasId(t)'
      BY <3>1 DEF HasId, Held, Waiting
    <3>4. Reserved'
      BY <2>4, <2>7, <3>1, <3>2, <3>3 DEF IdInv, Reserved
    <3>5. CancelInv'
      <4>1. \A j \in Requests' : j \in activeIdentifiers'
        BY <2>2, <2>7 DEF IdInv, CancelInv
      <4>2. \A u \in Tasks : HasId(u)' /\ identifier'[u] \in Requests' => u \in requested' \/ place'[u] = "running"
        BY <2>2, <2>3, <3>1, <3>2 DEF IdInv, CancelInv
      <4>3. \A u \in requested' : u \in Tasks /\ u # t /\ u \in requested
        BY <1>0, <2>2, <2>4
      <4>4. \A u \in requested' : place'[u] \in Waiting \cup {"cancelled", "expired"}
        BY <2>3, <4>3 DEF IdInv, CancelInv
      <4>5. \A u \in requested' : place'[u] \in Waiting => identifier'[u] \in Requests'
        BY <2>2, <2>3, <3>2, <4>3 DEF IdInv, CancelInv
      <4>6. \A u \in Tasks : place'[u] = "cancelled" => u \in requested'
        BY <2>2, <2>3, <3>1 DEF IdInv, CancelInv
      <4> QED
        BY <4>1, <4>2, <4>4, <4>5, <4>6 DEF CancelInv
    <3> QED
      BY <2>5, <3>4, <3>5 DEF IdInv
  <2> QED
    BY <2>1, <2>6, <2>7
<1>4. ASSUME NEW th \in Threads, NEW i \in Ids, cancel(th, i) PROVE IdInv'
  <2>1. /\ UNCHANGED <<place, identifier, nextSequence, activeIdentifiers>>
        /\ i \in activeIdentifiers
        /\ \A j : j \in Requests' <=> j \in Requests \/ j = i
        /\ \A t : t \in requested' <=> t \in requested \/ (t \in Tasks /\ identifier[t] = i /\ place[t] \in Waiting)
    BY <1>4 DEF cancel, task, Requests
  <2>2. \A t \in Tasks : HasId(t)' <=> HasId(t)
    BY <2>1 DEF HasId, Held
  <2>3. FutureInv' /\ Reserved'
    BY <2>1, <2>2 DEF IdInv, FutureInv, Reserved
  <2>4. CancelInv'
    BY <1>0, <2>1, <2>2 DEF IdInv, CancelInv, HasId, Held
  <2> QED
    BY <2>3, <2>4 DEF IdInv
<1>5. CASE UNCHANGED <<task, ids>>
  <2>1. UNCHANGED <<place, identifier, nextSequence, activeIdentifiers, requested>> /\ Requests' = Requests
    BY <1>5 DEF task, ids, Requests
  <2> QED
    BY <1>0, <2>1, WaitingMove
<1>6. CASE drainInbox
  <2>1. UNCHANGED <<identifier, nextSequence, activeIdentifiers, requested>> /\ Requests' = Requests
    BY <1>6 DEF drainInbox, Loop, Requests
  <2>2. \A t \in Tasks : place'[t] = place[t] \/ (place[t] \in Waiting /\ place'[t] \in Waiting)
    BY <1>6 DEF drainInbox, Waiting
  <2> QED
    BY <1>0, <2>1, <2>2, WaitingMove
<1>7. CASE FilterSent
  <2>1. Filter(In("swapped")) /\ UNCHANGED <<identifier, nextSequence>>
    BY <1>7 DEF FilterSent, Loop
  <2>2. In("swapped") \in SUBSET Tasks /\ \A t \in In("swapped") : place[t] \in Waiting
    BY DEF In, Waiting
  <2> QED
    BY <1>0, <2>1, <2>2, FilterId
<1>8. CASE drainReadyTasks
  <2> DEFINE due == {t \in In("heap") : fireAt[t] <= clock}
  <2>1. Filter(due) /\ UNCHANGED <<identifier, nextSequence>>
    BY <1>8 DEF drainReadyTasks, Loop
  <2>2. due \in SUBSET Tasks /\ \A t \in due : place[t] \in Waiting
    BY DEF In, Waiting
  <2> QED
    BY <1>0, <2>1, <2>2, FilterId
<1>9. CASE consumeCancellation
  <2>1. PICK t \in Tasks : First(t) /\ Cancelled(t) /\ place' = Move({t}, "cancelled") /\ retireIdentifier({t})
    BY <1>9 DEF consumeCancellation
  <2>2. UNCHANGED <<identifier, nextSequence>>
    BY <1>9 DEF consumeCancellation, Loop
  <2>3. place[t] = "ready" /\ identifier[t] \in Requests
    BY <2>1 DEF First, Cancelled, Requests
  <2>4. HasId(t)
    BY <2>3 DEF HasId, Held, Requests, TypeOK, Ids, Waiting
  <2>5. t \in requested
    BY <2>3, <2>4 DEF IdInv, CancelInv
  <2>6. place'[t] = "cancelled" /\ \A u \in Tasks \ {t} : place'[u] = place[u]
    BY <2>1 DEF Move
  <2> QED
    BY <1>0, <2>1, <2>2, <2>4, <2>5, <2>6, Retired DEF HasId
<1>10. CASE RunTask
  <2>1. PICK t \in Tasks : First(t) /\ ~Cancelled(t) /\ place' = Move({t}, "running")
    BY <1>10 DEF RunTask
  <2>2. UNCHANGED <<identifier, nextSequence, activeIdentifiers, requested>> /\ Requests' = Requests
    BY <1>10 DEF RunTask, Loop, ids, Requests
  <2>3. place[t] = "ready" /\ identifier[t] \notin Requests
    BY <2>1 DEF First, Cancelled, Requests
  <2>4. t \notin requested
    BY <2>3 DEF IdInv, CancelInv, Waiting
  <2>5. place'[t] = "running" /\ \A u \in Tasks \ {t} : place'[u] = place[u]
    BY <2>1 DEF Move
  <2>6. \A u \in Tasks : HasId(u)' <=> HasId(u)
    BY <2>2, <2>3, <2>5 DEF HasId, Held, Waiting
  <2>7. FutureInv' /\ Reserved'
    BY <2>2, <2>3, <2>5, <2>6 DEF IdInv, FutureInv, Reserved
  <2>8. CancelInv'
    BY <1>0, <2>2, <2>3, <2>4, <2>5, <2>6 DEF IdInv, CancelInv
  <2> QED
    BY <2>7, <2>8 DEF IdInv
<1>11. CASE TaskEnd
  <2>1. place' = Move(In("running"), "done") /\ retireIdentifier(In("running"))
    BY <1>11 DEF TaskEnd
  <2>2. UNCHANGED <<identifier, nextSequence>>
    BY <1>11 DEF TaskEnd, Loop
  <2>3. /\ In("running") \in SUBSET Tasks
        /\ \A t \in In("running") : Held(t) /\ place'[t] = "done" /\ t \notin requested
        /\ \A t \in Tasks \ In("running") : place'[t] = place[t]
    BY <2>1 DEF In, Move, Held, IdInv, CancelInv, Waiting
  <2> QED
    BY <1>0, <2>1, <2>2, <2>3, Retired
<1>12. CASE Defer
  <2>1. UNCHANGED <<identifier, nextSequence, activeIdentifiers, requested>> /\ Requests' = Requests
    BY <1>12 DEF Defer, Loop, ids, Requests
  <2>2. \A t \in Tasks : place'[t] = place[t] \/ (place[t] \in Waiting /\ place'[t] \in Waiting)
    BY <1>12 DEF Defer, Move, In, Waiting
  <2> QED
    BY <1>0, <2>1, <2>2, WaitingMove
<1>13. ASSUME NEW th \in Threads, shutdown(th) \/ Notify(th) PROVE UNCHANGED <<task, ids>>
  BY <1>13 DEF shutdown, Notify
<1>14. CASE runLoop \/ waitForWork \/ Timer \/ Tick \/ UNCHANGED vars
  BY <1>5, <1>14 DEF runLoop, waitForWork, Timer, Tick, vars
<1>15. CASE Next
  BY <1>15, <1>1, <1>2, <1>3, <1>4, <1>5, <1>6, <1>7, <1>8, <1>9, <1>10, <1>11, <1>12, <1>13, <1>14
  DEF Next, LoopStep, Publish
<1> QED
  BY <1>14, <1>15

\* A cancellation hits the task that held the identifier when cancel was called,
\* never one that was given the identifier later.
OnlyRequestedCancelled == In("cancelled") \subseteq requested

\* The invariant says what the runs check.
LEMMA IdInvImplies ==
    ASSUME TypeOK, IdInv PROVE IdsReserved /\ CancelledNeverRuns /\ OnlyRequestedCancelled
<1>1. IdsReserved
  BY DEF IdInv, Reserved, IdsReserved, IdsOf, Live, HasId, Held
<1>2. CancelledNeverRuns
  BY DEF IdInv, CancelInv, CancelledNeverRuns, Waiting
<1>3. OnlyRequestedCancelled
  BY DEF IdInv, CancelInv, OnlyRequestedCancelled, In
<1> QED
  BY <1>1, <1>2, <1>3

\* IdsReserved for any number of tasks, threads and identifiers: the reserved
\* identifiers are those of the tasks held, and no two tasks share one.
THEOREM IdsReservedTheorem == Spec => []IdsReserved
<1>1. TypeInv /\ IdInv => IdsReserved
  BY IdInvImplies DEF TypeInv
<1> QED
  BY TypeInit, TypeStep, IdInit, IdStep, <1>1, PTL DEF Spec

\* CancelledNeverRuns: a task whose cancellation was accepted before it was
\* committed to run is never run.
THEOREM CancelledNeverRunsTheorem == Spec => []CancelledNeverRuns
<1>1. TypeInv /\ IdInv => CancelledNeverRuns
  BY IdInvImplies DEF TypeInv
<1> QED
  BY TypeInit, TypeStep, IdInit, IdStep, <1>1, PTL DEF Spec

\* OnlyRequestedCancelled: no task is dropped by a cancellation meant for an
\* earlier holder of its identifier.
THEOREM OnlyRequestedCancelledTheorem == Spec => []OnlyRequestedCancelled
<1>1. TypeInv /\ IdInv => OnlyRequestedCancelled
  BY IdInvImplies DEF TypeInv
<1> QED
  BY TypeInit, TypeStep, IdInit, IdStep, <1>1, PTL DEF Spec

-----------------------------------------------------------------------------
(* The order of sends.                                                      *)

Sent(t) == place[t] # "unused" /\ identifier[t] = 0
Over == {"dropped", "running", "done", "cancelled", "expired"}

\* Which containers are in use at which point of the loop.
PhaseInv ==
    \A t \in Tasks :
        /\ place[t] = "swapped" => pc = "filter"
        /\ place[t] = "ready" => pc \in {"drainReady", "execute", "running", "defer"}
        /\ place[t] \in {"scheduleInbox", "heap"} => identifier[t] # 0

\* Of two sends of one thread the later one is never ahead of the earlier.
Ordered(t, u) ==
    /\ fireAt[t] <= fireAt[u]
    /\ place[t] # "prepared"
    /\ place[u] = "swapped" => place[t] \in Over \cup {"swapped"}
    /\ place[u] = "ready" => place[t] \in Over \cup {"ready"}
    /\ place[u] \in {"running", "done"} => place[t] \in Over

Pair(t, u) == t < u /\ owner[t] = owner[u] /\ Sent(t) /\ Sent(u)

OrderInv ==
    /\ PhaseInv
    /\ \A t \in Tasks : Sent(t) => fireAt[t] <= clock
    /\ \A t, u \in Tasks : Pair(t, u) => Ordered(t, u)

\* Nothing was sent initially.
LEMMA OrderInit == Init => OrderInv
  BY DEF Init, OrderInv, PhaseInv, Pair, Sent

\* Every step keeps the order.
LEMMA OrderStep == TypeInv /\ TypeInv' /\ IdInv /\ OrderInv /\ [Next]_vars => OrderInv'
<1> SUFFICES ASSUME TypeInv, TypeInv', IdInv, OrderInv, [Next]_vars PROVE OrderInv'
  OBVIOUS
<1>0. TypeOK /\ Tasks \subseteq Nat
  BY DEF TypeInv, Tasks
<1>1. ASSUME NEW th \in Threads, NEW delay \in Nat, NEW until, NEW kind, kind = 0 => delay = 0,
             Prepare(th, delay, until, kind)
      PROVE OrderInv'
  <2>1. /\ nextSequence + 1 \in Tasks /\ place[nextSequence + 1] = "unused"
        /\ UNCHANGED <<clock, pc>>
    BY <1>1, BoundsNat, <1>0 DEF Prepare, TypeOK, IdInv, FutureInv, Tasks
  <2>2. \A t \in Tasks : t # nextSequence + 1 =>
            /\ place'[t] = place[t] /\ identifier'[t] = identifier[t]
            /\ fireAt'[t] = fireAt[t] /\ owner'[t] = owner[t]
            /\ Sent(t)' <=> Sent(t)
    BY <1>1, <1>0 DEF Prepare, Move, TypeOK, Sent
  <2>3. /\ place'[nextSequence + 1] = "prepared" /\ owner'[nextSequence + 1] = th
        /\ identifier'[nextSequence + 1] = kind
        /\ fireAt'[nextSequence + 1] = clock + delay
    BY <1>1, <1>0, <2>1 DEF Prepare, Move, TypeOK
  <2>4. PhaseInv'
    BY <2>1, <2>2, <2>3 DEF OrderInv, PhaseInv
  <2>5. \A t \in Tasks : Sent(t)' => fireAt'[t] <= clock'
    BY <1>0, <1>1, <2>1, <2>2, <2>3 DEF OrderInv, Sent, TypeOK
  <2>6. ASSUME NEW t \in Tasks, NEW u \in Tasks, Pair(t, u)' PROVE Ordered(t, u)'
    <3>1. t # nextSequence + 1
      <4>1. u <= nextSequence + 1
        BY <1>0, <2>2, <2>6 DEF Pair, Sent, IdInv, FutureInv, TypeOK
      <4> QED
        BY <1>0, <2>6, <4>1 DEF Pair, TypeOK
    <3>2. CASE u # nextSequence + 1
      BY <2>2, <2>6, <3>1, <3>2 DEF OrderInv, Pair, Ordered
    <3>3. CASE u = nextSequence + 1
      <4>1. Sent(t) /\ owner[t] = th /\ kind = 0
        BY <2>2, <2>3, <2>6, <3>1, <3>3 DEF Pair, Sent
      <4>2. fireAt[t] <= clock
        BY <4>1 DEF OrderInv
      <4>3. place[t] # "prepared"
        BY <1>1, <4>1 DEF Prepare, Busy, In
      <4>4. fireAt'[u] = clock
        BY <1>0, <1>1, <2>3, <3>3, <4>1 DEF TypeOK
      <4> QED
        BY <2>2, <2>3, <3>1, <3>3, <4>2, <4>3, <4>4 DEF Ordered
    <3> QED
      BY <3>2, <3>3
  <2> QED
    BY <2>4, <2>5, <2>6 DEF OrderInv
\* From here on no send is added and what is known of the sends stays.
<1>2. ASSUME UNCHANGED <<owner, fireAt>>, clock <= clock', PhaseInv',
             \A t \in Tasks : Sent(t)' => Sent(t),
             \A t, u \in Tasks : Pair(t, u) /\ Ordered(t, u) /\ Sent(t)' /\ Sent(u)' => Ordered(t, u)'
      PROVE OrderInv'
  <2>1. \A t \in Tasks : Sent(t)' => fireAt'[t] <= clock'
    BY <1>0, <1>2 DEF OrderInv, TypeInv, TypeOK
  <2>2. \A t, u \in Tasks : Pair(t, u)' => Pair(t, u)
    BY <1>2 DEF Pair
  <2>3. \A t, u \in Tasks : Pair(t, u)' => Ordered(t, u)'
    BY <1>2, <2>2 DEF OrderInv, Pair
  <2> QED
    BY <1>2, <2>1, <2>3 DEF OrderInv
<1>3. ASSUME NEW th \in Threads, send(th) PROVE OrderInv'
  <2>1. PICK v \in Tasks : /\ place[v] = "prepared" /\ identifier[v] = 0
                           /\ place' = Move({v}, "dropped") \/ place' = Move({v}, "sendInbox")
    BY <1>3 DEF send, In
  <2>2. UNCHANGED <<owner, fireAt, identifier, pc, clock>>
    BY <1>3 DEF send
  <2>3. place'[v] \in {"dropped", "sendInbox"} /\ \A t \in Tasks : t # v => place'[t] = place[t]
    BY <2>1 DEF Move
  <2>4. PhaseInv'
    BY <2>1, <2>2, <2>3 DEF OrderInv, PhaseInv
  <2>5. \A t \in Tasks : Sent(t)' => Sent(t)
    BY <2>1, <2>2, <2>3 DEF Sent
  <2>6. \A t, u \in Tasks : Pair(t, u) /\ Ordered(t, u) => Ordered(t, u)'
    BY <2>1, <2>2, <2>3 DEF Ordered, Over
  <2> QED
    BY <1>0, <1>2, <2>2, <2>4, <2>5, <2>6 DEF TypeOK
<1>4. ASSUME NEW th \in Threads, schedule(th) PROVE OrderInv'
  <2>1. PICK v \in Tasks :
            /\ place[v] = "prepared" /\ identifier[v] = Unassigned
            /\ \/ place' = Move({v}, "dropped") /\ UNCHANGED identifier
               \/ /\ \E i \in Ids : identifier' = [identifier EXCEPT ![v] = i]
                  /\ place' = Move({v}, "scheduleInbox")
    BY <1>4 DEF schedule, In
  <2>2. UNCHANGED <<owner, fireAt, pc, clock>>
    BY <1>4 DEF schedule
  <2>3. /\ place'[v] \in {"dropped", "scheduleInbox"} /\ identifier'[v] # 0
        /\ \A t \in Tasks : t # v => place'[t] = place[t] /\ identifier'[t] = identifier[t]
    BY <1>0, <2>1, BoundsNat DEF Move, TypeOK, Ids, Unassigned
  <2>4. PhaseInv'
    BY <2>2, <2>3 DEF OrderInv, PhaseInv
  <2>5. \A t \in Tasks : Sent(t)' => Sent(t) /\ t # v
    BY <2>1, <2>3 DEF Sent
  <2>6. \A t, u \in Tasks : Pair(t, u) /\ Ordered(t, u) /\ Sent(t)' /\ Sent(u)' => Ordered(t, u)'
    BY <2>2, <2>3, <2>5 DEF Ordered
  <2> QED
    BY <1>0, <1>2, <2>2, <2>4, <2>5, <2>6 DEF TypeOK
<1>5. ASSUME UNCHANGED task, clock <= clock', PhaseInv' PROVE OrderInv'
  <2>1. UNCHANGED <<place, owner, fireAt, identifier>>
    BY <1>5 DEF task
  <2>2. /\ \A t \in Tasks : Sent(t)' => Sent(t)
        /\ \A t, u \in Tasks : Ordered(t, u) => Ordered(t, u)'
    BY <2>1 DEF Sent, Ordered
  <2> QED
    BY <1>2, <1>5, <2>1, <2>2
<1>6. ASSUME NEW th \in Threads, (\E i \in Ids : cancel(th, i)) \/ shutdown(th) \/ Notify(th) PROVE OrderInv'
  <2>1. UNCHANGED <<task, clock>> /\ (pc' = pc \/ (pc = "asleep" /\ pc' = "waiting"))
    BY <1>6 DEF cancel, shutdown, Notify
  <2>2. PhaseInv'
    BY <2>1 DEF OrderInv, PhaseInv, task
  <2> QED
    BY <1>0, <1>5, <2>1, <2>2 DEF TypeOK
<1>7. CASE runLoop \/ waitForWork \/ Timer \/ Tick \/ UNCHANGED vars
  <2>1. UNCHANGED task /\ clock <= clock'
    BY <1>0, <1>7 DEF runLoop, waitForWork, Timer, Tick, vars, TypeOK
  <2>2. pc' = pc \/ pc \in {"top", "waiting", "blocking", "asleep"}
    BY <1>7 DEF runLoop, waitForWork, Timer, Tick, vars
  <2>3. PhaseInv'
    BY <2>1, <2>2 DEF OrderInv, PhaseInv, task
  <2> QED
    BY <1>5, <2>1, <2>3
\* Steps of the loop that move tasks.
<1>8. ASSUME Loop, PhaseInv', place' \in [Tasks -> Places],
             \A t \in Tasks : place[t] = "unused" <=> place'[t] = "unused",
             \A t, u \in Tasks : Pair(t, u) /\ Ordered(t, u) => Ordered(t, u)'
      PROVE OrderInv'
  <2>1. UNCHANGED <<owner, fireAt, clock, identifier>>
    BY <1>8 DEF Loop
  <2>2. \A t \in Tasks : Sent(t)' => Sent(t)
    BY <1>8, <2>1 DEF Sent
  <2> QED
    BY <1>0, <1>2, <1>8, <2>1, <2>2 DEF TypeOK
<1>9. place' \in [Tasks -> Places]
  BY DEF TypeInv, TypeOK
<1>10. CASE drainInbox
  <2>1. pc = "drainInbox" /\ pc' = "filter" /\ Loop /\ UNCHANGED <<identifier, fireAt>>
    BY <1>10 DEF drainInbox, Loop
  <2>2. \A t \in Tasks : place'[t] = IF place[t] = "sendInbox" THEN "swapped"
                                     ELSE IF place[t] = "scheduleInbox" THEN "heap" ELSE place[t]
    BY <1>10 DEF drainInbox
  <2>3. PhaseInv'
    BY <2>1, <2>2 DEF OrderInv, PhaseInv
  <2>4. ASSUME NEW t \in Tasks, NEW u \in Tasks, Pair(t, u), Ordered(t, u) PROVE Ordered(t, u)'
    <3>1. place[t] \in Over \cup {"sendInbox"}
      BY <1>0, <2>1, <2>4 DEF Ordered, Pair, Sent, OrderInv, PhaseInv, TypeOK, Places, Over
    <3>2. place'[t] \in Over \cup {"swapped"} /\ (place[t] \in Over => place'[t] = place[t])
      BY <2>2, <3>1 DEF Over
    <3>3. place[u] # "ready"
      BY <2>1 DEF OrderInv, PhaseInv
    <3> QED
      BY <2>1, <2>2, <2>4, <3>1, <3>2, <3>3 DEF Ordered, Over
  <2>5. \A t \in Tasks : place[t] = "unused" <=> place'[t] = "unused"
    BY <2>2
  <2> QED
    BY <1>8, <1>9, <2>1, <2>3, <2>4, <2>5
<1>11. CASE FilterSent
  <2>1. pc = "filter" /\ pc' = "drainReady" /\ Loop /\ UNCHANGED <<identifier, fireAt>>
    BY <1>11 DEF FilterSent, Loop
  <2>2. \A t \in Tasks : IF place[t] = "swapped" THEN place'[t] \in {"ready", "cancelled", "expired"}
                         ELSE place'[t] = place[t]
    BY <1>11 DEF FilterSent, Filter, In
  <2>3. PhaseInv'
    BY <2>1, <2>2 DEF OrderInv, PhaseInv
  <2>4. \A t, u \in Tasks : Pair(t, u) /\ Ordered(t, u) => Ordered(t, u)'
    BY <2>1, <2>2 DEF Ordered, Over, OrderInv, PhaseInv
  <2>5. \A t \in Tasks : place[t] = "unused" <=> place'[t] = "unused"
    BY <2>2
  <2> QED
    BY <1>8, <1>9, <2>1, <2>3, <2>4, <2>5
<1>12. CASE drainReadyTasks
  <2>1. pc = "drainReady" /\ pc' = "execute" /\ Loop /\ UNCHANGED <<identifier, fireAt>>
    BY <1>12 DEF drainReadyTasks, Loop
  <2>2. \A t \in Tasks : place'[t] = place[t] \/ (place[t] = "heap" /\ place'[t] \in {"ready", "cancelled", "expired"})
    BY <1>12 DEF drainReadyTasks, Filter, In
  <2>3. PhaseInv'
    BY <2>1, <2>2 DEF OrderInv, PhaseInv
  <2>4. \A t, u \in Tasks : Pair(t, u) /\ Ordered(t, u) => Ordered(t, u)'
    BY <2>1, <2>2 DEF Ordered, Pair, Sent, OrderInv, PhaseInv
  <2>5. \A t \in Tasks : place[t] = "unused" <=> place'[t] = "unused"
    BY <2>2
  <2> QED
    BY <1>8, <1>9, <2>1, <2>3, <2>4, <2>5
<1>13. CASE consumeCancellation \/ TaskEnd
  <2>1. /\ Loop /\ UNCHANGED <<identifier, fireAt>>
        /\ pc \in {"execute", "running"} /\ pc' \in {"execute", "defer"}
    BY <1>13 DEF consumeCancellation, TaskEnd, Loop
  <2>2. \A t \in Tasks : \/ place'[t] = place[t]
                         \/ place[t] = "ready" /\ place'[t] = "cancelled"
                         \/ place[t] = "running" /\ place'[t] = "done"
    BY <1>13 DEF consumeCancellation, TaskEnd, First, Move, In
  <2>3. PhaseInv'
    BY <2>1, <2>2 DEF OrderInv, PhaseInv
  <2>4. \A t, u \in Tasks : Pair(t, u) /\ Ordered(t, u) => Ordered(t, u)'
    BY <2>1, <2>2 DEF Ordered, Over
  <2>5. \A t \in Tasks : place[t] = "unused" <=> place'[t] = "unused"
    BY <2>2
  <2> QED
    BY <1>8, <1>9, <2>1, <2>3, <2>4, <2>5
<1>14. CASE RunTask
  <2>1. pc = "execute" /\ pc' = "running" /\ Loop /\ UNCHANGED <<identifier, fireAt>>
    BY <1>14 DEF RunTask, Loop
  <2>2. PICK v \in Tasks : First(v) /\ place' = Move({v}, "running")
    BY <1>14 DEF RunTask
  <2>3. /\ place[v] = "ready" /\ place'[v] = "running"
        /\ \A t \in Tasks : t # v => place'[t] = place[t]
        /\ \A t \in Tasks : place[t] = "ready" => Before(v, t)
    BY <2>2 DEF First, Move, In
  <2>4. PhaseInv'
    BY <2>1, <2>3 DEF OrderInv, PhaseInv
  <2>5. ASSUME NEW t \in Tasks, NEW u \in Tasks, Pair(t, u), Ordered(t, u) PROVE Ordered(t, u)'
    <3>1. u = v => place[t] # "ready"
      BY <1>0, <2>3, <2>5 DEF Pair, Ordered, Before, TypeOK
    <3> QED
      BY <2>1, <2>3, <2>5, <3>1 DEF Ordered, Over, Pair, OrderInv, PhaseInv
  <2>6. \A t \in Tasks : place[t] = "unused" <=> place'[t] = "unused"
    BY <2>3
  <2> QED
    BY <1>8, <1>9, <2>1, <2>4, <2>5, <2>6
<1>15. CASE Defer
  <2>1. pc \in {"execute", "defer"} /\ pc' = "waiting" /\ Loop /\ UNCHANGED <<identifier, fireAt>>
    BY <1>15 DEF Defer, Loop
  <2>2. \A t \in Tasks : place'[t] = IF place[t] = "ready" THEN "sendInbox" ELSE place[t]
    BY <1>15 DEF Defer, Move, In
  <2>3. PhaseInv'
    BY <2>1, <2>2 DEF OrderInv, PhaseInv
  <2>4. \A t, u \in Tasks : Pair(t, u) /\ Ordered(t, u) => Ordered(t, u)'
    BY <2>1, <2>2 DEF Ordered, Over, OrderInv, PhaseInv
  <2>5. \A t \in Tasks : place[t] = "unused" <=> place'[t] = "unused"
    BY <2>2
  <2> QED
    BY <1>8, <1>9, <2>1, <2>3, <2>4, <2>5
<1>16. CASE Next
  <2>1. Delays \subseteq Nat /\ Unassigned # 0
    BY BoundsNat DEF Unassigned
  <2> QED
    BY <1>16, <2>1, <1>1, <1>3, <1>4, <1>6, <1>7, <1>10, <1>11, <1>12, <1>13, <1>14, <1>15
    DEF Next, LoopStep, Publish
<1> QED
  BY <1>7, <1>16

\* SendsRunInOrder: across batches, deferrals and the time budget, a thread's later
\* send does not run while an earlier one is still to run.
THEOREM SendsRunInOrderTheorem == Spec => []SendsRunInOrder
<1>1. TypeInv /\ OrderInv => SendsRunInOrder
  <2> SUFFICES ASSUME TypeInv, OrderInv, NEW t \in Tasks, NEW u \in Tasks,
                      t < u, owner[t] = owner[u], identifier[t] = 0, identifier[u] = 0,
                      place[u] \in {"running", "done"}
               PROVE  place[t] \notin {"prepared"} \cup Waiting
    BY DEF SendsRunInOrder
  <2>1. CASE place[t] = "unused"
    BY <2>1 DEF Waiting
  <2>2. CASE place[t] # "unused"
    BY <2>2 DEF OrderInv, Pair, Sent, Ordered, Over, Waiting
  <2> QED
    BY <2>1, <2>2
<1> QED
  BY TypeInit, TypeStep, IdInit, IdStep, OrderInit, OrderStep, <1>1, PTL DEF Spec

-----------------------------------------------------------------------------
(* The promise to the callers.                                              *)

Outside == {"top", "drainInbox", "waiting", "blocking", "asleep", "stopped"}
InCycle == {"execute", "running", "defer"}

\* Only the loop's own point tells which task runs; what left the heap or the send
\* inbox is due, and what stays in the heap during a cycle is later than its batch.
DueInv ==
    /\ \A t \in Tasks : place[t] = "running" => pc = "running"
    /\ \A t, u \in Tasks : place[t] = "running" /\ place[u] = "running" => t = u
    /\ \A t \in Tasks : place[t] \in {"sendInbox", "swapped", "ready", "running"} => fireAt[t] <= clock
    /\ pc \in InCycle => \A t, u \in Tasks : place[t] = "ready" /\ place[u] = "heap" => fireAt[t] < fireAt[u]

\* What was deferred is in the inbox until the next cycle takes it.
DeferInv == \A t \in deferred : place[t] = "sendInbox" /\ pc \in Outside

\* A task that can be cancelled has no deadline.
DeadlineInv == \A t \in Tasks : place[t] # "unused" /\ identifier[t] # 0 => deadline[t] = distantFuture

ServiceInv == DueInv /\ DeferInv /\ DeadlineInv

\* Nothing is due, deferred or late initially.
LEMMA ServiceInit == Init => ServiceInv
  BY DEF Init, ServiceInv, DueInv, DeferInv, DeadlineInv

\* Tasks stay where they are while the loop goes from one point to another.
LEMMA ServiceSame ==
    ASSUME TypeOK, ServiceInv, UNCHANGED <<place, fireAt, deadline, identifier, deferred>>,
           clock' \in Nat, clock <= clock',
           pc' = pc \/ (pc \in {"top", "waiting", "blocking", "asleep"} /\
                        pc' \in {"drainInbox", "top", "waiting", "blocking", "asleep", "stopped"})
    PROVE  ServiceInv'
<1>1. DueInv'
  BY DEF ServiceInv, DueInv, TypeOK, InCycle
<1>2. DeferInv'
  BY DEF ServiceInv, DeferInv, Outside
<1>3. DeadlineInv'
  BY DEF ServiceInv, DeadlineInv
<1> QED
  BY <1>1, <1>2, <1>3 DEF ServiceInv

\* Every step keeps what is due, deferred and late.
LEMMA ServiceStep == TypeInv /\ TypeInv' /\ IdInv /\ OrderInv /\ ServiceInv /\ [Next]_vars => ServiceInv'
<1> SUFFICES ASSUME TypeOK, TypeOK', IdInv, OrderInv, ServiceInv, [Next]_vars PROVE ServiceInv'
  BY DEF TypeInv
<1>0. deferred \subseteq Tasks
  BY DEF TypeOK
<1>1. ASSUME NEW th \in Threads, NEW delay \in Nat, NEW until, NEW kind, kind # 0 => until = distantFuture,
             Prepare(th, delay, until, kind)
      PROVE ServiceInv'
  <2>1. /\ nextSequence + 1 \in Tasks /\ place[nextSequence + 1] = "unused"
        /\ UNCHANGED <<clock, pc, deferred>>
    BY <1>1, BoundsNat DEF Prepare, TypeOK, IdInv, FutureInv, Tasks, ids
  <2>2. \A t \in Tasks : t # nextSequence + 1 =>
            /\ place'[t] = place[t] /\ identifier'[t] = identifier[t]
            /\ fireAt'[t] = fireAt[t] /\ deadline'[t] = deadline[t]
    BY <1>1 DEF Prepare, Move, TypeOK
  <2>3. /\ place'[nextSequence + 1] = "prepared"
        /\ identifier'[nextSequence + 1] = kind /\ deadline'[nextSequence + 1] = until
    BY <1>1, <2>1 DEF Prepare, Move, TypeOK
  <2>4. DueInv'
    BY <2>1, <2>2, <2>3 DEF ServiceInv, DueInv
  <2>5. DeferInv'
    BY <1>0, <2>1, <2>2 DEF ServiceInv, DeferInv
  <2>6. DeadlineInv'
    BY <1>1, <2>2, <2>3 DEF ServiceInv, DeadlineInv
  <2> QED
    BY <2>4, <2>5, <2>6 DEF ServiceInv
<1>2. ASSUME NEW th \in Threads, send(th) \/ schedule(th) PROVE ServiceInv'
  <2>1. PICK v \in Tasks : /\ place[v] = "prepared"
                           /\ place'[v] \in {"dropped", "sendInbox", "scheduleInbox"}
                           /\ place'[v] = "sendInbox" => identifier[v] = 0
                           /\ \A t \in Tasks : t # v => place'[t] = place[t] /\ identifier'[t] = identifier[t]
                           /\ identifier'[v] # 0 => identifier[v] # 0
    <3>1. CASE send(th)
      BY <3>1 DEF send, In, Move
    <3>2. CASE schedule(th)
      <4>1. Unassigned # 0
        BY BoundsNat DEF Unassigned
      <4> QED
        BY <3>2, <4>1 DEF schedule, In, Move, TypeOK
    <3> QED
      BY <1>2, <3>1, <3>2
  <2>2. UNCHANGED <<fireAt, deadline, pc, clock, deferred>>
    BY <1>2 DEF send, schedule, ids
  <2>3. identifier[v] = 0 => fireAt[v] <= clock
    BY <2>1 DEF OrderInv, Sent
  <2>4. DueInv'
    BY <2>1, <2>2, <2>3 DEF ServiceInv, DueInv
  <2>5. DeferInv'
    BY <1>0, <2>1, <2>2 DEF ServiceInv, DeferInv
  <2>6. DeadlineInv'
    BY <2>1, <2>2 DEF ServiceInv, DeadlineInv
  <2> QED
    BY <2>4, <2>5, <2>6 DEF ServiceInv
<1>3. ASSUME NEW th \in Threads, (\E i \in Ids : cancel(th, i)) \/ shutdown(th) \/ Notify(th) PROVE ServiceInv'
  BY <1>3, ServiceSame DEF cancel, shutdown, Notify, task, ids, TypeOK
<1>4. CASE runLoop \/ waitForWork \/ Timer \/ Tick \/ UNCHANGED vars
  BY <1>4, ServiceSame DEF runLoop, waitForWork, Timer, Tick, vars, task, ids, TypeOK
\* Steps of the loop.
<1>5. ASSUME Loop, \A t \in Tasks : place'[t] # "unused" => place[t] # "unused" PROVE DeadlineInv'
  BY <1>5 DEF Loop, ServiceInv, DeadlineInv
<1>6. CASE drainInbox
  <2>1. /\ pc = "drainInbox" /\ pc' = "filter" /\ deferred' = {} /\ UNCHANGED <<fireAt, clock>>
        /\ \A t \in Tasks : place'[t] = IF place[t] = "sendInbox" THEN "swapped"
                                        ELSE IF place[t] = "scheduleInbox" THEN "heap" ELSE place[t]
    BY <1>6 DEF drainInbox, Loop
  <2>2. DueInv'
    BY <2>1 DEF ServiceInv, DueInv, InCycle
  <2>3. DeadlineInv'
    BY <1>5, <1>6, <2>1 DEF drainInbox
  <2> QED
    BY <2>1, <2>2, <2>3 DEF ServiceInv, DeferInv
<1>7. deferred # {} => pc \in Outside
  BY DEF ServiceInv, DeferInv
<1>8. CASE FilterSent
  <2>1. /\ pc = "filter" /\ pc' = "drainReady" /\ deferred' = deferred /\ UNCHANGED <<fireAt, clock>>
        /\ \A t \in Tasks : IF place[t] = "swapped" THEN place'[t] \in {"ready", "cancelled", "expired"}
                            ELSE place'[t] = place[t]
    BY <1>8 DEF FilterSent, Filter, retireIdentifier, Loop, In
  <2>2. DueInv'
    BY <2>1 DEF ServiceInv, DueInv, InCycle
  <2>3. DeadlineInv'
    BY <1>5, <1>8, <2>1 DEF FilterSent
  <2> QED
    BY <1>7, <2>1, <2>2, <2>3 DEF ServiceInv, DeferInv, Outside
<1>9. CASE drainReadyTasks
  <2>1. /\ pc = "drainReady" /\ pc' = "execute" /\ deferred' = deferred /\ UNCHANGED <<fireAt, clock>>
        /\ \A t \in Tasks : IF place[t] = "heap" /\ fireAt[t] <= clock
                            THEN place'[t] \in {"ready", "cancelled", "expired"}
                            ELSE place'[t] = place[t]
    BY <1>9 DEF drainReadyTasks, Filter, retireIdentifier, Loop, In
  <2>2. \A t, u \in Tasks : place'[t] = "ready" /\ place'[u] = "heap" => fireAt[t] < fireAt[u]
    <3>1. \A t \in Tasks : place'[t] = "ready" => fireAt[t] <= clock
      BY <2>1 DEF ServiceInv, DueInv
    <3>2. \A u \in Tasks : place'[u] = "heap" => ~(fireAt[u] <= clock)
      BY <2>1
    <3> QED
      BY <3>1, <3>2 DEF TypeOK
  <2>3. DueInv'
    BY <2>1, <2>2 DEF ServiceInv, DueInv
  <2>4. DeadlineInv'
    BY <1>5, <1>9, <2>1 DEF drainReadyTasks
  <2> QED
    BY <1>7, <2>1, <2>3, <2>4 DEF ServiceInv, DeferInv, Outside
<1>10. CASE consumeCancellation \/ RunTask \/ TaskEnd
  <2>1. /\ pc \in {"execute", "running"} /\ deferred' = deferred /\ UNCHANGED <<fireAt, clock>>
        /\ pc' \in InCycle /\ Loop
    BY <1>10 DEF consumeCancellation, RunTask, TaskEnd, retireIdentifier, ids, Loop, InCycle
  <2>2. PICK v \in Tasks \cup {0} :
            \A t \in Tasks :
               /\ t # v => place'[t] = place[t] \/ (place[t] = "running" /\ place'[t] = "done")
               /\ t = v => /\ place[v] = "ready" /\ place'[v] \in {"running", "cancelled"}
                           /\ place'[v] = "running" => pc = "execute" /\ pc' = "running"
    <3>1. CASE consumeCancellation
      BY <3>1 DEF consumeCancellation, First, Move
    <3>2. CASE RunTask
      BY <3>2 DEF RunTask, First, Move
    <3>3. CASE TaskEnd
      <4>1. 0 \notin Tasks
        BY DEF Tasks
      <4> QED
        BY <3>3, <4>1 DEF TaskEnd, Move, In
    <3> QED
      BY <1>10, <3>1, <3>2, <3>3
  <2>3. \A t \in Tasks : place'[t] = "running" => pc' = "running" /\ (place[t] = "running" \/ t = v)
    <3>1. CASE consumeCancellation
      BY <3>1, <2>2 DEF consumeCancellation, ServiceInv, DueInv, First, Move
    <3>2. CASE RunTask
      BY <3>2, <2>2 DEF RunTask
    <3>3. CASE TaskEnd
      BY <3>3 DEF TaskEnd, Move, In
    <3> QED
      BY <1>10, <3>1, <3>2, <3>3
  <2>4. \A t, u \in Tasks : place'[t] = "running" /\ place'[u] = "running" => t = u
    BY <2>2, <2>3 DEF ServiceInv, DueInv
  <2>5. DueInv'
    BY <2>1, <2>2, <2>3, <2>4 DEF ServiceInv, DueInv, InCycle
  <2>6. DeadlineInv'
    BY <1>5, <2>1, <2>2
  <2> QED
    BY <1>7, <2>1, <2>5, <2>6 DEF ServiceInv, DeferInv, Outside
<1>11. CASE Defer
  <2>1. /\ pc \in {"execute", "defer"} /\ pc' = "waiting" /\ deferred' = In("ready") /\ UNCHANGED <<fireAt, clock>>
        /\ \A t \in Tasks : place'[t] = IF place[t] = "ready" THEN "sendInbox" ELSE place[t]
    BY <1>11 DEF Defer, Loop, Move, In
  <2>2. DueInv'
    BY <2>1 DEF ServiceInv, DueInv, InCycle
  <2>3. DeferInv'
    BY <2>1 DEF DeferInv, In, Outside
  <2>4. DeadlineInv'
    BY <1>5, <1>11, <2>1 DEF Defer
  <2> QED
    BY <2>2, <2>3, <2>4 DEF ServiceInv
<1>12. CASE Next
  <2>1. Delays \subseteq Nat /\ 0 \in Nat
    BY BoundsNat
  <2> QED
    BY <1>12, <2>1, <1>1, <1>2, <1>3, <1>4, <1>6, <1>8, <1>9, <1>10, <1>11 DEF Next, LoopStep, Publish
<1> QED
  BY <1>4, <1>12

-----------------------------------------------------------------------------
(* The steps of TaskService, in terms of the variables here.                *)

service == <<clock, running, [t \in Tasks |-> Phase(t)], Service!request>>
Serves == Service!Next \/ UNCHANGED service

SameRequests ==
    /\ UNCHANGED <<owner, fireAt, deadline>>
    /\ \A t \in Tasks : identifier'[t] = 0 <=> identifier[t] = 0
SamePhases == \A t \in Tasks : Phase(t)' = Phase(t)
Only(v) == \A t \in Tasks : t # v => Phase(t)' = Phase(t)

\* The attributes of a task stay.
LEMMA RequestsStay == SameRequests => UNCHANGED Service!request
<1> SUFFICES ASSUME SameRequests PROVE UNCHANGED Service!request
  OBVIOUS
<1>1. [t \in Tasks |-> identifier[t] # 0]' = [t \in Tasks |-> identifier[t] # 0]
  BY DEF SameRequests
<1> QED
  BY <1>1 DEF SameRequests, Service!request

\* A step that no caller sees.
LEMMA StepUnseen ==
    ASSUME SameRequests, SamePhases, UNCHANGED <<clock, running>>
    PROVE  Serves
<1>1. [t \in Tasks |-> Phase(t)]' = [t \in Tasks |-> Phase(t)]
  BY DEF SamePhases
<1> QED
  BY <1>1, RequestsStay DEF Serves, service

\* One task changes its phase.
LEMMA StepBecomes ==
    ASSUME NEW v \in Tasks, NEW p, Phase(v)' = p, Only(v)
    PROVE  Service!Becomes(v, p)
  BY DEF Only, Service!Becomes

\* A call is answered.
LEMMA StepAnswer ==
    ASSUME NEW v \in Tasks, Phase(v) = "prepared", Phase(v)' \in {"accepted", "dropped"}, Only(v),
           SameRequests, UNCHANGED <<clock, running>>
    PROVE  Serves
<1>1. Service!Becomes(v, "accepted") \/ Service!Becomes(v, "dropped")
  BY StepBecomes
<1>2. Service!Answer(v)
  BY <1>1, RequestsStay DEF Service!Answer
<1> QED
  BY <1>2 DEF Serves, Service!Next

\* A task that waits is withdrawn.
LEMMA StepWithdraw ==
    ASSUME NEW v \in Tasks, running, identifier[v] # 0, Phase(v) \in {"accepted", "taken"}, Phase(v)' = "withdrawn",
           Only(v), SameRequests, UNCHANGED <<clock, running>>
    PROVE  Serves
<1>1. Service!Becomes(v, "withdrawn")
  BY StepBecomes
<1>2. Service!Withdraw(v)
  BY <1>1, RequestsStay DEF Service!Withdraw
<1> QED
  BY <1>2 DEF Serves, Service!Next

\* The inboxes are taken over.
LEMMA StepTakeOver ==
    ASSUME \A t \in Tasks : Phase(t) # "running",
           \A t \in Tasks : Phase(t)' = IF Phase(t) = "accepted" THEN "taken" ELSE Phase(t),
           SameRequests, UNCHANGED <<clock, running>>
    PROVE  Serves
<1>1. Service!TakeOver
  BY RequestsStay DEF Service!TakeOver, Service!Idle
<1> QED
  BY <1>1 DEF Serves, Service!Next

\* Tasks are found withdrawn or late.
LEMMA StepLapse ==
    ASSUME \A t \in Tasks :
               \/ Phase(t)' = Phase(t)
               \/ Phase(t) = "withdrawn" /\ Phase(t)' = "cancelled"
               \/ Phase(t) = "taken" /\ identifier[t] = 0 /\ deadline[t] <= clock /\ Phase(t)' = "expired",
           SameRequests, UNCHANGED <<clock, running>>
    PROVE  Serves
<1>1. \A t \in Tasks : Service!Lapses(t)
  BY DEF Service!Lapses
<1>2. Service!Lapse
  BY <1>1, RequestsStay DEF Service!Lapse
<1> QED
  BY <1>2 DEF Serves, Service!Next

\* The first task that was taken over runs.
LEMMA StepRun ==
    ASSUME NEW v \in Tasks, Phase(v) = "taken", fireAt[v] <= clock, Phase(v)' = "running", Only(v),
           \A t \in Tasks : Phase(t) # "running",
           \A t \in Tasks : Phase(t) = "taken" => Before(v, t),
           SameRequests, UNCHANGED <<clock, running>>
    PROVE  Serves
<1>1. Service!Becomes(v, "running")
  BY StepBecomes
<1>2. Service!Run(v)
  BY <1>1, RequestsStay DEF Service!Run, Service!Idle, Service!Precedes, Before
<1> QED
  BY <1>2 DEF Serves, Service!Next

\* The task that runs is done.
LEMMA StepFinish ==
    ASSUME NEW v \in Tasks, Phase(v) = "running", Phase(v)' = "done", Only(v),
           SameRequests, UNCHANGED <<clock, running>>
    PROVE  Serves
<1>1. Service!Becomes(v, "done")
  BY StepBecomes
<1>2. Service!Finish(v)
  BY <1>1, RequestsStay DEF Service!Finish
<1> QED
  BY <1>2 DEF Serves, Service!Next

\* A thread asks for a new task.
LEMMA StepAsk ==
    ASSUME TypeOK, TypeOK', NEW v \in Tasks, running, UNCHANGED <<clock, running>>,
           \A t \in Tasks : t >= v => Phase(t) = "unused",
           Phase(v)' = "prepared", Only(v),
           \A t \in Tasks : t # v => /\ owner'[t] = owner[t] /\ fireAt'[t] = fireAt[t] /\ deadline'[t] = deadline[t]
                                     /\ identifier'[t] = identifier[t],
           \A t \in Tasks : Phase(t) = "prepared" => owner[t] # owner'[v],
           fireAt'[v] >= clock, identifier'[v] = 0 => fireAt'[v] = clock
    PROVE  Serves
<1>1. Service!Becomes(v, "prepared")
  BY StepBecomes
<1>2. /\ Service!Changed(owner', owner, v) /\ owner'[v] \in Threads
      /\ Service!Changed(fireAt', fireAt, v) /\ Service!Changed(deadline', deadline, v)
  BY DEF TypeOK, Service!Changed
<1>3. Service!Changed([t \in Tasks |-> identifier[t] # 0]', [t \in Tasks |-> identifier[t] # 0], v)
  BY DEF Service!Changed
<1>4. Service!Ask(v)
  BY <1>1, <1>2, <1>3 DEF Service!Ask
<1> QED
  BY <1>4 DEF Serves, Service!Next

\* A task keeps its phase while it keeps its place and its history.
LEMMA PhaseStays ==
    ASSUME NEW t \in Tasks, place'[t] = place[t], t \in requested' <=> t \in requested, t \in deferred' <=> t \in deferred
    PROVE  Phase(t)' = Phase(t)
  BY DEF Phase

\* Every step is a step of TaskService, or none that a caller sees.
LEMMA ServesNext == TypeInv /\ TypeInv' /\ IdInv /\ OrderInv /\ ServiceInv /\ [Next]_vars => Serves
<1> SUFFICES ASSUME TypeOK, TypeOK', IdInv, OrderInv, ServiceInv, [Next]_vars PROVE Serves
  BY DEF TypeInv
<1>0. /\ deferred \subseteq Tasks /\ requested \subseteq Tasks /\ Tasks \subseteq Nat
      /\ \A t \in Tasks : fireAt[t] \in Nat
  BY DEF TypeOK, Tasks
<1>a. \A t \in Tasks : /\ place[t] \notin Waiting => Phase(t) = place[t]
                       /\ place[t] \in Waiting => Phase(t) \in {"accepted", "taken", "withdrawn"}
                       /\ Phase(t) = "withdrawn" <=> place[t] \in Waiting /\ t \in requested
                       /\ place[t] \in {"heap", "swapped", "ready"} /\ t \notin requested => Phase(t) = "taken"
  BY DEF Phase, Waiting, TypeOK, Places
<1>b. \A t \in Tasks : t \in requested /\ place[t] \in Waiting => identifier[t] \in Requests /\ identifier[t] # 0
  BY DEF IdInv, CancelInv, Requests, TypeOK, Ids
<1>c. Loop => SameRequests /\ UNCHANGED <<clock, running>>
  BY DEF Loop, SameRequests
<1>1. ASSUME NEW th \in Threads, NEW delay \in Nat, NEW until, NEW kind, kind = 0 => delay = 0,
             Prepare(th, delay, until, kind)
      PROVE Serves
  <2>0. PICK v \in Tasks : v = nextSequence + 1
    BY <1>1, BoundsNat DEF Prepare, TypeOK, Tasks
  <2>1. /\ running /\ UNCHANGED <<clock, running, requested, deferred>>
        /\ \A t \in Tasks : t >= v => place[t] = "unused"
    BY <1>1, <1>0, <2>0 DEF Prepare, TypeOK, IdInv, FutureInv, ids
  <2>2. \A t \in Tasks : t # v => /\ place'[t] = place[t] /\ identifier'[t] = identifier[t]
                                  /\ fireAt'[t] = fireAt[t] /\ deadline'[t] = deadline[t] /\ owner'[t] = owner[t]
    BY <1>1, <2>0 DEF Prepare, Move, TypeOK
  <2>3. /\ place'[v] = "prepared" /\ owner'[v] = th
        /\ identifier'[v] = kind /\ fireAt'[v] = clock + delay
    BY <1>1, <2>0 DEF Prepare, Move, TypeOK
  <2>4. \A t \in Tasks : place[t] = "prepared" => owner[t] # th
    BY <1>1 DEF Prepare, Busy, In
  <2>5. Only(v)
    BY <2>1, <2>2, PhaseStays DEF Only
  <2>6. Phase(v)' = "prepared"
    BY <2>3 DEF Phase, Waiting
  <2>7. /\ \A t \in Tasks : t >= v => Phase(t) = "unused"
        /\ \A t \in Tasks : Phase(t) = "prepared" => owner[t] # owner'[v]
    BY <1>a, <2>1, <2>3, <2>4 DEF Waiting
  <2>8. fireAt'[v] >= clock /\ (identifier'[v] = 0 => fireAt'[v] = clock)
    BY <1>1, <2>3 DEF TypeOK
  <2> QED
    BY <2>1, <2>2, <2>5, <2>6, <2>7, <2>8, StepAsk
<1>2. ASSUME NEW th \in Threads, send(th) \/ schedule(th) PROVE Serves
  <2>1. PICK v \in Tasks : /\ place[v] = "prepared"
                           /\ place'[v] \in {"dropped", "sendInbox", "scheduleInbox"}
                           /\ \A t \in Tasks : t # v => place'[t] = place[t] /\ identifier'[t] = identifier[t]
                           /\ identifier'[v] = 0 <=> identifier[v] = 0
    <3>1. CASE send(th)
      BY <3>1 DEF send, In, Move
    <3>2. CASE schedule(th)
      <4>1. Unassigned # 0 /\ 0 \notin Ids
        BY BoundsNat DEF Unassigned, Ids
      <4> QED
        BY <3>2, <4>1 DEF schedule, In, Move, TypeOK
    <3> QED
      BY <1>2, <3>1, <3>2
  <2>2. UNCHANGED <<owner, fireAt, deadline, clock, running, requested, deferred>>
    BY <1>2 DEF send, schedule, ids
  <2>3. v \notin requested /\ v \notin deferred
    BY <2>1 DEF IdInv, CancelInv, ServiceInv, DeferInv, Waiting
  <2>4. Phase(v) = "prepared" /\ Phase(v)' \in {"accepted", "dropped"}
    BY <2>1, <2>2, <2>3 DEF Phase, Waiting
  <2>5. Only(v)
    BY <2>1, <2>2, PhaseStays DEF Only
  <2>6. SameRequests
    BY <2>1, <2>2 DEF SameRequests
  <2> QED
    BY <2>2, <2>4, <2>5, <2>6, StepAnswer
<1>3. ASSUME NEW th \in Threads, NEW i \in Ids, cancel(th, i) PROVE Serves
  <2>1. /\ UNCHANGED <<place, owner, fireAt, deadline, identifier, clock, running, deferred>> /\ running
        /\ \A t : t \in requested' <=> t \in requested \/ (t \in Tasks /\ identifier[t] = i /\ place[t] \in Waiting)
        /\ i # 0
    BY <1>3 DEF cancel, task, Ids
  <2>2. SameRequests
    BY <2>1 DEF SameRequests
  <2>3. CASE \E v \in Tasks : identifier[v] = i /\ place[v] \in Waiting /\ v \notin requested
    <3>1. PICK v \in Tasks : identifier[v] = i /\ place[v] \in Waiting /\ v \notin requested
      BY <2>3
    <3>2. \A t \in Tasks : t # v => (t \in requested' <=> t \in requested)
      BY <2>1, <3>1 DEF IdInv, Reserved, HasId, Held
    <3>3. Only(v)
      BY <2>1, <3>2, PhaseStays DEF Only
    <3>4. Phase(v) \in {"accepted", "taken"}
      BY <1>a, <3>1
    <3>5. Phase(v)' = "withdrawn"
      BY <2>1, <3>1 DEF Phase
    <3> QED
      BY <2>1, <2>2, <3>1, <3>3, <3>4, <3>5, StepWithdraw
  <2>4. CASE ~\E v \in Tasks : identifier[v] = i /\ place[v] \in Waiting /\ v \notin requested
    <3>1. SamePhases
      BY <2>1, <2>4, PhaseStays DEF SamePhases
    <3> QED
      BY <2>1, <2>2, <3>1, StepUnseen
  <2> QED
    BY <2>3, <2>4
<1>4. ASSUME UNCHANGED <<task, ids>> PROVE SameRequests /\ SamePhases
  <2>1. UNCHANGED <<place, owner, fireAt, deadline, identifier, requested, deferred>>
    BY <1>4 DEF task, ids
  <2> QED
    BY <2>1, PhaseStays DEF SameRequests, SamePhases
<1>5. ASSUME NEW th \in Threads, shutdown(th) PROVE Serves
  <2>1. /\ UNCHANGED <<task, ids>> /\ running /\ running' = FALSE /\ clock' = clock
    BY <1>5 DEF shutdown
  <2>2. [t \in Tasks |-> Phase(t)]' = [t \in Tasks |-> Phase(t)]
    BY <1>4, <2>1 DEF SamePhases
  <2>3. Service!Close
    BY <1>4, <2>1, <2>2, RequestsStay DEF Service!Close
  <2> QED
    BY <2>3 DEF Serves, Service!Next
<1>6. CASE Tick
  <2>1. UNCHANGED <<task, ids>> /\ running' = running /\ clock' = clock + 1
    BY <1>6 DEF Tick
  <2>2. [t \in Tasks |-> Phase(t)]' = [t \in Tasks |-> Phase(t)]
    BY <1>4, <2>1 DEF SamePhases
  <2>3. Service!Tick
    BY <1>4, <2>1, <2>2, RequestsStay DEF Service!Tick
  <2> QED
    BY <2>3 DEF Serves, Service!Next
<1>7. CASE (\E th \in Threads : Notify(th)) \/ runLoop \/ waitForWork \/ Timer \/ UNCHANGED vars
  <2>1. UNCHANGED <<task, ids>> /\ UNCHANGED <<clock, running>>
    BY <1>7 DEF Notify, runLoop, waitForWork, Timer, vars
  <2> QED
    BY <1>4, <2>1, StepUnseen
<1>8. CASE drainInbox
  <2>1. /\ pc = "drainInbox" /\ deferred' = {} /\ requested' = requested /\ Loop
        /\ \A t \in Tasks : place'[t] = IF place[t] = "sendInbox" THEN "swapped"
                                        ELSE IF place[t] = "scheduleInbox" THEN "heap" ELSE place[t]
    BY <1>8 DEF drainInbox
  <2>2. \A t \in Tasks : Phase(t) # "running"
    BY <1>a, <2>1 DEF ServiceInv, DueInv
  <2>3. ASSUME NEW t \in Tasks PROVE Phase(t)' = IF Phase(t) = "accepted" THEN "taken" ELSE Phase(t)
    <3>1. CASE place[t] \in Waiting
      <4>1. place'[t] \in {"swapped", "heap", "ready"} /\ place'[t] \in Waiting
        BY <2>1, <3>1 DEF Waiting
      <4> QED
        BY <2>1, <3>1, <4>1 DEF Phase
    <3>2. CASE place[t] \notin Waiting
      <4>1. place'[t] = place[t] /\ place[t] # "accepted"
        BY <2>1, <3>2 DEF Waiting, TypeOK, Places
      <4> QED
        BY <3>2, <4>1 DEF Phase
    <3> QED
      BY <3>1, <3>2
  <2> QED
    BY <1>c, <2>1, <2>2, <2>3, StepTakeOver
<1>9. ASSUME NEW T \in SUBSET Tasks, \A t \in T : place[t] \in {"swapped", "heap"}, Filter(T), Loop
      PROVE  Serves
  <2>1. /\ UNCHANGED <<requested, deferred>>
        /\ \A t \in Tasks : t \notin T => place'[t] = place[t]
        /\ \A t \in T : \/ place'[t] = "ready"
                        \/ identifier[t] \in cancelled /\ place'[t] = "cancelled"
                        \/ hasExpired(t) /\ place'[t] = "expired"
    BY <1>9 DEF Filter, retireIdentifier
  <2>2. ASSUME NEW t \in T, identifier[t] \in cancelled PROVE t \in requested
    BY <1>9, <2>2 DEF IdInv, CancelInv, HasId, Held, Waiting, Requests, TypeOK, Ids
  <2>3. ASSUME NEW t \in T, hasExpired(t) PROVE identifier[t] = 0 /\ deadline[t] <= clock /\ t \notin requested
    BY <1>9, <1>b, <2>3 DEF hasExpired, ServiceInv, DeadlineInv, Waiting
  <2>4. ASSUME NEW t \in Tasks
        PROVE  \/ Phase(t)' = Phase(t)
               \/ Phase(t) = "withdrawn" /\ Phase(t)' = "cancelled"
               \/ Phase(t) = "taken" /\ identifier[t] = 0 /\ deadline[t] <= clock /\ Phase(t)' = "expired"
    <3>1. CASE t \notin T
      BY <2>1, <3>1, PhaseStays
    <3>2. CASE t \in T /\ place'[t] = "ready"
      BY <1>9, <2>1, <3>2 DEF Phase, Waiting
    <3>3. CASE t \in T /\ identifier[t] \in cancelled /\ place'[t] = "cancelled"
      BY <1>9, <2>2, <3>3 DEF Phase, Waiting
    <3>4. CASE t \in T /\ hasExpired(t) /\ place'[t] = "expired"
      BY <1>9, <2>3, <3>4 DEF Phase, Waiting
    <3> QED
      BY <2>1, <3>1, <3>2, <3>3, <3>4
  <2> QED
    BY <1>c, <1>9, <2>4, StepLapse
<1>10. CASE FilterSent \/ drainReadyTasks
  <2>1. PICK T \in SUBSET Tasks : (\A t \in T : place[t] \in {"swapped", "heap"}) /\ Filter(T) /\ Loop
    BY <1>10 DEF FilterSent, drainReadyTasks, In
  <2> QED
    BY <1>9, <2>1
<1>11. CASE consumeCancellation
  <2>1. PICK v \in Tasks : /\ place[v] = "ready" /\ Cancelled(v)
                           /\ place' = Move({v}, "cancelled") /\ UNCHANGED <<requested, deferred>> /\ Loop
    BY <1>11 DEF consumeCancellation, First, retireIdentifier
  <2>2. v \in requested
    BY <2>1 DEF Cancelled, IdInv, CancelInv, HasId, Held, Waiting, Requests, TypeOK, Ids
  <2>3. place'[v] = "cancelled" /\ \A t \in Tasks : t # v => place'[t] = place[t]
    BY <2>1 DEF Move
  <2>4. Phase(v) = "withdrawn" /\ Phase(v)' = "cancelled"
    BY <2>1, <2>2, <2>3 DEF Phase, Waiting
  <2>5. \A t \in Tasks : t # v => Phase(t)' = Phase(t)
    BY <2>1, <2>3, PhaseStays
  <2> QED
    BY <1>c, <2>1, <2>4, <2>5, StepLapse
<1>12. CASE RunTask
  <2>1. PICK v \in Tasks : /\ First(v) /\ ~Cancelled(v) /\ place' = Move({v}, "running")
                           /\ pc = "execute" /\ UNCHANGED <<requested, deferred>> /\ Loop
    BY <1>12 DEF RunTask, ids
  <2>2. /\ place[v] = "ready" /\ place'[v] = "running" /\ \A t \in Tasks : t # v => place'[t] = place[t]
        /\ \A t \in Tasks : place[t] = "ready" => Before(v, t)
    BY <2>1 DEF First, Move, In
  <2>3. v \notin requested
    BY <1>b, <2>1, <2>2 DEF Cancelled, Requests, Waiting
  <2>4. Phase(v) = "taken" /\ Phase(v)' = "running" /\ fireAt[v] <= clock
    BY <1>a, <2>2, <2>3 DEF Phase, Waiting, ServiceInv, DueInv
  <2>5. Only(v)
    BY <2>1, <2>2, PhaseStays DEF Only
  <2>6. \A t \in Tasks : Phase(t) # "running"
    BY <1>a, <2>1 DEF ServiceInv, DueInv
  <2>7. ASSUME NEW t \in Tasks, Phase(t) = "taken" PROVE Before(v, t)
    <3>1. t \notin deferred /\ place[t] # "swapped"
      BY <2>1 DEF ServiceInv, DeferInv, Outside, OrderInv, PhaseInv
    <3>2. place[t] \in {"heap", "ready"}
      BY <2>7, <3>1 DEF Phase, Waiting, TypeOK, Places
    <3>3. place[t] = "heap" => fireAt[v] < fireAt[t]
      BY <2>1, <2>2 DEF ServiceInv, DueInv, InCycle
    <3> QED
      BY <2>2, <3>2, <3>3 DEF Before
  <2> QED
    BY <1>c, <2>1, <2>4, <2>5, <2>6, <2>7, StepRun
<1>13. CASE TaskEnd
  <2>1. /\ UNCHANGED <<requested, deferred>> /\ Loop
        /\ \A t \in Tasks : place'[t] = IF place[t] = "running" THEN "done" ELSE place[t]
    BY <1>13 DEF TaskEnd, retireIdentifier, Move, In
  <2>2. CASE \E v \in Tasks : place[v] = "running"
    <3>1. PICK v \in Tasks : place[v] = "running"
      BY <2>2
    <3>2. \A t \in Tasks : t # v => place'[t] = place[t]
      BY <2>1, <3>1 DEF ServiceInv, DueInv
    <3>3. Only(v)
      BY <2>1, <3>2, PhaseStays DEF Only
    <3>4. Phase(v) = "running" /\ Phase(v)' = "done"
      BY <2>1, <3>1 DEF Phase, Waiting
    <3> QED
      BY <1>c, <2>1, <3>3, <3>4, StepFinish
  <2>3. CASE ~\E v \in Tasks : place[v] = "running"
    <3>1. SamePhases
      BY <2>1, <2>3, PhaseStays DEF SamePhases
    <3> QED
      BY <1>c, <2>1, <3>1, StepUnseen
  <2> QED
    BY <2>2, <2>3
<1>14. CASE Defer
  <2>1. /\ pc \in {"execute", "defer"} /\ deferred' = In("ready") /\ requested' = requested /\ Loop
        /\ \A t \in Tasks : place'[t] = IF place[t] = "ready" THEN "sendInbox" ELSE place[t]
    BY <1>14 DEF Defer, Move, In
  <2>2. deferred = {}
    BY <2>1 DEF ServiceInv, DeferInv, Outside
  <2>3. ASSUME NEW t \in Tasks PROVE Phase(t)' = Phase(t)
    <3>1. CASE place[t] = "ready"
      BY <2>1, <3>1 DEF Phase, Waiting, In
    <3>2. CASE place[t] # "ready"
      BY <2>1, <2>2, <3>2, PhaseStays DEF In
    <3> QED
      BY <3>1, <3>2
  <2> QED
    BY <1>c, <2>1, <2>3, StepUnseen DEF SamePhases
<1>15. CASE Next
  <2>1. Delays \subseteq Nat /\ 0 \in Nat /\ Unassigned # 0
    BY BoundsNat DEF Unassigned
  <2> QED
    BY <1>15, <2>1, <1>1, <1>2, <1>3, <1>5, <1>6, <1>7, <1>8, <1>10, <1>11, <1>12, <1>13, <1>14
    DEF Next, LoopStep, Publish
<1> QED
  BY <1>7, <1>15

\* TasksAreServed for any number of threads, tasks and identifiers, any limits and any times: the reactor
\* runs one task at a time, none before it is due, those that a cycle has taken in the order of their
\* times and numbers even when they are deferred, and drops what was withdrawn or is late and nothing else.
THEOREM TasksAreServedTheorem == Spec => TasksAreServed
<1>1. Init => Service!Init
  <2> SUFFICES ASSUME Init PROVE Service!Init
    OBVIOUS
  <2>1. \A t \in Tasks : Phase(t) = "unused"
    BY DEF Init, Phase, Waiting
  <2>2. [t \in Tasks |-> Phase(t)] = [t \in Tasks |-> "unused"]
    BY <2>1
  <2> QED
    BY <2>2 DEF Init, Service!Init
<1>2. TypeInv /\ TypeInv' /\ IdInv /\ OrderInv /\ ServiceInv /\ [Next]_vars => [Service!Next]_service
  BY ServesNext DEF Serves
<1> QED
  BY <1>1, <1>2, TypeInit, TypeStep, IdInit, IdStep, OrderInit, OrderStep, ServiceInit, ServiceStep, PTL
     DEF Spec, TasksAreServed, Service!Spec, service
=============================================================================
