---------------------------- MODULE SessionProofs -----------------------------
(***************************************************************************)
(* Proofs about GameSession: for every number of clients and characters,   *)
(* however logins, loads, logouts, kicks and lost connections meet,        *)
(* sessions agree (a character is in the world once and its reservation is *)
(* held by one login), and a client that is connected never loses its      *)
(* player to another (src/src/protocolgame.cpp, game.cpp).                 *)
(*                                                                         *)
(* The queue of the dispatcher is the hard part: the invariant says which  *)
(* step of a login is in it, for whom, and that there is one per client at *)
(* most.  The steps of logins in the queue are compared as a set,          *)
(* Steps(tasks), once the queue is known to hold each at most once.        *)
(***************************************************************************)
EXTENDS GameSession, FiniteSetTheorems, TLAPS

\* The tasks that end a login.
EndOps == {"finishLogin", "loadFailed", "giveUp"}
\* The tasks that are steps of a login.
LoginOps == EndOps \cup {"login"}
\* The tasks of the dispatcher.
TaskRecord == [op : LoginOps \cup {"logout", "release"}, p : Protocols, g : Guids]
\* The values a client's protocol can have.
ProtoRecord == [conn : {"new", "open", "closed", "expired"}, player : Protocols \cup {NoProtocol},
                acceptPackets : BOOLEAN]
\* The values a Player object can have.
PlayerRecord == [guid : Guids, stage : {"none", "loading", "online", "removed"},
                 owner : Protocols \cup {NoProtocol}]

\* What is in the queue.
Elems(t) == {t[k] : k \in DOMAIN t}
\* The steps of logins in the queue.
Steps(t) == {e \in Elems(t) : e.op \in LoginOps}
\* No client has two steps of logins in the queue.
Once(t) ==
    \A k, l \in DOMAIN t : t[k].op \in LoginOps /\ t[l].op \in LoginOps /\ t[k].p = t[l].p => k = l

\* What is in a queue of tasks is a task.
LEMMA ElemsTyped ==
    ASSUME NEW t \in Seq(TaskRecord)
    PROVE  \A e \in Elems(t) : e \in TaskRecord /\ e.p \in Protocols /\ e.g \in Guids
<1>1. \A k \in DOMAIN t : t[k] \in TaskRecord
  OBVIOUS
<1> QED
  BY <1>1 DEF Elems, TaskRecord

\* A client's step in the queue is unique.
LEMMA StepsAreOnce ==
    ASSUME NEW t, Once(t)
    PROVE  \A e, f \in Steps(t) : e.p = f.p => e = f
  BY DEF Steps, Elems, Once

\* The dispatcher takes the head of the queue: one step less, or the same steps.
LEMMA TailSteps ==
    ASSUME NEW t \in Seq(TaskRecord), t # <<>>, Once(t)
    PROVE  /\ Tail(t) \in Seq(TaskRecord) /\ Once(Tail(t))
           /\ Head(t) \in Elems(t) /\ Head(t) \in TaskRecord
           /\ Elems(Tail(t)) \subseteq Elems(t)
           /\ Steps(Tail(t)) = Steps(t) \ {Head(t)}
           /\ Head(t).op \in LoginOps => \A e \in Steps(Tail(t)) : e.p # Head(t).p
           /\ Head(t).op \notin LoginOps => Steps(Tail(t)) = Steps(t)
<1> DEFINE n == Len(t)
           u == Tail(t)
<1>1. /\ n \in Nat \ {0} /\ DOMAIN t = 1 .. n /\ \A k \in 1 .. n : t[k] \in TaskRecord
      /\ u \in Seq(TaskRecord) /\ DOMAIN u = 1 .. n - 1 /\ \A k \in 1 .. n - 1 : u[k] = t[k + 1]
      /\ Head(t) = t[1]
  OBVIOUS
<1> HIDE DEF n, u
<1>2. Once(u)
  <2> SUFFICES ASSUME NEW k \in 1 .. n - 1, NEW l \in 1 .. n - 1, u[k].op \in LoginOps, u[l].op \in LoginOps,
                      u[k].p = u[l].p
               PROVE  k = l
    BY <1>1 DEF Once
  <2>1. k + 1 \in 1 .. n /\ l + 1 \in 1 .. n
    BY <1>1
  <2>2. k + 1 = l + 1
    BY <1>1, <2>1 DEF Once
  <2> QED
    BY <2>2
<1>3. Elems(u) = {t[k] : k \in 2 .. n}
  <2>1. \A k \in 1 .. n - 1 : k + 1 \in 2 .. n
    BY <1>1
  <2>2. \A k \in 2 .. n : k - 1 \in 1 .. n - 1 /\ u[k - 1] = t[k]
    BY <1>1
  <2> QED
    <3>1. ASSUME NEW e \in Elems(u) PROVE e \in {t[k] : k \in 2 .. n}
      <4>1. PICK k \in 1 .. n - 1 : e = u[k]
        BY <1>1 DEF Elems
      <4> QED
        BY <1>1, <2>1, <4>1
    <3>2. ASSUME NEW e \in {t[k] : k \in 2 .. n} PROVE e \in Elems(u)
      <4>1. PICK k \in 2 .. n : e = t[k]
        OBVIOUS
      <4> QED
        BY <1>1, <2>2, <4>1 DEF Elems
    <3> QED
      BY <3>1, <3>2
<1>4. Elems(t) = Elems(u) \cup {Head(t)} /\ Head(t) \in TaskRecord
  <2>1. 1 .. n = (2 .. n) \cup {1}
    BY <1>1
  <2>2. ASSUME NEW e \in Elems(t) PROVE e \in Elems(u) \cup {Head(t)}
    <3>1. PICK k \in 1 .. n : e = t[k]
      BY <1>1 DEF Elems
    <3> QED
      BY <1>1, <1>3, <2>1, <3>1
  <2>3. Elems(u) \subseteq Elems(t)
    BY <1>1, <1>3, <2>1 DEF Elems
  <2>4. Head(t) \in Elems(t) /\ Head(t) \in TaskRecord
    <3>1. 1 \in 1 .. n
      BY <1>1
    <3> QED
      BY <1>1, <3>1 DEF Elems
  <2> QED
    BY <2>2, <2>3, <2>4
<1>5. ASSUME Head(t).op \in LoginOps, NEW e \in Steps(u) PROVE e.p # Head(t).p
  <2>1. PICK k \in 2 .. n : e = t[k]
    BY <1>3 DEF Steps
  <2>2. k \in DOMAIN t /\ 1 \in DOMAIN t /\ k # 1
    BY <1>1
  <2> QED
    BY <1>1, <1>5, <2>1, <2>2 DEF Once, Steps
<1>6. Steps(u) = Steps(t) \ {Head(t)}
  BY <1>4, <1>5 DEF Steps
<1> QED
  BY <1>1, <1>2, <1>4, <1>5, <1>6 DEF u, Steps

\* A task is put at the end of the queue: one step more, or the same steps.
LEMMA AppendSteps ==
    ASSUME NEW t \in Seq(TaskRecord), Once(t), NEW e \in TaskRecord,
           e.op \in LoginOps => \A f \in Steps(t) : f.p # e.p
    PROVE  /\ Append(t, e) \in Seq(TaskRecord) /\ Once(Append(t, e))
           /\ Elems(Append(t, e)) = Elems(t) \cup {e}
           /\ e.op \in LoginOps => Steps(Append(t, e)) = Steps(t) \cup {e}
           /\ e.op \notin LoginOps => Steps(Append(t, e)) = Steps(t)
<1> DEFINE n == Len(t)
           u == Append(t, e)
<1>1. /\ n \in Nat /\ DOMAIN t = 1 .. n /\ u \in Seq(TaskRecord) /\ DOMAIN u = 1 .. n + 1
      /\ \A k \in 1 .. n : u[k] = t[k]
      /\ u[n + 1] = e
  OBVIOUS
<1> HIDE DEF n, u
<1>2. (1 .. n + 1) = (1 .. n) \cup {n + 1}
  BY <1>1
<1>3. Elems(u) = Elems(t) \cup {e}
  BY <1>1, <1>2 DEF Elems
<1>4. Once(u)
  <2> SUFFICES ASSUME NEW k \in 1 .. n + 1, NEW l \in 1 .. n + 1, u[k].op \in LoginOps, u[l].op \in LoginOps,
                      u[k].p = u[l].p
               PROVE  k = l
    BY <1>1 DEF Once
  <2>1. CASE k \in 1 .. n /\ l \in 1 .. n
    BY <1>1, <2>1 DEF Once
  <2>2. CASE k = n + 1 /\ l \in 1 .. n
    BY <1>1, <2>2 DEF Steps, Elems
  <2>3. CASE k \in 1 .. n /\ l = n + 1
    BY <1>1, <2>3 DEF Steps, Elems
  <2> QED
    BY <1>2, <2>1, <2>2, <2>3
<1> QED
  BY <1>1, <1>3, <1>4 DEF u, Steps

-----------------------------------------------------------------------------
\* The variables have their types.
SessionTypes ==
    /\ proto \in [Protocols -> ProtoRecord] /\ player \in [Protocols -> PlayerRecord]
    /\ pendingLogins \subseteq Guids /\ tasks \in Seq(TaskRecord) /\ loads \subseteq Protocols
    /\ connects \subseteq Protocols \X Protocols

\* A protocol logs in once: it has one step of its login under way at most, a task, a load or a
\* connect, and none before its first message.
OneStepEach ==
    /\ Once(tasks)
    /\ \A e \in Steps(tasks) : /\ e.p \notin loads /\ proto[e.p].conn # "new"
                               /\ \A c \in connects : c[1] # e.p
    /\ \A p \in loads : proto[p].conn # "new" /\ \A c \in connects : c[1] # p
    /\ \A c, d \in connects : c[1] = d[1] => c = d
    /\ \A c \in connects : proto[c[1]].conn # "new"

\* A login that holds a reservation.
Reserves(p) ==
    /\ player[p].stage = "loading" /\ player[p].guid \in pendingLogins
    /\ proto[p].player \in {p, NoProtocol}

\* The logins between their reservation and their end: a load is under way or its end is in the
\* queue.
Flying == loads \cup {e.p : e \in {f \in Steps(tasks) : f.op \in EndOps}}

\* A reservation is held by exactly one login that is under way, and a login that waits for its turn
\* has no player yet.
Reservations ==
    /\ \A e \in Steps(tasks) : e.op = "login" => player[e.p].stage = "none"
    /\ \A e \in Steps(tasks) : e.op \in EndOps => e.g = player[e.p].guid
    /\ \A p \in Flying : Reserves(p)
    /\ \A p, q \in Flying : player[p].guid = player[q].guid => p = q
    /\ \A g \in pendingLogins : \E p \in Flying : player[p].guid = g

\* A character is in the world once, and not while a login of it holds the reservation.
OnlineOnce ==
    /\ \A x \in Online : player[x].guid \notin pendingLogins
    /\ \A x, y \in Online : player[x].guid = player[y].guid => x = y

\* Who steers a player of the world has ended its login.
OwnersPlay ==
    \A x \in Online : LET p == player[x].owner IN
        p # NoProtocol => /\ proto[p].player = x /\ p \notin loads
                          /\ \A e \in Steps(tasks) : e.p # p
                          /\ \A c \in connects : c[1] # p

\* Nobody steers a player before its login has begun, or another one than its own while it loads,
\* and a protocol is released only after its connection is gone.
Beginnings ==
    /\ \A x \in Protocols : /\ player[x].stage = "none" => player[x].owner = NoProtocol
                            /\ player[x].stage = "loading" => player[x].owner \in {x, NoProtocol}
                            /\ proto[x].conn = "new" => player[x].stage = "none" /\ proto[x].player = NoProtocol
    /\ \A e \in Elems(tasks) : e.op = "release" => proto[e.p].conn \in {"closed", "expired"}

\* The inductive invariant: types, one step of a login per client, the reservations, and who plays.
SessionInv ==
    SessionTypes /\ OneStepEach /\ Reservations /\ OnlineOnce /\ OwnersPlay /\ Beginnings

\* The protocols and the queue become P and T, but for connections that are closed on the way.
Settles(P, T) ==
    /\ proto' \in [Protocols -> ProtoRecord] /\ tasks' \in Seq(TaskRecord)
    /\ Once(tasks') /\ Steps(tasks') = Steps(T)
    /\ \A p \in Protocols : /\ proto'[p].player = P[p].player
                            /\ \/ proto'[p].conn = P[p].conn
                               \/ P[p].conn = "open" /\ proto'[p].conn = "closed"
    /\ \A e \in Elems(tasks') : e.op = "release" => e \in Elems(T) \/ proto'[e.p].conn = "closed"

\* What Goes leaves behind: the protocols and the queue as computed, up to connections that were
\* closed on the way.
LEMMA GoesSettles ==
    ASSUME NEW P \in [Protocols -> ProtoRecord], NEW T \in Seq(TaskRecord), Once(T), NEW r,
           r = [proto |-> P, tasks |-> T]
    PROVE  /\ Goes(r) => Settles(P, T)
           /\ \A q \in Protocols : Goes(Disconnected(r, q)) => Settles(P, T) /\ proto'[q].conn # "open"
<1>1. r.proto = P /\ r.tasks = T
  OBVIOUS
<1>2. ASSUME Goes(r) PROVE Settles(P, T)
  BY <1>1, <1>2 DEF Goes, Settles
<1>3. ASSUME NEW q \in Protocols, Goes(Disconnected(r, q)), P[q].conn # "open"
      PROVE  Settles(P, T) /\ proto'[q].conn # "open"
  BY <1>1, <1>3 DEF Goes, Disconnected, Settles
<1>4. ASSUME NEW q \in Protocols, Goes(Disconnected(r, q)), P[q].conn = "open"
      PROVE  Settles(P, T) /\ proto'[q].conn # "open"
  <2> DEFINE e == Task("release", q, CHOOSE g \in Guids : TRUE)
  <2>1. proto' = [P EXCEPT ![q].conn = "closed"] /\ tasks' = Append(T, e)
    BY <1>1, <1>4 DEF Goes, Disconnected
  <2>2. e \in TaskRecord /\ e.op = "release" /\ e.p = q /\ e.op \notin LoginOps
    BY SessionConstants DEF Task, TaskRecord, LoginOps, EndOps
  <2> HIDE DEF e
  <2>3. /\ tasks' \in Seq(TaskRecord) /\ Once(tasks') /\ Steps(tasks') = Steps(T)
        /\ Elems(tasks') = Elems(T) \cup {e}
    BY <2>1, <2>2, AppendSteps
  <2>4. /\ proto' \in [Protocols -> ProtoRecord] /\ proto'[q].conn = "closed"
        /\ \A p \in Protocols : proto'[p].player = P[p].player /\ (p # q => proto'[p].conn = P[p].conn)
    BY <2>1 DEF ProtoRecord
  <2> QED
    BY <1>4, <2>2, <2>3, <2>4 DEF Settles
<1> QED
  BY <1>2, <1>3, <1>4

\* Nobody is connected: the invariant holds.
LEMMA SessionStarts == SessionInit => SessionInv
<1> SUFFICES ASSUME SessionInit PROVE SessionInv
  OBVIOUS
<1>1. SessionTypes
  BY SessionConstants DEF SessionInit, SessionTypes, ProtoRecord, PlayerRecord
<1>2. Steps(tasks) = {} /\ Elems(tasks) = {} /\ Once(tasks) /\ Flying = {}
  BY DEF SessionInit, Steps, Elems, Once, Flying
<1>3. \A x \in Protocols : player[x].stage = "none" /\ player[x].owner = NoProtocol
  BY DEF SessionInit
<1>4. Online = {}
  BY <1>3 DEF Online
<1>5. OneStepEach /\ Reservations /\ OnlineOnce /\ OwnersPlay
  BY <1>2, <1>4 DEF SessionInit, OneStepEach, Reservations, OnlineOnce, OwnersPlay
<1>6. Beginnings
  BY <1>2, <1>3 DEF SessionInit, Beginnings
<1> QED
  BY <1>1, <1>5, <1>6 DEF SessionInv

\* Steps that reserve nothing and give no player a client.
LEMMA QuietTurnKeepsInv ==
    ASSUME SessionInv, NEW P \in [Protocols -> ProtoRecord], NEW T \in Seq(TaskRecord), Settles(P, T),
           Steps(T) \subseteq Steps(tasks), \A e \in Steps(tasks) : e.op \in EndOps => e \in Steps(T),
           \A e \in Elems(T) : e.op = "release" => e \in Elems(tasks),
           \A p \in Protocols : P[p].conn = proto[p].conn \/ (proto[p].conn = "closed" /\ P[p].conn = "expired"),
           player' \in [Protocols -> PlayerRecord],
           \A x \in Protocols : /\ player'[x].guid = player[x].guid
                                /\ player'[x].owner \in {player[x].owner, NoProtocol}
                                /\ \/ player'[x].stage = player[x].stage
                                   \/ player[x].stage = "online" /\ player'[x].stage = "removed",
           \A p \in Protocols : \/ P[p].player = proto[p].player
                                \/ /\ P[p].player = NoProtocol
                                   /\ \A x \in Protocols : player'[x].stage = "online" => player'[x].owner # p,
           pendingLogins' = pendingLogins, loads' = loads,
           NEW new \in SUBSET (Protocols \X Protocols), connects' \subseteq connects \cup new,
           \A c, d \in new : c = d,
           \A c \in new : /\ \E e \in Steps(tasks) : e.op = "login" /\ e.p = c[1]
                          /\ \A e \in Steps(T) : e.p # c[1]
    PROVE  SessionInv'
<1>1. /\ SessionTypes /\ OneStepEach /\ Reservations /\ OnlineOnce /\ OwnersPlay /\ Beginnings
      /\ proto \in [Protocols -> ProtoRecord] /\ player \in [Protocols -> PlayerRecord]
      /\ loads \subseteq Protocols /\ connects \subseteq Protocols \X Protocols
      /\ tasks \in Seq(TaskRecord)
  BY DEF SessionInv, SessionTypes
<1>2. \A e \in Steps(tasks) : e.p \in Protocols
  BY <1>1, ElemsTyped DEF Steps
<1>3. SessionTypes'
  BY <1>1 DEF SessionTypes, Settles
<1>4. \A p \in Protocols : proto[p].conn # "new" => proto'[p].conn # "new"
  BY <1>1 DEF Settles, ProtoRecord
<1>5. Steps(tasks') \subseteq Steps(tasks) /\ Once(tasks') /\ \A e \in Steps(tasks) : e.op \in EndOps => e \in Steps(tasks')
  BY DEF Settles
<1>6. OneStepEach'
  <2>1. \A c \in new : /\ c[1] \notin loads /\ c[1] \in Protocols /\ proto[c[1]].conn # "new"
                       /\ \A d \in connects : d[1] # c[1]
                       /\ \A e \in Steps(tasks') : e.p # c[1]
    BY <1>1, <1>2 DEF OneStepEach, Settles
  <2>2. /\ \A e \in Steps(tasks') : e.p \notin loads /\ proto'[e.p].conn # "new"
        /\ \A p \in loads : proto'[p].conn # "new"
        /\ \A c \in connects' : proto'[c[1]].conn # "new"
    <3>1. /\ \A e \in Steps(tasks) : e.p \notin loads /\ proto[e.p].conn # "new"
          /\ \A p \in loads : proto[p].conn # "new"
          /\ \A c \in connects : proto[c[1]].conn # "new"
      BY <1>1 DEF OneStepEach
    <3>2. \A c \in connects : c[1] \in Protocols
      BY <1>1
    <3>3. \A c \in connects' : c \in connects \/ c \in new
      OBVIOUS
    <3>4. \A c \in connects' : c[1] \in Protocols /\ proto[c[1]].conn # "new"
      BY <2>1, <3>1, <3>2, <3>3
    <3> QED
      BY <1>1, <1>2, <1>4, <1>5, <3>1, <3>4
  <2>3. /\ \A e \in Steps(tasks') : \A c \in connects' : c[1] # e.p
        /\ \A p \in loads : \A c \in connects' : c[1] # p
        /\ \A c, d \in connects' : c[1] = d[1] => c = d
    BY <1>1, <1>5, <2>1 DEF OneStepEach
  <2> QED
    BY <1>5, <2>2, <2>3 DEF OneStepEach
<1>7. Flying' = Flying /\ Flying \subseteq Protocols
  BY <1>1, <1>2, <1>5 DEF Flying
<1>8. \A p \in Protocols : proto'[p].player \in {proto[p].player, NoProtocol}
  BY DEF Settles
<1>9. Reservations'
  <2>1. \A p \in Flying : Reserves(p)'
    BY <1>1, <1>7, <1>8 DEF Reservations, Reserves
  <2>2. /\ \A e \in Steps(tasks') : e.op = "login" => player'[e.p].stage = "none"
        /\ \A e \in Steps(tasks') : e.op \in EndOps => e.g = player'[e.p].guid
    <3>1. /\ \A e \in Steps(tasks) : e.op = "login" => player[e.p].stage = "none"
          /\ \A e \in Steps(tasks) : e.op \in EndOps => e.g = player[e.p].guid
      BY <1>1 DEF Reservations
    <3>2. \A x \in Protocols : player[x].stage = "none" => player'[x].stage = "none"
      OBVIOUS
    <3> QED
      BY <1>2, <1>5, <3>1, <3>2
  <2>3. /\ \A p, q \in Flying : player'[p].guid = player'[q].guid => p = q
        /\ \A g \in pendingLogins : \E p \in Flying : player'[p].guid = g
    BY <1>1, <1>7 DEF Reservations
  <2> QED
    BY <1>7, <2>1, <2>2, <2>3 DEF Reservations
<1>10. Online' \subseteq Online /\ Online \subseteq Protocols
  BY DEF Online
<1>11. OnlineOnce'
  BY <1>1, <1>10 DEF OnlineOnce
<1>12. OwnersPlay'
  <2> SUFFICES ASSUME NEW x \in Online', player'[x].owner # NoProtocol
               PROVE  /\ proto'[player'[x].owner].player = x /\ player'[x].owner \notin loads
                      /\ \A e \in Steps(tasks') : e.p # player'[x].owner
                      /\ \A c \in connects' : c[1] # player'[x].owner
    BY DEF OwnersPlay
  <2>1. x \in Online /\ player'[x].owner = player[x].owner /\ player[x].owner \in Protocols
        /\ x \in Protocols /\ player'[x].stage = "online"
    BY <1>1, <1>10 DEF Online, PlayerRecord
  <2>2. proto'[player[x].owner].player = proto[player[x].owner].player
    BY <2>1 DEF Settles
  <2>3. \A c \in new : c[1] # player[x].owner
    BY <1>1, <2>1 DEF OwnersPlay
  <2> QED
    BY <1>1, <1>5, <2>1, <2>2, <2>3 DEF OwnersPlay
<1>13. Beginnings'
  <2>1. \A x \in Protocols : proto'[x].conn = "new" => proto[x].conn = "new"
    BY <1>4
  <2>2. \A e \in Elems(tasks') : e.op = "release" => proto'[e.p].conn \in {"closed", "expired"}
    <3>1. \A e \in Elems(tasks) : e.p \in Protocols
      BY <1>1, ElemsTyped
    <3> QED
      BY <1>1, <3>1 DEF Settles, Beginnings, ProtoRecord
  <2>3. \A x \in Protocols : /\ player'[x].stage = "none" => player[x].stage = "none"
                             /\ player'[x].stage = "loading" => player[x].stage = "loading"
                             /\ player[x].stage = "none" => player'[x].stage = "none"
    OBVIOUS
  <2> QED
    BY <1>1, <1>8, <2>1, <2>2, <2>3 DEF Beginnings
<1> QED
  BY <1>3, <1>6, <1>9, <1>11, <1>12, <1>13 DEF SessionInv

\* A step that begins no login, ends none and brings nobody into the world keeps the invariant.
LEMMA QuietKeepsInv ==
    ASSUME SessionInv, NEW P \in [Protocols -> ProtoRecord], NEW T \in Seq(TaskRecord), Settles(P, T),
           Steps(T) \subseteq Steps(tasks), \A e \in Steps(tasks) : e.op \in EndOps => e \in Steps(T),
           \A e \in Elems(T) : e.op = "release" => e \in Elems(tasks),
           \A p \in Protocols : P[p].conn = proto[p].conn \/ (proto[p].conn = "closed" /\ P[p].conn = "expired"),
           player' \in [Protocols -> PlayerRecord],
           \A x \in Protocols : /\ player'[x].guid = player[x].guid
                                /\ player'[x].owner \in {player[x].owner, NoProtocol}
                                /\ \/ player'[x].stage = player[x].stage
                                   \/ player[x].stage = "online" /\ player'[x].stage = "removed",
           \A p \in Protocols : \/ P[p].player = proto[p].player
                                \/ /\ P[p].player = NoProtocol
                                   /\ \A x \in Protocols : player'[x].stage = "online" => player'[x].owner # p,
           pendingLogins' = pendingLogins, loads' = loads, connects' \subseteq connects
    PROVE  SessionInv'
<1>1. {} \in SUBSET (Protocols \X Protocols) /\ connects' \subseteq connects \cup {}
  OBVIOUS
<1> QED
  BY <1>1, QuietTurnKeepsInv

\* What the proofs of the actions take from the invariant about types and the queue.
LEMMA SessionFacts ==
    ASSUME SessionInv
    PROVE  /\ proto \in [Protocols -> ProtoRecord] /\ player \in [Protocols -> PlayerRecord]
           /\ loads \subseteq Protocols /\ connects \subseteq Protocols \X Protocols
           /\ tasks \in Seq(TaskRecord) /\ Once(tasks)
           /\ Rest = [proto |-> proto, tasks |-> Tail(tasks)]
           /\ Now = [proto |-> proto, tasks |-> tasks]
           /\ \A e \in Elems(tasks) : e \in TaskRecord /\ e.p \in Protocols /\ e.g \in Guids
           /\ Steps(tasks) \subseteq Elems(tasks)
<1>1. tasks \in Seq(TaskRecord)
  BY DEF SessionInv, SessionTypes
<1> QED
  BY <1>1, ElemsTyped DEF SessionInv, SessionTypes, OneStepEach, Rest, Now, Steps

\* What they take from it about the task at the head.
LEMMA HeadFacts ==
    ASSUME SessionInv, tasks # <<>>
    PROVE  /\ Head(tasks) \in Elems(tasks) /\ Head(tasks) \in TaskRecord
           /\ Head(tasks).p \in Protocols /\ Head(tasks).g \in Guids
           /\ Tail(tasks) \in Seq(TaskRecord) /\ Once(Tail(tasks))
           /\ Elems(Tail(tasks)) \subseteq Elems(tasks)
           /\ Steps(Tail(tasks)) = Steps(tasks) \ {Head(tasks)}
           /\ Head(tasks).op \in LoginOps => \A e \in Steps(Tail(tasks)) : e.p # Head(tasks).p
           /\ Head(tasks).op \notin LoginOps => Steps(Tail(tasks)) = Steps(tasks)
  BY SessionFacts, TailSteps

\* What Removed leaves of the players.
LEMMA RemovedFacts ==
    ASSUME player \in [Protocols -> PlayerRecord], NEW x \in Protocols
    PROVE  /\ Removed(x) \in [Protocols -> PlayerRecord]
           /\ \A y \in Protocols : /\ Removed(x)[y].guid = player[y].guid
                                   /\ Removed(x)[y].owner = player[y].owner
                                   /\ \/ Removed(x)[y].stage = player[y].stage
                                      \/ player[y].stage = "online" /\ Removed(x)[y].stage = "removed"
<1> DEFINE st == IF player[x].stage = "online" THEN "removed" ELSE player[x].stage
           r == [player[x] EXCEPT !.stage = st]
<1>1. st \in {"none", "loading", "online", "removed"} /\ (st = player[x].stage \/ (player[x].stage = "online" /\ st = "removed"))
  BY DEF PlayerRecord
<1>2. Removed(x) = [player EXCEPT ![x] = r]
  BY DEF Removed
<1> HIDE DEF st
<1>3. r \in PlayerRecord /\ r.guid = player[x].guid /\ r.owner = player[x].owner /\ r.stage = st
  BY <1>1 DEF PlayerRecord
<1> HIDE DEF r
<1> QED
  BY <1>1, <1>2, <1>3

\* A logout packet, a close and an expired connection (ProtocolGame::logout, Connection::close,
\* Protocol::release) keep the invariant.
LEMMA NetworkKeepsInv ==
    ASSUME SessionInv, NEW p \in Protocols, logoutPacket(p) \/ ConnectionCloses(p) \/ ConnectionExpires(p)
    PROVE  SessionInv'
<1> USE SessionFacts
<1>1. CASE ConnectionCloses(p)
  <2>1. Settles(proto, tasks) /\ UNCHANGED <<player, pendingLogins, loads, connects>>
    BY <1>1, GoesSettles DEF ConnectionCloses
  <2> QED
    BY <2>1, QuietKeepsInv
<1>2. CASE ConnectionExpires(p)
  <2> DEFINE P == [proto EXCEPT ![p].conn = "expired"]
  <2>1. /\ proto' = P /\ proto[p].conn = "closed" /\ UNCHANGED <<player, pendingLogins, tasks, loads, connects>>
    BY <1>2 DEF ConnectionExpires
  <2>2. /\ P \in [Protocols -> ProtoRecord] /\ P[p].conn = "expired"
        /\ \A q \in Protocols : P[q].player = proto[q].player /\ (q # p => P[q].conn = proto[q].conn)
    BY DEF ProtoRecord
  <2> HIDE DEF P
  <2>3. Settles(P, tasks)
    BY <2>1, <2>2 DEF Settles
  <2> QED
    BY <2>1, <2>2, <2>3, QuietKeepsInv
<1>3. CASE logoutPacket(p)
  <2> DEFINE e == Task("logout", p, CHOOSE g \in Guids : TRUE)
  <2>1. tasks' = Append(tasks, e) /\ UNCHANGED <<proto, player, pendingLogins, loads, connects>>
    BY <1>3 DEF logoutPacket
  <2>2. e \in TaskRecord /\ e.op = "logout" /\ e.op \notin LoginOps
    BY SessionConstants DEF Task, TaskRecord, LoginOps, EndOps
  <2> HIDE DEF e
  <2>3. /\ tasks' \in Seq(TaskRecord) /\ Once(tasks') /\ Steps(tasks') = Steps(tasks)
        /\ Elems(tasks') = Elems(tasks) \cup {e}
    BY <2>1, <2>2, AppendSteps
  <2>4. Settles(proto, tasks')
    BY <2>1, <2>3 DEF Settles
  <2>5. \A f \in Elems(tasks') : f.op = "release" => f \in Elems(tasks)
    BY <2>2, <2>3
  <2> QED
    BY <2>1, <2>3, <2>4, <2>5, QuietKeepsInv
<1> QED
  BY <1>1, <1>2, <1>3

\* A client takes over the player x.
LEMMA TakeOverKeepsInv ==
    ASSUME SessionInv, NEW p \in Protocols, NEW x \in Online, NEW P \in [Protocols -> ProtoRecord],
           NEW T \in Seq(TaskRecord), Settles(P, T),
           Steps(T) \subseteq Steps(tasks), \A e \in Steps(tasks) : e.op \in EndOps => e \in Steps(T),
           \A e \in Elems(T) : e.op = "release" => e \in Elems(tasks),
           \A q \in Protocols : P[q].conn = proto[q].conn,
           P[p].player = x, \A q \in Protocols \ {p} : P[q].player = proto[q].player,
           player' = [player EXCEPT ![x].owner = p],
           pendingLogins' = pendingLogins, loads' = loads, connects' \subseteq connects,
           \/ \E e \in Steps(tasks) : e.op = "login" /\ e.p = p
           \/ \E c \in connects : c[1] = p,
           \A e \in Steps(T) : e.p # p, \A c \in connects' : c[1] # p
    PROVE  SessionInv'
<1> USE SessionFacts
<1>1. SessionTypes /\ OneStepEach /\ Reservations /\ OnlineOnce /\ OwnersPlay /\ Beginnings
  BY DEF SessionInv
<1>2. \A e \in Steps(tasks) : e.p \in Protocols
  OBVIOUS
<1>3. x \in Protocols /\ player[x].stage = "online"
  BY DEF Online
<1>4. /\ player' \in [Protocols -> PlayerRecord] /\ player'[x].owner = p
      /\ \A y \in Protocols : player'[y].guid = player[y].guid /\ player'[y].stage = player[y].stage
      /\ \A y \in Protocols \ {x} : player'[y].owner = player[y].owner
  BY <1>3 DEF PlayerRecord
<1>5. SessionTypes'
  BY <1>1, <1>4 DEF SessionTypes, Settles
<1>6. Steps(tasks') \subseteq Steps(tasks) /\ Once(tasks') /\ Steps(tasks') = Steps(T)
      /\ \A e \in Steps(tasks) : e.op \in EndOps => e \in Steps(tasks')
  BY DEF Settles
<1>7. \A q \in Protocols : proto[q].conn = "new" <=> proto'[q].conn = "new"
  BY DEF Settles, ProtoRecord
<1>8. OneStepEach'
  BY <1>1, <1>2, <1>6, <1>7 DEF OneStepEach
<1>9. p \notin loads /\ p \notin Flying /\ proto[p].conn # "new"
      /\ \A y \in Online : player[y].owner # p
  <2>1. p \notin loads /\ proto[p].conn # "new"
    BY <1>1 DEF OneStepEach
  <2>2. \A e \in Steps(tasks) : e.op \in EndOps => e.p # p
    <3>1. ASSUME NEW e \in Steps(tasks), e.op = "login", e.p = p, NEW f \in Steps(tasks), f.op \in EndOps, f.p = p
          PROVE FALSE
      BY <3>1, StepsAreOnce DEF EndOps
    <3> QED
      BY <1>1, <3>1 DEF OneStepEach
  <2>3. \A y \in Online : player[y].owner # p
    <3> SUFFICES ASSUME NEW y \in Online, player[y].owner = p PROVE FALSE
      OBVIOUS
    <3>1. p # NoProtocol
      BY SessionConstants
    <3> QED
      BY <1>1, <3>1 DEF OwnersPlay
  <2> QED
    BY <2>1, <2>2, <2>3 DEF Flying
<1>10. Flying' = Flying /\ Flying \subseteq Protocols
  BY <1>2, <1>6 DEF Flying
<1>11. \A q \in Protocols \ {p} : proto'[q].player = proto[q].player
  BY DEF Settles
<1>12. Reservations'
  <2>1. \A q \in Flying : Reserves(q)'
    <3>1. \A q \in Flying : Reserves(q) /\ q \in Protocols \ {p}
      BY <1>1, <1>9, <1>10 DEF Reservations
    <3> QED
      BY <1>4, <1>11, <3>1 DEF Reserves
  <2>2. /\ \A e \in Steps(tasks') : e.op = "login" => player'[e.p].stage = "none"
        /\ \A e \in Steps(tasks') : e.op \in EndOps => e.g = player'[e.p].guid
    BY <1>1, <1>2, <1>4, <1>6 DEF Reservations
  <2>3. /\ \A q, r \in Flying : player'[q].guid = player'[r].guid => q = r
        /\ \A g \in pendingLogins : \E q \in Flying : player'[q].guid = g
    BY <1>1, <1>4, <1>10 DEF Reservations
  <2> QED
    BY <1>10, <2>1, <2>2, <2>3 DEF Reservations
<1>13. Online' = Online /\ Online \subseteq Protocols
  BY <1>4 DEF Online
<1>14. OnlineOnce'
  BY <1>1, <1>4, <1>13 DEF OnlineOnce
<1>15. OwnersPlay'
  <2> SUFFICES ASSUME NEW y \in Online, player'[y].owner # NoProtocol
               PROVE  /\ proto'[player'[y].owner].player = y /\ player'[y].owner \notin loads
                      /\ \A e \in Steps(tasks') : e.p # player'[y].owner
                      /\ \A c \in connects' : c[1] # player'[y].owner
    BY <1>13 DEF OwnersPlay
  <2>1. CASE y = x
    <3>1. player'[y].owner = p /\ proto'[p].player = x
      BY <1>4, <2>1 DEF Settles
    <3> QED
      BY <1>6, <1>9, <2>1, <3>1
  <2>2. CASE y # x
    <3>1. player'[y].owner = player[y].owner /\ player[y].owner # p /\ player[y].owner \in Protocols
      BY <1>4, <1>9, <1>13, <2>2 DEF PlayerRecord
    <3> QED
      BY <1>1, <1>6, <1>11, <3>1 DEF OwnersPlay
  <2> QED
    BY <2>1, <2>2
<1>16. Beginnings'
  <2>1. \A y \in Protocols : /\ player'[y].stage = "none" => player'[y].owner = NoProtocol
                             /\ player'[y].stage = "loading" => player'[y].owner \in {y, NoProtocol}
                             /\ proto'[y].conn = "new" => player'[y].stage = "none" /\ proto'[y].player = NoProtocol
    <3>1. \A y \in Protocols : /\ player[y].stage = "none" => player[y].owner = NoProtocol
                               /\ player[y].stage = "loading" => player[y].owner \in {y, NoProtocol}
                               /\ proto[y].conn = "new" => player[y].stage = "none" /\ proto[y].player = NoProtocol
      BY <1>1 DEF Beginnings
    <3>2. player'[x].stage = "online" /\ proto[x].conn # "new" /\ proto'[x].conn # "new"
      BY <1>3, <1>4, <1>7, <3>1
    <3>3. proto'[p].conn # "new"
      BY <1>7, <1>9
    <3> QED
      BY <1>4, <1>7, <1>11, <3>1, <3>2, <3>3
  <2>2. \A e \in Elems(tasks') : e.op = "release" => proto'[e.p].conn \in {"closed", "expired"}
    BY <1>1 DEF Settles, Beginnings, ProtoRecord
  <2> QED
    BY <2>1, <2>2 DEF Beginnings
<1> QED
  BY <1>5, <1>8, <1>12, <1>14, <1>15, <1>16 DEF SessionInv

\* What Connect may do: nothing but closing, or giving x to p.
LEMMA ConnectCases ==
    ASSUME SessionInv, NEW p \in Protocols, NEW x \in Protocols, NEW T \in Seq(TaskRecord), Once(T),
           NEW r, r = [proto |-> proto, tasks |-> T], Connect(r, p, x)
    PROVE  \/ Settles(proto, T) /\ player' = player
           \/ \E P \in [Protocols -> ProtoRecord] :
                 /\ x \in Online /\ Settles(P, T) /\ \A q \in Protocols : P[q].conn = proto[q].conn
                 /\ P[p].player = x /\ \A q \in Protocols \ {p} : P[q].player = proto[q].player
                 /\ player[x].owner = NoProtocol
                 /\ player' = [player EXCEPT ![x].owner = p]
<1> USE SessionFacts
<1>1. CASE x \notin Online \/ player[x].owner # NoProtocol
  BY <1>1, GoesSettles DEF Connect
<1>2. CASE ~(x \notin Online \/ player[x].owner # NoProtocol) /\ proto[p].conn = "expired"
  BY <1>2, GoesSettles DEF Connect
<1>3. CASE ~(x \notin Online \/ player[x].owner # NoProtocol) /\ proto[p].conn # "expired"
  <2> DEFINE n == [proto[p] EXCEPT !.player = x, !.acceptPackets = TRUE]
             P == [proto EXCEPT ![p] = n]
             s == [proto |-> P, tasks |-> T]
  <2>1. /\ Goes([r EXCEPT !.proto[p].player = x, !.proto[p].acceptPackets = TRUE])
        /\ player' = [player EXCEPT ![x].owner = p] /\ x \in Online /\ player[x].owner = NoProtocol
    BY <1>3 DEF Connect
  <2>2. proto' = P /\ tasks' = T
    <3>1. [r EXCEPT !.proto[p].player = x, !.proto[p].acceptPackets = TRUE].proto = P
      <4>1. r.proto = proto /\ r.proto[p] = proto[p]
        OBVIOUS
      <4> QED
        BY <4>1
    <3>2. [r EXCEPT !.proto[p].player = x, !.proto[p].acceptPackets = TRUE].tasks = T
      OBVIOUS
    <3> QED
      BY <2>1, <3>1, <3>2 DEF Goes
  <2>3. n \in ProtoRecord /\ n.conn = proto[p].conn /\ n.player = x
    <3>1. proto[p] \in ProtoRecord
      OBVIOUS
    <3> QED
      BY <3>1 DEF ProtoRecord
  <2> HIDE DEF n
  <2>4. /\ P \in [Protocols -> ProtoRecord] /\ \A q \in Protocols : P[q].conn = proto[q].conn
        /\ P[p].player = x /\ \A q \in Protocols \ {p} : P[q].player = proto[q].player
    BY <2>3
  <2>5. Settles(P, T)
    <3>1. Goes(s)
      BY <2>2 DEF Goes
    <3> HIDE DEF P
    <3> QED
      BY <2>4, <3>1, GoesSettles
  <2> HIDE DEF P
  <2> QED
    BY <2>1, <2>4, <2>5
<1> QED
  BY <1>1, <1>2, <1>3

\* ProtocolGame::connect, the delayed takeover of a player in the world, keeps the invariant.
LEMMA ConnectKeepsInv == SessionInv /\ connect => SessionInv'
<1> SUFFICES ASSUME SessionInv, connect PROVE SessionInv'
  OBVIOUS
<1> USE SessionFacts
<1>1. PICK c \in connects : connects' = connects \ {c} /\ Connect(Now, c[1], c[2]) /\ UNCHANGED <<pendingLogins, loads>>
  BY DEF connect
<1>2. c[1] \in Protocols /\ c[2] \in Protocols
  OBVIOUS
<1>3. \A d \in connects' : d[1] # c[1]
  BY <1>1 DEF SessionInv, OneStepEach
<1>4. \A e \in Steps(tasks) : e.p # c[1]
  BY DEF SessionInv, OneStepEach
<1>5. CASE Settles(proto, tasks) /\ player' = player
  BY <1>1, <1>5, QuietKeepsInv
<1>6. ASSUME NEW P \in [Protocols -> ProtoRecord], c[2] \in Online, Settles(P, tasks),
             \A q \in Protocols : P[q].conn = proto[q].conn,
             P[c[1]].player = c[2], \A q \in Protocols \ {c[1]} : P[q].player = proto[q].player,
             player[c[2]].owner = NoProtocol, player' = [player EXCEPT ![c[2]].owner = c[1]]
      PROVE  SessionInv'
  BY <1>1, <1>2, <1>3, <1>4, <1>6, TakeOverKeepsInv
<1>7. \/ Settles(proto, tasks) /\ player' = player
      \/ \E P \in [Protocols -> ProtoRecord] :
            /\ c[2] \in Online /\ Settles(P, tasks) /\ \A q \in Protocols : P[q].conn = proto[q].conn
            /\ P[c[1]].player = c[2] /\ \A q \in Protocols \ {c[1]} : P[q].player = proto[q].player
            /\ player[c[2]].owner = NoProtocol
            /\ player' = [player EXCEPT ![c[2]].owner = c[1]]
  <2> DEFINE a == c[1]
             b == c[2]
             r == Now
  <2>1. a \in Protocols /\ b \in Protocols /\ Connect(r, a, b) /\ r = [proto |-> proto, tasks |-> tasks]
    BY <1>1, <1>2
  <2> HIDE DEF a, b, r
  <2>2. \/ Settles(proto, tasks) /\ player' = player
        \/ \E P \in [Protocols -> ProtoRecord] :
              /\ b \in Online /\ Settles(P, tasks) /\ \A q \in Protocols : P[q].conn = proto[q].conn
              /\ P[a].player = b /\ \A q \in Protocols \ {a} : P[q].player = proto[q].player
              /\ player[b].owner = NoProtocol
              /\ player' = [player EXCEPT ![b].owner = a]
    BY <2>1, ConnectCases
  <2> QED
    BY <2>2 DEF a, b
<1> QED
  BY <1>5, <1>6, <1>7

\* A login of a character that is in the world keeps the invariant: the player is taken over or the
\* client is told to wait.
LEMMA LoginOnlineKeepsInv == SessionInv /\ loginOnline => SessionInv'
<1> SUFFICES ASSUME SessionInv, loginOnline PROVE SessionInv'
  OBVIOUS
<1> USE SessionFacts
<1> DEFINE h == Head(tasks)
           p == h.p
           T == Tail(tasks)
<1>1. /\ tasks # <<>> /\ h.op = "login" /\ pendingLogins' = pendingLogins /\ loads' = loads
  BY DEF loginOnline, Runs
<1>2. PICK x \in OnlineAs(h.g) :
        \/ /\ Goes(Disconnected(Rest, p)) /\ UNCHANGED <<player, connects>>
        \/ /\ player[x].owner # NoProtocol
           /\ Goes(Disconnected(Rest, player[x].owner))
           /\ player' = [player EXCEPT ![x].owner = NoProtocol]
           /\ connects' = connects \cup {<<p, x>>}
        \/ /\ player[x].owner = NoProtocol
           /\ Connect(Rest, p, x)
           /\ UNCHANGED connects
  BY DEF loginOnline
<1>3. /\ h \in Elems(tasks) /\ p \in Protocols /\ T \in Seq(TaskRecord) /\ Once(T)
      /\ Elems(T) \subseteq Elems(tasks) /\ Steps(T) = Steps(tasks) \ {h}
      /\ \A e \in Steps(T) : e.p # p
      /\ h \in Steps(tasks)
  <2>1. h.op \in LoginOps
    BY <1>1 DEF LoginOps
  <2> QED
    BY <1>1, <2>1, HeadFacts DEF Steps
<1>4. x \in Online /\ x \in Protocols
  BY DEF OnlineAs, Online
<1>5. \A e \in Steps(tasks) : e.op \in EndOps => e \in Steps(T)
  BY <1>1, <1>3 DEF EndOps
<1>6. \A c \in connects : c[1] # p
  BY <1>3 DEF SessionInv, OneStepEach
<1>7. Rest = [proto |-> proto, tasks |-> T]
  OBVIOUS
<1> HIDE DEF T, h
<1>8. CASE Goes(Disconnected(Rest, p)) /\ UNCHANGED <<player, connects>>
  <2>1. Settles(proto, T)
    BY <1>3, <1>7, <1>8, GoesSettles
  <2> QED
    BY <1>1, <1>3, <1>5, <1>8, <2>1, QuietKeepsInv
<1>9. CASE /\ player[x].owner # NoProtocol /\ Goes(Disconnected(Rest, player[x].owner))
           /\ player' = [player EXCEPT ![x].owner = NoProtocol]
           /\ connects' = connects \cup {<<p, x>>}
  <2>1. player[x].owner \in Protocols
    BY <1>4, <1>9 DEF PlayerRecord
  <2>2. Settles(proto, T)
    BY <1>3, <1>7, <1>9, <2>1, GoesSettles
  <2>3. /\ player' \in [Protocols -> PlayerRecord]
        /\ \A y \in Protocols : /\ player'[y].guid = player[y].guid /\ player'[y].stage = player[y].stage
                                /\ player'[y].owner \in {player[y].owner, NoProtocol}
    BY <1>4, <1>9 DEF PlayerRecord
  <2> DEFINE new == {<<p, x>>}
  <2>4. /\ new \in SUBSET (Protocols \X Protocols) /\ \A c, d \in new : c = d
        /\ \A c \in new : c[1] = p
    BY <1>3, <1>4
  <2>5. connects' \subseteq connects \cup new
    BY <1>9
  <2>6. \A c \in new : /\ \E e \in Steps(tasks) : e.op = "login" /\ e.p = c[1]
                       /\ \A e \in Steps(T) : e.p # c[1]
    BY <1>1, <1>3, <2>4
  <2> HIDE DEF new
  <2>7. /\ Steps(T) \subseteq Steps(tasks)
        /\ \A e \in Elems(T) : e.op = "release" => e \in Elems(tasks)
    BY <1>3
  <2>8. \A y \in Protocols : /\ player'[y].guid = player[y].guid
                             /\ player'[y].owner \in {player[y].owner, NoProtocol}
                             /\ \/ player'[y].stage = player[y].stage
                                \/ player[y].stage = "online" /\ player'[y].stage = "removed"
    BY <2>3
  <2>9. /\ \A q \in Protocols : proto[q].conn = proto[q].conn \/ (proto[q].conn = "closed" /\ proto[q].conn = "expired")
        /\ \A q \in Protocols : \/ proto[q].player = proto[q].player
                                \/ /\ proto[q].player = NoProtocol
                                   /\ \A y \in Protocols : player'[y].stage = "online" => player'[y].owner # q
    OBVIOUS
  <2>10. proto \in [Protocols -> ProtoRecord] /\ T \in Seq(TaskRecord) /\ pendingLogins' = pendingLogins /\ loads' = loads
    BY <1>1, <1>3
  <2>11. player' \in [Protocols -> PlayerRecord]
    BY <2>3
  <2> HIDE SessionFacts
  <2> QED
    BY <1>5, <2>2, <2>4, <2>5, <2>6, <2>7, <2>8, <2>9, <2>10, <2>11, QuietTurnKeepsInv
<1>10. CASE Connect(Rest, p, x) /\ UNCHANGED connects
  <2>1. \/ Settles(proto, T) /\ player' = player
        \/ \E P \in [Protocols -> ProtoRecord] :
              /\ x \in Online /\ Settles(P, T) /\ \A q \in Protocols : P[q].conn = proto[q].conn
              /\ P[p].player = x /\ \A q \in Protocols \ {p} : P[q].player = proto[q].player
              /\ player[x].owner = NoProtocol
              /\ player' = [player EXCEPT ![x].owner = p]
    BY <1>3, <1>4, <1>7, <1>10, ConnectCases
  <2>2. CASE Settles(proto, T) /\ player' = player
    BY <1>1, <1>3, <1>5, <1>10, <2>2, QuietKeepsInv
  <2>3. ASSUME NEW P \in [Protocols -> ProtoRecord], Settles(P, T),
               \A q \in Protocols : P[q].conn = proto[q].conn,
               P[p].player = x, \A q \in Protocols \ {p} : P[q].player = proto[q].player,
               player' = [player EXCEPT ![x].owner = p]
        PROVE  SessionInv'
    BY <1>1, <1>3, <1>4, <1>5, <1>6, <1>10, <2>3, TakeOverKeepsInv
  <2> QED
    BY <2>1, <2>2, <2>3
<1> QED
  BY <1>2, <1>8, <1>9, <1>10

\* ProtocolGame::release keeps the invariant: the player loses its client only if it is still that
\* client's.
LEMMA ReleaseKeepsInv == SessionInv /\ release => SessionInv'
<1> SUFFICES ASSUME SessionInv, release PROVE SessionInv'
  OBVIOUS
<1> USE SessionFacts
<1> DEFINE p == Head(tasks).p
           x == proto[p].player
           T == Tail(tasks)
           n == [proto[p] EXCEPT !.player = NoProtocol]
           P == [proto EXCEPT ![p] = n]
<1>1. /\ tasks # <<>> /\ Head(tasks).op = "release"
      /\ UNCHANGED <<pendingLogins, loads, connects>>
      /\ player' = IF x = NoProtocol THEN player ELSE [player EXCEPT ![x].owner = OwnerAfterRelease(p, x)]
      /\ Goes([Rest EXCEPT !.proto[p].player = NoProtocol])
  BY DEF release, Runs
<1>2. /\ p \in Protocols /\ T \in Seq(TaskRecord) /\ Once(T)
      /\ Elems(T) \subseteq Elems(tasks) /\ Steps(T) = Steps(tasks)
  <2>1. Head(tasks).op \notin LoginOps
    BY <1>1 DEF LoginOps, EndOps
  <2> QED
    BY <1>1, <2>1, HeadFacts
<1> HIDE DEF p
<1>3. proto' = P /\ tasks' = T
  <2>1. Rest.proto = proto /\ Rest.tasks = T
    OBVIOUS
  <2>2. [Rest EXCEPT !.proto[p].player = NoProtocol].proto = P
    BY <2>1
  <2>3. [Rest EXCEPT !.proto[p].player = NoProtocol].tasks = T
    BY <2>1
  <2> QED
    BY <1>1, <2>2, <2>3 DEF Goes
<1>4. n \in ProtoRecord /\ n.conn = proto[p].conn /\ n.player = NoProtocol
  <2>1. proto[p] \in ProtoRecord
    BY <1>2
  <2> QED
    BY <2>1 DEF ProtoRecord
<1> HIDE DEF n, T
<1>5. /\ P \in [Protocols -> ProtoRecord] /\ P[p].player = NoProtocol
      /\ \A q \in Protocols : P[q].conn = proto[q].conn
      /\ \A q \in Protocols \ {p} : P[q].player = proto[q].player
  BY <1>2, <1>4
<1> HIDE DEF P
<1>6. Settles(P, T)
  <2> DEFINE r == [proto |-> P, tasks |-> T]
  <2>1. Goes(r)
    BY <1>3 DEF Goes
  <2> HIDE DEF r
  <2> QED
    BY <1>2, <1>5, <2>1, GoesSettles DEF r
<1>7. /\ player' \in [Protocols -> PlayerRecord]
      /\ \A y \in Protocols : /\ player'[y].guid = player[y].guid /\ player'[y].stage = player[y].stage
                              /\ player'[y].owner \in {player[y].owner, NoProtocol}
                              /\ y = x => player'[y].owner # p
  <2>1. p # NoProtocol /\ x \in Protocols \cup {NoProtocol}
    BY <1>2, SessionConstants DEF ProtoRecord
  <2>2. CASE x = NoProtocol
    BY <1>1, <2>1, <2>2, SessionConstants
  <2>3. CASE x \in Protocols
    <3> DEFINE o == OwnerAfterRelease(p, x)
    <3>1. o \in {player[x].owner, NoProtocol} /\ o # p
      BY <2>1 DEF OwnerAfterRelease
    <3>2. player' = [player EXCEPT ![x].owner = o]
      BY <1>1, <2>3, SessionConstants
    <3> HIDE DEF o, x
    <3> QED
      BY <2>3, <3>1, <3>2 DEF PlayerRecord
  <2> QED
    BY <2>1, <2>2, <2>3
<1>8. \A y \in Protocols : player'[y].stage = "online" => player'[y].owner # p
  <2> SUFFICES ASSUME NEW y \in Protocols, player'[y].stage = "online", player'[y].owner = p PROVE FALSE
    OBVIOUS
  <2>1. y \in Online /\ player[y].owner = p /\ p # NoProtocol
    BY <1>2, <1>7, SessionConstants DEF Online
  <2>2. proto[p].player = y
    BY <2>1 DEF SessionInv, OwnersPlay
  <2> QED
    BY <1>7, <2>2
<1>9. /\ Steps(T) \subseteq Steps(tasks) /\ \A e \in Steps(tasks) : e.op \in EndOps => e \in Steps(T)
      /\ \A e \in Elems(T) : e.op = "release" => e \in Elems(tasks)
  BY <1>2
<1>10. \A q \in Protocols : P[q].conn = proto[q].conn \/ (proto[q].conn = "closed" /\ P[q].conn = "expired")
  BY <1>5
<1>11. /\ player' \in [Protocols -> PlayerRecord]
       /\ \A y \in Protocols : /\ player'[y].guid = player[y].guid
                               /\ player'[y].owner \in {player[y].owner, NoProtocol}
                               /\ \/ player'[y].stage = player[y].stage
                                  \/ player[y].stage = "online" /\ player'[y].stage = "removed"
  BY <1>7
<1>12. \A q \in Protocols : \/ P[q].player = proto[q].player
                           \/ /\ P[q].player = NoProtocol
                              /\ \A y \in Protocols : player'[y].stage = "online" => player'[y].owner # q
  BY <1>5, <1>8
<1>13. pendingLogins' = pendingLogins /\ loads' = loads /\ connects' \subseteq connects
  BY <1>1
<1>14. P \in [Protocols -> ProtoRecord] /\ T \in Seq(TaskRecord)
  BY <1>2, <1>5
<1> HIDE SessionFacts
<1> QED
  BY <1>6, <1>9, <1>10, <1>11, <1>12, <1>13, <1>14, QuietKeepsInv

\* ProtocolGame::logout and Game::kickPlayer keep the invariant.
LEMMA LogoutKeepsInv ==
    ASSUME SessionInv, logout \/ \E x \in Protocols : kickPlayer(x)
    PROVE  SessionInv'
<1> USE SessionFacts
<1>1. CASE logout
  <2> DEFINE p == Head(tasks).p
             x == proto[p].player
             T == Tail(tasks)
  <2>1. /\ tasks # <<>> /\ Head(tasks).op = "logout" /\ UNCHANGED <<pendingLogins, loads, connects>>
        /\ \/ Goes(Rest) /\ UNCHANGED player
           \/ x # NoProtocol /\ Goes(Disconnected(Rest, p)) /\ player' = Removed(x)
    BY <1>1 DEF logout, Runs
  <2>2. /\ p \in Protocols /\ T \in Seq(TaskRecord) /\ Once(T)
        /\ Elems(T) \subseteq Elems(tasks) /\ Steps(T) = Steps(tasks)
    <3>1. Head(tasks).op \notin LoginOps
      BY <2>1 DEF LoginOps, EndOps
    <3> QED
      BY <2>1, <3>1, HeadFacts
  <2>3. Rest = [proto |-> proto, tasks |-> T] /\ x \in Protocols \cup {NoProtocol}
    BY <2>2 DEF ProtoRecord
  <2> HIDE DEF p, x, T
  <2>4. Settles(proto, T)
    BY <2>1, <2>2, <2>3, GoesSettles
  <2>5. CASE player' = player
    BY <2>1, <2>2, <2>4, <2>5, QuietKeepsInv
  <2>6. CASE x \in Protocols /\ player' = Removed(x)
    <3>1. /\ player' \in [Protocols -> PlayerRecord]
          /\ \A y \in Protocols : /\ player'[y].guid = player[y].guid
                                  /\ player'[y].owner \in {player[y].owner, NoProtocol}
                                  /\ \/ player'[y].stage = player[y].stage
                                     \/ player[y].stage = "online" /\ player'[y].stage = "removed"
      BY <2>6, RemovedFacts
    <3>2. /\ Steps(T) \subseteq Steps(tasks) /\ \A e \in Steps(tasks) : e.op \in EndOps => e \in Steps(T)
          /\ \A e \in Elems(T) : e.op = "release" => e \in Elems(tasks)
      BY <2>2
    <3>3. pendingLogins' = pendingLogins /\ loads' = loads /\ connects' \subseteq connects
      BY <2>1
    <3> QED
      BY <2>2, <2>4, <3>1, <3>2, <3>3, QuietKeepsInv
  <2> QED
    BY <2>1, <2>3, <2>5, <2>6
<1>2. ASSUME NEW x \in Protocols, kickPlayer(x) PROVE SessionInv'
  <2>1. /\ Goes(IF player[x].owner = NoProtocol THEN Now ELSE Disconnected(Now, player[x].owner))
        /\ player' = Removed(x) /\ UNCHANGED <<pendingLogins, loads, connects>>
    BY <1>2 DEF kickPlayer
  <2>2. player[x].owner \in Protocols \cup {NoProtocol}
    BY DEF PlayerRecord
  <2>3. Settles(proto, tasks)
    BY <2>1, <2>2, GoesSettles
  <2>4. /\ player' \in [Protocols -> PlayerRecord]
        /\ \A y \in Protocols : /\ player'[y].guid = player[y].guid
                                /\ player'[y].owner \in {player[y].owner, NoProtocol}
                                /\ \/ player'[y].stage = player[y].stage
                                   \/ player[y].stage = "online" /\ player'[y].stage = "removed"
    BY <2>1, RemovedFacts
  <2>5. pendingLogins' = pendingLogins /\ loads' = loads /\ connects' \subseteq connects
    BY <2>1
  <2> QED
    BY <2>3, <2>4, <2>5, QuietKeepsInv
<1> QED
  BY <1>1, <1>2

\* The first message of a protocol.
LEMMA FirstMessageKeepsInv ==
    ASSUME SessionInv, NEW p \in Protocols, onRecvFirstMessage(p)
    PROVE  SessionInv'
<1> USE SessionFacts
<1>1. PICK g \in Guids : /\ proto[p].conn = "new" /\ proto' = [proto EXCEPT ![p].conn = "open"]
                         /\ tasks' = Append(tasks, Task("login", p, g))
                         /\ UNCHANGED <<player, pendingLogins, loads, connects>>
  BY DEF onRecvFirstMessage
<1>2. SessionTypes /\ OneStepEach /\ Reservations /\ OnlineOnce /\ OwnersPlay /\ Beginnings
  BY DEF SessionInv
<1> DEFINE e == Task("login", p, g)
<1>3. e \in TaskRecord /\ e.op = "login" /\ e.p = p /\ e.op \in LoginOps /\ e.op \notin EndOps
  BY DEF Task, TaskRecord, LoginOps, EndOps
<1> HIDE DEF e
<1>4. \A f \in Steps(tasks) : f.p # p
  BY <1>1, <1>2 DEF OneStepEach
<1>5. /\ tasks' \in Seq(TaskRecord) /\ Once(tasks') /\ Steps(tasks') = Steps(tasks) \cup {e}
      /\ Elems(tasks') = Elems(tasks) \cup {e}
  BY <1>1, <1>3, <1>4, AppendSteps DEF e
<1>6. /\ proto' \in [Protocols -> ProtoRecord] /\ proto'[p].conn = "open"
      /\ \A q \in Protocols : proto'[q].player = proto[q].player /\ (q # p => proto'[q].conn = proto[q].conn)
  BY <1>1 DEF ProtoRecord
<1>7. /\ p \notin loads /\ \A c \in connects : c[1] # p
  BY <1>1, <1>2 DEF OneStepEach
<1>8. \A f \in Steps(tasks) : f.p \in Protocols
  OBVIOUS
<1>9. SessionTypes'
  BY <1>1, <1>2, <1>5, <1>6 DEF SessionTypes
<1>10. OneStepEach'
  <2>1. \A f \in Steps(tasks') : /\ f.p \notin loads /\ proto'[f.p].conn # "new"
                                 /\ \A c \in connects : c[1] # f.p
    BY <1>2, <1>3, <1>5, <1>6, <1>7, <1>8 DEF OneStepEach
  <2>2. /\ \A q \in loads : proto'[q].conn # "new" /\ \A c \in connects : c[1] # q
        /\ \A c, d \in connects : c[1] = d[1] => c = d
        /\ \A c \in connects : proto'[c[1]].conn # "new"
    BY <1>2, <1>6 DEF OneStepEach
  <2> QED
    BY <1>1, <1>5, <2>1, <2>2 DEF OneStepEach
<1>11. Flying' = Flying /\ Flying \subseteq Protocols
  BY <1>1, <1>3, <1>5, <1>8 DEF Flying
<1>12. Reservations'
  <2>1. \A q \in Flying : Reserves(q)'
    BY <1>1, <1>2, <1>6, <1>11 DEF Reservations, Reserves
  <2>2. player[p].stage = "none"
    BY <1>1, <1>2 DEF Beginnings
  <2>3. /\ \A f \in Steps(tasks') : f.op = "login" => player[f.p].stage = "none"
        /\ \A f \in Steps(tasks') : f.op \in EndOps => f.g = player[f.p].guid
    BY <1>2, <1>3, <1>5, <2>2 DEF Reservations
  <2> QED
    BY <1>1, <1>2, <1>11, <2>1, <2>3 DEF Reservations
<1>13. Online' = Online /\ Online \subseteq Protocols
  BY <1>1 DEF Online
<1>14. OnlineOnce'
  BY <1>1, <1>2, <1>13 DEF OnlineOnce
<1>15. OwnersPlay'
  <2> SUFFICES ASSUME NEW x \in Online, player[x].owner # NoProtocol
               PROVE  /\ proto'[player[x].owner].player = x /\ player[x].owner \notin loads
                      /\ \A f \in Steps(tasks') : f.p # player[x].owner
                      /\ \A c \in connects : c[1] # player[x].owner
    BY <1>1, <1>13 DEF OwnersPlay
  <2>1. x \in Protocols /\ x # NoProtocol /\ player[x].owner \in Protocols
    BY <1>13, SessionConstants DEF PlayerRecord
  <2>2. proto[p].player = NoProtocol
    BY <1>1, <1>2 DEF Beginnings
  <2>3. player[x].owner # p
    BY <1>2, <2>1, <2>2 DEF OwnersPlay
  <2> QED
    BY <1>2, <1>3, <1>5, <1>6, <2>1, <2>3 DEF OwnersPlay
<1>16. Beginnings'
  <2>1. \A f \in Elems(tasks') : f.op = "release" => proto'[f.p].conn \in {"closed", "expired"}
    BY <1>1, <1>2, <1>3, <1>5, <1>6 DEF Beginnings
  <2> QED
    BY <1>1, <1>2, <1>6, <2>1 DEF Beginnings
<1> QED
  BY <1>9, <1>10, <1>12, <1>14, <1>15, <1>16 DEF SessionInv

\* A worker ends its load: the login goes on in a task.
LEMMA WorkerKeepsInv ==
    ASSUME SessionInv, NEW p \in Protocols, WorkerEnds(p)
    PROVE  SessionInv'
<1> USE SessionFacts
<1>1. PICK op \in EndOps : /\ p \in loads /\ loads' = loads \ {p}
                           /\ tasks' = Append(tasks, Task(op, p, player[p].guid))
                           /\ UNCHANGED <<proto, player, pendingLogins, connects>>
  BY DEF WorkerEnds, EndOps
<1>2. SessionTypes /\ OneStepEach /\ Reservations /\ OnlineOnce /\ OwnersPlay /\ Beginnings
  BY DEF SessionInv
<1> DEFINE e == Task(op, p, player[p].guid)
<1>3. /\ e \in TaskRecord /\ e.op \in EndOps /\ e.p = p /\ e.g = player[p].guid
      /\ e.op \in LoginOps /\ e.op # "login" /\ e.op # "release"
  <2>1. player[p].guid \in Guids
    BY DEF PlayerRecord
  <2> QED
    BY <2>1 DEF Task, TaskRecord, LoginOps, EndOps
<1> HIDE DEF e
<1>4. \A f \in Steps(tasks) : f.p # p
  BY <1>1, <1>2 DEF OneStepEach
<1>5. /\ tasks' \in Seq(TaskRecord) /\ Once(tasks') /\ Steps(tasks') = Steps(tasks) \cup {e}
      /\ Elems(tasks') = Elems(tasks) \cup {e}
  BY <1>1, <1>3, <1>4, AppendSteps DEF e
<1>6. proto[p].conn # "new" /\ \A c \in connects : c[1] # p
  BY <1>1, <1>2 DEF OneStepEach
<1>7. SessionTypes'
  BY <1>1, <1>2, <1>5 DEF SessionTypes
<1>8. OneStepEach'
  <2>1. \A f \in Steps(tasks') : /\ f.p \notin loads' /\ proto[f.p].conn # "new"
                                 /\ \A c \in connects : c[1] # f.p
    BY <1>1, <1>2, <1>3, <1>5, <1>6 DEF OneStepEach
  <2> QED
    BY <1>1, <1>2, <1>5, <2>1 DEF OneStepEach
<1>9. Flying' = Flying
  <2>1. {f \in Steps(tasks') : f.op \in EndOps} = {f \in Steps(tasks) : f.op \in EndOps} \cup {e}
    BY <1>3, <1>5
  <2> QED
    BY <1>1, <1>3, <2>1 DEF Flying
<1>10. Reservations'
  <2>1. \A q \in Flying : Reserves(q)'
    BY <1>1, <1>2 DEF Reservations, Reserves
  <2>2. /\ \A f \in Steps(tasks') : f.op = "login" => player[f.p].stage = "none"
        /\ \A f \in Steps(tasks') : f.op \in EndOps => f.g = player[f.p].guid
    BY <1>2, <1>3, <1>5 DEF Reservations
  <2> QED
    BY <1>1, <1>2, <1>9, <2>1, <2>2 DEF Reservations
<1>11. Online' = Online
  BY <1>1 DEF Online
<1>12. OnlineOnce'
  BY <1>1, <1>2, <1>11 DEF OnlineOnce
<1>13. OwnersPlay'
  <2>1. \A x \in Online : player[x].owner # NoProtocol => player[x].owner # p
    BY <1>1, <1>2 DEF OwnersPlay
  <2> QED
    BY <1>1, <1>2, <1>3, <1>5, <1>11, <2>1 DEF OwnersPlay
<1>14. Beginnings'
  BY <1>1, <1>2, <1>3, <1>5 DEF Beginnings
<1> QED
  BY <1>7, <1>8, <1>10, <1>12, <1>13, <1>14 DEF SessionInv

\* The last task of a login gives its reservation back and perhaps puts the player into the world.
LEMMA EndKeepsInv ==
    ASSUME SessionInv, tasks # <<>>, Head(tasks).op \in EndOps, NEW p, p = Head(tasks).p,
           NEW P \in [Protocols -> ProtoRecord], Settles(P, Tail(tasks)),
           \A q \in Protocols : P[q].conn = proto[q].conn /\ P[q].player = proto[q].player,
           pendingLogins' = pendingLogins \ {Head(tasks).g}, loads' = loads, connects' = connects,
           player' \in [Protocols -> PlayerRecord], player'[p].guid = player[p].guid,
           \A y \in Protocols \ {p} : player'[y] = player[y],
           \/ player'[p] = player[p]
           \/ /\ proto[p].player # NoProtocol /\ player'[p].owner = p
              /\ player'[p].stage \in {player[p].stage, "online"}
    PROVE  SessionInv'
<1> USE SessionFacts
<1> DEFINE h == Head(tasks)
           T == Tail(tasks)
<1>1. SessionTypes /\ OneStepEach /\ Reservations /\ OnlineOnce /\ OwnersPlay /\ Beginnings
  BY DEF SessionInv
<1>2. /\ h \in Steps(tasks) /\ p \in Protocols /\ T \in Seq(TaskRecord) /\ Once(T)
      /\ Elems(T) \subseteq Elems(tasks) /\ Steps(T) = Steps(tasks) \ {h}
      /\ \A e \in Steps(T) : e.p # p
  <2>1. h.op \in LoginOps
    BY DEF LoginOps
  <2> QED
    BY <2>1, HeadFacts DEF Steps
<1> DEFINE g == h.g
<1>3. p \in Flying /\ g = player[p].guid
  BY <1>1, <1>2 DEF Flying, Reservations
<1>4. Settles(P, T) /\ pendingLogins' = pendingLogins \ {g} /\ p = h.p /\ h.op \in EndOps
  OBVIOUS
<1> HIDE DEF h, T, g
<1>5. /\ player[p].stage = "loading" /\ g \in pendingLogins /\ proto[p].player \in {p, NoProtocol}
  BY <1>1, <1>3 DEF Reservations, Reserves
<1>6. p \notin loads /\ proto[p].conn # "new" /\ \A c \in connects : c[1] # p
  BY <1>1, <1>2, <1>4 DEF OneStepEach
<1>7. \A e \in Steps(tasks) : e.p \in Protocols
  OBVIOUS
<1>8. /\ Steps(tasks') \subseteq Steps(tasks) /\ Once(tasks') /\ \A e \in Steps(tasks') : e.p # p
      /\ Steps(tasks') = Steps(tasks) \ {h}
  BY <1>2, <1>4 DEF Settles
<1>9. \A q \in Protocols : /\ proto[q].conn # "new" <=> proto'[q].conn # "new"
                           /\ proto'[q].player = proto[q].player
  BY <1>4 DEF Settles, ProtoRecord
<1>10. SessionTypes'
  BY <1>1, <1>4 DEF SessionTypes, Settles
<1>11. OneStepEach'
  BY <1>1, <1>7, <1>8, <1>9 DEF OneStepEach
<1>12. Flying' = Flying \ {p} /\ Flying \subseteq Protocols
  <2>1. \A e \in Steps(tasks) : e.p = p => e = h
    BY <1>2, <1>4, StepsAreOnce
  <2> QED
    BY <1>4, <1>6, <1>7, <1>8, <2>1 DEF Flying
<1>13. \A q \in Flying \ {p} : player[q].guid # g
  BY <1>1, <1>3 DEF Reservations
<1>14. Reservations'
  <2>1. \A q \in Flying' : Reserves(q)'
    BY <1>1, <1>4, <1>9, <1>12, <1>13 DEF Reservations, Reserves
  <2>2. /\ \A e \in Steps(tasks') : e.op = "login" => player'[e.p].stage = "none"
        /\ \A e \in Steps(tasks') : e.op \in EndOps => e.g = player'[e.p].guid
    BY <1>1, <1>7, <1>8 DEF Reservations
  <2>3. \A q, r \in Flying' : player'[q].guid = player'[r].guid => q = r
    BY <1>1, <1>12 DEF Reservations
  <2>4. ASSUME NEW k \in pendingLogins' PROVE \E q \in Flying' : player'[q].guid = k
    <3>1. PICK q \in Flying : player[q].guid = k
      BY <1>1 DEF Reservations
    <3>2. q # p
      BY <1>3, <1>4, <3>1
    <3> QED
      BY <1>12, <3>1, <3>2
  <2> QED
    BY <2>1, <2>2, <2>3, <2>4 DEF Reservations
<1>15. /\ Online \subseteq Protocols \ {p} /\ Online' \subseteq Online \cup {p}
       /\ \A x \in Online : x \in Online'
       /\ p \in Online' => player'[p].owner = p /\ proto[p].player = p
  BY <1>2, <1>5 DEF Online
<1>16. OnlineOnce'
  <2>1. /\ \A x \in Online : player[x].guid # g /\ player[x].guid \notin pendingLogins' /\ player'[x] = player[x]
        /\ g \notin pendingLogins' /\ player'[p].guid = g
    BY <1>1, <1>3, <1>4, <1>5, <1>15 DEF OnlineOnce
  <2> QED
    BY <1>1, <1>15, <2>1 DEF OnlineOnce
<1>17. OwnersPlay'
  <2> SUFFICES ASSUME NEW y \in Online', player'[y].owner # NoProtocol
               PROVE  /\ proto'[player'[y].owner].player = y /\ player'[y].owner \notin loads
                      /\ \A e \in Steps(tasks') : e.p # player'[y].owner
                      /\ \A c \in connects : c[1] # player'[y].owner
    BY DEF OwnersPlay
  <2>1. CASE y = p
    BY <1>2, <1>6, <1>8, <1>9, <1>15, <2>1
  <2>2. CASE y # p
    <3>1. y \in Online /\ player'[y].owner = player[y].owner /\ player[y].owner \in Protocols
      BY <1>15, <2>2 DEF PlayerRecord
    <3> QED
      BY <1>1, <1>8, <1>9, <3>1 DEF OwnersPlay
  <2> QED
    BY <2>1, <2>2
<1>18. Beginnings'
  <2>1. \A e \in Elems(tasks') : e.op = "release" => proto'[e.p].conn \in {"closed", "expired"}
    BY <1>1, <1>2, <1>4 DEF Settles, Beginnings, ProtoRecord
  <2>2. \A y \in Protocols \ {p} : /\ player'[y].stage = "none" => player'[y].owner = NoProtocol
                                   /\ player'[y].stage = "loading" => player'[y].owner \in {y, NoProtocol}
                                   /\ proto'[y].conn = "new" => player'[y].stage = "none" /\ proto'[y].player = NoProtocol
    BY <1>1, <1>9 DEF Beginnings
  <2>3. /\ player'[p].stage # "none" /\ (player'[p].stage = "loading" => player'[p].owner \in {p, NoProtocol})
        /\ proto'[p].conn # "new"
    BY <1>1, <1>2, <1>5, <1>6, <1>9 DEF Beginnings
  <2> QED
    BY <2>1, <2>2, <2>3 DEF Beginnings
<1> QED
  BY <1>10, <1>11, <1>14, <1>16, <1>17, <1>18 DEF SessionInv

\* The end of a login, with or without a loaded player, gives its reservation back and keeps the
\* invariant.
LEMMA EndingKeepsInv == SessionInv /\ (finishLogin \/ finishLoadFailed \/ giveUp) => SessionInv'
<1> SUFFICES ASSUME SessionInv, finishLogin \/ finishLoadFailed \/ giveUp PROVE SessionInv'
  OBVIOUS
<1> USE SessionFacts
<1> DEFINE p == Head(tasks).p
           T == Tail(tasks)
<1>1. /\ tasks # <<>> /\ Head(tasks).op \in EndOps
      /\ pendingLogins' = pendingLogins \ {Head(tasks).g} /\ loads' = loads /\ connects' = connects
  BY DEF finishLogin, finishLoadFailed, giveUp, Runs, EndOps, FinishLost
<1>2. p \in Protocols /\ T \in Seq(TaskRecord) /\ Once(T)
  BY <1>1, HeadFacts
<1>3. Rest = [proto |-> proto, tasks |-> T]
  OBVIOUS
<1>4. ASSUME Settles(proto, T), player' = player PROVE SessionInv'
  <2> HIDE DEF p
  <2>1. p = Head(tasks).p
    BY DEF p
  <2> QED
    BY <1>1, <1>2, <1>4, <2>1, EndKeepsInv
<1>5. CASE finishLoadFailed \/ giveUp
  <2>1. player' = player /\ (Goes(Rest) \/ Goes(Disconnected(Rest, p)))
    BY <1>5 DEF finishLoadFailed, giveUp
  <2>2. Settles(proto, T)
    <3> HIDE DEF p, T
    <3> QED
      BY <1>2, <1>3, <2>1, GoesSettles
  <2> QED
    BY <1>4, <2>1, <2>2
<1>6. CASE finishLogin
  <2>1. CASE Goes(Rest) /\ player' = player
    <3>1. Settles(proto, T)
      BY <1>2, <1>3, <2>1, GoesSettles
    <3> QED
      BY <1>4, <2>1, <3>1
  <2>2. CASE /\ proto[p].player # NoProtocol
             /\ Goes(Disconnected(Rest, p))
             /\ player' = [player EXCEPT ![p].owner = p]
    <3> HIDE DEF p
    <3>1. Settles(proto, T)
      BY <1>2, <1>3, <2>2, GoesSettles
    <3>2. /\ player' \in [Protocols -> PlayerRecord] /\ player'[p].guid = player[p].guid
          /\ player'[p].owner = p /\ player'[p].stage = player[p].stage
          /\ \A y \in Protocols \ {p} : player'[y] = player[y]
      BY <1>2, <2>2 DEF PlayerRecord
    <3>3. p = Head(tasks).p
      BY DEF p
    <3> QED
      BY <1>1, <1>2, <2>2, <3>1, <3>2, <3>3, EndKeepsInv, ZenonT(60)
  <2>3. CASE /\ proto[p].player # NoProtocol
             /\ Goes([Rest EXCEPT !.proto[p].acceptPackets = TRUE])
             /\ player' = [player EXCEPT ![p].stage = "online", ![p].owner = p]
    <3> DEFINE n == [proto[p] EXCEPT !.acceptPackets = TRUE]
               P == [proto EXCEPT ![p] = n]
               m == [player[p] EXCEPT !.stage = "online", !.owner = p]
    <3> HIDE DEF p
    <3>1. proto' = P /\ tasks' = T
      <4>1. Rest.proto = proto /\ Rest.tasks = T
        OBVIOUS
      <4>2. [Rest EXCEPT !.proto[p].acceptPackets = TRUE].proto = P
        BY <4>1
      <4>3. [Rest EXCEPT !.proto[p].acceptPackets = TRUE].tasks = T
        BY <4>1
      <4> QED
        BY <2>3, <4>2, <4>3 DEF Goes
    <3>2. n \in ProtoRecord /\ n.conn = proto[p].conn /\ n.player = proto[p].player
      <4>1. proto[p] \in ProtoRecord
        BY <1>2
      <4> QED
        BY <4>1 DEF ProtoRecord
    <3>3. m \in PlayerRecord /\ m.guid = player[p].guid /\ m.stage = "online" /\ m.owner = p
      <4>1. player[p] \in PlayerRecord
        BY <1>2
      <4> QED
        BY <1>2, <4>1 DEF PlayerRecord
    <3>4. player' = [player EXCEPT ![p] = m]
      BY <1>2, <2>3
    <3> HIDE DEF n, m
    <3>5. /\ P \in [Protocols -> ProtoRecord]
          /\ \A q \in Protocols : P[q].conn = proto[q].conn /\ P[q].player = proto[q].player
      BY <1>2, <3>2
    <3> HIDE DEF P, T
    <3>6. Settles(P, T)
      <4> DEFINE r == [proto |-> P, tasks |-> T]
      <4>1. Goes(r)
        BY <3>1 DEF Goes
      <4> HIDE DEF r
      <4> QED
        BY <1>2, <3>5, <4>1, GoesSettles DEF r
    <3>7. /\ player' \in [Protocols -> PlayerRecord] /\ player'[p].guid = player[p].guid
          /\ player'[p].owner = p /\ player'[p].stage = "online"
          /\ \A y \in Protocols \ {p} : player'[y] = player[y]
      BY <1>2, <3>3, <3>4
    <3>8. p = Head(tasks).p /\ Settles(P, Tail(tasks))
      BY <3>6 DEF p, T
    <3>9. /\ proto[p].player # NoProtocol /\ player'[p].owner = p
          /\ player'[p].stage \in {player[p].stage, "online"}
      BY <2>3, <3>7
    <3>10. \A y \in Protocols \ {p} : player'[y] = player[y]
      BY <3>7
    <3>11. player' \in [Protocols -> PlayerRecord] /\ player'[p].guid = player[p].guid
      BY <3>7
    <3> HIDE SessionFacts
    <3> QED
      BY <1>1, <3>5, <3>8, <3>9, <3>10, <3>11, EndKeepsInv
  <2> QED
    BY <1>6, <2>1, <2>2, <2>3 DEF finishLogin
<1> QED
  BY <1>5, <1>6

\* A login of a character that nobody plays: a new player, and perhaps a reservation.
LEMMA LoginOfflineKeepsInv == SessionInv /\ loginOffline => SessionInv'
<1> SUFFICES ASSUME SessionInv, loginOffline PROVE SessionInv'
  OBVIOUS
<1> USE SessionFacts
<1> DEFINE h == Head(tasks)
           p == h.p
           g == h.g
           T == Tail(tasks)
           n == [proto[p] EXCEPT !.player = p]
           P == [proto EXCEPT ![p] = n]
           r == [Rest EXCEPT !.proto[p].player = p]
           m == [guid |-> g, stage |-> "loading", owner |-> p]
<1>1. /\ tasks # <<>> /\ h.op = "login" /\ connects' = connects /\ OnlineAs(g) = {}
      /\ player' = [player EXCEPT ![p] = m]
      /\ \/ Goes(Disconnected(r, p)) /\ UNCHANGED <<pendingLogins, loads>>
         \/ /\ g \notin pendingLogins /\ Goes(r) /\ pendingLogins' = pendingLogins \cup {g}
            /\ loads' = loads \cup {p}
  BY DEF loginOffline, Runs, NewPlayer, ReserveLogin
<1>2. /\ h \in Steps(tasks) /\ p \in Protocols /\ g \in Guids /\ T \in Seq(TaskRecord) /\ Once(T)
      /\ Elems(T) \subseteq Elems(tasks) /\ Steps(T) = Steps(tasks) \ {h}
      /\ \A e \in Steps(T) : e.p # p
  <2>1. h.op \in LoginOps
    BY <1>1 DEF LoginOps
  <2> QED
    BY <1>1, <2>1, HeadFacts DEF Steps
<1>3. Rest = [proto |-> proto, tasks |-> T]
  OBVIOUS
<1>4. p = h.p
  OBVIOUS
<1> HIDE DEF h, T, p, g
<1>5. r = [proto |-> P, tasks |-> T]
  BY <1>3
<1> HIDE DEF r
<1>6. n \in ProtoRecord /\ n.conn = proto[p].conn /\ n.player = p
  <2>1. proto[p] \in ProtoRecord
    BY <1>2
  <2> QED
    BY <1>2, <2>1 DEF ProtoRecord
<1>7. m \in PlayerRecord /\ m.guid = g /\ m.stage = "loading" /\ m.owner = p
  BY <1>2 DEF PlayerRecord
<1> HIDE DEF n, m
<1>8. /\ P \in [Protocols -> ProtoRecord] /\ P[p].player = p
      /\ \A q \in Protocols : P[q].conn = proto[q].conn /\ (q # p => P[q].player = proto[q].player)
  BY <1>2, <1>6
<1> HIDE DEF P
<1>9. Settles(P, T)
  BY <1>1, <1>2, <1>5, <1>8, GoesSettles
<1>10. /\ player' \in [Protocols -> PlayerRecord] /\ player'[p] = m
       /\ \A y \in Protocols \ {p} : player'[y] = player[y]
  BY <1>1, <1>2, <1>7
<1>11. SessionTypes /\ OneStepEach /\ Reservations /\ OnlineOnce /\ OwnersPlay /\ Beginnings
  BY DEF SessionInv
<1>12. p \notin loads /\ proto[p].conn # "new" /\ \A c \in connects : c[1] # p
  BY <1>2, <1>4, <1>11 DEF OneStepEach
<1>13. player[p].stage = "none"
  BY <1>1, <1>2, <1>4, <1>11 DEF Reservations
<1>14. \A e \in Steps(tasks) : e.p \in Protocols
  OBVIOUS
<1>15. /\ Steps(tasks') = Steps(tasks) \ {h} /\ Once(tasks') /\ \A e \in Steps(tasks') : e.p # p
  BY <1>2, <1>9 DEF Settles
<1>16. /\ \A q \in Protocols : proto[q].conn # "new" <=> proto'[q].conn # "new"
       /\ \A q \in Protocols \ {p} : proto'[q].player = proto[q].player
       /\ proto'[p].player = p
  BY <1>2, <1>8, <1>9 DEF Settles, ProtoRecord
<1>17. Online' = Online /\ Online \subseteq Protocols \ {p} /\ \A x \in Online : player'[x] = player[x] /\ player[x].guid # g
  <2>1. Online \subseteq Protocols \ {p}
    BY <1>13 DEF Online
  <2>2. Online' = Online
    BY <1>7, <1>10, <2>1 DEF Online
  <2>3. \A x \in Online : player[x].guid # g
    BY <1>1 DEF OnlineAs
  <2> QED
    BY <1>10, <2>1, <2>2, <2>3
<1>18. loads' \subseteq loads \cup {p} /\ pendingLogins' \subseteq pendingLogins \cup {g}
  BY <1>1
<1>19. SessionTypes'
  BY <1>1, <1>2, <1>9, <1>10, <1>11, <1>18 DEF SessionTypes, Settles
<1>20. OneStepEach'
  <2>1. \A e \in Steps(tasks') : /\ e.p \notin loads' /\ proto'[e.p].conn # "new"
                                 /\ \A c \in connects : c[1] # e.p
    BY <1>11, <1>14, <1>15, <1>16, <1>18 DEF OneStepEach
  <2>2. \A q \in loads' : proto'[q].conn # "new" /\ \A c \in connects : c[1] # q
    BY <1>2, <1>11, <1>12, <1>16, <1>18 DEF OneStepEach
  <2>3. /\ \A c, d \in connects : c[1] = d[1] => c = d
        /\ \A c \in connects : proto'[c[1]].conn # "new"
    BY <1>11, <1>16 DEF OneStepEach
  <2> QED
    BY <1>1, <1>15, <2>1, <2>2, <2>3 DEF OneStepEach
<1>21. OnlineOnce'
  BY <1>11, <1>17, <1>18 DEF OnlineOnce
<1>22. OwnersPlay'
  <2> SUFFICES ASSUME NEW y \in Online, player[y].owner # NoProtocol
               PROVE  /\ proto'[player[y].owner].player = y /\ player[y].owner \notin loads'
                      /\ \A e \in Steps(tasks') : e.p # player[y].owner
                      /\ \A c \in connects : c[1] # player[y].owner
    BY <1>1, <1>17 DEF OwnersPlay
  <2>1. player[y].owner # p /\ player[y].owner \in Protocols
    BY <1>2, <1>4, <1>11, <1>17 DEF OwnersPlay, PlayerRecord
  <2> QED
    BY <1>11, <1>15, <1>16, <1>18, <2>1 DEF OwnersPlay
<1>23. Beginnings'
  <2>1. \A e \in Elems(tasks') : e.op = "release" => proto'[e.p].conn \in {"closed", "expired"}
    BY <1>2, <1>8, <1>9, <1>11 DEF Settles, Beginnings, ProtoRecord
  <2> QED
    BY <1>2, <1>7, <1>10, <1>11, <1>12, <1>16, <2>1 DEF Beginnings
<1>24. {e \in Steps(tasks') : e.op \in EndOps} = {e \in Steps(tasks) : e.op \in EndOps}
  BY <1>1, <1>15 DEF EndOps
<1>25. p \notin Flying /\ Flying \subseteq Protocols
  <2>1. \A e \in Steps(tasks) : e.p = p => e = h
    BY <1>2, <1>4, <1>11, StepsAreOnce DEF OneStepEach
  <2> QED
    BY <1>1, <1>12, <1>14, <2>1 DEF Flying, EndOps
<1>26. Reservations'
  <2>1. /\ \A e \in Steps(tasks') : e.op = "login" => player'[e.p].stage = "none"
        /\ \A e \in Steps(tasks') : e.op \in EndOps => e.g = player'[e.p].guid
    BY <1>10, <1>11, <1>14, <1>15 DEF Reservations
  <2>2. ASSUME NEW q \in Flying
        PROVE  /\ q # p /\ player'[q] = player[q] /\ player[q].stage = "loading" /\ player[q].guid \in pendingLogins
               /\ proto'[q].player \in {q, NoProtocol}
    BY <1>10, <1>11, <1>16, <1>25 DEF Reservations, Reserves
  <2>3. CASE UNCHANGED <<pendingLogins, loads>>
    <3>1. Flying' = Flying
      BY <1>24, <2>3 DEF Flying
    <3>2. \A q \in Flying' : Reserves(q)'
      BY <2>2, <2>3, <3>1 DEF Reserves
    <3>3. /\ \A q, s \in Flying' : player'[q].guid = player'[s].guid => q = s
          /\ \A k \in pendingLogins' : \E q \in Flying' : player'[q].guid = k
      BY <1>11, <2>2, <2>3, <3>1 DEF Reservations
    <3> QED
      BY <2>1, <3>2, <3>3 DEF Reservations
  <2>4. CASE /\ g \notin pendingLogins /\ pendingLogins' = pendingLogins \cup {g}
             /\ loads' = loads \cup {p}
    <3>1. Flying' = Flying \cup {p}
      BY <1>24, <2>4 DEF Flying
    <3>2. player'[p].guid = g /\ player'[p].stage = "loading" /\ proto'[p].player = p
      BY <1>7, <1>10, <1>16
    <3>3. \A q \in Flying' : Reserves(q)'
      BY <2>2, <2>4, <3>1, <3>2 DEF Reserves
    <3>4. \A q, s \in Flying' : player'[q].guid = player'[s].guid => q = s
      BY <1>11, <2>2, <2>4, <3>1, <3>2 DEF Reservations
    <3>5. \A k \in pendingLogins' : \E q \in Flying' : player'[q].guid = k
      BY <1>11, <2>2, <2>4, <3>1, <3>2 DEF Reservations
    <3> QED
      BY <2>1, <3>3, <3>4, <3>5 DEF Reservations
  <2> QED
    BY <1>1, <2>3, <2>4
<1> QED
  BY <1>19, <1>20, <1>21, <1>22, <1>23, <1>26 DEF SessionInv

\* Every step of the model keeps the invariant.
LEMMA SessionStep == SessionInv /\ [SessionNext]_sessionVars => SessionInv'
<1> SUFFICES ASSUME SessionInv, [SessionNext]_sessionVars PROVE SessionInv'
  OBVIOUS
<1>1. ASSUME UNCHANGED sessionVars PROVE SessionInv'
  BY <1>1 DEF sessionVars, SessionInv, SessionTypes, OneStepEach, Reservations, Reserves, Flying,
              OnlineOnce, Online, OwnersPlay, Beginnings
<1>2. ASSUME NEW p \in Protocols,
             \/ onRecvFirstMessage(p) \/ logoutPacket(p) \/ ConnectionCloses(p) \/ ConnectionExpires(p)
             \/ WorkerEnds(p) \/ kickPlayer(p)
      PROVE  SessionInv'
  BY <1>2, FirstMessageKeepsInv, NetworkKeepsInv, WorkerKeepsInv, LogoutKeepsInv
<1>3. ASSUME \/ loginOffline \/ loginOnline \/ connect \/ finishLogin \/ finishLoadFailed \/ giveUp
             \/ release \/ logout
      PROVE  SessionInv'
  BY <1>3, LoginOfflineKeepsInv, LoginOnlineKeepsInv, ConnectKeepsInv, EndingKeepsInv, ReleaseKeepsInv,
     LogoutKeepsInv
<1> QED
  BY <1>1, <1>2, <1>3 DEF SessionNext

\* The invariant implies the property.
LEMMA SessionInvImplies == SessionInv => SessionsAgree
<1> SUFFICES ASSUME SessionInv PROVE SessionsAgree
  OBVIOUS
<1> USE SessionFacts
<1>1. SessionTypes /\ Reservations /\ OnlineOnce /\ OwnersPlay
  BY DEF SessionInv
<1>2. SessionTypeOK
  <2>1. \A p \in Protocols : proto[p] \in ProtoRecord /\ player[p] \in PlayerRecord
    OBVIOUS
  <2> QED
    BY <1>1, <2>1 DEF SessionTypeOK, SessionTypes, ProtoRecord, PlayerRecord
<1>3. ASSUME NEW g \in Guids PROVE Cardinality(OnlineAs(g)) <= 1
  <2>1. CASE OnlineAs(g) = {}
    BY <2>1, FS_EmptySet
  <2>2. CASE OnlineAs(g) # {}
    <3>1. PICK x : x \in OnlineAs(g)
      BY <2>2
    <3>2. OnlineAs(g) = {x}
      BY <1>1, <3>1 DEF OnlineAs, OnlineOnce
    <3>3. Cardinality({x}) = 1
      BY FS_Singleton
    <3> QED
      BY <3>2, <3>3
  <2> QED
    BY <2>1, <2>2
<1>4. ASSUME NEW g \in pendingLogins
      PROVE  \/ \E p \in loads : player[p].guid = g
             \/ \E k \in DOMAIN tasks :
                   tasks[k].op \in {"finishLogin", "loadFailed", "giveUp"} /\ tasks[k].g = g
  <2>1. PICK p \in Flying : player[p].guid = g
    BY <1>1 DEF Reservations
  <2>2. CASE p \in loads
    BY <2>1, <2>2
  <2>3. ASSUME NEW e \in Steps(tasks), e.op \in EndOps, e.p = p
        PROVE  \E k \in DOMAIN tasks :
                  tasks[k].op \in {"finishLogin", "loadFailed", "giveUp"} /\ tasks[k].g = g
    <3>1. e.g = g
      BY <1>1, <2>1, <2>3 DEF Reservations
    <3>2. PICK k \in DOMAIN tasks : tasks[k] = e
      BY DEF Steps, Elems
    <3> QED
      BY <2>3, <3>1, <3>2 DEF EndOps
  <2> QED
    BY <2>2, <2>3 DEF Flying
<1>5. OneOnlinePerGuid /\ ReservationsInFlight /\ OwnerPlays
  BY <1>1, <1>3, <1>4 DEF OneOnlinePerGuid, ReservationsInFlight, OwnerPlays, OwnersPlay
<1> QED
  BY <1>2, <1>5 DEF SessionsAgree

\* However clients, loads and the dispatcher interleave, a character has one player in the world,
\* steered by the protocol that refers to it, and no reservation is left that no login under way
\* will give back (ProtocolGame::login, finishLogin).
THEOREM SessionsAgreeTheorem == SessionSpec => []SessionsAgree
<1>1. SessionInit => SessionInv
  BY SessionStarts
<1>2. SessionInv /\ [SessionNext]_sessionVars => SessionInv'
  BY SessionStep
<1>3. SessionInv => SessionsAgree
  BY SessionInvImplies
<1> QED
  BY <1>1, <1>2, <1>3, PTL DEF SessionSpec

\* A player changes hands only away from a client whose connection is no longer open.
LEMMA OwnerStep ==
    ASSUME SessionInv, SessionNext, NEW x \in Protocols, NEW o, o = player[x].owner, o # NoProtocol,
           player'[x].owner # o
    PROVE  proto'[o].conn # "open"
<1> USE SessionFacts
<1>1. SessionTypes /\ Reservations /\ Beginnings /\ o \in Protocols
  BY DEF SessionInv, PlayerRecord
<1>2. player' # player
  OBVIOUS
<1>3. ASSUME NEW y \in Protocols, player' = Removed(y) PROVE FALSE
  BY <1>3, RemovedFacts
<1> DEFINE p == Head(tasks).p
<1>4. CASE loginOffline
  <2>1. player' = NewPlayer(p, Head(tasks).g) /\ tasks # <<>> /\ Head(tasks).op = "login"
    BY <1>4 DEF loginOffline, Runs
  <2>2. Head(tasks) \in Steps(tasks) /\ p \in Protocols
    BY <2>1, HeadFacts DEF Steps, LoginOps
  <2>3. player[p].owner = NoProtocol
    BY <1>1, <2>1, <2>2 DEF Reservations, Beginnings
  <2> QED
    BY <2>1, <2>2, <2>3 DEF NewPlayer
<1>5. CASE loginOnline
  <2>1. PICK y \in OnlineAs(Head(tasks).g) :
          \/ player' = player
          \/ Goes(Disconnected(Rest, player[y].owner)) /\ player' = [player EXCEPT ![y].owner = NoProtocol]
          \/ player[y].owner = NoProtocol /\ player' = [player EXCEPT ![y].owner = p]
    BY <1>5 DEF loginOnline, Connect
  <2>2. y \in Protocols /\ tasks # <<>>
    BY <1>5 DEF OnlineAs, Online, loginOnline, Runs
  <2>3. y = x /\ Goes(Disconnected(Rest, o))
    BY <1>2, <2>1, <2>2
  <2>4. Tail(tasks) \in Seq(TaskRecord) /\ Once(Tail(tasks))
    BY <2>2, HeadFacts
  <2> QED
    BY <1>1, <2>3, <2>4, GoesSettles
<1>6. CASE connect
  <2>1. PICK c \in connects : \/ player' = player
                              \/ player[c[2]].owner = NoProtocol /\ player' = [player EXCEPT ![c[2]].owner = c[1]]
    BY <1>6 DEF connect, Connect
  <2>2. c[2] \in Protocols
    OBVIOUS
  <2> QED
    BY <1>2, <2>1, <2>2
<1>7. CASE finishLogin
  <2>1. /\ tasks # <<>> /\ Head(tasks).op = "finishLogin"
        /\ \/ player' = player
           \/ player' = [player EXCEPT ![p].stage = "online", ![p].owner = p]
           \/ player' = [player EXCEPT ![p].owner = p]
    BY <1>7 DEF finishLogin, Runs
  <2>2. Head(tasks) \in Steps(tasks) /\ p \in Protocols /\ p \in Flying
    BY <2>1, HeadFacts DEF Steps, LoginOps, EndOps, Flying
  <2>3. player[p].owner \in {p, NoProtocol}
    BY <1>1, <2>2 DEF Reservations, Reserves, Beginnings
  <2> HIDE DEF p
  <2>4. player'[p].owner = p /\ \A y \in Protocols \ {p} : player'[y].owner = player[y].owner
    <3>1. CASE player' = [player EXCEPT ![p].stage = "online", ![p].owner = p]
      <4> DEFINE m == [player[p] EXCEPT !.stage = "online", !.owner = p]
      <4>1. m.owner = p
        <5>1. player[p] \in PlayerRecord
          BY <2>2
        <5> QED
          BY <5>1 DEF PlayerRecord
      <4>2. player' = [player EXCEPT ![p] = m]
        BY <2>2, <3>1
      <4> HIDE DEF m
      <4> QED
        BY <2>2, <4>1, <4>2
    <3>2. CASE player' = [player EXCEPT ![p].owner = p]
      BY <2>2, <3>2 DEF PlayerRecord
    <3> QED
      BY <1>2, <2>1, <3>1, <3>2
  <2> QED
    BY <2>3, <2>4
<1>8. CASE release
  <2> DEFINE y == proto[p].player
  <2>1. /\ tasks # <<>> /\ Head(tasks).op = "release"
        /\ player' = IF y = NoProtocol THEN player ELSE [player EXCEPT ![y].owner = OwnerAfterRelease(p, y)]
        /\ Goes([Rest EXCEPT !.proto[p].player = NoProtocol])
    BY <1>8 DEF release, Runs
  <2>2. p \in Protocols /\ proto[p].conn # "open"
    BY <1>1, <2>1, HeadFacts DEF Beginnings
  <2>3. y \in Protocols /\ player' = [player EXCEPT ![y].owner = OwnerAfterRelease(p, y)]
    BY <1>2, <2>1, <2>2 DEF ProtoRecord
  <2>4. y = x /\ o = p
    <3> HIDE DEF p, y
    <3>1. \A z \in Protocols : player'[z].owner = IF z = y THEN OwnerAfterRelease(p, y) ELSE player[z].owner
      BY <1>2, <2>3 DEF PlayerRecord
    <3>2. y = x /\ OwnerAfterRelease(p, x) # o
      BY <2>3, <3>1
    <3> QED
      BY <3>2 DEF OwnerAfterRelease
  <2>5. proto' = [proto EXCEPT ![p].player = NoProtocol]
    <3>1. Rest.proto = proto
      OBVIOUS
    <3>2. [Rest EXCEPT !.proto[p].player = NoProtocol].proto = [proto EXCEPT ![p].player = NoProtocol]
      BY <3>1
    <3> QED
      BY <2>1, <3>2 DEF Goes
  <2> QED
    BY <2>2, <2>4, <2>5
<1>9. CASE logout
  <2>1. p \in Protocols /\ (player' = player \/ (proto[p].player # NoProtocol /\ player' = Removed(proto[p].player)))
    BY <1>9, HeadFacts DEF logout, Runs
  <2>2. proto[p].player \in Protocols
    BY <1>2, <2>1 DEF ProtoRecord
  <2> QED
    BY <1>2, <1>3, <2>1, <2>2
<1>10. ASSUME NEW q \in Protocols,
              \/ onRecvFirstMessage(q) \/ logoutPacket(q) \/ ConnectionCloses(q) \/ ConnectionExpires(q)
              \/ WorkerEnds(q) \/ kickPlayer(q)
       PROVE  FALSE
  BY <1>2, <1>3, <1>10 DEF onRecvFirstMessage, logoutPacket, ConnectionCloses, ConnectionExpires,
                           WorkerEnds, kickPlayer
<1>11. CASE finishLoadFailed \/ giveUp
  BY <1>2, <1>11 DEF finishLoadFailed, giveUp
<1> QED
  BY <1>4, <1>5, <1>6, <1>7, <1>8, <1>9, <1>10, <1>11 DEF SessionNext

\* No step takes a player from a client that is still connected: the takeover of
\* ProtocolGame::connect, a late release and a late logout of an earlier client all leave it alone.
THEOREM OpenClientTheorem == SessionSpec => OpenClientKeepsPlayer
<1>1. SessionInit => SessionInv
  BY SessionStarts
<1>2. SessionInv /\ [SessionNext]_sessionVars => SessionInv'
  BY SessionStep
<1>3. SessionInv /\ [SessionNext]_sessionVars =>
        [\A x \in Protocols :
            LET p == player[x].owner IN
            p # NoProtocol /\ player'[x].owner # p => proto'[p].conn # "open"]_sessionVars
  BY OwnerStep
<1> QED
  BY <1>1, <1>2, <1>3, PTL DEF SessionSpec, OpenClientKeepsPlayer
=============================================================================
