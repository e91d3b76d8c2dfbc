--------------------------- MODULE ConnectionProofs ---------------------------
(***************************************************************************)
(* Proofs about Connection: for every number of connections and addresses, *)
(* every limit per address and every length of the write queue, an address *)
(* is given back once and a protocol released once at most, the accept     *)
(* loop waits for exactly one thing, and the messages of a connection      *)
(* reach the wire in order and one at a time (src/src/connection.cpp,      *)
(* server.cpp).                                                            *)
(*                                                                         *)
(* What a handler does to one connection is stated by Evolves, a relation  *)
(* between the record before and after.  Every function of the model on a  *)
(* connection is shown to respect it, and it is transitive, so that a      *)
(* handler that calls several of them does too; one lemma,                 *)
(* HandlerKeepsInv, then turns it into the invariant.  The accept loop and *)
(* the teardown, which change several connections, have lemmas of their    *)
(* own.                                                                    *)
(***************************************************************************)
EXTENDS Connection, FiniteSetTheorems, TLAPS

\* The values a connection can have.
ConnRecord ==
    [phase : {"unused", "accepting", "live"}, closed : BOOLEAN, socket : BOOLEAN, protocol : BOOLEAN,
     receivedFirst : BOOLEAN, releases : Nat, reading : {"no", "header", "body"},
     messageQueue : Seq(Nat), posted : SUBSET Nat, inflight : SUBSET Nat, wire : Nat, sent : Nat,
     trackedIp : Ips \cup {"none"}, stranded : BOOLEAN]

\* The write queue of one connection: whatever is posted or in flight is the head of the queue, the
\* queue is ascending, and what is on the wire is older than what is posted.
InOrder(r) ==
    /\ Len(r.messageQueue) <= MAX_PENDING_WRITE_MESSAGES
    /\ \A m \in r.posted \cup r.inflight : r.messageQueue # <<>> /\ m = Head(r.messageQueue)
    /\ r.posted = {} \/ r.inflight = {}
    /\ \A m \in r.posted : m > r.wire
    /\ \A m \in r.inflight : m = r.wire
    /\ \A k \in 1 .. Len(r.messageQueue) : r.messageQueue[k] <= r.sent
    /\ \A j, k \in 1 .. Len(r.messageQueue) : j < k => r.messageQueue[j] < r.messageQueue[k]
    /\ r.wire <= r.sent

\* What a handler may do to its connection: it keeps the order of writes, never opens what is
\* closed, and releases the protocol once, when it closes it and while the dispatcher accepts the
\* task.
Evolves(r, q) ==
    /\ q \in ConnRecord /\ InOrder(q)
    /\ q.phase = r.phase /\ q.trackedIp = r.trackedIp
    /\ r.closed => q.closed
    /\ \/ q.releases = r.releases
       \/ dispatcherUp /\ ~r.closed /\ q.closed /\ q.releases = r.releases + 1
    /\ q.receivedFirst /\ ~q.closed /\ ~r.closed => q.protocol \/ (r.receivedFirst /\ ~r.protocol)

\* Two functions that Connection's handlers call in a row evolve the connection if each does.
LEMMA EvolvesTransitive ==
    ASSUME NEW r \in ConnRecord, NEW s, NEW q, Evolves(r, s), Evolves(s, q)
    PROVE  Evolves(r, q)
  BY DEF Evolves, ConnRecord

\* A handler that leaves its connection alone evolves it.
LEMMA EvolvesReflexive ==
    ASSUME NEW r \in ConnRecord, InOrder(r)
    PROVE  Evolves(r, r)
  BY DEF Evolves, ConnRecord

\* Connection::closeLocked releases the protocol at most once and always leaves the connection
\* closed, forced or not.
LEMMA CloseLockedEvolves ==
    ASSUME NEW r \in ConnRecord, InOrder(r), NEW force \in BOOLEAN
    PROVE  /\ Evolves(r, closeLocked(r, force)) /\ closeLocked(r, force).closed
  <1>1. CASE r.closed
    BY <1>1, EvolvesReflexive DEF closeLocked
  <1>2. CASE ~r.closed
    <2> DEFINE n == IF r.protocol /\ dispatcherUp THEN r.releases + 1 ELSE r.releases
               q == [r EXCEPT !.closed = TRUE, !.releases = n]
    <2>1. n \in Nat
      BY DEF ConnRecord
    <2>2. q \in ConnRecord /\ q.closed /\ Evolves(r, q)
      <3> HIDE DEF n
      <3>1. q \in ConnRecord /\ q.closed /\ q.releases = n
        BY <2>1 DEF ConnRecord
      <3>2. InOrder(q) /\ q.phase = r.phase /\ q.trackedIp = r.trackedIp
        BY <2>1 DEF ConnRecord, InOrder
      <3> QED
        BY <1>2, <3>1, <3>2 DEF Evolves, n, ConnRecord
    <2> HIDE DEF q
    <2>3. Evolves(q, closeSocket(q)) /\ closeSocket(q).closed
      BY <2>2 DEF closeSocket, Evolves, ConnRecord, InOrder
    <2>4. closeLocked(r, force) \in {q, closeSocket(q)}
      BY <1>2 DEF closeLocked, q
    <2> QED
      BY <2>2, <2>3, <2>4, EvolvesTransitive
  <1> QED
    BY <1>1, <1>2 DEF ConnRecord

\* A write that fails closes the connection, if it was not closed before.
LEMMA WriteFailsEvolves ==
    ASSUME NEW r \in ConnRecord, InOrder(r)
    PROVE  Evolves(r, WriteFails(r))
<1> DEFINE q == closeLocked(r, TRUE)
           b == r.closed /\ r.socket
<1>0. Evolves(r, q) /\ b \in BOOLEAN
  BY CloseLockedEvolves
<1> HIDE DEF q, b
<1>1. Evolves(r, q) /\ q \in ConnRecord /\ InOrder(q)
  BY <1>0 DEF Evolves
<1>2. Evolves(q, [q EXCEPT !.stranded = b])
  BY <1>0, <1>1 DEF Evolves, ConnRecord, InOrder
<1>3. Evolves(r, [q EXCEPT !.stranded = b])
  BY <1>1, <1>2, EvolvesTransitive
<1> QED
  BY <1>3 DEF WriteFails, q, b

\* To arm a read, of a header or a body, changes nothing else of a connection.
LEMMA ReadingEvolves ==
    ASSUME NEW r \in ConnRecord, InOrder(r), NEW what \in {"no", "header", "body"}
    PROVE  Evolves(r, [r EXCEPT !.reading = what])
  BY DEF Evolves, ConnRecord, InOrder

\* The first message makes the protocol, or closes the connection of a protocol nobody knows.
LEMMA FirstReceivedEvolves ==
    ASSUME NEW r \in ConnRecord, InOrder(r)
    PROVE  /\ Evolves(r, [r EXCEPT !.receivedFirst = TRUE, !.protocol = TRUE])
           /\ Evolves(r, UnknownProtocol(r))
<1>1. Evolves(r, [r EXCEPT !.receivedFirst = TRUE, !.protocol = TRUE])
  BY DEF Evolves, ConnRecord, InOrder
<1>2. Evolves(r, UnknownProtocol(r))
  <2> DEFINE q == [r EXCEPT !.receivedFirst = TRUE]
  <2>1. /\ q \in ConnRecord /\ InOrder(q) /\ q.phase = r.phase /\ q.trackedIp = r.trackedIp
        /\ q.closed = r.closed /\ q.releases = r.releases
    BY DEF ConnRecord, InOrder
  <2> HIDE DEF q
  <2>2. Evolves(q, closeLocked(q, TRUE)) /\ closeLocked(q, TRUE).closed
    BY <2>1, CloseLockedEvolves
  <2>3. UnknownProtocol(r) = closeLocked(q, TRUE)
    BY DEF UnknownProtocol, q
  <2> QED
    BY <2>1, <2>2, <2>3 DEF Evolves
<1> QED
  BY <1>1, <1>2

\* Connection::send: a message is put at the end of the queue and posted if it is alone, or the
\* connection with a full queue is closed.
LEMMA QueuedEvolves ==
    ASSUME NEW r \in ConnRecord, InOrder(r)
    PROVE  Evolves(r, Queued(r))
<1> USE ConnBounds
<1>1. CASE r.closed
  BY <1>1, EvolvesReflexive DEF Queued
<1>2. CASE ~r.closed /\ Len(r.messageQueue) >= MAX_PENDING_WRITE_MESSAGES
  BY <1>2, CloseLockedEvolves DEF Queued
<1>3. CASE ~r.closed /\ ~(Len(r.messageQueue) >= MAX_PENDING_WRITE_MESSAGES)
  <2> DEFINE m == r.sent + 1
             P == IF r.messageQueue = <<>> THEN r.posted \cup {m} ELSE r.posted
             Q == Append(r.messageQueue, m)
             q == [r EXCEPT !.sent = m, !.messageQueue = Q, !.posted = P]
  <2>1. /\ r.messageQueue \in Seq(Nat) /\ m \in Nat /\ P \in SUBSET Nat /\ Q \in Seq(Nat)
        /\ Len(r.messageQueue) \in Nat /\ r.sent \in Nat /\ r.wire \in Nat
    BY DEF ConnRecord
  <2>2. Queued(r) = q
    BY <1>3 DEF Queued
  <2>3. /\ Len(Q) = Len(r.messageQueue) + 1 /\ Q # <<>>
        /\ \A k \in 1 .. Len(r.messageQueue) : Q[k] = r.messageQueue[k]
        /\ Q[Len(Q)] = m
        /\ r.messageQueue # <<>> => Head(Q) = Head(r.messageQueue)
        /\ r.messageQueue = <<>> => Head(Q) = m
    BY <2>1
  <2> HIDE DEF m, P, Q
  <2>4. /\ q \in ConnRecord /\ q.sent = m /\ q.messageQueue = Q /\ q.posted = P
        /\ q.inflight = r.inflight /\ q.wire = r.wire
        /\ q.phase = r.phase /\ q.trackedIp = r.trackedIp /\ q.closed = r.closed
        /\ q.releases = r.releases /\ q.receivedFirst = r.receivedFirst /\ q.protocol = r.protocol
    BY <2>1 DEF ConnRecord
  <2> HIDE DEF q
  <2>5. /\ \A k \in 1 .. Len(Q) : Q[k] <= m
        /\ \A j, k \in 1 .. Len(Q) : j < k => Q[j] < Q[k]
        /\ Len(Q) <= MAX_PENDING_WRITE_MESSAGES /\ r.wire <= m
    <3>1. \A k \in 1 .. Len(Q) : k \in 1 .. Len(r.messageQueue) \/ k = Len(Q)
      BY <2>1, <2>3
    <3>2. \A k \in 1 .. Len(r.messageQueue) : Q[k] \in Nat /\ Q[k] <= r.sent
      <4>1. \A k \in 1 .. Len(r.messageQueue) : r.messageQueue[k] \in Nat
        BY <2>1
      <4>2. \A k \in 1 .. Len(r.messageQueue) : r.messageQueue[k] <= r.sent
        BY DEF InOrder
      <4> QED
        BY <2>3, <4>1, <4>2
    <3>3. Len(Q) <= MAX_PENDING_WRITE_MESSAGES /\ r.wire <= m /\ m > r.sent
      BY <1>3, <2>1, <2>3 DEF InOrder, m
    <3>4. \A k \in 1 .. Len(Q) : Q[k] <= m
      <4> SUFFICES ASSUME NEW k \in 1 .. Len(Q) PROVE Q[k] <= m
        OBVIOUS
      <4>1. CASE k = Len(Q)
        BY <4>1, <2>1, <2>3
      <4>2. CASE k \in 1 .. Len(r.messageQueue)
        <5>1. Q[k] \in Nat /\ Q[k] <= r.sent
          BY <4>2, <3>2
        <5> QED
          BY <5>1, <2>1, <3>3
      <4> QED
        BY <3>1, <4>1, <4>2
    <3>5. \A j, k \in 1 .. Len(Q) : j < k => Q[j] < Q[k]
      <4> SUFFICES ASSUME NEW j \in 1 .. Len(Q), NEW k \in 1 .. Len(Q), j < k PROVE Q[j] < Q[k]
        OBVIOUS
      <4>1. j \in 1 .. Len(r.messageQueue)
        BY <2>1, <2>3
      <4>2. CASE k = Len(Q)
        <5>1. Q[j] \in Nat /\ Q[j] <= r.sent
          BY <4>1, <3>2
        <5>2. Q[k] = m
          BY <4>2, <2>3
        <5> QED
          BY <5>1, <5>2, <2>1, <3>3
      <4>3. CASE k \in 1 .. Len(r.messageQueue)
        BY <4>1, <4>3, <2>1, <2>3 DEF InOrder
      <4> QED
        BY <3>1, <4>2, <4>3
    <3> QED
      BY <3>3, <3>4, <3>5
  <2>6. r.messageQueue = <<>> => r.posted = {} /\ r.inflight = {}
    BY DEF InOrder
  <2>7. m > r.wire
    BY <2>1 DEF InOrder, m
  <2>8. InOrder(q)
    <3>1. CASE r.messageQueue = <<>>
      <4>1. P = {m} /\ r.inflight = {}
        BY <3>1, <2>6 DEF P
      <4> QED
        BY <4>1, <3>1, <2>3, <2>4, <2>5, <2>7 DEF InOrder
    <3>2. CASE r.messageQueue # <<>>
      <4>1. P = r.posted
        BY <3>2 DEF P
      <4> QED
        BY <4>1, <3>2, <2>3, <2>4, <2>5 DEF InOrder
    <3> QED
      BY <3>1, <3>2
  <2> QED
    BY <2>2, <2>4, <2>8 DEF Evolves
<1> QED
  BY <1>1, <1>2, <1>3

\* Protocol::disconnectClient: a last message, then the close.
LEMMA DisconnectEvolves ==
    ASSUME NEW r \in ConnRecord, InOrder(r)
    PROVE  Evolves(r, DisconnectClient(r))
<1>1. Queued(r) \in ConnRecord /\ InOrder(Queued(r)) /\ Evolves(r, Queued(r))
  BY QueuedEvolves DEF Evolves
<1>2. Evolves(Queued(r), closeLocked(Queued(r), FALSE))
  BY <1>1, CloseLockedEvolves
<1> QED
  BY <1>1, <1>2, EvolvesTransitive DEF DisconnectClient

\* Connection::internalSend puts the head of the queue on the wire, or closes the connection when
\* the write cannot start.
LEMMA InternalSendEvolves ==
    ASSUME NEW r \in ConnRecord, InOrder(r), r.posted = {}, r.inflight = {}, r.messageQueue # <<>>,
           NEW m, m = Head(r.messageQueue), NEW q \in internalSend(r, m)
    PROVE  Evolves(r, q)
<1> DEFINE w == [r EXCEPT !.wire = m]
           f == [w EXCEPT !.inflight = @ \cup {m}]
<1>1. m \in Nat /\ m <= r.sent
  <2>1. r.messageQueue \in Seq(Nat)
    BY DEF ConnRecord
  <2>2. Head(r.messageQueue) = r.messageQueue[1] /\ 1 \in 1 .. Len(r.messageQueue) /\ Head(r.messageQueue) \in Nat
    BY <2>1
  <2> QED
    BY <2>2 DEF InOrder
<1>2. Evolves(r, w) /\ w \in ConnRecord /\ InOrder(w)
  BY <1>1 DEF Evolves, ConnRecord, InOrder
<1>3. Evolves(r, f)
  <2>1. f \in ConnRecord /\ f.wire = m /\ f.inflight = {m} /\ f.posted = {}
    BY <1>1 DEF ConnRecord
  <2> QED
    BY <1>1, <2>1 DEF Evolves, ConnRecord, InOrder
<1>4. q \in {WriteFails(r), f, WriteFails(w)}
  BY DEF internalSend
<1> HIDE DEF w, f
<1> QED
  BY <1>2, <1>3, <1>4, WriteFailsEvolves, EvolvesTransitive

\* A queue with nothing posted or in flight may be emptied.
LEMMA EmptiedEvolves ==
    ASSUME NEW r \in ConnRecord, InOrder(r), r.posted = {}, r.inflight = {}
    PROVE  Evolves(r, [r EXCEPT !.messageQueue = <<>>])
<1>1. <<>> \in Seq(Nat) /\ Len(<<>>) = 0
  OBVIOUS
<1> DEFINE e == <<>>
           q == [r EXCEPT !.messageQueue = e]
<1>2. e \in Seq(Nat) /\ Len(e) = 0
  BY <1>1
<1> HIDE DEF e
<1>3. /\ q \in ConnRecord /\ q.messageQueue = e /\ q.posted = {} /\ q.inflight = {}
      /\ q.wire = r.wire /\ q.sent = r.sent
      /\ q.phase = r.phase /\ q.trackedIp = r.trackedIp /\ q.closed = r.closed
      /\ q.releases = r.releases /\ q.receivedFirst = r.receivedFirst /\ q.protocol = r.protocol
  BY <1>2 DEF ConnRecord
<1> HIDE DEF q
<1>4. InOrder(q)
  BY <1>2, <1>3, ConnBounds DEF InOrder
<1>5. Evolves(r, q)
  BY <1>3, <1>4 DEF Evolves
<1> QED
  BY <1>5 DEF q, e

\* Connection::closeSocket changes the socket only.
LEMMA CloseSocketEvolves ==
    ASSUME NEW r \in ConnRecord, InOrder(r)
    PROVE  Evolves(r, closeSocket(r))
  BY DEF Evolves, ConnRecord, InOrder, closeSocket

\* The posted write that runs takes the head of the queue to the wire.
LEMMA TakenUpEvolves ==
    ASSUME NEW r \in ConnRecord, InOrder(r), NEW m \in r.posted,
           NEW q \in internalSend([r EXCEPT !.posted = @ \ {m}], m)
    PROVE  Evolves(r, q)
<1> DEFINE s == [r EXCEPT !.posted = @ \ {m}]
<1>1. r.posted = {m} /\ r.inflight = {} /\ r.messageQueue # <<>> /\ m = Head(r.messageQueue)
  BY DEF InOrder
<1>2. /\ s \in ConnRecord /\ s.posted = {} /\ s.inflight = {} /\ s.messageQueue = r.messageQueue
      /\ Evolves(r, s) /\ InOrder(s)
  BY <1>1 DEF ConnRecord, InOrder, Evolves
<1> HIDE DEF s
<1>3. Evolves(s, q)
  <2>1. q \in internalSend(s, m)
    BY DEF s
  <2> QED
    BY <1>1, <1>2, <2>1, InternalSendEvolves
<1> QED
  BY <1>2, <1>3, EvolvesTransitive

\* Connection::onWriteOperation: the message that was written leaves the queue and the next one
\* follows, or an error empties the queue and closes the connection.
LEMMA WrittenEvolves ==
    ASSUME NEW r \in ConnRecord, InOrder(r), NEW m \in r.inflight, NEW s,
           s = [r EXCEPT !.inflight = @ \ {m},
                         !.messageQueue = IF r.messageQueue = <<>> THEN r.messageQueue
                                          ELSE Tail(r.messageQueue)]
    PROVE  /\ \A q \in Written(s) : Evolves(r, q)
           /\ Evolves(r, WriteFails([s EXCEPT !.messageQueue = <<>>]))
<1> DEFINE Q == r.messageQueue
           T == Tail(Q)
<1>1. r.inflight = {m} /\ r.posted = {} /\ Q # <<>> /\ Q \in Seq(Nat)
  BY DEF InOrder, ConnRecord
<1>2. /\ T \in Seq(Nat) /\ Len(T) = Len(Q) - 1 /\ Len(Q) \in Nat
      /\ \A k \in 1 .. Len(T) : T[k] = Q[k + 1] /\ k + 1 \in 1 .. Len(Q)
  BY <1>1
<1>3. /\ \A k \in 1 .. Len(T) : T[k] <= r.sent
      /\ \A j, k \in 1 .. Len(T) : j < k => T[j] < T[k]
      /\ Len(T) <= MAX_PENDING_WRITE_MESSAGES
  <2>1. \A k \in 1 .. Len(T) : T[k] <= r.sent
    BY <1>2 DEF InOrder
  <2>2. ASSUME NEW j \in 1 .. Len(T), NEW k \in 1 .. Len(T), j < k PROVE T[j] < T[k]
    <3>1. T[j] = Q[j + 1] /\ T[k] = Q[k + 1] /\ j + 1 \in 1 .. Len(Q) /\ k + 1 \in 1 .. Len(Q)
      BY <1>2
    <3>2. j + 1 < k + 1
      BY <2>2
    <3> QED
      BY <3>1, <3>2 DEF InOrder
  <2>3. Len(T) <= MAX_PENDING_WRITE_MESSAGES
    BY <1>2, ConnBounds DEF InOrder
  <2> QED
    BY <2>1, <2>2, <2>3
<1> HIDE DEF T
<1>4. /\ s \in ConnRecord /\ s.inflight = {} /\ s.posted = {} /\ s.messageQueue = T
      /\ s.wire = r.wire /\ s.sent = r.sent
      /\ s.phase = r.phase /\ s.trackedIp = r.trackedIp /\ s.closed = r.closed
      /\ s.releases = r.releases /\ s.receivedFirst = r.receivedFirst /\ s.protocol = r.protocol
  BY <1>1, <1>2 DEF ConnRecord, T
<1>5. InOrder(s) /\ Evolves(r, s)
  BY <1>3, <1>4 DEF InOrder, Evolves
<1>6. /\ [s EXCEPT !.messageQueue = <<>>] \in ConnRecord /\ InOrder([s EXCEPT !.messageQueue = <<>>])
      /\ Evolves(r, [s EXCEPT !.messageQueue = <<>>])
  <2>1. Evolves(s, [s EXCEPT !.messageQueue = <<>>])
    BY <1>4, <1>5, EmptiedEvolves
  <2> QED
    BY <1>5, <2>1, EvolvesTransitive DEF Evolves
<1>7. ASSUME NEW q \in Written(s) PROVE Evolves(r, q)
  <2>1. CASE s.messageQueue # <<>> /\ s.socket
    <3>1. Evolves(s, q)
      BY <1>4, <1>5, <1>7, <2>1, InternalSendEvolves DEF Written
    <3> QED
      BY <1>4, <1>5, <3>1, EvolvesTransitive
  <2>2. CASE s.messageQueue # <<>> /\ ~s.socket
    <3>1. q = closeSocket([s EXCEPT !.messageQueue = <<>>])
      BY <1>7, <2>2 DEF Written
    <3> QED
      BY <1>6, <3>1, CloseSocketEvolves, EvolvesTransitive
  <2>3. CASE s.messageQueue = <<>>
    <3>1. q \in {s, closeSocket(s)}
      BY <1>7, <2>3 DEF Written
    <3> QED
      BY <1>4, <1>5, <3>1, CloseSocketEvolves, EvolvesTransitive
  <2> QED
    BY <2>1, <2>2, <2>3
<1>8. Evolves(r, WriteFails([s EXCEPT !.messageQueue = <<>>]))
  BY <1>6, WriteFailsEvolves, EvolvesTransitive
<1> QED
  BY <1>7, <1>8
-----------------------------------------------------------------------------
\* The values the acceptor of a port can have.
AcceptorRecord ==
    [open : BOOLEAN, stopped : BOOLEAN, pendingStart : BOOLEAN, accepting : SUBSET Conns,
     retryTimer : {"no", "accept", "open"}]

\* One thing at a time is waited for, and the timer that opens the port is the one that is armed
\* while it is closed.
Loops(a) ==
    /\ \A c, d \in a.accepting : c = d
    /\ ~a.stopped => /\ (a.accepting # {}) # (a.retryTimer # "no")
                     /\ a.pendingStart <=> a.retryTimer = "open"
                     /\ a.retryTimer = "open" <=> ~a.open

\* The objects that wait for a peer are those of the acceptor; before a peer comes nothing is known
\* of one, and the manager knows no object that is not used.
PhasesAgree(a, cn, cs) ==
    \A c \in Conns :
        /\ cn[c].phase = "accepting" <=> c \in a.accepting
        /\ cn[c].phase # "live" => /\ cn[c].trackedIp = "none" /\ cn[c].releases = 0
                                   /\ ~cn[c].closed /\ ~cn[c].protocol /\ ~cn[c].receivedFirst
        /\ c \in cs => cn[c].phase # "unused"

\* The acceptor, the connections and the manager's set have their types.
ConnTypes(a, cn, cs) ==
    /\ a \in AcceptorRecord /\ cs \subseteq Conns /\ cn \in [Conns -> ConnRecord]
    /\ \A c \in Conns : InOrder(cn[c])

\* The connections known to the manager that count for address i.
Counted(cn, cs, i) == {c \in cs : cn[c].trackedIp = i}

\* ServicePort::accept: the loop goes on with a new connection, or by a retry, or has stopped; the
\* counters and the connections that are in use are as before.
LEMMA AcceptGoesOn ==
    ASSUME NEW a, NEW cn, NEW cs, ConnTypes(a, cn, cs), PhasesAgree(a, cn, cs),
           a.accepting = {}, ~a.stopped => a.open /\ ~a.pendingStart /\ a.retryTimer = "no",
           accept(a, cn, cs)
    PROVE  /\ ConnTypes(acceptor', conn', connections') /\ Loops(acceptor')
           /\ PhasesAgree(acceptor', conn', connections')
           /\ acceptor'.stopped = a.stopped
           /\ \A i \in Ips : Counted(conn', connections', i) = Counted(cn, cs, i)
           /\ \A c \in Conns : /\ conn'[c].closed = cn[c].closed /\ conn'[c].releases = cn[c].releases
                               /\ conn'[c].protocol = cn[c].protocol
                               /\ conn'[c].receivedFirst = cn[c].receivedFirst
                               /\ c \in connections' => c \in cs \/ ~conn'[c].closed
           /\ a.stopped => connections' = cs
<1>1. CASE acceptor' = a /\ a.stopped /\ conn' = cn /\ connections' = cs
  BY <1>1 DEF Loops
<1>2. CASE acceptor' = RetryAccept(a) /\ ~a.stopped /\ conn' = cn /\ connections' = cs
  <2>1. acceptor' = [a EXCEPT !.retryTimer = "accept"]
    BY <1>2 DEF RetryAccept
  <2>2. /\ acceptor' \in AcceptorRecord /\ acceptor'.accepting = {} /\ acceptor'.retryTimer = "accept"
        /\ acceptor'.stopped = a.stopped /\ acceptor'.open = a.open
        /\ acceptor'.pendingStart = a.pendingStart
    BY <2>1 DEF ConnTypes, AcceptorRecord
  <2> QED
    BY <1>2, <2>2 DEF Loops, ConnTypes, PhasesAgree
<1>3. ASSUME ~a.stopped, NEW d \in Conns, cn[d].phase = "unused",
             acceptor' = [a EXCEPT !.accepting = {d}],
             conn' = [cn EXCEPT ![d].phase = "accepting"],
             connections' = cs \cup {d}
      PROVE  /\ ConnTypes(acceptor', conn', connections') /\ Loops(acceptor')
             /\ PhasesAgree(acceptor', conn', connections')
             /\ acceptor'.stopped = a.stopped
             /\ \A i \in Ips : Counted(conn', connections', i) = Counted(cn, cs, i)
             /\ \A c \in Conns : /\ conn'[c].closed = cn[c].closed /\ conn'[c].releases = cn[c].releases
                                 /\ conn'[c].protocol = cn[c].protocol
                                 /\ conn'[c].receivedFirst = cn[c].receivedFirst
                                 /\ c \in connections' => c \in cs \/ ~conn'[c].closed
  <2>1. /\ acceptor' \in AcceptorRecord /\ acceptor'.accepting = {d} /\ acceptor'.retryTimer = "no"
        /\ acceptor'.stopped = a.stopped /\ acceptor'.open = a.open
        /\ acceptor'.pendingStart = a.pendingStart
    BY <1>3 DEF ConnTypes, AcceptorRecord
  <2>2. Loops(acceptor')
    BY <1>3, <2>1 DEF Loops
  <2> DEFINE f == [cn[d] EXCEPT !.phase = "accepting"]
  <2>3. cn[d] \in ConnRecord /\ InOrder(cn[d])
    BY DEF ConnTypes
  <2>4. f \in ConnRecord /\ InOrder(f) /\ f.phase = "accepting" /\ f.trackedIp = cn[d].trackedIp
        /\ f.closed = cn[d].closed /\ f.releases = cn[d].releases /\ f.protocol = cn[d].protocol
        /\ f.receivedFirst = cn[d].receivedFirst
    BY <2>3 DEF ConnRecord, InOrder
  <2>5. conn' = [cn EXCEPT ![d] = f]
    BY <1>3
  <2> HIDE DEF f
  <2>6. conn' \in [Conns -> ConnRecord] /\ conn'[d] = f /\ \A c \in Conns \ {d} : conn'[c] = cn[c]
    BY <2>4, <2>5 DEF ConnTypes
  <2>7. ConnTypes(acceptor', conn', connections')
    BY <1>3, <2>1, <2>4, <2>6 DEF ConnTypes
  <2>8. PhasesAgree(acceptor', conn', connections')
    BY <1>3, <2>1, <2>4, <2>6 DEF PhasesAgree
  <2>9. \A i \in Ips : Counted(conn', connections', i) = Counted(cn, cs, i)
    <3>1. f.trackedIp = "none" /\ cn[d].trackedIp = "none"
      BY <1>3, <2>4 DEF PhasesAgree
    <3> QED
      BY <1>3, <2>6, <3>1, ConnBounds DEF Counted, ConnTypes
  <2>10. \A c \in Conns : /\ conn'[c].closed = cn[c].closed /\ conn'[c].releases = cn[c].releases
                          /\ conn'[c].protocol = cn[c].protocol
                          /\ conn'[c].receivedFirst = cn[c].receivedFirst
    BY <2>4, <2>6
  <2>11. ~conn'[d].closed
    BY <1>3, <2>10 DEF PhasesAgree
  <2> QED
    BY <1>3, <2>1, <2>2, <2>7, <2>8, <2>9, <2>10, <2>11
<1>4. \/ acceptor' = a /\ a.stopped /\ conn' = cn /\ connections' = cs
      \/ acceptor' = RetryAccept(a) /\ ~a.stopped /\ conn' = cn /\ connections' = cs
      \/ ~a.stopped /\ \E d \in Conns : /\ cn[d].phase = "unused"
                        /\ acceptor' = [a EXCEPT !.accepting = {d}]
                        /\ conn' = [cn EXCEPT ![d].phase = "accepting"]
                        /\ connections' = cs \cup {d}
  BY Zenon DEF accept
<1> QED
  BY <1>1, <1>2, <1>3, <1>4

-----------------------------------------------------------------------------
\* Who may have been released, who has a protocol, and how far the teardown is.
ReleasesAgree ==
    /\ acceptor.stopped => ~dispatcherUp
    /\ dying.stage # "no" => acceptor.stopped
    /\ crashed => dying.stage # "no"
    /\ \A c \in Conns :
          /\ conn[c].releases <= 1
          /\ c \in connections => ~conn[c].closed
          /\ dying.stage = "no" /\ ~conn[c].closed =>
                conn[c].releases = 0 /\ (conn[c].receivedFirst => conn[c].protocol)
          /\ dying.stage = "releasing" /\ c \in dying.left => conn[c].releases = 0

\* How far the teardown is, and whom it still has to treat.
DyingRecord == [stage : {"no", "releasing", "closing", "stopped"}, left : SUBSET Conns]

\* The variables beside the acceptor and the connections have their types.
OtherTypes ==
    /\ ipConnectionCount \in [Ips -> 0 .. maxConnectionsPerIp]
    /\ dying \in DyingRecord
    /\ dispatcherUp \in BOOLEAN /\ crashed \in BOOLEAN

\* The inductive invariant: types, the accept loop, the phases of the connections, the exact
\* counters per address, the order of writes, and who may have been released.
ConnInv ==
    /\ ConnTypes(acceptor, conn, connections) /\ OtherTypes
    /\ Loops(acceptor) /\ PhasesAgree(acceptor, conn, connections)
    /\ IpCountExact /\ ReleasesAgree

\* The server starts with a loop that accepts and with connections nobody uses: the invariant holds.
LEMMA ConnStarts == ConnInit => ConnInv
<1> SUFFICES ASSUME ConnInit PROVE ConnInv
  OBVIOUS
<1>1. FreshConn \in ConnRecord
  BY DEF FreshConn, ConnRecord
<1>2. InOrder(FreshConn)
  BY ConnBounds DEF FreshConn, InOrder
<1>3. NoAccept \in AcceptorRecord /\ Loops(NoAccept)
  BY DEF NoAccept, AcceptorRecord, Loops
<1>4. ConnTypes(acceptor, conn, connections) /\ Loops(acceptor)
  BY <1>1, <1>2, <1>3 DEF ConnInit, ConnTypes
<1>5. PhasesAgree(acceptor, conn, connections)
  BY DEF ConnInit, PhasesAgree, NoAccept, FreshConn
<1>6. OtherTypes
  <2>1. ipConnectionCount \in [Ips -> 0 .. maxConnectionsPerIp]
    BY ConnBounds DEF ConnInit
  <2>2. dying \in DyingRecord
    BY DEF ConnInit, DyingRecord
  <2>3. dispatcherUp \in BOOLEAN /\ crashed \in BOOLEAN
    BY DEF ConnInit
  <2> QED
    BY <2>1, <2>2, <2>3 DEF OtherTypes
<1>7. IpCountExact
  <2>1. \A i \in Ips : {c \in connections : conn[c].trackedIp = i} = {} /\ ipConnectionCount[i] = 0
    BY DEF ConnInit
  <2> QED
    BY <2>1, FS_EmptySet DEF IpCountExact
<1>8. ReleasesAgree
  BY DEF ConnInit, ReleasesAgree, FreshConn, NoAccept
<1> QED
  BY <1>4, <1>5, <1>6, <1>7, <1>8 DEF ConnInv

\* The connections of one address can be counted.
LEMMA CountedIsFinite ==
    ASSUME NEW cs \in SUBSET Conns, NEW cn, NEW i
    PROVE  IsFiniteSet(Counted(cn, cs, i)) /\ Cardinality(Counted(cn, cs, i)) \in Nat
<1>1. Counted(cn, cs, i) \in SUBSET Conns
  BY DEF Counted
<1> QED
  BY <1>1, FS_Subset, FS_CardinalityType, ConnBounds

\* A handler of one connection that respects Evolves keeps the whole invariant: the other
\* connections, the loop and the counters are not touched.
LEMMA HandlerKeepsInv ==
    ASSUME ConnInv, NEW c \in Conns, NEW r, Handler(c, r), Evolves(conn[c], r)
    PROVE  ConnInv'
<1> DEFINE leaves == r.closed /\ ~conn[c].closed
<1>1. /\ conn' = [conn EXCEPT ![c] = r] /\ conn[c].phase = "live"
      /\ UNCHANGED <<acceptor, dispatcherUp, dying, crashed>>
      /\ leaves => connections' = connections \ {c} /\ ipConnectionCount' = Uncounted(c, r)
      /\ ~leaves => connections' = connections /\ ipConnectionCount' = ipConnectionCount
  BY DEF Handler, Becomes, Live, releaseConnection, manager
<1>2. conn \in [Conns -> ConnRecord] /\ connections \subseteq Conns
  BY DEF ConnInv, ConnTypes
<1>3. conn' \in [Conns -> ConnRecord] /\ conn'[c] = r /\ \A d \in Conns \ {c} : conn'[d] = conn[d]
  BY <1>1, <1>2 DEF Evolves
<1>4. connections' \subseteq Conns /\ connections' \subseteq connections
  BY <1>1, <1>2
<1>5. ConnTypes(acceptor', conn', connections')
  BY <1>1, <1>3, <1>4 DEF ConnInv, ConnTypes, Evolves
<1>6. Loops(acceptor')
  BY <1>1 DEF ConnInv
<1>7. PhasesAgree(acceptor', conn', connections')
  <2>1. r.phase = "live"
    BY <1>1 DEF Evolves
  <2> QED
    BY <1>1, <1>3, <1>4, <2>1 DEF ConnInv, PhasesAgree
<1>8. ReleasesAgree'
  <2>1. UNCHANGED <<acceptor, dispatcherUp, dying, crashed>>
    BY <1>1
  <2>2. c \in connections' => ~r.closed
    BY <1>1, <1>4 DEF ConnInv, ReleasesAgree
  <2>3. /\ r.releases <= 1
        /\ dying.stage = "no" /\ ~r.closed => r.releases = 0 /\ (r.receivedFirst => r.protocol)
        /\ dying.stage = "releasing" /\ c \in dying.left => r.releases = 0
    <3>1. conn[c] \in ConnRecord /\ r \in ConnRecord
      BY <1>2 DEF Evolves
    <3>2. CASE r.releases = conn[c].releases
      BY <3>2 DEF ConnInv, ReleasesAgree, Evolves
    <3>3. CASE dispatcherUp /\ ~conn[c].closed /\ r.closed /\ r.releases = conn[c].releases + 1
      <4>1. dying.stage = "no" /\ conn[c].releases = 0
        BY <3>3 DEF ConnInv, ReleasesAgree
      <4> QED
        BY <3>3, <4>1
    <3> QED
      BY <3>2, <3>3 DEF Evolves
  <2> QED
    BY <1>3, <1>4, <2>1, <2>2, <2>3 DEF ConnInv, ReleasesAgree
<1>9. IpCountExact' /\ ipConnectionCount' \in [Ips -> 0 .. maxConnectionsPerIp]
  <2>0. r.trackedIp = conn[c].trackedIp /\ ipConnectionCount \in [Ips -> 0 .. maxConnectionsPerIp]
    BY DEF Evolves, ConnInv, OtherTypes
  <2>1. \A i \in Ips : ipConnectionCount[i] = Cardinality(Counted(conn, connections, i))
    BY DEF ConnInv, IpCountExact, Counted
  <2>2. SUFFICES /\ \A i \in Ips : ipConnectionCount'[i] = Cardinality(Counted(conn', connections', i))
                 /\ ipConnectionCount' \in [Ips -> 0 .. maxConnectionsPerIp]
    BY DEF IpCountExact, Counted
  <2>3. CASE connections' = connections /\ ipConnectionCount' = ipConnectionCount
    <3>1. \A i \in Ips : Counted(conn', connections', i) = Counted(conn, connections, i)
      BY <1>2, <1>3, <2>0, <2>3 DEF Counted
    <3> QED
      BY <2>0, <2>1, <2>3, <3>1
  <2>4. CASE leaves /\ ~(c \in connections /\ r.trackedIp # "none")
    <3>1. ipConnectionCount' = ipConnectionCount /\ connections' = connections \ {c}
      BY <1>1, <2>4 DEF Uncounted
    <3>2. \A i \in Ips : Counted(conn', connections', i) = Counted(conn, connections, i)
      BY <1>2, <1>3, <2>0, <2>4, <3>1, ConnBounds DEF Counted
    <3> QED
      BY <2>0, <2>1, <3>1, <3>2
  <2>5. CASE leaves /\ c \in connections /\ r.trackedIp # "none"
    <3> DEFINE ip == r.trackedIp
    <3>1. ip \in Ips
      BY <2>5 DEF Evolves, ConnRecord
    <3>2. ipConnectionCount' = [ipConnectionCount EXCEPT ![ip] = @ - 1] /\ connections' = connections \ {c}
      BY <1>1, <2>5 DEF Uncounted
    <3>3. \A i \in Ips \ {ip} : Counted(conn', connections', i) = Counted(conn, connections, i)
      BY <1>2, <1>3, <2>0, <3>2 DEF Counted
    <3>4. Counted(conn', connections', ip) = Counted(conn, connections, ip) \ {c}
      BY <1>2, <1>3, <2>0, <3>2 DEF Counted
    <3>5. c \in Counted(conn, connections, ip)
      BY <2>0, <2>5 DEF Counted
    <3> DEFINE K == Counted(conn, connections, ip)
    <3>6. IsFiniteSet(K) /\ Cardinality(K) \in Nat /\ Cardinality(K \ {c}) = Cardinality(K) - 1 /\ Cardinality(K \ {c}) \in Nat
      <4>1. IsFiniteSet(K) /\ Cardinality(K) \in Nat
        BY <1>2, CountedIsFinite
      <4> HIDE DEF K
      <4>2. Cardinality(K \ {c}) = Cardinality(K) - 1 /\ IsFiniteSet(K \ {c})
        BY <3>5, <4>1, FS_RemoveElement DEF K
      <4> QED
        BY <4>1, <4>2, FS_CardinalityType
    <3>7. ipConnectionCount[ip] = Cardinality(K) /\ ipConnectionCount[ip] \in 0 .. maxConnectionsPerIp
      BY <2>0, <2>1, <3>1
    <3>8. ipConnectionCount[ip] - 1 \in 0 .. maxConnectionsPerIp /\ ipConnectionCount[ip] - 1 = Cardinality(K \ {c})
      BY <3>6, <3>7, ConnBounds
    <3> HIDE DEF K, ip
    <3>9. /\ ipConnectionCount' \in [Ips -> 0 .. maxConnectionsPerIp]
          /\ ipConnectionCount'[ip] = Cardinality(K \ {c})
          /\ \A i \in Ips \ {ip} : ipConnectionCount'[i] = ipConnectionCount[i]
      BY <2>0, <3>1, <3>2, <3>8
    <3> QED
      BY <2>1, <3>3, <3>4, <3>9 DEF K
  <2> QED
    BY <1>1, <2>3, <2>4, <2>5
<1>10. OtherTypes'
  BY <1>1, <1>9 DEF OtherTypes, ConnInv
<1> QED
  BY <1>5, <1>6, <1>7, <1>8, <1>9, <1>10 DEF ConnInv

\* To read on, or to close when the read cannot start, evolves the connection.
LEMMA ReadMoreEvolves ==
    ASSUME NEW r \in ConnRecord, InOrder(r), NEW what \in {"header", "body"}, NEW q \in ReadMore(r, what)
    PROVE  Evolves(r, q)
  BY ReadingEvolves, CloseLockedEvolves DEF ReadMore

\* Connection::parseHeader and parsePacket keep the invariant, with whatever their protocol does.
LEMMA ReadingKeepsInv ==
    ASSUME ConnInv, NEW c \in Conns, parseHeader(c) \/ parsePacket(c)
    PROVE  ConnInv'
<1> DEFINE r == ReadDone(c)
           q == [r EXCEPT !.receivedFirst = TRUE, !.protocol = TRUE]
<1>1. conn[c] \in ConnRecord /\ InOrder(conn[c])
  BY DEF ConnInv, ConnTypes
<1>2. Evolves(conn[c], r) /\ r \in ConnRecord /\ InOrder(r)
  BY <1>1, ReadingEvolves DEF ReadDone, Evolves
<1>3. r.closed = conn[c].closed /\ r.receivedFirst = conn[c].receivedFirst /\ r.protocol = conn[c].protocol
  BY <1>1 DEF ReadDone, ConnRecord
<1> HIDE DEF r
<1>4. Evolves(r, q) /\ q \in ConnRecord /\ InOrder(q)
  BY <1>2, FirstReceivedEvolves DEF Evolves
<1> HIDE DEF q
<1>5. /\ Evolves(conn[c], q)
      /\ Evolves(conn[c], closeLocked(r, TRUE)) /\ Evolves(conn[c], closeLocked(r, FALSE))
      /\ \A s \in ReadMore(r, "body") : Evolves(conn[c], s)
      /\ \A s \in ReadMore(q, "header") : Evolves(conn[c], s)
      /\ Evolves(conn[c], UnknownProtocol(r))
  BY <1>1, <1>2, <1>4, CloseLockedEvolves, ReadMoreEvolves, FirstReceivedEvolves, EvolvesTransitive
<1>6. \A s \in ReadMore(DisconnectClient(q), "header") : Evolves(conn[c], s)
  <2>1. Evolves(q, DisconnectClient(q)) /\ DisconnectClient(q) \in ConnRecord /\ InOrder(DisconnectClient(q))
    BY <1>4, DisconnectEvolves DEF Evolves
  <2>2. Evolves(conn[c], DisconnectClient(q))
    BY <1>1, <1>5, <2>1, EvolvesTransitive
  <2> QED
    BY <1>1, <2>1, <2>2, ReadMoreEvolves, EvolvesTransitive
<1>7. ASSUME NEW s, Handler(c, s), Evolves(conn[c], s) PROVE ConnInv'
  BY <1>7, HandlerKeepsInv
<1>8. CASE parseHeader(c)
  BY <1>2, <1>5, <1>7, <1>8 DEF parseHeader, r
<1>9. CASE parsePacket(c)
  <2>1. ASSUME ~r.closed, r.receivedFirst, ~r.protocol, crashed' = TRUE,
               UNCHANGED <<conn, manager, acceptor, dispatcherUp, dying>>
        PROVE  ConnInv'
    <3>1. /\ conn' = conn /\ connections' = connections /\ ipConnectionCount' = ipConnectionCount
          /\ acceptor' = acceptor /\ dispatcherUp' = dispatcherUp /\ dying' = dying
      BY <2>1 DEF manager
    <3>2. dying.stage # "no"
      BY <1>3, <2>1 DEF ConnInv, ReleasesAgree
    <3>3. ReleasesAgree'
      BY <2>1, <3>1, <3>2 DEF ConnInv, ReleasesAgree
    <3>4. OtherTypes' /\ IpCountExact'
      BY <2>1, <3>1 DEF ConnInv, OtherTypes, IpCountExact
    <3> QED
      BY <3>1, <3>3, <3>4 DEF ConnInv
  <2> QED
    BY <1>2, <1>5, <1>6, <1>7, <1>9, <2>1 DEF parsePacket, r, q
<1> QED
  BY <1>8, <1>9

\* Sends, completed writes, timeouts and closes keep the invariant.
LEMMA WritingKeepsInv ==
    ASSUME ConnInv, NEW c \in Conns,
           InternalSend(c) \/ onWriteOperation(c) \/ handleTimeout(c) \/ send(c) \/ close(c)
    PROVE  ConnInv'
<1>1. conn[c] \in ConnRecord /\ InOrder(conn[c])
  BY DEF ConnInv, ConnTypes
<1>2. CASE InternalSend(c)
  <2>1. PICK m \in conn[c].posted : \E r \in internalSend([conn[c] EXCEPT !.posted = @ \ {m}], m) : Handler(c, r)
    BY <1>2 DEF InternalSend
  <2>2. PICK r \in internalSend([conn[c] EXCEPT !.posted = @ \ {m}], m) : Handler(c, r)
    BY <2>1
  <2>3. Evolves(conn[c], r)
    BY <1>1, TakenUpEvolves
  <2> QED
    BY <2>2, <2>3, HandlerKeepsInv
<1>3. CASE onWriteOperation(c)
  <2> DEFINE R(m) == [conn[c] EXCEPT !.inflight = @ \ {m},
                                     !.messageQueue = IF conn[c].messageQueue = <<>> THEN conn[c].messageQueue
                                                      ELSE Tail(conn[c].messageQueue)]
  <2>1. PICK m \in conn[c].inflight :
              \/ \E q \in Written(R(m)) : Handler(c, q)
              \/ Handler(c, WriteFails([R(m) EXCEPT !.messageQueue = <<>>]))
    BY <1>3 DEF onWriteOperation
  <2>2. /\ \A q \in Written(R(m)) : Evolves(conn[c], q)
        /\ Evolves(conn[c], WriteFails([R(m) EXCEPT !.messageQueue = <<>>]))
    BY <1>1, WrittenEvolves
  <2> HIDE DEF R
  <2> QED
    BY <2>1, <2>2, HandlerKeepsInv
<1>4. CASE handleTimeout(c) \/ close(c)
  BY <1>1, <1>4, CloseLockedEvolves, HandlerKeepsInv DEF handleTimeout, close
<1>5. CASE send(c)
  BY <1>1, <1>5, QueuedEvolves, HandlerKeepsInv DEF send
<1> QED
  BY <1>2, <1>3, <1>4, <1>5

\* The last reference to a connection goes: the object is unused again and its address no longer
\* counted.
LEMMA DestroyKeepsInv ==
    ASSUME ConnInv, NEW c \in Conns, Destroy(c)
    PROVE  ConnInv'
<1>1. /\ conn[c].phase = "live" /\ c \notin connections /\ c \notin dying.left
      /\ conn' = [conn EXCEPT ![c] = FreshConn]
      /\ connections' = connections /\ ipConnectionCount' = ipConnectionCount
      /\ UNCHANGED <<acceptor, dispatcherUp, dying, crashed>>
  BY DEF Destroy, manager, Live
<1>2. FreshConn \in ConnRecord /\ InOrder(FreshConn)
  <2>1. FreshConn \in ConnRecord
    BY DEF FreshConn, ConnRecord
  <2> QED
    BY <2>1, ConnBounds DEF FreshConn, InOrder
<1>3. /\ FreshConn.phase = "unused" /\ FreshConn.trackedIp = "none" /\ FreshConn.releases = 0
      /\ ~FreshConn.closed /\ ~FreshConn.protocol /\ ~FreshConn.receivedFirst
  BY DEF FreshConn
<1>4. /\ conn \in [Conns -> ConnRecord] /\ connections \subseteq Conns
      /\ conn' \in [Conns -> ConnRecord] /\ conn'[c] = FreshConn /\ \A d \in Conns \ {c} : conn'[d] = conn[d]
  BY <1>1, <1>2 DEF ConnInv, ConnTypes
<1>5. ConnTypes(acceptor', conn', connections')
  BY <1>1, <1>2, <1>4 DEF ConnInv, ConnTypes
<1>6. PhasesAgree(acceptor', conn', connections')
  BY <1>1, <1>3, <1>4 DEF ConnInv, PhasesAgree
<1>7. ReleasesAgree'
  BY <1>1, <1>3, <1>4 DEF ConnInv, ReleasesAgree
<1>8. IpCountExact'
  <2>1. \A i \in Ips : {d \in connections' : conn'[d].trackedIp = i} = {d \in connections : conn[d].trackedIp = i}
    BY <1>1, <1>4
  <2> QED
    BY <1>1, <2>1 DEF ConnInv, IpCountExact
<1> QED
  BY <1>1, <1>5, <1>6, <1>7, <1>8 DEF ConnInv, OtherTypes

\* A new connection has its type and an empty queue in order.
LEMMA FreshIsTyped == FreshConn \in ConnRecord /\ InOrder(FreshConn)
<1>1. FreshConn \in ConnRecord
  BY DEF FreshConn, ConnRecord
<1> QED
  BY <1>1, ConnBounds DEF FreshConn, InOrder

\* A connection that was to be accepted and is dropped leaves everything as it was before the accept
\* began.
LEMMA ForgottenIsUnused ==
    ASSUME ConnInv, NEW c \in acceptor.accepting, NEW a, a = [acceptor EXCEPT !.accepting = {}]
    PROVE  /\ ConnTypes(a, Forgotten(c), connections \ {c}) /\ PhasesAgree(a, Forgotten(c), connections \ {c})
           /\ a.accepting = {} /\ a.stopped = acceptor.stopped
           /\ ~a.stopped => a.open /\ ~a.pendingStart /\ a.retryTimer = "no"
           /\ \A i \in Ips : Counted(Forgotten(c), connections \ {c}, i) = Counted(conn, connections, i)
           /\ c \in Conns
           /\ Forgotten(c)[c].releases = 0 /\ ~Forgotten(c)[c].closed /\ ~Forgotten(c)[c].protocol
           /\ ~Forgotten(c)[c].receivedFirst
           /\ \A d \in Conns \ {c} : Forgotten(c)[d] = conn[d]
<1>1. /\ acceptor \in AcceptorRecord /\ c \in Conns
      /\ conn \in [Conns -> ConnRecord] /\ connections \subseteq Conns
      /\ \A d \in Conns : InOrder(conn[d])
      /\ Loops(acceptor) /\ PhasesAgree(acceptor, conn, connections)
  BY DEF ConnInv, ConnTypes, AcceptorRecord
<1>2. /\ a \in AcceptorRecord /\ a.accepting = {} /\ a.stopped = acceptor.stopped
      /\ a.open = acceptor.open /\ a.pendingStart = acceptor.pendingStart
      /\ a.retryTimer = acceptor.retryTimer
  BY <1>1 DEF AcceptorRecord
<1>3. ~a.stopped => a.open /\ ~a.pendingStart /\ a.retryTimer = "no"
  BY <1>1, <1>2 DEF Loops, AcceptorRecord
<1>4. /\ Forgotten(c) \in [Conns -> ConnRecord] /\ Forgotten(c)[c] = FreshConn
      /\ \A d \in Conns \ {c} : Forgotten(c)[d] = conn[d]
  BY <1>1, FreshIsTyped DEF Forgotten
<1>5. /\ FreshConn.phase = "unused" /\ FreshConn.trackedIp = "none" /\ FreshConn.releases = 0
      /\ ~FreshConn.closed /\ ~FreshConn.protocol /\ ~FreshConn.receivedFirst
  BY DEF FreshConn
<1>6. \A d \in Conns \ {c} : conn[d].phase # "accepting"
  BY <1>1 DEF Loops, PhasesAgree
<1>7. ConnTypes(a, Forgotten(c), connections \ {c})
  BY <1>1, <1>2, <1>4, FreshIsTyped DEF ConnTypes
<1>8. PhasesAgree(a, Forgotten(c), connections \ {c})
  BY <1>1, <1>2, <1>4, <1>5, <1>6 DEF PhasesAgree
<1>9. conn[c].trackedIp = "none"
  BY <1>1 DEF PhasesAgree
<1>10. \A i \in Ips : Counted(Forgotten(c), connections \ {c}, i) = Counted(conn, connections, i)
  BY <1>1, <1>4, <1>9, ConnBounds DEF Counted
<1> QED
  BY <1>1, <1>2, <1>3, <1>4, <1>5, <1>7, <1>8, <1>10

\* What an accept or the loss of one changes: nothing that the releases or the counters depend on.
LEMMA AcceptedKeepsInv ==
    ASSUME ConnInv, OtherTypes', ConnTypes(acceptor', conn', connections'), Loops(acceptor'),
           PhasesAgree(acceptor', conn', connections'),
           acceptor'.stopped = acceptor.stopped, UNCHANGED <<dispatcherUp, dying, crashed>>,
           \A i \in Ips : ipConnectionCount'[i] = Cardinality(Counted(conn', connections', i)),
           \A d \in Conns : /\ \/ /\ conn'[d].closed = conn[d].closed /\ conn'[d].releases = conn[d].releases
                                  /\ conn'[d].protocol = conn[d].protocol
                                  /\ conn'[d].receivedFirst = conn[d].receivedFirst
                               \/ /\ conn'[d].releases = 0 /\ ~conn'[d].closed
                                  /\ ~conn'[d].receivedFirst
                            /\ d \in connections' => d \in connections \/ ~conn'[d].closed
    PROVE  ConnInv'
<1>1. IpCountExact'
  BY DEF IpCountExact, Counted
<1>2. ReleasesAgree'
  BY DEF ConnInv, ReleasesAgree
<1> QED
  BY <1>1, <1>2 DEF ConnInv

\* Between two handlers the counter of an address is the number of its connections.
LEMMA CountsExact ==
    ASSUME ConnInv
    PROVE  \A i \in Ips : ipConnectionCount[i] = Cardinality(Counted(conn, connections, i))
  BY DEF ConnInv, IpCountExact, Counted

\* An accept that fails keeps the invariant: the loop waits for the retry, or goes on.
LEMMA AcceptErrorKeepsInv == ConnInv /\ onAcceptError => ConnInv'
<1> SUFFICES ASSUME ConnInv, onAcceptError PROVE ConnInv'
  OBVIOUS
<1> DEFINE a == [acceptor EXCEPT !.accepting = {}]
<1>1. PICK c \in acceptor.accepting :
        /\ conn' = Forgotten(c) /\ connections' = connections \ {c}
        /\ \/ ~a.open /\ acceptor' = a
           \/ a.open /\ acceptor' = RetryAccept(a)
           \/ a.open /\ acceptor' = scheduleOpen(a)
        /\ UNCHANGED <<ipConnectionCount, dispatcherUp, dying, crashed>>
  BY DEF onAcceptError
<1>2. /\ ConnTypes(a, Forgotten(c), connections \ {c}) /\ PhasesAgree(a, Forgotten(c), connections \ {c})
      /\ a.accepting = {} /\ a.stopped = acceptor.stopped
      /\ ~a.stopped => a.open /\ ~a.pendingStart /\ a.retryTimer = "no"
      /\ \A i \in Ips : Counted(Forgotten(c), connections \ {c}, i) = Counted(conn, connections, i)
      /\ c \in Conns
      /\ Forgotten(c)[c].releases = 0 /\ ~Forgotten(c)[c].closed /\ ~Forgotten(c)[c].receivedFirst
      /\ \A d \in Conns \ {c} : Forgotten(c)[d] = conn[d]
  <2>1. a = [acceptor EXCEPT !.accepting = {}]
    OBVIOUS
  <2> HIDE DEF a
  <2> QED
    BY <2>1, ForgottenIsUnused
<1>3. /\ acceptor' \in AcceptorRecord /\ acceptor'.accepting = {} /\ acceptor'.stopped = a.stopped
      /\ Loops(acceptor')
  <2>1. a \in AcceptorRecord
    BY <1>2 DEF ConnTypes
  <2> HIDE DEF a
  <2>2. CASE a.stopped
    BY <1>1, <1>2, <2>1, <2>2 DEF RetryAccept, scheduleOpen, Loops
  <2>3. CASE ~a.stopped
    <3>1. acceptor' \in {[a EXCEPT !.retryTimer = "accept"],
                         [a EXCEPT !.pendingStart = TRUE, !.open = FALSE, !.retryTimer = "open"]}
      BY <1>1, <1>2, <2>3 DEF RetryAccept, scheduleOpen
    <3> QED
      BY <1>2, <2>1, <3>1 DEF AcceptorRecord, Loops
  <2> QED
    BY <2>2, <2>3
<1> HIDE DEF a
<1>4. ConnTypes(acceptor', conn', connections') /\ PhasesAgree(acceptor', conn', connections')
  BY <1>1, <1>2, <1>3 DEF ConnTypes, PhasesAgree
<1>5. OtherTypes'
  BY <1>1 DEF ConnInv, OtherTypes
<1>6. \A i \in Ips : ipConnectionCount'[i] = Cardinality(Counted(conn', connections', i))
  BY <1>1, <1>2, CountsExact
<1> QED
  BY <1>1, <1>2, <1>3, <1>4, <1>5, <1>6, AcceptedKeepsInv

\* A connection that is refused, banned or over the limit of its address, keeps the invariant: its
\* counter is given back and the loop goes on.
LEMMA AcceptRefusedKeepsInv == ConnInv /\ onAcceptRefused => ConnInv'
<1> SUFFICES ASSUME ConnInv, onAcceptRefused PROVE ConnInv'
  OBVIOUS
<1> DEFINE a == [acceptor EXCEPT !.accepting = {}]
<1>1. PICK c \in acceptor.accepting :
        /\ accept(a, Forgotten(c), connections \ {c})
        /\ UNCHANGED <<ipConnectionCount, dispatcherUp, dying, crashed>>
  BY DEF onAcceptRefused
<1>2. /\ ConnTypes(a, Forgotten(c), connections \ {c}) /\ PhasesAgree(a, Forgotten(c), connections \ {c})
      /\ a.accepting = {} /\ a.stopped = acceptor.stopped
      /\ ~a.stopped => a.open /\ ~a.pendingStart /\ a.retryTimer = "no"
      /\ \A i \in Ips : Counted(Forgotten(c), connections \ {c}, i) = Counted(conn, connections, i)
      /\ c \in Conns
      /\ Forgotten(c)[c].releases = 0 /\ ~Forgotten(c)[c].closed /\ ~Forgotten(c)[c].receivedFirst
      /\ \A d \in Conns \ {c} : Forgotten(c)[d] = conn[d]
  <2>1. a = [acceptor EXCEPT !.accepting = {}]
    OBVIOUS
  <2> HIDE DEF a
  <2> QED
    BY <2>1, ForgottenIsUnused
<1> HIDE DEF a
<1>3. /\ ConnTypes(acceptor', conn', connections') /\ Loops(acceptor')
      /\ PhasesAgree(acceptor', conn', connections')
      /\ acceptor'.stopped = a.stopped
      /\ \A i \in Ips : Counted(conn', connections', i) = Counted(Forgotten(c), connections \ {c}, i)
      /\ \A d \in Conns : /\ conn'[d].closed = Forgotten(c)[d].closed
                          /\ conn'[d].releases = Forgotten(c)[d].releases
                          /\ conn'[d].protocol = Forgotten(c)[d].protocol
                          /\ conn'[d].receivedFirst = Forgotten(c)[d].receivedFirst
                          /\ d \in connections' => d \in connections \ {c} \/ ~conn'[d].closed
  BY <1>1, <1>2, AcceptGoesOn
<1>4. OtherTypes'
  BY <1>1 DEF ConnInv, OtherTypes
<1>5. \A i \in Ips : ipConnectionCount'[i] = Cardinality(Counted(conn', connections', i))
  BY <1>1, <1>2, <1>3, CountsExact
<1> QED
  BY <1>1, <1>2, <1>3, <1>4, <1>5, AcceptedKeepsInv

\* An accepted connection keeps the invariant: it is counted, becomes live, and the loop goes on.
LEMMA AcceptKeepsInv == ConnInv /\ onAccept => ConnInv'
<1> SUFFICES ASSUME ConnInv, onAccept PROVE ConnInv'
  OBVIOUS
<1> DEFINE a == [acceptor EXCEPT !.accepting = {}]
           Peer(c, i, single) == [[conn[c] EXCEPT !.phase = "live", !.socket = TRUE, !.trackedIp = i,
                                                 !.protocol = single] EXCEPT !.reading = "header"]
<1>1. PICK c \in acceptor.accepting, i \in Ips, single \in BOOLEAN :
        /\ c \in connections
        /\ ipConnectionCount[i] < maxConnectionsPerIp
        /\ ipConnectionCount' = [ipConnectionCount EXCEPT ![i] = @ + 1]
        /\ accept(a, [conn EXCEPT ![c] = Peer(c, i, single)], connections)
        /\ UNCHANGED <<dispatcherUp, dying, crashed>>
  BY DEF onAccept
<1>2. /\ ConnTypes(a, Forgotten(c), connections \ {c}) /\ PhasesAgree(a, Forgotten(c), connections \ {c})
      /\ a.accepting = {} /\ a.stopped = acceptor.stopped
      /\ ~a.stopped => a.open /\ ~a.pendingStart /\ a.retryTimer = "no"
      /\ c \in Conns
      /\ \A d \in Conns \ {c} : Forgotten(c)[d] = conn[d]
  <2>1. a = [acceptor EXCEPT !.accepting = {}]
    OBVIOUS
  <2> HIDE DEF a
  <2> QED
    BY <2>1, ForgottenIsUnused
<1> HIDE DEF a
<1> DEFINE n == Peer(c, i, single)
           cn == [conn EXCEPT ![c] = n]
<1>3. /\ conn \in [Conns -> ConnRecord] /\ connections \subseteq Conns /\ InOrder(conn[c])
      /\ \A d \in Conns : InOrder(conn[d])
      /\ conn[c].phase = "accepting"
      /\ conn[c].trackedIp = "none" /\ conn[c].releases = 0 /\ ~conn[c].closed /\ ~conn[c].receivedFirst
      /\ ipConnectionCount \in [Ips -> 0 .. maxConnectionsPerIp]
  BY <1>2 DEF ConnInv, ConnTypes, PhasesAgree, OtherTypes
<1>4. /\ n \in ConnRecord /\ InOrder(n) /\ n.phase = "live" /\ n.trackedIp = i
      /\ n.releases = 0 /\ ~n.closed /\ ~n.receivedFirst
  <2>1. conn[c] \in ConnRecord
    BY <1>2, <1>3
  <2> DEFINE l == [conn[c] EXCEPT !.phase = "live", !.socket = TRUE, !.trackedIp = i, !.protocol = single]
  <2>2. /\ l \in ConnRecord /\ l.phase = "live" /\ l.trackedIp = i
        /\ l.releases = 0 /\ ~l.closed /\ ~l.receivedFirst
    BY <1>3, <2>1 DEF ConnRecord
  <2>3. InOrder(l)
    BY <1>3, <2>1 DEF ConnRecord, InOrder
  <2>4. n = [l EXCEPT !.reading = "header"]
    OBVIOUS
  <2> HIDE DEF l, n
  <2>5. Evolves(l, n)
    BY <2>2, <2>3, <2>4, ReadingEvolves
  <2>6. n.releases = 0 /\ ~n.closed /\ ~n.receivedFirst
    BY <2>2, <2>4 DEF ConnRecord
  <2> QED
    BY <2>2, <2>5, <2>6 DEF Evolves
<1> HIDE DEF Peer, n
<1>5. cn \in [Conns -> ConnRecord] /\ cn[c] = n /\ \A d \in Conns \ {c} : cn[d] = conn[d]
  BY <1>2, <1>3, <1>4
<1> HIDE DEF cn
<1>6. ConnTypes(a, cn, connections)
  BY <1>2, <1>3, <1>4, <1>5 DEF ConnTypes
<1>7. PhasesAgree(a, cn, connections)
  <2>1. ASSUME NEW d \in Conns \ {c}
        PROVE  /\ cn[d].phase # "accepting"
               /\ cn[d].phase # "live" => /\ cn[d].trackedIp = "none" /\ cn[d].releases = 0
                                          /\ ~cn[d].closed /\ ~cn[d].protocol /\ ~cn[d].receivedFirst
               /\ d \in connections => cn[d].phase # "unused"
    BY <1>2, <1>5 DEF PhasesAgree
  <2> QED
    BY <1>2, <1>4, <1>5, <2>1 DEF PhasesAgree
<1>8. accept(a, cn, connections)
  BY <1>1 DEF cn, n
<1>9. /\ ConnTypes(acceptor', conn', connections') /\ Loops(acceptor')
      /\ PhasesAgree(acceptor', conn', connections')
      /\ acceptor'.stopped = a.stopped
      /\ \A j \in Ips : Counted(conn', connections', j) = Counted(cn, connections, j)
      /\ \A d \in Conns : /\ conn'[d].closed = cn[d].closed
                          /\ conn'[d].releases = cn[d].releases
                          /\ conn'[d].protocol = cn[d].protocol
                          /\ conn'[d].receivedFirst = cn[d].receivedFirst
                          /\ d \in connections' => d \in connections \/ ~conn'[d].closed
  BY <1>2, <1>6, <1>7, <1>8, AcceptGoesOn
<1>10. /\ Counted(cn, connections, i) = Counted(conn, connections, i) \cup {c}
       /\ c \notin Counted(conn, connections, i)
       /\ \A j \in Ips \ {i} : Counted(cn, connections, j) = Counted(conn, connections, j)
  <2>1. \A j \in Ips : c \notin Counted(conn, connections, j)
    BY <1>3, ConnBounds DEF Counted
  <2> QED
    BY <1>1, <1>3, <1>4, <1>5, <2>1 DEF Counted
<1> DEFINE K == Counted(conn, connections, i)
<1>11. Cardinality(K \cup {c}) = Cardinality(K) + 1
  <2>1. IsFiniteSet(K)
    BY <1>3, CountedIsFinite
  <2> HIDE DEF K
  <2> QED
    BY <1>10, <2>1, FS_AddElement DEF K
<1>12. /\ ipConnectionCount' \in [Ips -> 0 .. maxConnectionsPerIp]
       /\ ipConnectionCount'[i] = ipConnectionCount[i] + 1
       /\ \A j \in Ips \ {i} : ipConnectionCount'[j] = ipConnectionCount[j]
  BY <1>1, <1>3, ConnBounds
<1>13. \A j \in Ips : ipConnectionCount'[j] = Cardinality(Counted(conn', connections', j))
  <2>1. ipConnectionCount'[i] = Cardinality(Counted(conn', connections', i))
    BY <1>9, <1>10, <1>11, <1>12, CountsExact
  <2>2. \A j \in Ips \ {i} : ipConnectionCount'[j] = Cardinality(Counted(conn', connections', j))
    BY <1>9, <1>10, <1>12, CountsExact
  <2> QED
    BY <2>1, <2>2
<1>14. OtherTypes'
  BY <1>1, <1>12 DEF ConnInv, OtherTypes
<1> QED
  BY <1>1, <1>2, <1>4, <1>5, <1>9, <1>13, <1>14, AcceptedKeepsInv

\* The retry of the acceptor keeps the invariant: the port opens, or another retry is pending.
LEMMA RetryKeepsInv == ConnInv /\ retry => ConnInv'
<1> SUFFICES ASSUME ConnInv, retry PROVE ConnInv'
  OBVIOUS
<1> DEFINE a == [acceptor EXCEPT !.retryTimer = "no"]
           o == [a EXCEPT !.pendingStart = FALSE, !.open = TRUE]
           p == [a EXCEPT !.pendingStart = FALSE]
<1>1. /\ acceptor \in AcceptorRecord /\ ~acceptor.stopped /\ acceptor.retryTimer # "no"
      /\ acceptor.accepting = {}
      /\ acceptor.retryTimer = "accept" => acceptor.open /\ ~acceptor.pendingStart
      /\ UNCHANGED <<ipConnectionCount, dispatcherUp, dying, crashed>>
  BY DEF ConnInv, ConnTypes, retry, Loops, AcceptorRecord
<1>2. /\ a \in AcceptorRecord /\ ~a.stopped /\ a.accepting = {} /\ a.retryTimer = "no"
      /\ acceptor.retryTimer = "accept" => a.open /\ ~a.pendingStart
      /\ o \in AcceptorRecord /\ ~o.stopped /\ o.accepting = {} /\ o.retryTimer = "no" /\ o.open /\ ~o.pendingStart
      /\ p \in AcceptorRecord /\ ~p.stopped /\ p.accepting = {} /\ ~p.pendingStart
  <2>1. /\ a \in AcceptorRecord /\ ~a.stopped /\ a.accepting = {} /\ a.retryTimer = "no"
        /\ a.open = acceptor.open /\ a.pendingStart = acceptor.pendingStart
    BY <1>1 DEF AcceptorRecord
  <2> HIDE DEF a
  <2>2. o \in AcceptorRecord /\ ~o.stopped /\ o.accepting = {} /\ o.retryTimer = "no" /\ o.open /\ ~o.pendingStart
    BY <2>1 DEF AcceptorRecord
  <2>3. p \in AcceptorRecord /\ ~p.stopped /\ p.accepting = {} /\ ~p.pendingStart
    BY <2>1 DEF AcceptorRecord
  <2> QED
    BY <1>1, <2>1, <2>2, <2>3
<1>3. \A b \in AcceptorRecord : b.accepting = {} =>
          ConnTypes(b, conn, connections) /\ PhasesAgree(b, conn, connections)
  <2>1. ConnTypes(acceptor, conn, connections) /\ PhasesAgree(acceptor, conn, connections)
    BY DEF ConnInv
  <2> SUFFICES ASSUME NEW b \in AcceptorRecord, b.accepting = {}
               PROVE  ConnTypes(b, conn, connections) /\ PhasesAgree(b, conn, connections)
    OBVIOUS
  <2>2. PhasesAgree(b, conn, connections)
    BY <1>1, <2>1 DEF PhasesAgree
  <2> QED
    BY <2>1, <2>2 DEF ConnTypes
<1>4. OtherTypes'
  BY <1>1 DEF ConnInv, OtherTypes
<1>5. ASSUME NEW b \in AcceptorRecord, ~b.stopped, b.accepting = {}, b.retryTimer = "no", b.open, ~b.pendingStart,
             accept(b, conn, connections)
      PROVE  ConnInv'
  <2>1. /\ ConnTypes(acceptor', conn', connections') /\ Loops(acceptor')
        /\ PhasesAgree(acceptor', conn', connections')
        /\ acceptor'.stopped = b.stopped
        /\ \A i \in Ips : Counted(conn', connections', i) = Counted(conn, connections, i)
        /\ \A c \in Conns : /\ conn'[c].closed = conn[c].closed /\ conn'[c].releases = conn[c].releases
                            /\ conn'[c].protocol = conn[c].protocol
                            /\ conn'[c].receivedFirst = conn[c].receivedFirst
                            /\ c \in connections' => c \in connections \/ ~conn'[c].closed
    BY <1>3, <1>5, AcceptGoesOn
  <2>2. \A i \in Ips : ipConnectionCount'[i] = Cardinality(Counted(conn', connections', i))
    BY <1>1, <2>1, CountsExact
  <2>3. acceptor'.stopped = acceptor.stopped
    BY <1>1, <1>5, <2>1 DEF ConnTypes, AcceptorRecord
  <2> QED
    BY <1>1, <1>4, <2>1, <2>2, <2>3, AcceptedKeepsInv
<1>6. CASE acceptor.retryTimer = "accept" /\ accept(a, conn, connections)
  BY <1>2, <1>5, <1>6
<1>7. CASE accept(o, conn, connections)
  BY <1>2, <1>5, <1>7
<1>8. CASE acceptor' = scheduleOpen(p) /\ UNCHANGED <<conn, connections>>
  <2> HIDE DEF p
  <2>1. acceptor' = [p EXCEPT !.pendingStart = TRUE, !.open = FALSE, !.retryTimer = "open"]
    BY <1>2, <1>8 DEF scheduleOpen
  <2>2. acceptor' \in AcceptorRecord /\ acceptor'.accepting = {} /\ ~acceptor'.stopped /\ Loops(acceptor')
    BY <1>2, <2>1 DEF AcceptorRecord, Loops
  <2>3. \A i \in Ips : ipConnectionCount'[i] = Cardinality(Counted(conn', connections', i))
    BY <1>1, <1>8, CountsExact
  <2>4. acceptor'.stopped = acceptor.stopped
    BY <1>1, <2>2 DEF AcceptorRecord
  <2>5. ConnTypes(acceptor', conn', connections') /\ PhasesAgree(acceptor', conn', connections')
    BY <1>3, <1>8, <2>2
  <2> QED
    BY <1>1, <1>4, <1>8, <2>2, <2>3, <2>4, <2>5, AcceptedKeepsInv
<1> HIDE DEF a, o, p
<1> QED
  BY <1>6, <1>7, <1>8 DEF retry, a, o, p

\* The steps of the teardown that choose whom to release and to close keep the invariant.
LEMMA TeardownKeepsInv ==
    ASSUME ConnInv, shutdownDispatcher \/ stopOnStrand \/ dieBegins \/ closeAllBegins \/ dieEnds
    PROVE  ConnInv'
<1>0. /\ acceptor \in AcceptorRecord /\ dying \in DyingRecord /\ connections \subseteq Conns
      /\ ConnTypes(acceptor, conn, connections) /\ OtherTypes
      /\ Loops(acceptor) /\ PhasesAgree(acceptor, conn, connections)
      /\ IpCountExact /\ ReleasesAgree
  BY DEF ConnInv, ConnTypes, OtherTypes
<1>1. CASE shutdownDispatcher
  <2>1. /\ dispatcherUp' = FALSE /\ conn' = conn /\ connections' = connections /\ acceptor' = acceptor
        /\ ipConnectionCount' = ipConnectionCount /\ dying' = dying /\ crashed' = crashed
    BY <1>1 DEF shutdownDispatcher, manager
  <2>2. OtherTypes' /\ IpCountExact'
    BY <1>0, <2>1 DEF OtherTypes, IpCountExact
  <2>3. ReleasesAgree'
    BY <1>0, <2>1 DEF ReleasesAgree
  <2> QED
    BY <1>0, <2>1, <2>2, <2>3 DEF ConnInv
<1>2. CASE stopOnStrand
  <2>1. /\ acceptor' = [acceptor EXCEPT !.stopped = TRUE, !.open = FALSE, !.retryTimer = "no"]
        /\ ~dispatcherUp /\ dispatcherUp' = dispatcherUp /\ conn' = conn /\ connections' = connections
        /\ ipConnectionCount' = ipConnectionCount /\ dying' = dying /\ crashed' = crashed
    BY <1>2 DEF stopOnStrand, manager
  <2>2. acceptor' \in AcceptorRecord /\ acceptor'.stopped /\ acceptor'.accepting = acceptor.accepting
    BY <1>0, <2>1 DEF AcceptorRecord
  <2>3. OtherTypes' /\ IpCountExact'
    BY <1>0, <2>1 DEF OtherTypes, IpCountExact
  <2>4. ReleasesAgree'
    BY <1>0, <2>1, <2>2 DEF ReleasesAgree
  <2>5. Loops(acceptor') /\ PhasesAgree(acceptor', conn', connections') /\ ConnTypes(acceptor', conn', connections')
    BY <1>0, <2>1, <2>2 DEF Loops, PhasesAgree, ConnTypes
  <2> QED
    BY <2>3, <2>4, <2>5 DEF ConnInv
<1>3. CASE dieBegins
  <2>1. /\ dying' = [stage |-> "releasing", left |-> connections] /\ acceptor.stopped /\ dying.stage = "no"
        /\ dispatcherUp' = dispatcherUp /\ conn' = conn /\ connections' = connections /\ acceptor' = acceptor
        /\ ipConnectionCount' = ipConnectionCount /\ crashed' = crashed
    BY <1>3 DEF dieBegins, manager
  <2>2. dying' \in DyingRecord /\ dying'.stage = "releasing" /\ dying'.left = connections
    BY <1>0, <2>1 DEF DyingRecord
  <2>3. OtherTypes' /\ IpCountExact'
    BY <1>0, <2>1, <2>2 DEF OtherTypes, IpCountExact
  <2>4. ReleasesAgree'
    BY <1>0, <2>1, <2>2 DEF ReleasesAgree
  <2> QED
    BY <1>0, <2>1, <2>3, <2>4 DEF ConnInv
<1>4. CASE closeAllBegins
  <2>1. /\ dying' = [stage |-> "closing", left |-> connections] /\ dying.stage = "releasing"
        /\ connections' = {} /\ ipConnectionCount' = [i \in Ips |-> 0]
        /\ dispatcherUp' = dispatcherUp /\ conn' = conn /\ acceptor' = acceptor /\ crashed' = crashed
    BY <1>4 DEF closeAllBegins
  <2>2. dying' \in DyingRecord /\ dying'.stage = "closing"
    BY <1>0, <2>1 DEF DyingRecord
  <2>3. OtherTypes'
    BY <1>0, <2>1, <2>2, ConnBounds DEF OtherTypes
  <2>4. IpCountExact'
    <3>1. \A i \in Ips : {c \in connections' : conn'[c].trackedIp = i} = {}
      BY <2>1
    <3> QED
      BY <2>1, <3>1, FS_EmptySet DEF IpCountExact
  <2>5. ReleasesAgree'
    BY <1>0, <2>1, <2>2 DEF ReleasesAgree
  <2>6. PhasesAgree(acceptor', conn', connections') /\ ConnTypes(acceptor', conn', connections')
    BY <1>0, <2>1 DEF PhasesAgree, ConnTypes
  <2> QED
    BY <1>0, <2>1, <2>3, <2>4, <2>5, <2>6 DEF ConnInv
<1>5. CASE dieEnds
  <2>1. /\ dying' = [dying EXCEPT !.stage = "stopped"] /\ dying.stage = "closing"
        /\ dispatcherUp' = dispatcherUp /\ conn' = conn /\ connections' = connections /\ acceptor' = acceptor
        /\ ipConnectionCount' = ipConnectionCount /\ crashed' = crashed
    BY <1>5 DEF dieEnds, manager
  <2>2. dying' \in DyingRecord /\ dying'.stage = "stopped"
    BY <1>0, <2>1 DEF DyingRecord
  <2>3. OtherTypes' /\ IpCountExact'
    BY <1>0, <2>1, <2>2 DEF OtherTypes, IpCountExact
  <2>4. ReleasesAgree'
    BY <1>0, <2>1, <2>2 DEF ReleasesAgree
  <2> QED
    BY <1>0, <2>1, <2>3, <2>4 DEF ConnInv
<1> QED
  BY <1>1, <1>2, <1>3, <1>4, <1>5

\* The teardown's step for one connection keeps the invariant: who was released before is not
\* released again.
LEMMA TornDownKeepsInv ==
    ASSUME ConnInv, NEW c \in Conns, releaseAllProtocols(c) \/ closeAll(c)
    PROVE  ConnInv'
<1>0. /\ dying \in DyingRecord /\ connections \subseteq Conns
      /\ ConnTypes(acceptor, conn, connections) /\ OtherTypes
      /\ Loops(acceptor) /\ PhasesAgree(acceptor, conn, connections)
      /\ IpCountExact /\ ReleasesAgree
      /\ conn \in [Conns -> ConnRecord] /\ conn[c] \in ConnRecord /\ InOrder(conn[c])
  BY DEF ConnInv, ConnTypes, OtherTypes
<1>1. /\ c \in dying.left /\ dying' = [dying EXCEPT !.left = @ \ {c}]
      /\ UNCHANGED <<connections, ipConnectionCount, acceptor, dispatcherUp, crashed>>
  BY DEF releaseAllProtocols, closeAll, manager
<1>2. dying' \in DyingRecord /\ dying'.stage = dying.stage /\ dying'.left = dying.left \ {c}
  BY <1>0, <1>1 DEF DyingRecord
<1>3. PICK r \in ConnRecord :
         /\ conn' = [conn EXCEPT ![c] = r]
         /\ InOrder(r) /\ r.phase = conn[c].phase /\ r.trackedIp = conn[c].trackedIp
         /\ r.closed = conn[c].closed /\ r.receivedFirst = conn[c].receivedFirst
         /\ r.protocol => conn[c].protocol
         /\ dying.stage # "no" /\ r.releases <= 1
         /\ r.phase # "live" => r.releases = 0
  <2>1. CASE releaseAllProtocols(c)
    <3>1. dying.stage = "releasing" /\ conn[c].releases = 0
      BY <1>0, <1>1, <2>1 DEF releaseAllProtocols, ReleasesAgree
    <3>2. CASE ~conn[c].protocol
      <4>1. conn' = [conn EXCEPT ![c] = conn[c]]
        BY <1>0, <2>1, <3>2 DEF releaseAllProtocols
      <4>2. conn[c].releases <= 1
        BY <3>1
      <4> USE <1>0
      <4> WITNESS conn[c] \in ConnRecord
      <4> QED
        BY <1>0, <3>1, <4>1, <4>2
    <3>3. CASE conn[c].protocol
      <4> DEFINE r == [conn[c] EXCEPT !.protocol = FALSE, !.releases = 1]
      <4>1. conn' = [conn EXCEPT ![c] = r]
        <5>1. conn' = [conn EXCEPT ![c].protocol = FALSE, ![c].releases = @ + 1]
          BY <2>1, <3>3 DEF releaseAllProtocols
        <5>2. conn[c].releases + 1 = 1
          BY <3>1
        <5> QED
          BY <1>0, <5>1, <5>2 DEF ConnRecord
      <4>2. /\ r \in ConnRecord /\ r.phase = conn[c].phase /\ r.trackedIp = conn[c].trackedIp
            /\ r.closed = conn[c].closed /\ r.receivedFirst = conn[c].receivedFirst
            /\ ~r.protocol /\ r.releases = 1
        BY <1>0 DEF ConnRecord
      <4>3. InOrder(r)
        BY <1>0 DEF ConnRecord, InOrder
      <4>4. conn[c].phase = "live"
        BY <1>0, <3>3 DEF PhasesAgree
      <4> HIDE DEF r
      <4>5. r.releases <= 1 /\ r.phase = "live"
        BY <4>2, <4>4
      <4> USE <4>2
      <4> WITNESS r \in ConnRecord
      <4> QED
        BY <3>1, <4>1, <4>2, <4>3, <4>5
    <3> QED
      BY <3>2, <3>3
  <2>2. CASE closeAll(c)
    <3> DEFINE r == closeSocket(conn[c])
    <3>1. conn' = [conn EXCEPT ![c] = r] /\ dying.stage = "closing"
      BY <2>2 DEF closeAll
    <3>2. /\ r \in ConnRecord /\ r.phase = conn[c].phase /\ r.trackedIp = conn[c].trackedIp
          /\ r.closed = conn[c].closed /\ r.receivedFirst = conn[c].receivedFirst
          /\ r.protocol = conn[c].protocol /\ r.releases = conn[c].releases
      BY <1>0 DEF ConnRecord, closeSocket
    <3>3. InOrder(r)
      BY <1>0, CloseSocketEvolves DEF Evolves
    <3>4. conn[c].releases <= 1 /\ (conn[c].phase # "live" => conn[c].releases = 0)
      BY <1>0 DEF PhasesAgree, ReleasesAgree
    <3> HIDE DEF r
    <3> QED
      BY <3>1, <3>2, <3>3, <3>4
  <2> QED
    BY <2>1, <2>2
<1>4. conn' \in [Conns -> ConnRecord] /\ conn'[c] = r /\ \A d \in Conns \ {c} : conn'[d] = conn[d]
  BY <1>0, <1>3
<1>5. ConnTypes(acceptor', conn', connections')
  BY <1>0, <1>1, <1>3, <1>4 DEF ConnTypes
<1>6. PhasesAgree(acceptor', conn', connections')
  BY <1>0, <1>1, <1>3, <1>4 DEF PhasesAgree
<1>7. ReleasesAgree'
  BY <1>0, <1>1, <1>2, <1>3, <1>4 DEF ReleasesAgree
<1>8. IpCountExact'
  <2>1. \A i \in Ips : {d \in connections' : conn'[d].trackedIp = i} = {d \in connections : conn[d].trackedIp = i}
    BY <1>0, <1>1, <1>3, <1>4
  <2> QED
    BY <1>0, <1>1, <2>1 DEF IpCountExact
<1>9. OtherTypes' /\ Loops(acceptor')
  BY <1>0, <1>1, <1>2 DEF OtherTypes
<1> QED
  BY <1>5, <1>6, <1>7, <1>8, <1>9 DEF ConnInv

\* Every step of the model keeps the invariant.
LEMMA ConnStep == ConnInv /\ [ConnNext]_connVars => ConnInv'
<1> SUFFICES ASSUME ConnInv, [ConnNext]_connVars PROVE ConnInv'
  OBVIOUS
<1>1. CASE UNCHANGED connVars
  BY <1>1 DEF connVars, manager, ConnInv, OtherTypes, IpCountExact, ReleasesAgree
<1>2. ASSUME NEW c \in Conns, IoHandler(c) \/ handleTimeout(c) \/ send(c) \/ close(c) PROVE ConnInv'
  BY <1>2, ReadingKeepsInv, WritingKeepsInv, DestroyKeepsInv DEF IoHandler
<1>3. CASE onAcceptError \/ onAcceptRefused \/ onAccept \/ retry
  BY <1>3, AcceptErrorKeepsInv, AcceptRefusedKeepsInv, AcceptKeepsInv, RetryKeepsInv
<1>4. CASE shutdownDispatcher \/ stopOnStrand \/ dieBegins \/ die
  BY <1>4, TeardownKeepsInv, TornDownKeepsInv DEF die
<1> QED
  BY <1>1, <1>2, <1>3, <1>4 DEF ConnNext

\* The invariant implies the three properties.
LEMMA ConnInvImplies == ConnInv => ClosingIsExact /\ AcceptLoopAlive /\ OneWriteInOrder
<1> SUFFICES ASSUME ConnInv PROVE ClosingIsExact /\ AcceptLoopAlive /\ OneWriteInOrder
  OBVIOUS
<1>1. ConnTypeOK
  BY DEF ConnInv, ConnTypes, OtherTypes, ConnTypeOK, ConnRecord, DyingRecord, InOrder
<1>2. ClosingIsExact
  BY <1>1 DEF ConnInv, ReleasesAgree, ClosingIsExact, ReleasedOnce, ProtocolNotNullInService
<1>3. AcceptLoopAlive
  BY DEF ConnInv, Loops, AcceptLoopAlive
<1>4. OneWriteInOrder
  <2> SUFFICES ASSUME NEW c \in Conns
               PROVE  LET r == conn[c] IN
                      /\ Cardinality(r.posted \cup r.inflight) <= 1
                      /\ \A m \in r.posted \cup r.inflight : r.messageQueue # <<>> => m = Head(r.messageQueue)
                      /\ \A m \in r.posted : m > r.wire
                      /\ r.inflight # {} => \A k \in 2 .. Len(r.messageQueue) : r.messageQueue[k] > r.wire
    BY DEF OneWriteInOrder
  <2> DEFINE r == conn[c]
             W == r.posted \cup r.inflight
  <2>1. r \in ConnRecord /\ InOrder(r)
    BY DEF ConnInv, ConnTypes
  <2> HIDE DEF r
  <2>2. Cardinality(W) <= 1
    <3>1. W = {} \/ W = {Head(r.messageQueue)}
      BY <2>1 DEF InOrder
    <3> HIDE DEF W
    <3>2. Cardinality({}) = 0 /\ Cardinality({Head(r.messageQueue)}) = 1
      BY FS_EmptySet, FS_Singleton
    <3>3. Cardinality(W) = 0 \/ Cardinality(W) = 1
      BY <3>1, <3>2
    <3> QED
      BY <3>3
  <2>3. ASSUME r.inflight # {}, NEW k \in 2 .. Len(r.messageQueue) PROVE r.messageQueue[k] > r.wire
    <3>1. r.messageQueue \in Seq(Nat) /\ r.messageQueue # <<>> /\ Head(r.messageQueue) = r.wire
      BY <2>1, <2>3 DEF InOrder, ConnRecord
    <3>2. Head(r.messageQueue) = r.messageQueue[1] /\ 1 \in 1 .. Len(r.messageQueue) /\ k \in 1 .. Len(r.messageQueue) /\ 1 < k
      BY <3>1
    <3>3. r.messageQueue[1] < r.messageQueue[k]
      BY <2>1, <3>2 DEF InOrder
    <3>4. r.messageQueue[1] \in Nat /\ r.messageQueue[k] \in Nat
      BY <3>1, <3>2
    <3> QED
      BY <3>1, <3>2, <3>3, <3>4
  <2> QED
    BY <2>1, <2>2, <2>3 DEF InOrder, r
<1> QED
  BY <1>2, <1>3, <1>4

\* Whichever of a timer, a read, a write, the dispatcher and the teardown closes a connection first
\* (Connection::close, ConnectionManager::closeAll), its address is given back once, its protocol is
\* released once at most, and in service no handler finds the protocol reset.
THEOREM ClosingIsExactTheorem == ConnSpec => []ClosingIsExact
<1>1. ConnInv => ClosingIsExact
  BY ConnInvImplies
<1> QED
  BY <1>1, ConnStarts, ConnStep, PTL DEF ConnSpec

\* Until it is stopped a port waits for exactly one thing, a peer or its retry timer: no failed
\* accept and no limit ends ServicePort's chain of accepts, and none doubles it.
THEOREM AcceptLoopTheorem == ConnSpec => []AcceptLoopAlive
<1>1. ConnInv => AcceptLoopAlive
  BY ConnInvImplies
<1> QED
  BY <1>1, ConnStarts, ConnStep, PTL DEF ConnSpec

\* On a Connection one message at most is being written, the front of its queue, and messages are
\* serialised in the order in which they were sent, for every length of the queue.
THEOREM WriteOrderTheorem == ConnSpec => []OneWriteInOrder
<1>1. ConnInv => OneWriteInOrder
  BY ConnInvImplies
<1> QED
  BY <1>1, ConnStarts, ConnStep, PTL DEF ConnSpec
=============================================================================
