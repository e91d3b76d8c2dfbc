----------------------------- MODULE Connection -----------------------------
(***************************************************************************)
(* Connection, ConnectionManager, ServicePort and the network's teardown   *)
(* (src/src/connection.cpp, src/src/server.cpp).                           *)
(*                                                                         *)
(* The handlers of a connection run on a strand and hold connectionLock,   *)
(* so each is one step; the dispatcher and the teardown take the same lock *)
(* and come between any two.  A handler computes the next record of its    *)
(* connection; when that record is newly closed, the manager forgets the   *)
(* connection in the same step.                                            *)
(*                                                                         *)
(* Closing a socket does not withdraw a completion that is already queued, *)
(* so a pending operation may still end either way.  A read or write timer *)
(* is armed from accept on, and a wait that has expired reaches            *)
(* handleTimeout even if the timer is cancelled meanwhile: handleTimeout   *)
(* may come at any time, and the timers themselves are left out.  Bytes,   *)
(* encryption and packet contents are left out; a message is its number on *)
(* its connection.  An object is used again once it is destroyed.          *)
(***************************************************************************)
EXTENDS Naturals, Sequences, FiniteSets, FiniteSetsExt

CONSTANTS
    Conns,              \* the Connection objects
    Ips,
    MaxMessages,        \* bound on the messages sent on the connections that exist at once
    MAX_PENDING_WRITE_MESSAGES,
    maxConnections, maxConnectionsPerIp

ASSUME ConnBounds == /\ MaxMessages \in Nat /\ MAX_PENDING_WRITE_MESSAGES \in Nat \ {0}
                     /\ maxConnections \in Nat \ {0} /\ maxConnectionsPerIp \in Nat \ {0}
                     /\ IsFiniteSet(Conns) /\ "none" \notin Ips

VARIABLES
    conn,               \* the state of each object, see FreshConn
    connections, ipConnectionCount,     \* ConnectionManager
    acceptor,           \* ServicePort: [open, stopped, pendingStart, accepting, retryTimer]
    dispatcherUp,       \* tasks posted to the dispatcher will run
    dying,              \* ServiceManager::die: its stage and the snapshot left to visit
    crashed             \* a null protocol was dereferenced

manager == <<connections, ipConnectionCount>>
connVars == <<conn, manager, acceptor, dispatcherUp, dying, crashed>>

\* protocol: it is set; releases: how often release() was called or posted for it;
\* posted, inflight: the messages handed to internalSend and to async_write;
\* wire: the last message serialised; stranded: a write failed after the connection was closed.
FreshConn == [phase |-> "unused", closed |-> FALSE, socket |-> FALSE, protocol |-> FALSE,
              receivedFirst |-> FALSE, releases |-> 0, reading |-> "no",
              messageQueue |-> <<>>, posted |-> {},
              inflight |-> {}, wire |-> 0, sent |-> 0, trackedIp |-> "none",
              stranded |-> FALSE]

NoAccept == [open |-> TRUE, stopped |-> FALSE, pendingStart |-> FALSE, accepting |-> {},
             retryTimer |-> "accept"]

ConnInit ==
    /\ conn = [c \in Conns |-> FreshConn]
    /\ connections = {} /\ ipConnectionCount = [i \in Ips |-> 0]
    /\ acceptor = NoAccept
    /\ dispatcherUp = TRUE /\ crashed = FALSE
    /\ dying = [stage |-> "no", left |-> {}]

\* io_context still runs handlers, and the process has not crashed.
IoUp == dying.stage # "stopped" /\ ~crashed
Live(c) == conn[c].phase = "live"
MaySend == MapThenSumSet(LAMBDA c : conn[c].sent, Conns) < MaxMessages

-----------------------------------------------------------------------------
(* Closing.                                                                 *)

closeSocket(r) ==
    [r EXCEPT !.socket = FALSE]

closeLocked(r, force) ==
    LET q == [r EXCEPT !.closed = TRUE,
                       !.releases = IF r.protocol /\ dispatcherUp THEN @ + 1 ELSE @]
    IN  IF r.closed THEN r
        ELSE IF r.messageQueue = <<>> \/ force THEN closeSocket(q) ELSE q

\* A write failed, or could not be started: the forced close that follows does nothing if the
\* connection was closed before, and then leaves the socket open.
WriteFails(r) == [closeLocked(r, TRUE) EXCEPT !.stranded = r.closed /\ r.socket]

\* The addresses counted after c is forgotten.
Uncounted(c, r) ==
    IF c \in connections /\ r.trackedIp # "none"
    THEN [ipConnectionCount EXCEPT ![r.trackedIp] = @ - 1]
    ELSE ipConnectionCount

\* Wrong variant: the address stays counted.
releaseConnectionKeepsIp(c, r) ==
    /\ connections' = connections \ {c}
    /\ UNCHANGED ipConnectionCount

releaseConnection(c, r) ==
    /\ connections' = connections \ {c}
    /\ ipConnectionCount' = Uncounted(c, r)

\* The handler of c leaves it as r; closeLocked has told the manager.
Becomes(c, r) ==
    /\ conn' = [conn EXCEPT ![c] = r]
    /\ IF r.closed /\ ~conn[c].closed THEN releaseConnection(c, r) ELSE UNCHANGED manager
    /\ UNCHANGED <<acceptor, dispatcherUp, dying>>

Handler(c, r) == IoUp /\ Live(c) /\ Becomes(c, r) /\ UNCHANGED crashed

-----------------------------------------------------------------------------
(* Reading.                                                                 *)

\* accept, parseHeader and parsePacket end by asking for more, or by an exception.
ReadMore(r, what) ==
    {[r EXCEPT !.reading = what], closeLocked(r, TRUE)}

\* The operation that completed is no longer pending.
ReadDone(c) == [conn[c] EXCEPT !.reading = "no"]

\* The packet may come too fast (closed after pending writes) or have an impossible size.
parseHeader(c) ==
    /\ conn[c].reading = "header"
    /\ LET r == ReadDone(c) IN
       \/ Handler(c, closeLocked(r, TRUE))                          \* error, or a bad size
       \/ conn[c].closed /\ Handler(c, r)
       \/ ~conn[c].closed /\ Handler(c, closeLocked(r, FALSE))      \* too many packets
       \/ ~conn[c].closed /\ \E q \in ReadMore(r, "body") : Handler(c, q)

\* Wrong variant: every message starts a write of its own.
QueuedAlwaysPosts(r) ==
    LET m == r.sent + 1 IN
    IF r.closed THEN r
    ELSE IF Len(r.messageQueue) >= MAX_PENDING_WRITE_MESSAGES THEN closeLocked(r, TRUE)
    ELSE [r EXCEPT !.sent = m, !.messageQueue = Append(@, m), !.posted = @ \cup {m}]

\* Connection::send: a full queue closes, an empty one needs a write to be started.
Queued(r) ==
    LET m == r.sent + 1 IN
    IF r.closed THEN r
    ELSE IF Len(r.messageQueue) >= MAX_PENDING_WRITE_MESSAGES THEN closeLocked(r, TRUE)
    ELSE [r EXCEPT !.sent = m, !.messageQueue = Append(@, m),
                   !.posted = IF r.messageQueue = <<>> THEN @ \cup {m} ELSE @]

\* disconnectClient: a last message, then a close that lets it out.
DisconnectClient(r) == closeLocked(Queued(r), FALSE)

\* make_protocol knows no protocol for the first byte.
UnknownProtocol(r) == closeLocked([r EXCEPT !.receivedFirst = TRUE], TRUE)

\* The protocol takes the packet, or answers it with a disconnect; make_protocol may fail.
parsePacket(c) ==
    /\ conn[c].reading = "body"
    /\ LET r == ReadDone(c)
           q == [r EXCEPT !.receivedFirst = TRUE, !.protocol = TRUE] IN
       \/ Handler(c, closeLocked(r, TRUE))
       \/ conn[c].closed /\ Handler(c, r)
       \/ /\ ~r.closed /\ ~r.receivedFirst /\ ~r.protocol
          /\ Handler(c, UnknownProtocol(r))
       \/ /\ ~r.closed /\ (~r.receivedFirst \/ r.protocol)
          /\ \/ \E s \in ReadMore(q, "header") : Handler(c, s)
             \/ /\ MaySend
                /\ \E s \in ReadMore(DisconnectClient(q), "header") : Handler(c, s)
       \/ /\ ~r.closed /\ r.receivedFirst /\ ~r.protocol
          /\ IoUp /\ Live(c) /\ crashed' = TRUE
          /\ UNCHANGED <<conn, manager, acceptor, dispatcherUp, dying>>

handleTimeout(c) == Handler(c, closeLocked(conn[c], TRUE))

-----------------------------------------------------------------------------
(* Writing.                                                                 *)

\* Called by the dispatcher.
send(c) ==
    /\ MaySend
    /\ Handler(c, Queued(conn[c]))

close(c) == Handler(c, closeLocked(conn[c], FALSE))

\* What internalSend may make of r: without a protocol nothing can be serialised.
internalSend(r, m) ==
    LET q == [r EXCEPT !.wire = m] IN
    IF ~r.protocol THEN {WriteFails(r)}
    ELSE {[q EXCEPT !.inflight = @ \cup {m}], WriteFails(q)}

InternalSend(c) ==
    \E m \in conn[c].posted :
        \E r \in internalSend([conn[c] EXCEPT !.posted = @ \ {m}], m) : Handler(c, r)

\* Wrong variant: after the last message the socket is left open.
WrittenStaysOpen(r) ==
    IF r.messageQueue # <<>>
    THEN IF r.socket THEN internalSend(r, Head(r.messageQueue))
         ELSE {closeSocket([r EXCEPT !.messageQueue = <<>>])}
    ELSE {r}

\* onWriteOperation after a successful write.
Written(r) ==
    IF r.messageQueue # <<>>
    THEN IF r.socket THEN internalSend(r, Head(r.messageQueue))
         ELSE {closeSocket([r EXCEPT !.messageQueue = <<>>])}
    ELSE {IF r.closed THEN closeSocket(r) ELSE r}

onWriteOperation(c) ==
    \E m \in conn[c].inflight :
        LET queue == conn[c].messageQueue
            r == [conn[c] EXCEPT !.inflight = @ \ {m},
                                 !.messageQueue = IF queue = <<>> THEN queue ELSE Tail(queue)]
        IN  \/ \E q \in Written(r) : Handler(c, q)
            \/ Handler(c, WriteFails([r EXCEPT !.messageQueue = <<>>]))

\* No handler and no list holds the object any more.
Destroy(c) ==
    /\ Live(c) /\ IoUp
    /\ c \notin connections \cup dying.left
    /\ conn[c].reading = "no" /\ conn[c].posted = {} /\ conn[c].inflight = {}
    /\ conn' = [conn EXCEPT ![c] = FreshConn]
    /\ UNCHANGED <<manager, acceptor, dispatcherUp, dying, crashed>>

-----------------------------------------------------------------------------
(* Accepting.  `accepting` is the object of the async_accept that is under  *)
(* way; retryTimer is what the timer will call, if it is armed.             *)

\* scheduleAccept and the retry after a failed async_accept.
RetryAccept(a) == IF a.stopped THEN a ELSE [a EXCEPT !.retryTimer = "accept"]

scheduleOpen(a) ==
    IF a.stopped \/ a.pendingStart THEN a
    ELSE [a EXCEPT !.pendingStart = TRUE, !.open = FALSE, !.retryTimer = "open"]

\* Wrong variant: at the limit the port stops asking.
acceptStopsAtLimit(a, cn, cs) ==
    LET unused == {d \in Conns : cn[d].phase = "unused"} IN
    IF a.stopped \/ ~a.open \/ Cardinality(cs) >= maxConnections
    THEN acceptor' = a /\ conn' = cn /\ connections' = cs
    ELSE \E d \in unused :
            /\ acceptor' = [a EXCEPT !.accepting = {d}]
            /\ conn' = [cn EXCEPT ![d].phase = "accepting"]
            /\ connections' = cs \cup {d}

\* ServicePort::accept, with connections cn known to the manager as cs: one more object waits
\* for a peer, unless the limit is reached or async_accept throws.
accept(a, cn, cs) ==
    LET unused == {d \in Conns : cn[d].phase = "unused"} IN
    IF a.stopped \/ ~a.open
    THEN acceptor' = a /\ conn' = cn /\ connections' = cs
    ELSE IF Cardinality(cs) >= maxConnections
    THEN acceptor' = RetryAccept(a) /\ conn' = cn /\ connections' = cs
    ELSE \/ \E d \in unused :
                /\ acceptor' = [a EXCEPT !.accepting = {d}]
                /\ conn' = [cn EXCEPT ![d].phase = "accepting"]
                /\ connections' = cs \cup {d}
         \/ acceptor' = RetryAccept(a) /\ conn' = cn /\ connections' = cs

\* close(FORCE_CLOSE) of an object that nobody has used yet destroys it.
Forgotten(c) == [conn EXCEPT ![c] = FreshConn]

onAcceptError ==
    \E c \in acceptor.accepting :
        LET a == [acceptor EXCEPT !.accepting = {}] IN
        /\ IoUp
        /\ conn' = Forgotten(c) /\ connections' = connections \ {c}
        /\ \/ ~a.open /\ acceptor' = a                              \* aborted by close()
           \/ a.open /\ acceptor' = RetryAccept(a)
           \/ a.open /\ acceptor' = scheduleOpen(a)                 \* the descriptor is unusable
        /\ UNCHANGED <<ipConnectionCount, dispatcherUp, dying, crashed>>

\* The address is unknown, limited by rate, or has too many connections.
onAcceptRefused ==
    \E c \in acceptor.accepting :
        /\ IoUp
        /\ accept([acceptor EXCEPT !.accepting = {}], Forgotten(c), connections \ {c})
        /\ UNCHANGED <<ipConnectionCount, dispatcherUp, dying, crashed>>

\* trackIPConnection, then Connection::accept; the game's service sets the protocol at once.
onAccept ==
    \E c \in acceptor.accepting, i \in Ips, single \in BOOLEAN :
        LET r == [conn[c] EXCEPT !.phase = "live", !.socket = TRUE, !.trackedIp = i,
                                 !.protocol = single]
        IN  /\ IoUp
            /\ c \in connections
            /\ ipConnectionCount[i] < maxConnectionsPerIp
            /\ ipConnectionCount' = [ipConnectionCount EXCEPT ![i] = @ + 1]
            /\ accept([acceptor EXCEPT !.accepting = {}],
                      [conn EXCEPT ![c] = [r EXCEPT !.reading = "header"]],
                      connections)
            /\ UNCHANGED <<dispatcherUp, dying, crashed>>

retry ==
    /\ IoUp /\ acceptor.retryTimer # "no" /\ ~acceptor.stopped
    /\ LET a == [acceptor EXCEPT !.retryTimer = "no"] IN
       \/ acceptor.retryTimer = "accept" /\ accept(a, conn, connections)
       \/ /\ acceptor.retryTimer = "open"
          /\ \/ accept([a EXCEPT !.pendingStart = FALSE, !.open = TRUE], conn, connections)
             \/ /\ acceptor' = scheduleOpen([a EXCEPT !.pendingStart = FALSE])
                /\ UNCHANGED <<conn, connections>>
    /\ UNCHANGED <<ipConnectionCount, dispatcherUp, dying, crashed>>

-----------------------------------------------------------------------------
(* The teardown: the game stops the dispatcher, then the services.          *)

\* Game::shutdown stops the dispatcher before ServiceManager::stop.
shutdownDispatcher ==
    /\ IoUp /\ dispatcherUp
    /\ dispatcherUp' = FALSE
    /\ UNCHANGED <<conn, manager, acceptor, dying, crashed>>

stopOnStrand ==
    /\ IoUp /\ ~dispatcherUp /\ ~acceptor.stopped
    /\ acceptor' = [acceptor EXCEPT !.stopped = TRUE, !.open = FALSE, !.retryTimer = "no"]
    /\ UNCHANGED <<conn, manager, dispatcherUp, dying, crashed>>

\* releaseAllProtocols and closeAll visit a snapshot, one connection at a time.
dieBegins ==
    /\ IoUp /\ acceptor.stopped /\ dying.stage = "no"
    /\ dying' = [stage |-> "releasing", left |-> connections]
    /\ UNCHANGED <<conn, manager, acceptor, dispatcherUp, crashed>>

releaseAllProtocols(c) ==
    /\ dying.stage = "releasing" /\ c \in dying.left /\ ~crashed
    /\ dying' = [dying EXCEPT !.left = @ \ {c}]
    /\ conn' = IF conn[c].protocol
               THEN [conn EXCEPT ![c].protocol = FALSE, ![c].releases = @ + 1]
               ELSE conn
    /\ UNCHANGED <<manager, acceptor, dispatcherUp, crashed>>

closeAllBegins ==
    /\ dying.stage = "releasing" /\ dying.left = {} /\ ~crashed
    /\ dying' = [stage |-> "closing", left |-> connections]
    /\ connections' = {} /\ ipConnectionCount' = [i \in Ips |-> 0]
    /\ UNCHANGED <<conn, acceptor, dispatcherUp, crashed>>

closeAll(c) ==
    /\ dying.stage = "closing" /\ c \in dying.left /\ ~crashed
    /\ dying' = [dying EXCEPT !.left = @ \ {c}]
    /\ conn' = [conn EXCEPT ![c] = closeSocket(conn[c])]
    /\ UNCHANGED <<manager, acceptor, dispatcherUp, crashed>>

dieEnds ==
    /\ dying.stage = "closing" /\ dying.left = {} /\ ~crashed
    /\ dying' = [dying EXCEPT !.stage = "stopped"]
    /\ UNCHANGED <<conn, manager, acceptor, dispatcherUp, crashed>>

-----------------------------------------------------------------------------

IoHandler(c) ==
    \/ parseHeader(c) \/ parsePacket(c) \/ InternalSend(c) \/ onWriteOperation(c)
    \/ Destroy(c)

die ==
    \/ \E c \in Conns : releaseAllProtocols(c) \/ closeAll(c)
    \/ closeAllBegins \/ dieEnds

ConnNext ==
    \/ \E c \in Conns : IoHandler(c) \/ handleTimeout(c) \/ send(c) \/ close(c)
    \/ onAcceptError \/ onAcceptRefused \/ onAccept \/ retry
    \/ shutdownDispatcher \/ stopOnStrand \/ dieBegins \/ die

\* What is posted to the strand runs, and an object that nobody holds is destroyed.  A peer may be
\* silent and may not read: a read or a write that is under way need only complete once the socket
\* is closed.  A teardown that has begun goes on.
ConnFairness ==
    /\ \A c \in Conns :
          /\ WF_connVars(InternalSend(c) \/ Destroy(c))
          /\ WF_connVars(/\ ~conn[c].socket
                         /\ parseHeader(c) \/ parsePacket(c) \/ onWriteOperation(c))
    /\ WF_connVars(die)

ConnSpec == ConnInit /\ [][ConnNext]_connVars /\ ConnFairness

-----------------------------------------------------------------------------
(* Properties.                                                              *)

\* The variables have their types, and what is limited stays within its limit.
ConnTypeOK ==
    /\ \A c \in Conns :
          /\ conn[c].phase \in {"unused", "accepting", "live"}
          /\ conn[c].reading \in {"no", "header", "body"}
          /\ conn[c].trackedIp \in Ips \cup {"none"}
          /\ Len(conn[c].messageQueue) <= MAX_PENDING_WRITE_MESSAGES
    /\ connections \subseteq Conns /\ ipConnectionCount \in [Ips -> 0 .. maxConnectionsPerIp]
    /\ dying.left \subseteq Conns

\* Until it is stopped, a port waits for exactly one thing, a peer or its retry timer: no failed
\* accept and no limit ends the chain of accepts, and none doubles it.
AcceptLoopAlive ==
    ~acceptor.stopped => (acceptor.accepting # {}) # (acceptor.retryTimer # "no")

\* An address is counted once for each of its connections that the manager knows, however these
\* were closed.
IpCountExact ==
    \A i \in Ips :
        ipConnectionCount[i] = Cardinality({c \in connections : conn[c].trackedIp = i})

\* On a connection one message at most is being written, it is the front of the queue, and messages
\* are serialised (and so encrypted) once each in the order in which they were sent.
OneWriteInOrder ==
    \A c \in Conns : LET r == conn[c] IN
        /\ Cardinality(r.posted \cup r.inflight) <= 1
        /\ \A m \in r.posted \cup r.inflight : r.messageQueue # <<>> => m = Head(r.messageQueue)
        /\ \A m \in r.posted : m > r.wire
        /\ r.inflight # {} => \A k \in 2 .. Len(r.messageQueue) : r.messageQueue[k] > r.wire

\* The protocol of a connection is released at most once, by the task that closing posts or by the
\* teardown.
ReleasedOnce == \A c \in Conns : conn[c].releases <= 1

\* The peer alone decides how long the socket stays: a write failed after the close, which nothing
\* repeats, and only the end of the read that is pending lets go of the object.
HeldByPeer(c) == conn[c].stranded /\ conn[c].reading # "no"

\* A closed connection gives up its socket, once its queued messages are out, whatever its peer sends
\* or does not send; the exceptions are a peer that does not read what is being written, and a write
\* that failed after the close while the peer is silent.
ClosedSocketsClose ==
    \A c \in Conns : conn[c].closed ~> \/ ~conn[c].socket \/ ~IoUp
                                       \/ conn[c].inflight # {} \/ HeldByPeer(c)

\* A handler finds its protocol reset only while the server is being torn down: in service, the packet
\* of a connection that closes is dropped before its protocol is looked at.
ProtocolNotNullInService == crashed => dying.stage # "no"

\* Closing is exact: whichever of a timer, a read, a write, the dispatcher and the teardown closes a
\* connection first, its address is given back once and its protocol is released once at most, and in
\* service no handler finds the protocol reset.
ClosingIsExact == ConnTypeOK /\ IpCountExact /\ ReleasedOnce /\ ProtocolNotNullInService

=============================================================================
