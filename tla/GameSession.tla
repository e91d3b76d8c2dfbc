---------------------------- MODULE GameSession -----------------------------
(***************************************************************************)
(* The sessions of ProtocolGame (src/src/protocolgame.cpp): login, the     *)
(* load on a worker, finishLogin, taking over the player of another        *)
(* connection, logout, and the release of a protocol whose connection      *)
(* closed.                                                                 *)
(*                                                                         *)
(* The dispatcher runs posted tasks in order, one at a time.  Timed tasks  *)
(* (connect after a second, the ping check) come between any two.  A       *)
(* connection that is closed expires only when asio has let go of it.      *)
(*                                                                         *)
(* A Player object is named by the protocol whose login created it.  The   *)
(* character's name, bans, the waiting list and failed recoveries are one  *)
(* refusal; the account manager, clones and spectators are left out.       *)
(***************************************************************************)
EXTENDS Naturals, Sequences, FiniteSets

CONSTANTS
    Protocols,      \* one per connection
    Guids,          \* characters
    accountOf,      \* the account of a character
    NoProtocol      \* a null pointer

ASSUME SessionConstants ==
    /\ NoProtocol \notin Protocols
    /\ DOMAIN accountOf = Guids /\ Guids # {}

VARIABLES
    proto,          \* [conn, player, acceptPackets] of each protocol
    player,         \* [guid, stage, owner] of each Player object; owner is client->protocol()
    pendingLogins,  \* Game::pendingLogins
    tasks,          \* the dispatcher's queue
    loads,          \* logins whose barrier or load is under way on a worker
    connects        \* scheduled calls of connect: <<protocol, Player object>>

sessionVars == <<proto, player, pendingLogins, tasks, loads, connects>>

SessionInit ==
    /\ proto = [p \in Protocols |-> [conn |-> "new", player |-> NoProtocol, acceptPackets |-> FALSE]]
    /\ player \in [Protocols -> [guid : {CHOOSE g \in Guids : TRUE}, stage : {"none"},
                                 owner : {NoProtocol}]]
    /\ pendingLogins = {} /\ tasks = <<>> /\ loads = {} /\ connects = {}

Online == {x \in Protocols : player[x].stage = "online"}
OnlineAs(g) == {x \in Online : player[x].guid = g}

Task(op, p, g) == [op |-> op, p |-> p, g |-> g]

\* Protocol::disconnect: Connection::close posts the release.  r is [proto, tasks].
Disconnected(r, p) ==
    IF r.proto[p].conn # "open" THEN r
    ELSE [proto |-> [r.proto EXCEPT ![p].conn = "closed"],
          tasks |-> Append(r.tasks, Task("release", p, CHOOSE g \in Guids : TRUE))]

Rest == [proto |-> proto, tasks |-> Tail(tasks)]
Now  == [proto |-> proto, tasks |-> tasks]
Goes(r) == proto' = r.proto /\ tasks' = r.tasks

Runs(op) == tasks # <<>> /\ Head(tasks).op = op

-----------------------------------------------------------------------------
(* The network.                                                             *)

\* onRecvFirstMessage has authenticated the account and posts the login.
onRecvFirstMessage(p) ==
    \E g \in Guids :
        /\ proto[p].conn = "new"
        /\ proto' = [proto EXCEPT ![p].conn = "open"]
        /\ tasks' = Append(tasks, Task("login", p, g))
        /\ UNCHANGED <<player, pendingLogins, loads, connects>>

\* A logout packet; bound: one waits per connection.
logoutPacket(p) ==
    /\ proto[p].conn = "open"
    /\ ~\E k \in DOMAIN tasks : tasks[k].op = "logout" /\ tasks[k].p = p
    /\ tasks' = Append(tasks, Task("logout", p, CHOOSE g \in Guids : TRUE))
    /\ UNCHANGED <<proto, player, pendingLogins, loads, connects>>

ConnectionCloses(p) ==
    /\ proto[p].conn = "open"
    /\ Goes(Disconnected(Now, p))
    /\ UNCHANGED <<player, pendingLogins, loads, connects>>

ConnectionExpires(p) ==
    /\ proto[p].conn = "closed"
    /\ proto' = [proto EXCEPT ![p].conn = "expired"]
    /\ UNCHANGED <<player, pendingLogins, tasks, loads, connects>>

-----------------------------------------------------------------------------
(* The tasks of the dispatcher.                                             *)

\* ONE_PLAYER_ON_ACCOUNT: getPlayerByAccount looks at players that are online.
AccountFree(g) == ~\E x \in Online : accountOf[player[x].guid] = accountOf[g]

\* reserveLogin succeeds.
ReserveLogin(g) == g \notin pendingLogins

NewPlayer(p, g) == [player EXCEPT ![p] = [guid |-> g, stage |-> "loading", owner |-> p]]

\* login of a character that is not online.
loginOffline ==
    /\ Runs("login")
    /\ LET p == Head(tasks).p
           g == Head(tasks).g
           r == [Rest EXCEPT !.proto[p].player = p]
       IN  /\ OnlineAs(g) = {}
           /\ player' = NewPlayer(p, g)
           /\ \/ /\ Goes(Disconnected(r, p))               \* refused, or already logging in
                 /\ UNCHANGED <<pendingLogins, loads>>
              \/ /\ AccountFree(g) /\ ReserveLogin(g)
                 /\ Goes(r)
                 /\ pendingLogins' = pendingLogins \cup {g}
                 /\ loads' = loads \cup {p}
    /\ UNCHANGED connects

\* What connect does for p and the Player object x, with the tasks and protocols of r.
Connect(r, p, x) ==
    IF x \notin Online \/ player[x].owner # NoProtocol
    THEN Goes(Disconnected(r, p)) /\ UNCHANGED player
    ELSE IF proto[p].conn = "expired" THEN Goes(r) /\ UNCHANGED player
    ELSE /\ Goes([r EXCEPT !.proto[p].player = x, !.proto[p].acceptPackets = TRUE])
         /\ player' = [player EXCEPT ![x].owner = p]

\* login of a character that is online: its client is sent away and a second later the new one
\* connects, or at once when the player has no client.
loginOnline ==
    /\ Runs("login")
    /\ LET p == Head(tasks).p
           g == Head(tasks).g
       IN  \E x \in OnlineAs(g) :
           \/ /\ Goes(Disconnected(Rest, p))               \* REPLACE_KICK_ON_LOGIN is off
              /\ UNCHANGED <<player, connects>>
           \/ /\ player[x].owner # NoProtocol
              /\ Goes(Disconnected(Rest, player[x].owner))
              /\ player' = [player EXCEPT ![x].owner = NoProtocol]
              /\ connects' = connects \cup {<<p, x>>}
           \/ /\ player[x].owner = NoProtocol
              /\ Connect(Rest, p, x)
              /\ UNCHANGED connects
    /\ UNCHANGED <<pendingLogins, loads>>

\* The scheduler runs a connect.
connect ==
    \E c \in connects :
        /\ connects' = connects \ {c}
        /\ Connect(Now, c[1], c[2])
        /\ UNCHANGED <<pendingLogins, loads>>

\* A worker ends: the player is loaded or not, or the barrier failed or timed out.
WorkerEnds(p) ==
    /\ p \in loads
    /\ loads' = loads \ {p}
    /\ \E op \in {"finishLogin", "loadFailed", "giveUp"} :
          tasks' = Append(tasks, Task(op, p, player[p].guid))
    /\ UNCHANGED <<proto, player, pendingLogins, connects>>

\* Wrong variant: a login whose protocol is gone keeps its reservation.
FinishLostKeeps(g) == pendingLogins

\* The reservations left when finishLogin finds that its protocol is gone.
FinishLost(g) == pendingLogins \ {g}

finishLogin ==
    /\ Runs("finishLogin")
    /\ LET p == Head(tasks).p
           g == Head(tasks).g
       IN  \/ /\ proto[p].player = NoProtocol \/ proto[p].conn = "expired"
              /\ pendingLogins' = FinishLost(g)
              /\ Goes(Rest) /\ UNCHANGED player
           \/ /\ proto[p].player # NoProtocol /\ proto[p].conn # "expired"
              /\ pendingLogins' = pendingLogins \ {g}
              /\ \/ /\ Goes([Rest EXCEPT !.proto[p].acceptPackets = TRUE])
                    /\ player' = [player EXCEPT ![p].stage = "online", ![p].owner = p]
                 \/ /\ Goes(Disconnected(Rest, p))         \* no place in the world
                    /\ player' = [player EXCEPT ![p].owner = p]
    /\ UNCHANGED <<loads, connects>>

\* finishLogin of a player that could not be loaded.
finishLoadFailed ==
    /\ Runs("loadFailed")
    /\ LET p == Head(tasks).p IN
       /\ pendingLogins' = pendingLogins \ {Head(tasks).g}
       /\ Goes(IF proto[p].player = NoProtocol \/ proto[p].conn = "expired"
               THEN Rest ELSE Disconnected(Rest, p))
    /\ UNCHANGED <<player, loads, connects>>

\* The barrier failed, or its timeout came first.
giveUp ==
    /\ Runs("giveUp")
    /\ LET p == Head(tasks).p IN
       /\ pendingLogins' = pendingLogins \ {Head(tasks).g}
       /\ Goes(IF proto[p].player # NoProtocol THEN Disconnected(Rest, p) ELSE Rest)
    /\ UNCHANGED <<player, loads, connects>>

\* Wrong variant: whoever owns the client loses it.
OwnerAfterReleaseAlways(p, x) == NoProtocol

\* The owner of x's client after p is released.
OwnerAfterRelease(p, x) == IF player[x].owner = p THEN NoProtocol ELSE player[x].owner

release ==
    /\ Runs("release")
    /\ LET p == Head(tasks).p
           x == proto[p].player
       IN  /\ player' = IF x = NoProtocol THEN player
                        ELSE [player EXCEPT ![x].owner = OwnerAfterRelease(p, x)]
           /\ Goes([Rest EXCEPT !.proto[p].player = NoProtocol])
    /\ UNCHANGED <<pendingLogins, loads, connects>>

\* removeCreature.
Removed(x) == [player EXCEPT ![x].stage = IF @ = "online" THEN "removed" ELSE @]

\* parsePacketOnDispatcher with a logout packet; the game may refuse it.
logout ==
    /\ Runs("logout")
    /\ LET p == Head(tasks).p
           x == proto[p].player
       IN  \/ Goes(Rest) /\ UNCHANGED player
           \/ /\ proto[p].conn # "expired" /\ proto[p].acceptPackets /\ x # NoProtocol
              /\ Goes(Disconnected(Rest, p))
              /\ player' = Removed(x)
    /\ UNCHANGED <<pendingLogins, loads, connects>>

\* Player::sendPing and kickPlayer: the owner is logged out, the player leaves.
kickPlayer(x) ==
    /\ x \in Online
    /\ Goes(IF player[x].owner = NoProtocol THEN Now ELSE Disconnected(Now, player[x].owner))
    /\ player' = Removed(x)
    /\ UNCHANGED <<pendingLogins, loads, connects>>

SessionNext ==
    \/ \E p \in Protocols :
          \/ onRecvFirstMessage(p) \/ logoutPacket(p) \/ ConnectionCloses(p) \/ ConnectionExpires(p)
          \/ WorkerEnds(p) \/ kickPlayer(p)
    \/ loginOffline \/ loginOnline \/ connect \/ finishLogin \/ finishLoadFailed \/ giveUp
    \/ release \/ logout

SessionSpec == SessionInit /\ [][SessionNext]_sessionVars

-----------------------------------------------------------------------------
(* Properties.                                                              *)

\* The variables have their types, and what is limited stays within its limit.
SessionTypeOK ==
    /\ \A p \in Protocols :
          /\ proto[p].conn \in {"new", "open", "closed", "expired"}
          /\ proto[p].player \in Protocols \cup {NoProtocol}
          /\ player[p].stage \in {"none", "loading", "online", "removed"}
          /\ player[p].owner \in Protocols \cup {NoProtocol}
    /\ pendingLogins \subseteq Guids /\ loads \subseteq Protocols

\* However logins, loads on workers, take-overs and logouts interleave, a character is in the world
\* once.
OneOnlinePerGuid == \A g \in Guids : Cardinality(OnlineAs(g)) <= 1

\* The protocol that a player's client sends to is one that steers this player.
OwnerPlays == \A x \in Online : player[x].owner # NoProtocol => proto[player[x].owner].player = x

\* A reservation belongs to a login that is still under way: none is left behind, which would keep
\* its character out for good.
ReservationsInFlight ==
    \A g \in pendingLogins :
        \/ \E p \in loads : player[p].guid = g
        \/ \E k \in DOMAIN tasks :
              tasks[k].op \in {"finishLogin", "loadFailed", "giveUp"} /\ tasks[k].g = g

\* A client whose connection is open keeps its player: the late release of the protocol it took the
\* player from does not unseat it.
OpenClientKeepsPlayer ==
    [][\A x \in Protocols :
          LET p == player[x].owner IN
          p # NoProtocol /\ player'[x].owner # p => proto'[p].conn # "open"]_sessionVars

\* Protocols, players and reservations agree, whatever connection goes while a login, a load or a
\* take-over is under way: one player per character, steered by its owner, and no reservation that
\* nobody will give back.
SessionsAgree == SessionTypeOK /\ OneOnlinePerGuid /\ OwnerPlays /\ ReservationsInFlight

=============================================================================
