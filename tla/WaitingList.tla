---------------------------- MODULE WaitingList -----------------------------
(***************************************************************************)
(* The waiting list of the login server (src/src/protocolgame.cpp,         *)
(* clientLogin): who gets in when the server is full.                      *)
(*                                                                         *)
(* clientLogin is called by ProtocolGame::login on the dispatcher.  A      *)
(* client that is let in loads on a worker and counts as online only when  *)
(* it is placed; a second login of a character that loads asks the list    *)
(* too, before it finds the first one's reservation.  A deadline of the    *)
(* list is 15 seconds past the retry time the client was told; here every  *)
(* deadline is Timeout ticks away.  Gamemasters, who always get in, are    *)
(* left out.                                                               *)
(***************************************************************************)
EXTENDS Naturals, Sequences, FiniteSets

CONSTANTS
    Clients,            \* characters that ask to get in
    Premium,            \* those whose account is premium
    maxPlayers,
    Timeout,
    MaxClock            \* bound on the clock

ASSUME WaitingConstants ==
    /\ Premium \subseteq Clients
    /\ maxPlayers \in Nat \ {0} /\ Timeout \in Nat \ {0} /\ MaxClock \in Nat

VARIABLES
    waitList,           \* the deque of [deadline, guid]
    priorityCount,
    online,             \* players in the world
    loading,            \* let in and not yet in the world
    clock,
    told,               \* the last answer of clientLogin: [guid, slot]
    pairExpired         \* history: one call has dropped two premium clients

waitingVars == <<waitList, priorityCount, online, loading, clock, told, pairExpired>>

WaitingInit ==
    /\ waitList = <<>> /\ priorityCount = 0
    /\ online = {} /\ loading = {} /\ clock = 0
    /\ told = [guid |-> "nobody", slot |-> 0] /\ pairExpired = FALSE

-----------------------------------------------------------------------------

Alive(e) == e.deadline > clock

\* Two premium entries are expired at once.
PairExpires ==
    \E j, k \in DOMAIN waitList :
        j # k /\ \A i \in {j, k} : waitList[i].guid \in Premium /\ ~Alive(waitList[i])

\* Wrong variant: whatever expires lowers priorityCount.
VisitCountsAll(s, k) ==
    LET expired == ~Alive(waitList[k])
    IN  [list  |-> IF expired THEN s.list ELSE Append(s.list, waitList[k]),
         count |-> IF expired /\ s.count > 0 THEN s.count - 1 ELSE s.count]

\* The predicate of erase_if visits the entry at position k: an expired one is dropped, and lowers
\* priorityCount while its index is below the count as it is then.
Visit(s, k) ==
    LET expired == ~Alive(waitList[k])
    IN  [list  |-> IF expired THEN s.list ELSE Append(s.list, waitList[k]),
         count |-> IF expired /\ k - 1 < s.count /\ s.count > 0 THEN s.count - 1 ELSE s.count]

\* The list and priorityCount once every entry was visited.
AfterExpiry ==
    LET visited[k \in 0 .. Len(waitList)] ==
            IF k = 0 THEN [list |-> <<>>, count |-> priorityCount] ELSE Visit(visited[k - 1], k)
    IN  visited[Len(waitList)]

SlotOf(list, g) ==
    IF \E k \in DOMAIN list : list[k].guid = g
    THEN CHOOSE k \in DOMAIN list : list[k].guid = g
    ELSE 0

InsertedAt(list, k, e) == SubSeq(list, 1, k) \o <<e>> \o SubSeq(list, k + 1, Len(list))
RemovedAt(list, k) == SubSeq(list, 1, k - 1) \o SubSeq(list, k + 1, Len(list))

Tell(g, slot) ==
    /\ told' = [guid |-> g, slot |-> slot]
    /\ loading' = IF slot = 0 THEN loading \cup {g} ELSE loading

\* There is room and nobody waits.
DirectAccess(g) ==
    /\ waitList = <<>> /\ Cardinality(online) < maxPlayers
    /\ Tell(g, 0)
    /\ UNCHANGED <<waitList, priorityCount>>

\* A client on the list comes back: it gets in when there is room for all before it.
Returns(g) ==
    LET list  == AfterExpiry.list
        count == AfterExpiry.count
        slot  == SlotOf(list, g)
    IN  /\ slot > 0
        /\ IF Cardinality(online) + slot <= maxPlayers
           THEN /\ waitList' = RemovedAt(list, slot)
                /\ priorityCount' = IF slot <= count /\ count > 0 THEN count - 1 ELSE count
                /\ Tell(g, 0)
           ELSE /\ waitList' = [list EXCEPT ![slot].deadline = clock + Timeout]
                /\ priorityCount' = count
                /\ Tell(g, slot)

PremiumIndex(list, count) == IF count < Len(list) THEN count ELSE Len(list)

LastSlot(list) == Len(list) + 1

\* A client joins the list, a premium one behind the premium ones.
Joins(g) ==
    LET list  == AfterExpiry.list
        count == AfterExpiry.count
        entry == [deadline |-> clock + Timeout, guid |-> g]
    IN  /\ SlotOf(list, g) = 0
        /\ IF g \in Premium
           THEN /\ waitList' = InsertedAt(list, PremiumIndex(list, count), entry)
                /\ priorityCount' = count + 1
                /\ Tell(g, count + 1)
           ELSE /\ waitList' = Append(list, entry)
                /\ priorityCount' = count
                /\ Tell(g, LastSlot(list))

clientLogin(g) ==
    /\ g \notin online
    /\ IF waitList = <<>> /\ Cardinality(online) < maxPlayers
       THEN DirectAccess(g)
       ELSE Returns(g) \/ Joins(g)
    /\ pairExpired' = (pairExpired \/ PairExpires)
    /\ UNCHANGED <<online, clock>>

\* finishLogin places the player, or the login fails.
finishWaiting(g) ==
    /\ g \in loading
    /\ loading' = loading \ {g}
    /\ online' \in {online, online \cup {g}}
    /\ UNCHANGED <<waitList, priorityCount, clock, told, pairExpired>>

leaves(g) ==
    /\ g \in online
    /\ online' = online \ {g}
    /\ UNCHANGED <<waitList, priorityCount, loading, clock, told, pairExpired>>

Tick ==
    /\ clock < MaxClock
    /\ clock' = clock + 1
    /\ UNCHANGED <<waitList, priorityCount, online, loading, told, pairExpired>>

WaitingNext ==
    \/ \E g \in Clients : clientLogin(g) \/ finishWaiting(g) \/ leaves(g)
    \/ Tick

WaitingSpec == WaitingInit /\ [][WaitingNext]_waitingVars

-----------------------------------------------------------------------------
(* Properties.                                                              *)

\* The variables have their types, and what is limited stays within its limit.
WaitingTypeOK ==
    /\ \A k \in DOMAIN waitList : waitList[k].guid \in Clients
    /\ priorityCount \in Nat /\ online \subseteq Clients /\ loading \subseteq Clients

\* Premium clients stand before all others, as long as no call has found two premium entries expired.
\* Such a call may lower priorityCount only once, since it compares the positions before the pass with
\* the count during it; from then on premium clients join behind others.
PremiumFirst ==
    ~pairExpired =>
        \A j, k \in DOMAIN waitList :
            waitList[k].guid \in Premium /\ waitList[j].guid \notin Premium => k < j

\* Nobody is told a better place than the one taken: the slot a client is told is its position in the
\* list or a later one, and one who is let in waits no longer.
SlotIsNoBetter == told.guid \in Clients => SlotOf(waitList, told.guid) <= told.slot

\* f waits, and its entry has not expired.
Standing(f) == \E k \in DOMAIN waitList : waitList[k].guid = f /\ Alive(waitList[k])

\* g and f both do, and g is before f.
StandsBefore(g, f) ==
    \E j, k \in DOMAIN waitList :
        /\ j < k /\ waitList[j].guid = g /\ waitList[k].guid = f
        /\ Alive(waitList[j]) /\ Alive(waitList[k])

\* After a step, whoever stands before a client that waited was before it already, or is a premium
\* client that has just joined, and the one it passed is not premium.
NobodyOvertaken ==
    \A j, k \in DOMAIN waitList' :
        LET g == waitList'[j].guid
            f == waitList'[k].guid
        IN  j < k /\ Standing(f) =>
                StandsBefore(g, f) \/ (~Standing(g) /\ g \in Premium /\ f \notin Premium)

\* The list is fair, whoever expires, leaves, comes back or joins at whatever position: premium
\* clients are served first (until two of them expire in one call), nobody who waits is overtaken but
\* by a premium client that joins before clients that are not, and the slots that were told hold.
QueueIsFair ==
    /\ [](WaitingTypeOK /\ PremiumFirst /\ SlotIsNoBetter)
    /\ [][NobodyOvertaken]_waitList

=============================================================================
