------------------------------- MODULE Trade --------------------------------
(***************************************************************************)
(* Trading between players: playerRequestTrade, internalStartTrade,        *)
(* playerAcceptTrade, internalCloseTrade (src/src/game.cpp) and the        *)
(* notifications by which a moved item or a step of a player closes a      *)
(* trade (src/src/player.cpp, container.cpp).                              *)
(*                                                                         *)
(* Every handler is one task of the dispatcher.  An item has a holder: a   *)
(* player, the ground, a bag, or nobody once it is destroyed.  Positions,  *)
(* instances, capacity and the scripts that may veto a trade are choices.  *)
(* The client is left to send any request in any order.                    *)
(***************************************************************************)
EXTENDS Naturals, FiniteSets

CONSTANTS
    Traders,        \* players
    Things, Bags,   \* items, and those that are containers
    Ground, Nowhere, NoTrader, NoThing

ASSUME TradeConstants ==
    /\ Bags \subseteq Things
    /\ Traders \cap Things = {} /\ NoTrader \notin Traders /\ NoThing \notin Things
    /\ {Ground, Nowhere} \cap (Traders \cup Things) = {}

VARIABLES
    trade,          \* [state, partner, item] of each player
    tradeItems,     \* Game::tradeItems: offered item -> player
    holder,         \* where each item is
    accepted        \* what a player who accepted was shown: an item and its contents

tradeVars == <<trade, tradeItems, holder, accepted>>

NoTrade == [state |-> "none", partner |-> NoTrader, item |-> NoThing]
Unseen  == [item |-> NoThing, contents |-> {}]

TradeInit ==
    /\ trade = [p \in Traders |-> NoTrade]
    /\ tradeItems = <<>>
    /\ holder \in [Things -> Traders \cup {Ground}]
    /\ accepted = [p \in Traders |-> Unseen]

\* The bags an item lies in, directly or deeper: those in every set that holds the bag around the item
\* and, with a bag, the bag around that one.
BagsAround(h, i) ==
    LET closed == {S \in SUBSET Bags : {h[j] : j \in {i} \cup S} \cap Bags \subseteq S}
    IN  {b \in Bags : \A S \in closed : b \in S}

\* The holders above an item.
Above(h, i) == {h[j] : j \in {i} \cup BagsAround(h, i)}

Holds(h, c, i) == c \in Above(h, i)
Contents(h, c) == {i \in Things : Holds(h, c, i)}
Offer(h, i) == [item |-> i, contents |-> Contents(h, i)]

\* The item a player offers; the reference is weak.
TradeItem(h, p) ==
    IF trade[p].item # NoThing /\ h[trade[p].item] # Nowhere THEN trade[p].item ELSE NoThing

-----------------------------------------------------------------------------
(* Closing.                                                                 *)

Without(f, S) == [x \in DOMAIN f \ S |-> f[x]]

WithPartners(S) == S \cup ({trade[p].partner : p \in S} \ {NoTrader})

\* Wrong variant: the registry keeps the items.
CloseTradesRegistered(S) ==
    /\ trade' = [p \in Traders |-> IF p \in WithPartners(S) THEN NoTrade ELSE trade[p]]
    /\ accepted' = [p \in Traders |-> IF p \in WithPartners(S) THEN Unseen ELSE accepted[p]]
    /\ UNCHANGED tradeItems

\* internalCloseTrade for each player of S.
CloseTrades(S) ==
    /\ trade' = [p \in Traders |-> IF p \in WithPartners(S) THEN NoTrade ELSE trade[p]]
    /\ tradeItems' = Without(tradeItems, {trade[p].item : p \in WithPartners(S)})
    /\ accepted' = [p \in Traders |-> IF p \in WithPartners(S) THEN Unseen ELSE accepted[p]]

\* Wrong variant: only the item on offer itself is watched.
WatchesItself(i, to) == {p \in Traders : TradeItem(holder, p) = i}

\* checkTradeState and its callers, when item i goes to `to`: the players whose offer is i itself,
\* holds i, is held by i, will hold i, or lies deeper in the container that i is taken from.
Watches(i, to) ==
    {p \in Traders : LET t == TradeItem(holder, p) IN
        /\ t # NoThing
        /\ \/ t = i \/ Holds(holder, t, i) \/ Holds(holder, i, t)
           \/ to = t \/ (to \in Bags /\ Holds(holder, t, to))
           \/ holder[i] \in Bags /\ Holds(holder, holder[i], t) /\ holder[t] # holder[i]}

-----------------------------------------------------------------------------
(* The requests of a player.                                                *)

\* An item on offer may not be offered again, nor inside another or with another inside.
AlreadyTraded(i) ==
    \E j \in DOMAIN tradeItems :
        holder[j] # Nowhere /\ (i = j \/ Holds(holder, i, j) \/ Holds(holder, j, i))

\* cleanupExpiredTradeItems, the checks of the request, then internalStartTrade.
playerRequestTrade(p, q, i) ==
    /\ p # q
    /\ holder[i] # Nowhere /\ Above(holder, i) \cap (Traders \ {p}) = {}
    /\ ~AlreadyTraded(i)
    /\ \/ trade[p].state = "none"
       \/ trade[p].state = "acknowledge" /\ trade[p].partner = q
    /\ trade[q].state = "none" \/ trade[q].partner = p
    /\ trade' = [trade EXCEPT
                    ![p] = [state |-> "initiated", partner |-> q, item |-> i],
                    ![q] = IF @.state = "none" THEN [state |-> "acknowledge", partner |-> p, item |-> @.item]
                           ELSE @]
    /\ tradeItems' = [j \in {i} \cup {k \in DOMAIN tradeItems : holder[k] # Nowhere} |->
                         IF j = i THEN p ELSE tradeItems[j]]
    /\ UNCHANGED <<holder, accepted>>

playerCloseTrade(p) == CloseTrades({p}) /\ UNCHANGED holder

\* A step out of range, or the player leaves the game: onCreatureMove, onRemoveCreature.
tradeLeaves(p) ==
    /\ trade[p].partner # NoTrader
    /\ CloseTrades({p}) /\ UNCHANGED holder

\* Both accepted: the items change hands, or stay when there is no room for one of them; whether
\* the second move succeeds is not looked at.  The players are in TRADE_TRANSFER, so that only
\* others see the items move.
Transfer(p, q) ==
    \/ CloseTrades({p}) /\ UNCHANGED holder
    \/ /\ holder' = [holder EXCEPT ![trade[p].item] = q]
       /\ CloseTrades({p} \cup Watches(trade[p].item, q))
    \/ /\ holder' = [holder EXCEPT ![trade[p].item] = q, ![trade[q].item] = p]
       /\ CloseTrades({p} \cup Watches(trade[p].item, q) \cup Watches(trade[q].item, p))

playerAcceptTrade(p) ==
    LET q == trade[p].partner IN
    /\ trade[p].state \in {"acknowledge", "initiated"}
    /\ \/ CloseTrades({p}) /\ UNCHANGED holder       \* another instance, no line, no item, a veto
       \/ /\ trade[q].state # "accept"
          /\ trade' = [trade EXCEPT ![p].state = "accept"]
          /\ accepted' = [accepted EXCEPT ![p] = IF TradeItem(holder, q) = NoThing THEN Unseen
                                                 ELSE Offer(holder, TradeItem(holder, q))]
          /\ UNCHANGED <<tradeItems, holder>>
       \/ /\ trade[q].state = "accept"
          /\ TradeItem(holder, p) # NoThing /\ TradeItem(holder, q) # NoThing
          /\ Transfer(p, q)

-----------------------------------------------------------------------------
(* Items change hands outside of trades.                                    *)

\* internalMoveItem, or internalRemoveItem when the item goes nowhere; a bag goes nowhere once it
\* is empty.
moveThing(i, to) ==
    /\ holder[i] \notin {Nowhere, to}
    /\ to # i /\ (to \in Bags => holder[to] # Nowhere /\ ~Holds(holder, i, to))
    /\ i \in Bags /\ to = Nowhere => Contents(holder, i) = {}
    /\ holder' = [holder EXCEPT ![i] = to]
    /\ CloseTrades(Watches(i, to))

TradeNext ==
    \/ \E p, q \in Traders, i \in Things : playerRequestTrade(p, q, i)
    \/ \E p \in Traders : playerAcceptTrade(p) \/ playerCloseTrade(p) \/ tradeLeaves(p)
    \/ \E i \in Things, to \in Traders \cup Bags \cup {Ground, Nowhere} : moveThing(i, to)

TradeSpec == TradeInit /\ [][TradeNext]_tradeVars

-----------------------------------------------------------------------------
(* Properties.                                                              *)

\* The variables have their types, and what is limited stays within its limit.
TradeTypeOK ==
    /\ \A p \in Traders : trade[p].state \in {"none", "initiated", "acknowledge", "accept"}
    /\ DOMAIN tradeItems \subseteq Things
    /\ holder \in [Things -> Traders \cup Bags \cup {Ground, Nowhere}]

\* Trading is mutual: nobody trades with a player who trades with somebody else or not at all.
TradeIsMutual ==
    \A p \in Traders :
        /\ trade[p].state = "none" <=> trade[p].partner = NoTrader
        /\ trade[p].partner # NoTrader => trade[trade[p].partner].partner = p

\* The registry holds the offers of the trades under way and nothing else: no item stays locked
\* after its trade, and no item is on offer twice, by itself or inside a bag.
OffersRegistered ==
    /\ \A i \in DOMAIN tradeItems : trade[tradeItems[i]].item = i
    /\ \A p \in Traders : trade[p].item # NoThing =>
          trade[p].item \in DOMAIN tradeItems /\ tradeItems[trade[p].item] = p
    /\ \A p, q \in Traders : p # q /\ TradeItem(holder, p) # NoThing /\ TradeItem(holder, q) # NoThing =>
          ~Holds(holder, trade[p].item, trade[q].item) /\ trade[p].item # trade[q].item

\* What a player accepted is what is on offer still, bags with their contents: moving anything into or
\* out of an offer closes the trade, it never changes under an acceptance.
AcceptedIsOffered ==
    \A p \in Traders : accepted[p] # Unseen =>
        LET q == trade[p].partner IN
        q # NoTrader /\ trade[q].item # NoThing /\ accepted[p] = Offer(holder, trade[q].item)

\* However trades end, and several at once, both sides and the registry of items on offer agree.
TradesAgree == TradeTypeOK /\ TradeIsMutual /\ OffersRegistered

=============================================================================
