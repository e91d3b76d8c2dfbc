-------------------------------- MODULE Coins --------------------------------
(***************************************************************************)
(* The Tibia Coins of an account and what spends them: the game store, the *)
(* transfers between accounts and the character bazaar.                    *)
(*                                                                         *)
(* All of it runs on the dispatcher, but the balances are rows of the      *)
(* database that the web site changes as well (bids and cancellations are  *)
(* made there), and a purchase is not one transaction: it debits, delivers *)
(* into the store inbox item by item, and credits again when the delivery  *)
(* fails.  Offers other than stacks of items deliver in one step and are   *)
(* the case of one item.  The dispatcher takes up nothing else until the   *)
(* purchase, or the pass over the expired auctions, is over (`Free'); the  *)
(* web site does not wait.                                                 *)
(*                                                                         *)
(* Faults: "queryFails", a statement fails and is not applied, and a query *)
(* that fails looks like one that finds nothing; "lostAnswer", a statement *)
(* or a commit is applied and the connection is lost before the answer (a  *)
(* statement is then run again).                                           *)
(***************************************************************************)
EXTENDS Naturals, FiniteSets, FiniteSetsExt

CONSTANTS Accounts, Characters,
          Rows,              \* the ids of auctions, used again: a bound on those that are active at once
          MaxCoins,          \* the largest balance
          StartCoins,        \* the balances an account may start with
          Price,             \* of the offer, and
          OfferCounts,       \* the numbers of pieces it may deliver
          Slots, StackSize,  \* the store inbox and its stacks
          Amounts,           \* of a transfer
          Fee, CommissionPercent, Bids,
          CoinFaults, NoAuction, NoBidder

\* A row of character_auctions.
AuctionRow == [player : Characters, seller : Accounts, bidder : Accounts \cup {NoBidder}, bid : Nat,
               expired : BOOLEAN]

ASSUME CoinsAssumption ==
    /\ IsFiniteSet(Accounts) /\ IsFiniteSet(Characters) /\ IsFiniteSet(Slots)
    /\ Rows \subseteq Nat /\ IsFiniteSet(Rows)
    /\ MaxCoins \in Nat /\ StartCoins \subseteq 0..MaxCoins
    /\ Price \in 1..MaxCoins /\ Fee \in 0..MaxCoins
    /\ Amounts \subseteq 1..MaxCoins /\ Bids \subseteq 1..MaxCoins
    /\ CommissionPercent \in 0..100
    /\ OfferCounts \subseteq Nat \ {0} /\ StackSize \in Nat \ {0}
    /\ NoBidder \notin Accounts /\ NoAuction \notin AuctionRow
    /\ CoinFaults \subseteq {"queryFails", "lostAnswer"}

VARIABLES
    coins,      \* accounts.tibia_coins
    owner,      \* players.account_id
    place,      \* of a character: "out", "loading", "in", or "leaving": listed, its kick posted
    account,    \* Player::accountNumber: the account a character was loaded with
    auction,    \* the active rows of character_auctions: a row, or NoAuction
    selected,   \* the rows finalizeExpiredAuctions has still to go through
    inbox,      \* the stacks of a character's store inbox
    purchase,   \* the purchase under way
    till,       \* history: the coins spent on deliveries, fees and commissions
    unrefunded, \* history: the coins of refunds that failed and were logged
    misjudged   \* history: the characters let in, or put up, because a query that failed hid a row

coinVars == <<coins, owner, place, account, auction, selected, inbox, purchase, till, unrefunded, misjudged>>
accountVars == <<coins, till, unrefunded>>
bazaarVars == <<owner, place, account, auction, selected, misjudged>>
storeVars == <<inbox, purchase>>

Idle == [stage |-> "idle"]
Free == purchase = Idle /\ selected = {}
Active(r) == auction[r] # NoAuction

\* The sum of the numbers f assigns: f[a] units for every a.
Total(f) == Cardinality(UNION {{a} \X (1 .. f[a]) : a \in DOMAIN f})
-----------------------------------------------------------------------------
(***************************************************************************)
(* Statements.  An outcome is what the caller is told and the new balance. *)
(***************************************************************************)
DebitOnce(have, amount) ==
    IF have >= amount THEN [ok |-> TRUE, coins |-> have - amount]
                      ELSE [ok |-> FALSE, coins |-> have]

CreditOnce(have, amount) ==
    IF have <= MaxCoins - amount THEN [ok |-> TRUE, coins |-> have + amount]
                                 ELSE [ok |-> FALSE, coins |-> have]

\* What a statement can come to outside a transaction: once is the outcome of executing it, again
\* the outcome of executing it after that.
executeQuery(have, once, again) ==
    {once}
    \cup (IF "queryFails" \in CoinFaults THEN {[ok |-> FALSE, coins |-> have]} ELSE {})
    \cup (IF "lostAnswer" \in CoinFaults THEN {again, [once EXCEPT !.ok = FALSE]} ELSE {})

debit(a, amount) ==
    LET once == DebitOnce(coins[a], amount)
    IN  executeQuery(coins[a], once, DebitOnce(once.coins, amount))
credit(a, amount) ==
    LET once == CreditOnce(coins[a], amount)
    IN  executeQuery(coins[a], once, CreditOnce(once.coins, amount))

\* A transaction that a failing statement rolls back leaves no trace; of one that commits the caller may not hear.
CommitAnswers == {TRUE} \cup (IF "lostAnswer" \in CoinFaults THEN {FALSE} ELSE {})
-----------------------------------------------------------------------------
(***************************************************************************)
(* The game store.                                                         *)
(***************************************************************************)
Pieces(box) == Total(box)

\* How many pieces the inbox of c can still take.
queryMaxCount(c) == Cardinality(Slots) * StackSize - Pieces(inbox[c])

\* What k more pieces can make of an inbox: they fill up the stacks that are there before one more is begun.
WithPieces(box, k) ==
    {new \in [Slots -> 0..StackSize] :
        /\ \A s \in Slots : new[s] >= box[s]
        /\ Pieces(new) = Pieces(box) + k
        /\ LET begun == {s \in Slots : box[s] = 0 /\ new[s] > 0}
           IN  /\ Cardinality(begun) <= 1
               /\ begun # {} => \A s \in Slots \ begun : box[s] > 0 => new[s] = StackSize}

\* An add that fails has merged some of the pieces, or none, and begun no stack.
AfterFailedAdd(box, k) ==
    {new \in UNION {WithPieces(box, j) : j \in 0..(k - 1)} : \A s \in Slots : box[s] = 0 => new[s] = 0}

\* Wrong variant: the pieces merged into stacks that were there stay.
rollbackForgetsStacks(box, snapshot) ==
    [s \in Slots |-> IF snapshot[s] = 0 THEN 0 ELSE box[s]]

\* rollbackInboxDelivery: new stacks go, stacks that grew shrink to what they were.
rollbackInboxDelivery(box, snapshot) ==
    [s \in Slots |-> IF snapshot[s] = 0 THEN 0 ELSE Min({box[s], snapshot[s]})]

\* purchase, up to the debit and the look at the inbox.  The cooldown and the checks of the offer only refuse.
purchaseDebit(c, n) ==
    /\ Free
    /\ place[c] \in {"in", "leaving"}
    /\ \E o \in debit(account[c], Price) :
          /\ coins' = [coins EXCEPT ![account[c]] = o.coins]
          /\ purchase' = IF o.ok
                         THEN [stage |-> IF queryMaxCount(c) >= n THEN "deliver" ELSE "refund",
                               player |-> c, count |-> n, left |-> n, snapshot |-> inbox[c]]
                         ELSE Idle
    /\ UNCHANGED <<till, unrefunded, inbox, bazaarVars>>

\* deliverItem adds the next stack, or undoes those it has added.
deliverItem ==
    /\ purchase.stage = "deliver" /\ purchase.left > 0
    /\ LET c == purchase.player
           k == Min({purchase.left, StackSize})
       IN  \/ \E box \in WithPieces(inbox[c], k) :
                 /\ inbox' = [inbox EXCEPT ![c] = box]
                 /\ purchase' = [purchase EXCEPT !.left = @ - k]
           \/ \E box \in AfterFailedAdd(inbox[c], k) :
                 /\ inbox' = [inbox EXCEPT ![c] = rollbackInboxDelivery(box, purchase.snapshot)]
                 /\ purchase' = [purchase EXCEPT !.stage = "refund"]
    /\ UNCHANGED <<accountVars, bazaarVars>>

\* The delivery is complete; the entry in the history is written or logged as missing.
purchaseDelivered ==
    /\ purchase.stage = "deliver" /\ purchase.left = 0
    /\ purchase' = Idle
    /\ till' = till + Price
    /\ UNCHANGED <<coins, unrefunded, inbox, bazaarVars>>

\* The delivery failed: the price is credited, or the failure of that is logged.
purchaseRefund ==
    /\ purchase.stage = "refund"
    /\ \E o \in credit(account[purchase.player], Price) :
          /\ coins' = [coins EXCEPT ![account[purchase.player]] = o.coins]
          /\ unrefunded' = IF o.ok THEN unrefunded ELSE unrefunded + Price
    /\ purchase' = Idle
    /\ UNCHANGED <<till, inbox, bazaarVars>>

\* Wrong variant: the debit stands although the credit was refused.
transferUnrolled(a, b, amount) ==
    /\ Free
    /\ a # b
    /\ DebitOnce(coins[a], amount).ok
    /\ coins' = [coins EXCEPT ![a] = DebitOnce(@, amount).coins, ![b] = CreditOnce(@, amount).coins]
    /\ UNCHANGED <<till, unrefunded, storeVars, bazaarVars>>

\* transferCoins and AccountCoins::transfer: both updates and the history, or neither.
transfer(a, b, amount) ==
    /\ Free
    /\ a # b
    /\ LET paid == DebitOnce(coins[a], amount)
           received == CreditOnce(coins[b], amount)
       IN  /\ paid.ok /\ received.ok
           /\ coins' = [coins EXCEPT ![a] = paid.coins, ![b] = received.coins]
    /\ UNCHANGED <<till, unrefunded, storeVars, bazaarVars>>

\* A piece leaves the inbox for the player's backpack.
takePiece(c, s) ==
    /\ Free
    /\ place[c] \in {"in", "leaving"}
    /\ inbox[c][s] > 0
    /\ inbox' = [inbox EXCEPT ![c][s] = @ - 1]
    /\ UNCHANGED <<accountVars, purchase, bazaarVars>>
-----------------------------------------------------------------------------
(***************************************************************************)
(* The character bazaar.                                                   *)
(***************************************************************************)
\* queryHasRows: what it may answer.
queryHasRows(rows) == {rows # {}} \cup (IF "queryFails" \in CoinFaults THEN {FALSE} ELSE {})

\* The active rows of a character, and of an account.
RowsOf(c) == {r \in Rows : Active(r) /\ auction[r].player = c}
SoldBy(a) == {r \in Rows : Active(r) /\ auction[r].seller = a}

isPlayerOnActiveAuction(c) == queryHasRows(RowsOf(c))
hasActiveAuctionForAccount(a) == queryHasRows(SoldBy(a))

\* The checks passed although there were rows.
Misjudge(c, rows) == misjudged' = IF rows = {} THEN misjudged ELSE misjudged \cup {c}

\* createAuction: the fee, the row and its history in one transaction, then the kick is posted.
createAuction(c, r) ==
    /\ Free
    /\ place[c] \in {"in", "leaving"}
    /\ ~Active(r) /\ \A q \in Rows : q < r => Active(q)
    /\ FALSE \in isPlayerOnActiveAuction(c) /\ FALSE \in hasActiveAuctionForAccount(account[c])
    /\ Misjudge(c, RowsOf(c) \cup SoldBy(account[c]))
    /\ DebitOnce(coins[account[c]], Fee).ok
    /\ coins' = [coins EXCEPT ![account[c]] = DebitOnce(@, Fee).coins]
    /\ till' = till + Fee
    /\ auction' = [auction EXCEPT ![r] = [player |-> c, seller |-> account[c], bidder |-> NoBidder,
                                          bid |-> 0, expired |-> FALSE]]
    /\ \E told \in CommitAnswers : place' = [place EXCEPT ![c] = IF told THEN "leaving" ELSE @]
    /\ UNCHANGED <<unrefunded, owner, account, selected, storeVars>>

Due(r) == Active(r) /\ auction[r].expired

\* finalizeExpiredAuctions, at start-up and every minute: which rows are due.
finalizeExpiredAuctions ==
    /\ Free
    /\ selected' = {r \in Rows : Due(r)}
    /\ selected' # {}
    /\ UNCHANGED <<accountVars, owner, place, account, auction, misjudged, storeVars>>

Commission(bid) == (bid * CommissionPercent) \div 100
Payout(row) == row.bid - Commission(row.bid)

\* Whether the row, with a bid on it, can be paid out.
Payable(r) ==
    /\ owner[auction[r].player] = auction[r].seller
    /\ CreditOnce(coins[auction[r].seller], Payout(auction[r])).ok

\* The character changes hands and its seller is paid.
Sale(r) ==
    /\ owner' = [owner EXCEPT ![auction[r].player] = auction[r].bidder]
    /\ coins' = [coins EXCEPT ![auction[r].seller] = CreditOnce(@, Payout(auction[r])).coins]
    /\ till' = till + Commission(auction[r].bid)
    /\ auction' = [auction EXCEPT ![r] = NoAuction]

\* finalizeAuction locks the row and looks at it again: the web site may have cancelled it.  What fails is
\* rolled back and found again by the next pass.
finalizeAuction(r) ==
    /\ r \in selected
    /\ selected' = selected \ {r}
    /\ \/ /\ Due(r) /\ auction[r].bidder # NoBidder /\ Payable(r)
          /\ Sale(r)
       \/ /\ Due(r) /\ auction[r].bidder = NoBidder
          /\ auction' = [auction EXCEPT ![r] = NoAuction]
          /\ UNCHANGED <<coins, owner, till>>
       \/ /\ Due(r) => (auction[r].bidder # NoBidder /\ ~Payable(r)) \/ "queryFails" \in CoinFaults
          /\ UNCHANGED <<coins, owner, till, auction>>
    /\ UNCHANGED <<unrefunded, place, account, misjudged, storeVars>>

\* The end of the auction passes.  It lasts a minute at least: the kick, the next task, has run by then.
expire(r) ==
    /\ Active(r) /\ ~auction[r].expired
    /\ place[auction[r].player] # "leaving"
    /\ auction' = [auction EXCEPT ![r].expired = TRUE]
    /\ UNCHANGED <<accountVars, owner, place, account, selected, misjudged, storeVars>>

\* The web site takes a higher bid and gives the one before it back.
webBid(a, r, amount) ==
    /\ Active(r) /\ ~auction[r].expired
    /\ amount > auction[r].bid /\ coins[a] >= amount
    /\ a \notin {auction[r].seller, auction[r].bidder}
    /\ auction[r].bidder # NoBidder => CreditOnce(coins[auction[r].bidder], auction[r].bid).ok
    /\ coins' = [b \in Accounts |->
                    CASE b = a -> coins[b] - amount
                      [] b = auction[r].bidder -> coins[b] + auction[r].bid
                      [] OTHER -> coins[b]]
    /\ auction' = [auction EXCEPT ![r].bidder = a, ![r].bid = amount]
    /\ UNCHANGED <<till, unrefunded, owner, place, account, selected, misjudged, storeVars>>

\* The web site cancels an auction nobody has bid on.
webCancel(r) ==
    /\ Active(r) /\ auction[r].bidder = NoBidder
    /\ auction' = [auction EXCEPT ![r] = NoAuction]
    /\ UNCHANGED <<accountVars, owner, place, account, selected, misjudged, storeVars>>
-----------------------------------------------------------------------------
(***************************************************************************)
(* Sessions, as far as the bazaar asks about them.                         *)
(***************************************************************************)
\* Wrong variant: only the character list leaves out the characters on auction.
loginUnchecked(c) ==
    /\ Free
    /\ place[c] = "out"
    /\ place' = [place EXCEPT ![c] = "loading"]
    /\ account' = [account EXCEPT ![c] = owner[c]]
    /\ UNCHANGED <<accountVars, owner, auction, selected, misjudged, storeVars>>

\* ProtocolGame::login looks for an auction and preloads the character.
loginCharacter(c) ==
    /\ Free
    /\ place[c] = "out" /\ FALSE \in isPlayerOnActiveAuction(c)
    /\ Misjudge(c, RowsOf(c))
    /\ place' = [place EXCEPT ![c] = "loading"]
    /\ account' = [account EXCEPT ![c] = owner[c]]
    /\ UNCHANGED <<accountVars, owner, auction, selected, storeVars>>

\* A worker has loaded it, and read the account again, since.
finishLogin(c) ==
    /\ Free
    /\ place[c] = "loading"
    /\ place' = [place EXCEPT ![c] = "in"]
    /\ account' \in {account, [account EXCEPT ![c] = owner[c]]}
    /\ UNCHANGED <<accountVars, owner, auction, selected, misjudged, storeVars>>

\* A logout, or the kick createAuction posted.
leave(c) ==
    /\ Free
    /\ place[c] \in {"in", "leaving"}
    /\ place' = [place EXCEPT ![c] = "out"]
    /\ UNCHANGED <<accountVars, owner, account, auction, selected, misjudged, storeVars>>
-----------------------------------------------------------------------------
CoinsInit ==
    /\ coins \in [Accounts -> StartCoins]
    /\ owner \in [Characters -> Accounts]
    /\ place = [c \in Characters |-> "out"] /\ account = owner
    /\ auction = [r \in Rows |-> NoAuction]
    /\ selected = {} /\ misjudged = {}
    /\ inbox = [c \in Characters |-> [s \in Slots |-> 0]]
    /\ purchase = Idle
    /\ till = 0 /\ unrefunded = 0

CoinsNext ==
    \/ \E c \in Characters, n \in OfferCounts : purchaseDebit(c, n)
    \/ deliverItem \/ purchaseDelivered \/ purchaseRefund
    \/ \E a, b \in Accounts, amount \in Amounts : transfer(a, b, amount)
    \/ \E c \in Characters, s \in Slots : takePiece(c, s)
    \/ finalizeExpiredAuctions
    \/ \E c \in Characters, r \in Rows : createAuction(c, r)
    \/ \E r \in Rows : finalizeAuction(r) \/ expire(r) \/ webCancel(r)
    \/ \E c \in Characters : loginCharacter(c) \/ finishLogin(c) \/ leave(c)
    \/ \E a \in Accounts, r \in Rows, amount \in Bids : webBid(a, r, amount)

CoinsSpec == CoinsInit /\ [][CoinsNext]_coinVars
-----------------------------------------------------------------------------
(***************************************************************************)
(* Properties.                                                             *)
(***************************************************************************)
\* The variables have their types, and what is limited stays within its limit.
CoinsTypeOK ==
    /\ coins \in [Accounts -> 0..MaxCoins]
    /\ owner \in [Characters -> Accounts] /\ account \in [Characters -> Accounts]
    /\ place \in [Characters -> {"out", "loading", "in", "leaving"}]
    /\ selected \subseteq Rows
    /\ inbox \in [Characters -> [Slots -> 0..StackSize]]

\* Every coin there is: on an account, held for a bid or a purchase, or spent.
HeldBids == [r \in Rows |-> IF Active(r) THEN auction[r].bid ELSE 0]
InPurchase == IF purchase = Idle THEN 0 ELSE Price
Worth == Total(coins) + Total(HeldBids) + InPurchase + till + unrefunded

(***************************************************************************)
(* No step makes or destroys coins: whatever a purchase that fails half    *)
(* way, a transfer that rolls back, bids of the web site and a             *)
(* finalization that is tried again do to the balances, what leaves one    *)
(* account arrives at another or is paid for something; and no step takes  *)
(* a balance past its limits.                                              *)
(***************************************************************************)
CoinsConserved == [][Worth' = Worth /\ CoinsTypeOK']_coinVars

(***************************************************************************)
(* A delivery is all or nothing: while it lasts the inbox holds exactly    *)
(* the pieces added so far over what it held, and once it has failed,      *)
(* after stacks were begun and others grew, it holds what it held.         *)
(***************************************************************************)
DeliveryAllOrNothing ==
    /\ purchase.stage = "refund" => inbox[purchase.player] = purchase.snapshot
    /\ purchase.stage = "deliver" =>
          Pieces(inbox[purchase.player]) = Pieces(purchase.snapshot) + purchase.count - purchase.left

(***************************************************************************)
(* A character on an active auction belongs to its seller and is not       *)
(* played: it is out of the game, or the kick that createAuction posted is *)
(* still to come; and neither it nor its seller is in another auction.     *)
(* The checks let through what a query that fails hides from them, which   *)
(* is excepted: but it does no harm to the other characters.               *)
(***************************************************************************)
ListedIsAway ==
    \A r \in Rows : Active(r) /\ auction[r].player \notin misjudged =>
        /\ place[auction[r].player] \in {"out", "leaving"}
        /\ owner[auction[r].player] = auction[r].seller
        /\ \A q \in (RowsOf(auction[r].player) \cup SoldBy(auction[r].seller)) \ {r} :
              auction[q].player \in misjudged
=============================================================================
