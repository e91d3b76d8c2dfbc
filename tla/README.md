# Backlands server: a TLA+ verification project

Backlands is a game server in C++. Game logic runs on one dispatcher thread, which is driven by a
task reactor; a thread pool and a database worker run database work; a pool of network threads
serves the connections; the database keeps characters and accounts. This project models the parts
where threads, failures and order decide whether something is lost, doubled or stuck: how saves are
coordinated and a delta save knows what is dirty, how the reactor hands tasks to the dispatcher, how
connections and sessions begin and end, and the bookkeeping of the game that outlives one request:
waiting list, trade, parties, decay, settings, coins, spawns and the creature check.

## The system and its parts

| Part | State | Operations | Hard because of |
|---|---|---|---|
| `SaveManager` (`save_manager.*`) | flushes in flight, waiting saves, drain callbacks, tracked counter, failed recoveries, the log `player_save_async_pending` | `saveAll`, `savePlayer`, `savePlayerSync`, `savePlayersSync`, `drainPlayerFlushAsync`, `recoverPendingFlushes` | workers, failing writes, crashes, coalesced saves |
| Dirty marks of `Player` (`player.cpp`, `iologindata.cpp`) | storage map, modified and removed keys, revisions | `setStorageValue`, snapshot, acknowledgement, daily reward save | acknowledgements that arrive late |
| `TaskReactor` (`reactor.*`) | inboxes, heap, batch, reserved identifiers, cancellations | `send`, `schedule`, `cancel`, `shutdown`, the loop | many callers, deferral, wrapping identifiers, lost wake-ups |
| Login (`protocolgame.cpp`, `game.cpp`) | reserved characters, timeout, loaded player | `login`, drain callback, `finishLogin` | a load on a worker while the dispatcher goes on |
| Writers of offline characters (`mailbox.cpp`, `house.cpp`, `bed.cpp`) | a temporary `Player` | load, change, save | stale loads |
| Connections (`connection.*`, `server.*`) | sockets, write queues, the manager's lists, the accept chain | accept, read, write, close, `die` | network threads against dispatcher and teardown |
| Sessions and waiting list (`protocolgame.cpp`) | protocol, player, reservations; list and `priorityCount` | login, take-over, logout, release; `clientLogin` | late releases, expiring entries |
| Trade, parties (`game.cpp`, `player.cpp`, `party.cpp`) | references between players, items and parties | requests, moves, logout | one request ends several relations |
| Decay (`decay.*`) | entries by time, one timer | start, stop, check | scripts that interfere with the batch |
| Quick loot settings, KV store, `DatabaseTasks` | dirty mark, generation, cache, queue | change, flush, callback, logout, shutdown | late callbacks, a dispatcher that waits |
| Coins, store, bazaar | balances, inbox, auctions | purchase, transfer, auction | partial failure, the web site |
| Spawns, creature check (`spawn.cpp`, `game.cpp`) | entries, chains of effects, lists | respawn, reload; think, rest, wake | lists that change under iteration |
| Dispatcher, Scheduler, ThreadPool, Database | queues, connection, transaction | `addTask`, `addEvent`, `detach_task`, transactions | overflow, shutdown order |
| Rate limiters, output pool, market, raids, guilds, chat | | | left out, see the end |
| Game rules, map, Lua, configuration | large | many | left out, see the end |

They interact as follows. Every game action, and every step of a save's bookkeeping, is a task of
the dispatcher, which the reactor runs one at a time. A save is a list of queries built on the
dispatcher; the thread pool executes them in one transaction and posts the outcome back through
`Dispatcher::addTask`, that is `TaskReactor::send`. A login asks `SaveManager` to be called when the
character's saves are done, then loads it on the pool. Timers (`Scheduler::addEvent`) are
`TaskReactor::schedule`, and `stopEvent` is `cancel`. A closed `Connection` posts the release of its
protocol to the dispatcher. `DatabaseTasks` executes queries in order and posts their callbacks.
Spawns, decay and the creature check are timers of the dispatcher; trades and parties change within
the task of one request, and within the logout of a player. `PROJECT.json` lists every part with its
sources, and under `hazards` the places where tests hardly reach.

## Modules

### SaveManager

One module for the coordination of saves with the actors around it. A character's state is a set of
updates, so a save is a set and a lost update is a missing element.

| Model | Code |
|---|---|
| `flushInFlight`, `pendingFlushes`, `pendingSaveFlushes`, `saving`, `failedRecoveryGuids` | members of the same name |
| `flushes` | the closures given to `g_threadPool`, then the posted `onPlayerFlushed` |
| `drains` | each caller of `drainPlayerFlushAsync`: `flushChainCallbacks`, the posted answers, `Game::pendingLogins` (`login`), the state loaded by the worker |
| `db`, `wal` | the player tables and the log |
| `mem` | the `Player` objects in the game |
| `accepted`, `unrecovered` | history only: the newest save handed over, the log entries that this startup did not replay |
| `savePlayer`, `SaveOnline`, `Logout`, `SaveOffline`, `savePlayersSync` | `saveAsync`, `save`, `onRemoveCreature`, mailbox and house, beds |
| `SaveAllBegin`, `SaveAllPlayer`, `SaveAllEnd` | `saveAll`, with one step per player; the dispatcher does nothing else meanwhile (`Idle`), workers do |
| `flushPlayerSave`, `onPlayerFlushed` | the pool's transaction and its completion |
| `drainPlayerFlushAsync`, `DrainTask`, `LoginTimeout`, `DrainCallback`, `loadPlayerById`, `finishLogin` | the login |
| `Crash`, `RecoverGuid`, `RecoverFails` | a crash, also between the commit of a replay and the deletion of its entry, and `recoverPendingFlushes` per log entry |

`Faults` says which failures may happen: the log write (`wal`), the flush (`flush`), the deletion of
a log entry (`delete`), a crash, and a recovery that fails at a query or at begin or commit.
`OfflineWriters` says who writes offline characters. Both are constants, so that a run, or a theorem,
states its assumptions.

`DurableCharacters` is what saving promises: one stable state per character that saving replaces at
once and from which entering the game starts. `SaveManager` implements it with the log and the
tables together as the stable state.

### PlayerStorage

One character's storage map, its marks and its delta saves, along the same flush chain. A snapshot
(`id`, `modified`, `removed`, `rows`) is what `buildPlayerSave` captures. The bestiary marks are the
same code without removals. `Faults` are those of the log write, the flush, the deletion of a log
entry (`DeleteEntry`) and a crash. Two variables are history: `saved` is the map at the newest save,
and `failed` says that a write failed and no save has succeeded since (a save succeeds when it is
logged, or written directly with no entry left in the log).

`DurableStorage` is what delta saves promise: one stable map, which a save replaces whole and at once,
from which a login starts and which a crash leaves alone. After a failure the promise is suspended
(`SaveUnlogged`, `SaveInPart`, `Fail`) until a save succeeds or the one that waited is logged
(`CatchUp`): a stable value may stay behind, but none becomes stable that was not live or handed over.
`PlayerStorage` implements it (`StorageIsDurable`) with `Restored`, the table with the logged delta
over it, as the stable map of the keys outside the daily reward. `SaveInPart` is where the stale entry
of `SaveManager_staleWal` shows: a direct save whose keys an older entry hides.

### Reactor

`TaskReactor` with its callers. `place[t]` is the container that holds task `t`; the sequence number
names the task. Each critical section is one step. The mutex shows only where it matters: `pc =
"blocking"` is `waitForWork` between the test of its predicate and the wait, with the mutex held.
Two variables are history: `requested`, the tasks whose cancellation was accepted before they were
committed to run, and `deferred`, those that the last cycle put back into the inbox.
The identifier counter is `1 .. MaxId` instead of 32 bits, so wrapping happens at once. The limit on
`cancelInbox` counts different identifiers, the code counts entries: the model may accept a
cancellation that the code drops, and dropping one changes no state.

`TaskService` is what the reactor promises to its callers, without containers, cycles, identifiers and
limits: a task is asked for, accepted or dropped, taken over together with all that were accepted so
far, and then runs, is withdrawn, or expires. Those taken over run one at a time, none early, in the
order of their times and sequence numbers. `TasksAreServed` says that `Reactor` implements it; `Phase`
maps the containers to these phases. A task that was deferred counts as taken, though it is back in an
inbox with newer ones, so deferral must not let those overtake it.

### Connection

Objects `conn[c]` with their socket, write queue, and asynchronous operations (`reading`, `posted`,
`inflight`), the manager's `connections` and `ipConnectionCount`, and one `ServicePort` (`acceptor`).
Each handler runs under the connection's lock and is one action: `parseHeader`, `parsePacket`,
`InternalSend`, `onWriteOperation`, `handleTimeout`, and from the dispatcher `send` and `close`; they
end in `closeLocked`, which tells the manager (`Becomes`). `onAccept`, `onAcceptError`,
`onAcceptRefused` and `retry` are the accept chain. The teardown (`shutdownDispatcher`,
`stopOnStrand`, `dieBegins` to `dieEnds`) goes through a snapshot, one connection at a time, while
handlers run. Messages are numbers; `wire` is the last one serialised. `stranded` records that a write
failed after the connection was closed: the forced close that follows does nothing (`WriteFails`). `crashed` records that a null
protocol was dereferenced.

### GameSession

`ProtocolGame` from the first packet on. `proto[p]` is a protocol and its connection (open, closed,
expired when asio let go of it), `player[x]` the `Player` object that the login of `x` created, with
its owner; `tasks` is the dispatcher's queue in order, `connects` the timers of take-overs, `loads`
the workers. `login` is `loginOffline` or `loginOnline`; a worker ends in `finishLogin`,
`finishLoadFailed` or `giveUp`.

### WaitingList

`clientLogin` in its four cases (`DirectAccess`, `Returns`, `Joins` for premium and others). Expired
entries go first: `AfterExpiry` is the list and `priorityCount` after one `Visit` per entry, in the
order in which `std::erase_if` calls its predicate. It compares positions before the pass with the count
during it, so that two premium entries which expire in one pass may lower the count only once; the
history variable `pairExpired` records such a pass. `told` is the slot the last client was told. Slots
have one timeout here instead of five.

### Trade and Party

`Trade`: states of the traders, the registry `tradeItems`, and `holder`, the place of each item, bags
in bags included. `Watches` is the set of players whose `checkTradeState` closes the trade when an
item moves. `Transfer` is the exchange, of which the second move may fail unnoticed (`game.cpp:5389`).
`accepted` is history: what was on offer when a player accepted, or nothing if the partner had made no
offer yet. `Party`: the lists of a
party, the reference of a player to its party and its invitations; an operation computes on a record
of the three, because one request ends several parties. `Leaving` is the
`remove_if` of a member list.

### Decay

`decayMap` is a set of pairs of time and item, `event` the timer that `eventId` names, `orphans` the
timers whose name was overwritten. An item has the attributes that decay reads (an absent attribute
is a value); items with a unique id, which never decay, are left out of `canDecay`. The batch is
processed item by item, and what the scripts of an item do to others comes
in between.

### QuickLoot

The settings of one character through `Player`, `KVStore` and `DatabaseTasks`. Settings are the set of
the changes that made them, so that a change that is lost is a missing element. The two keys of a
character are one entry, which is read and written as a whole. `loadSettings` may fail to read: the code
takes that for absent settings and goes on with the defaults, and the next change overwrites what was
saved. `misread` and `overwritten` record it. `waits` is the dispatcher inside `DatabaseTasks::flush`.

### Coins

`AccountCoins` under the store, transfers and the bazaar. A purchase is `purchaseDebit`,
`deliverItem` per stack, `purchaseDelivered` or `purchaseRefund`; a finalization selects rows and
then takes each in a transaction. Bids, cancellations (the web site's) and a player who takes a piece
out of the inbox are external. `auction` holds the active rows, of which a character may have several:
`isPlayerOnActiveAuction` and `hasActiveAuctionForAccount` answer "no" when their query fails
(`queryHasRows`), so that a login or a new auction may pass them; `misjudged` records the characters to
which that happened. `account` is the account a `Player` was loaded with, which a sale made meanwhile
does not change. `till` and `unrefunded` are history too; `HeldBids` is what the open auctions hold of
their bidders' coins. `CoinFaults` says whether statements and queries fail and whether answers are
lost.

### Spawn and CreatureCheck

`Spawn`: an entry per block, the check and whether the spawn knows of it, the chain of effects of a
block, and a configuration that may be reloaded with the other mode. `ready` stands for the interval
since `lastSpawn`. A respawn is one step: what scripts called by `placeCreature` do to the same block
before `spawnedMap.insert` (`spawn.cpp:511-546`), such as removing the monster, is left out, and with it
the null entry that `cleanup` would keep. `CreatureCheck`: the lists of `Game::checkCreatures` with a callback that visits
one entry per step; what a creature's turn does to others comes between two steps. `due` and
`thought` are history.

## Runs

| Run | Bounds | Shows |
|---|---|---|
| `SaveManager_chains` | 2 characters, 1 update, 1 drain, all faults and writers | at most one flush per character; marks, waiting saves and callbacks belong to a chain that will end; the tracked counter is exact and `saving` does not outlive it (`SaveAllCounts`) |
| `SaveManager_durability` | 2 characters, 2 updates, crashes, unreplayable entries | refinement of `DurableCharacters`; nothing persisted is lost; a drained login loads the newest save |
| `Reactor_safety` | 2 threads, 3 tasks, 2 identifiers, inboxes of 2, a delay of one tick, expiring sends, 2 tasks per cycle and a time budget | reservations and cancellations are exact across wraps and deferrals; sends of one thread run in order; refinement of `TaskService` |
| `World` | see below | consistency of connections, sessions, waiting list, trade, parties, spawns, creature check |
| `Belongings` | see below | consistency of decay, settings, coins, storage map |
| `Liveness` | see below | what has begun ends |

`World`, `Belongings` and `Liveness` hold several components that share no state. A variable `focus`
chooses one of them at the start; it takes all the steps, from any of its initial states, and the
others stay where they are. So such a run checks each component for itself, with one set of
constants; interaction is inside a component's module, where what another part does is one of its
actions.

* `World`. Connection: 2 connections of one address, 2 messages, 2 pending writes, limits of 2: every
  limit is reached, and a message waits behind another. GameSession: 3 protocols that fight for one
  character, so that a take-over is itself taken over. WaitingList: 3 clients, 2 of them premium, room
  for 1, a timeout of two ticks and five ticks, so that entries expire together and one after the other. Trade: 3 traders, 2 bags and 2 other items, so that an
  item lies two bags deep and a third player interferes. Party: 4 players and 3 parties, so that one
  logout ends two. Spawn: 3 blocks of which one is served per check, chains of 2 effects, 2
  failures and 2 reloads, any number of deaths. CreatureCheck: 3 monsters in 2 lists. Protocols, traders, blocks, monsters
  and three of the party's players are one symmetric set, connections, bags and premium clients another.
  Connections: `ClosingIsExact` (`IpCountExact`, `ReleasedOnce`, `ProtocolNotNullInService`),
  `AcceptLoopAlive`, `OneWriteInOrder`. Sessions: `SessionsAgree` (`OneOnlinePerGuid`, `OwnerPlays`,
  `ReservationsInFlight`), `OpenClientKeepsPlayer`. The list: `QueueIsFair` (`PremiumFirst`,
  `SlotIsNoBetter`, and the action property `NobodyOvertaken`). Trade: `TradesAgree` (`TradeIsMutual`, `OffersRegistered`), `AcceptedIsOffered`.
  Parties: `PartiesAgree` (`MembershipAgrees`, `NoLonelyParty`, `InvitedIsFree`). Spawns: `BlocksAgree`
  (`OneMonsterPerBlock`, `EmptiedIsChecked`). The creature check: `ListsAgree` (`EnteredOnce`,
  `ActiveIsChecked`), `CallbackReachesAll`.
* `Belongings`. Decay: 2 items of 3 types (one that becomes another, one that vanishes, one that
  stops) and two ticks: `DecayIsTracked` (`OneEntry`, `MarkedIsTracked`, `CheckIsDue`). QuickLoot: 3
  changes, 3 sessions, 4 tasks: `SettingsAreKept` (`CleanSettingsPersist`, `LogoutPersists`,
  `AcceptedTasksRun`). Coins: 3 accounts, 2 characters, 2 auctions at a time, balances up to 3, an
  offer of 3 pieces for stacks of 2, so that a delivery fails half way, statements and queries that fail,
  so that a listed character enters or is listed again (`CoinsConserved`, `DeliveryAllOrNothing`,
  `ListedIsAway`). Accounts and characters are symmetric. PlayerStorage: 3 keys (one daily), a value or none, 3 changes per object, all
  faults (`CleanIsDurable`, and the refinement `StorageIsDurable`).
  A property that names its parts in parentheses is their conjunction, with the type invariant of the
  module where there is one; `CoinsConserved` includes that no balance leaves its range.
* `Liveness`. SaveManager: 1 character, 2 callers, all faults (`LoginHoldsOffline`, `LoginAnswered`,
  `SaveAllEnds`). Reactor: 2 threads, 2 tasks (`AcceptedTasksFinish`, `ShutdownStops`). Connection:
  1 connection with 3 messages (`ClosedSocketsClose`). QuickLoot: 2 changes, 2 sessions
  (`DirtySettingsAreSaved`, `LogoutReturns`). Spawn: 2 blocks (`BlocksRefill`).

Characters interact only through `saveAll` and the batch of `savePlayersSync`, so two show every
interaction. Two updates tell "old", "new" and "both" apart; three are used where a trace needs one
per actor. Two ordinary keys show that deltas of different keys do not disturb each other. Three tasks and two
identifiers make an identifier wrap while another is in use and be reused while a cancellation of its
former holder is on its way.

Runs that are expected to find a violation show where the code does something else than its
comments say. Each is a finding in `PROJECT.json`:

| Run | What happens |
|---|---|
| `SaveManager_staleWal` | a flush fails and its log entry stays; a logout saves directly and does not touch the log; after a crash the older entry is replayed over the newer tables |
| `SaveManager_unrecovered` | a recovery that fails at begin or commit is not remembered, and the entry is overwritten |
| `SaveManager_offlineWriter` | a mail loads an offline character whose last save still waits, and replaces that save |
| `SaveManager_drainAfterFailure` | a login that asks after a failed chain is told that all is persisted |
| `PlayerStorage_daily` | the daily reward is written and acknowledged beside a flush that then overwrites it |
| `Coins_lostAnswer` | the connection to the database is lost after a debit was applied; `executeQuery` reconnects and executes it again, and the price is taken twice |

Two more disagreements are visible in the model without a run of their own: `savePlayerSync` does not
ask `hasFailedRecovery`, so that a mail still writes the tables of such a character although its saves
"will be rejected" (`save_manager.h:63`); and `drainPlayerFlushAsync` has no timeout, though its comment
names one, so that a script's drain of an online character waits as long as saves keep extending the
chain.

The passing runs leave out what these show: `SaveManager_durability` has no failing flush and no
writer of offline characters, and `Belongings` loses no answer. With the writers, a login is also
exposed between the worker's load and `finishLogin`, because neither mailbox nor bed asks
`Game::isLoginPending`: what they write in that window is lost with the player's next save.

Some behaviours are allowed by the properties on purpose. `ProtocolNotNullInService` says nothing of
the teardown, where a packet may find its protocol reset. `ActiveIsChecked` leaves out monsters that
a script woke before they were placed: they enter a null reference and never think. `BlocksRefill`
is about blocks that had a monster: one that could not be filled at start gets no check of its own; and
it assumes that deaths end (`DeathsEnd`), because a check visits the blocks in a fixed order and stops at
`rateSpawn`, so that earlier blocks which keep dying starve a later one. `PremiumFirst` holds until two
premium entries expire in one pass: from then on `priorityCount` is too high and premium clients join
behind others. `ClosedSocketsClose` leaves out a peer that does not read, and one that is silent after a
write failed on a closed connection (`HeldByPeer`): neither the close that follows nor the read timeout
does anything then, and the socket stays until the peer acts. `LogoutPersists` leaves out a logout all of
whose attempts failed, and a session that could not read its settings and then changed them, which loses
the earlier ones. `ListedIsAway` leaves out the characters that a failed query let in or put up; without
failing queries there are none. `AcceptedIsOffered` says nothing to a player who accepted before the
partner offered anything.

### Fairness

SaveManager: the pool runs what it was given and the dispatcher runs what was posted. The latter is
strong fairness: a posted task is not enabled while `saveAll` runs or recovery is under way, and a
FIFO queue still gets to it. The timeout of a login is not assumed to fire, nor is any request to
come. Reactor: the loop's thread, the callers inside a call, and the clock go on, and callbacks
return. Connection: posted handlers run and a teardown goes on; reads and writes are only assumed to
complete once their socket is closed, whatever the peer does. QuickLoot: both threads go on, timers fire,
and the database does not fail for ever (strong fairness of a successful task). Spawn: scheduled
events fire and intervals pass; placements fail a bounded number of times, deaths are unbounded. No fairness is assumed of
packets, players or scripts.

Deadlock is checked for the two SaveManager runs. The others really may stop: a reactor after
`shutdown`, connections after `die`, and sessions, changes and clocks are bounded.

## Theorems

TLAPS checks them for every value of the constants. Each rests on an inductive invariant, named below,
that one lemma per action, or per group of actions with the same effect, shows to be preserved. The
theorem then follows from the initial condition, the step and what the invariant implies.

* `SaveManagerProofs`, for all faults and writers. `TypeCorrect`. `FlushChainsConsistent` and
  `OneFlushPerGuidTheorem`: the two are inductive together (`ChainInv`), because that one flush at most
  is out says that the mark may be cleared with it. `LoginHoldsOfflineTheorem`: `HoldInv` adds that a
  reservation has one holder and lasts until the load has been handed over.
  `SaveAllCountsTheorem`: `CountInv` says that the counter is the number of tracked flushes, those out
  and those pending, and that while `saving` holds one of them, or the loop of `saveAll`, is still there
  to end it.
* `SaveManagerDurability`: `SavesAreDurableTheorem` (the refinement), `NothingPersistedIsLostTheorem`
  and `DrainedMeansPersistedTheorem`, assuming that the only faults are crashes (within a recovery too)
  and unreplayable log entries and that nobody writes offline characters. The invariant says that the log, where it has an
  entry, holds the newest save; that where it has none the tables do; and which of the two a flush in
  flight carries.
* `PlayerStorageProofs`. `StorageTypeCorrect` and `CleanIsDurableTheorem`, for all faults: the
  invariant adds that a mark's revision is bounded by the object's and that a snapshot on its way
  covers every key which its acknowledgement would clear: for a key not stamped since, the snapshot
  carries the current value. `SavedIsRestoredTheorem` and the refinement `StorageIsDurableTheorem`,
  for all faults too. A snapshot has every key whose value the table does not have, so the table with a
  snapshot of now over it is the map of now (`SnapshotCovers`): a save that is logged makes good all
  earlier failures. `RestoreInv` follows that through the chain: the save that waits covers what was
  saved even after the flush ahead of it is written, a queued flush changes no key that the log leaves
  to the table, and an entry without a chain is there only after a failure. Each action is then one step of
  `DurableStorage`, by one lemma per kind of step (`StepSaves`, `StepHandsOver`, `StepKeeps`,
  `StepCatchesUp`).
* `ReactorProofs`: `ReactorTypeCorrect`, `IdsReservedTheorem`, `CancelledNeverRunsTheorem`,
  `OnlyRequestedCancelledTheorem` and `SendsRunInOrderTheorem`, for any number of tasks, threads and
  identifiers and any limits. The invariant for the identifiers says that a request on its way
  (`cancelInbox` or `cancelled`) names a task that was meant by it, or one that is running and will
  consume it, and that a task that was meant keeps its request until it is retired. The one for the
  order says which containers are in use at which point of the loop, and that a thread's later send
  has no earlier time and is in no later container than its earlier ones. `TasksAreServedTheorem` is the
  refinement of `TaskService`, which rests on both and on `ServiceInv`: what left the heap or the send
  inbox is due; during a cycle everything left in the heap is later than the whole batch; what was
  deferred is in the inbox until the next swap; a task that can be cancelled has no deadline. That the
  batch is ordered therefore orders all tasks that were taken over.
* `ConnectionProofs`: `ClosingIsExactTheorem`, `AcceptLoopTheorem`, `WriteOrderTheorem`. What a handler
  may do to its connection is a relation `Evolves` between the record before and after; each function on
  a connection respects it, and it is transitive, so a handler that calls several does. `InOrder` is the
  invariant of one write queue: whatever is posted or in flight is its head, it ascends, and what was
  serialised is older than what is posted.
* `SessionProofs`: `SessionsAgreeTheorem` and the action property `OpenClientTheorem`. `SessionInv` says
  which step of which login is in the dispatcher's queue, on a worker or in a timer, and that there is
  one per client at most; a reservation belongs to exactly one of them.
* `GameplayProofs`, the books of the game. `BlocksAgreeTheorem`: `SpawnInv`. `ListsAgreeTheorem` and
  `CallbackReachesAllTheorem`: `CheckInv` with the part that a creature still due lies at or after the
  callback's position. `PartiesAgreeTheorem`: `Sound` is stated of any three tables of references, so
  that it holds between two operations of one request too. `TradesAgreeTheorem` and
  `AcceptedIsOfferedTheorem`: `TradeInv` adds that offers lie apart, so that a move which touches one
  leaves the others' contents alone, and that it closes every trade it touches. `QueueIsFairTheorem`:
  `WaitInv` adds that nobody waits twice and that, before two premium entries expire in one pass,
  `priorityCount` is the number of premium entries, which are the first ones; the list after an expiry is
  the list of those who are alive, in the same order, so that nobody is overtaken.
* `BelongingsProofs`, what a player owns. `SettingsAreKeptTheorem`: `LootInv` says that writes of the
  newest settings are the last in the queue, that clean settings, or those that a callback on its
  way will clean, are persisted, and that the newest settings hold every change until a session that could
  not read them makes one. `DeliveryTheorem`: `CoinsInv` adds that while a purchase is
  delivered no stack is smaller than in its snapshot. `CoinsConservedTheorem` (an action property)
  and `ListedIsAwayTheorem` assume `AnswersArrive`, that the answer of a committed statement is not
  lost; `Coins_lostAnswer` shows what happens without. Statements and queries may fail in both. `Listing`
  adds that by the end of an auction its character is out of the game, and that a character in the game
  plays on the account that owns it, unless it was misjudged. `DecayIsTrackedTheorem`: `DecayInv`, with
  `SoundWork` for the state an operation computes on, says that an entry lies at its item's timestamp,
  that a marked item without an entry is in the batch, and that some pending check is in time for all
  entries, even when the timer's name was overwritten.

Assumptions are the named `ASSUME`s on constants: finite sets of characters, connections, accounts and
slots; null values (`None`, `NoProtocol`, `NoTrader`, `NoAuction`, the address `"none"`) different from
every proper value; at least one character; known faults; prices and stakes within the range of a
balance; a positive interval of decay; bounds that are numbers. `"lostAnswer" \notin CoinFaults` and
`Benign` are hypotheses of the theorems that name them, and the runs with an expected violation show
why they are needed.

Induction over data is done by the least counterexample: a nonempty set of numbers has a least element
(`NatMin`), and at it the step fails. In this way `Party.Leaving` and `WaitingList.AfterExpiry`, which
are recursive functions, are shown to exist and to keep what they should over any number of steps.

Only model-checked: liveness (`LoginAnswered`, `SaveAllEnds`, `AcceptedTasksFinish`, `ShutdownStops`,
`ClosedSocketsClose`, `DirtySettingsAreSaved`, `LogoutReturns`, `BlocksRefill`), which is out of the
prover's reach. Every invariant and action property that a passing run checks is proved.

## Not modelled

* Of modelled components: packets and encryption, `PacketBacklog`, `OutputMessagePool`; account
  manager, clones and spectators; SQL text; items, skills and other tables of a character beyond their
  presence in a save; shared experience; store offers other than items; eviction in the KV store.
  `TaskReactor::drain` has no caller in the server.
* Rate limiters: one refusal of `onAccept`.
* Market, raids, echo raids, guilds, chat: transactions, timers and lists of the kinds that are
  modelled elsewhere, without a further actor.
* Game rules (combat, conditions, spells, monsters' behaviour), items, tiles, map and path finding:
  large numeric and map state that no small instance represents. They are most of the source.
* Lua bindings (glue to the components above), configuration, logging, statistics.

## Plan

1. Mailbox: the item that is taken back although the queued save carries it.
2. Dispatcher on `TaskService`: a full inbox or a stopped reactor that drops the completion of a flush.
