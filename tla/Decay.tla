------------------------------- MODULE Decay --------------------------------
(***************************************************************************)
(* The decay of items: Decay (src/src/decay.cpp), Game::startDecay,        *)
(* stopDecay and internalDecayItem (src/src/game.cpp), Item::setID and the *)
(* decay attributes (src/src/item.cpp, item.h).                            *)
(*                                                                         *)
(* Everything runs on the dispatcher, but an item that decays calls move   *)
(* events, whose scripts may start, stop, transform or remove any item,    *)
(* also one that waits in the batch checkDecay is processing.  So the      *)
(* batch is part of the state and the operations come between its items.   *)
(*                                                                         *)
(* Time is a bounded counter; checks may be late.    An item type is what  *)
(* decay reads of it.  decayMap holds weak references: the entry of a      *)
(* destroyed item stays.                                                   *)
(***************************************************************************)
EXTENDS Naturals, Sequences, FiniteSets, FiniteSetsExt

CONSTANTS
    Items,              \* Item objects
    ItemTypes,          \* what decay knows of an item id: see TypeRecord
    Durations,          \* durations a script may set
    MIN_TASK_INTERVAL,
    MaxTime             \* bound on the clock

\* time: decayTimeMin; decayTo: the next type, "gone" (0) or "never" (negative).
TypeRecord == [time : Nat, stopTime : BOOLEAN, decayTo : DOMAIN ItemTypes \cup {"gone", "never"}]

ASSUME DecayConstants ==
    /\ \A t \in DOMAIN ItemTypes : ItemTypes[t] \in TypeRecord
    /\ Durations \subseteq Nat /\ MIN_TASK_INTERVAL \in Nat \ {0} /\ MaxTime \in Nat

VARIABLES
    item,       \* [alive, removed, type, state, duration, timestamp]; "no" is an absent attribute
    decayMap,   \* set of <<timestamp, item>>: the buckets
    event,      \* the due time of the pending task that Decay::eventId names
    orphans,    \* the due times of pending checkDecay tasks whose id was overwritten
    batch,      \* the expired items still to process
    checking,   \* checkDecay is running
    now

decayVars == <<item, decayMap, event, orphans, batch, checking, now>>

NoAttr == 0     \* an absent duration or timestamp, and no pending task

Loaded(t) == [alive |-> TRUE, removed |-> FALSE, type |-> t, state |-> "absent",
              duration |-> ItemTypes[t].time, timestamp |-> NoAttr]

DecayInit ==
    /\ item \in [Items -> {Loaded(t) : t \in DOMAIN ItemTypes}]
    /\ decayMap = {} /\ event = NoAttr /\ orphans = {}
    /\ batch = <<>> /\ checking = FALSE /\ now = 1

canDecay(it) ==
    ~it.removed /\ ItemTypes[it.type].decayTo # "never" /\ ItemTypes[it.type].time > 0

\* Item::getDuration at the present time.
getDuration(it) ==
    IF it.state \in {"true", "stopping"}
    THEN IF it.timestamp > now THEN it.timestamp - now ELSE 0
    ELSE it.duration

First(map) == Min({e[1] : e \in map})

-----------------------------------------------------------------------------
(* The state the operations compute on: the item, the map, the scheduled    *)
(* checks and the event id of Decay.                                        *)

\* The item and the map are replaced, or the scheduled checks.
WithItem(s, it, map) == [it |-> it, map |-> map, event |-> s.event, orphans |-> s.orphans]
WithChecks(s, due, orphaned) == [it |-> s.it, map |-> s.map, event |-> due, orphans |-> orphaned]

\* The decay attributes of it are replaced.
Attributes(it, state, duration, timestamp) ==
    [alive |-> it.alive, removed |-> it.removed, type |-> it.type, state |-> state,
     duration |-> duration, timestamp |-> timestamp]

\* stopEvent, unless it is left out, and addEvent.
Schedule(s, stop, due) ==
    WithChecks(s, due, IF stop \/ s.event = NoAttr THEN s.orphans ELSE s.orphans \cup {s.event})

Clamped(duration) == IF duration < MIN_TASK_INTERVAL THEN MIN_TASK_INTERVAL ELSE duration

\* Decay::stopDecay.  Without an entry it leaves the item as it is.
DecayStop(s, i) ==
    LET entry == <<s.it.timestamp, i>> IN
    IF entry \notin s.map THEN s
    ELSE WithItem(s, Attributes(s.it, "absent",
                                IF s.it.duration # NoAttr THEN getDuration(s.it) ELSE NoAttr,
                                s.it.timestamp),
                  s.map \ {entry})

\* Decay::startDecay.
DecayStart(s0, i, duration) ==
    LET s == IF s0.it.timestamp # NoAttr THEN DecayStop(s0, i) ELSE s0
        timestamp == now + duration
        r == IF s.map = {} \/ timestamp < First(s.map)
             THEN Schedule(s, s.map # {}, now + Clamped(duration)) ELSE s
    IN  WithItem(r, Attributes(r.it, "true", r.it.duration, timestamp),
                 r.map \cup {<<timestamp, i>>})

\* Game::stopDecay.
StopDecay(s, i) ==
    LET r == DecayStop(s, i) IN
    IF s.it.state = "absent" THEN s
    ELSE IF s.it.timestamp # NoAttr
    THEN WithItem(r, Attributes(r.it, r.it.state, r.it.duration, NoAttr), r.map)
    ELSE WithItem(s, Attributes(s.it, "absent", s.it.duration, NoAttr), s.map)

\* Item::setID.
SetID(it, t) ==
    LET old == ItemTypes[it.type]
        new == ItemTypes[t]
        a == [it EXCEPT !.type = t]
        b == IF new.time = 0 /\ ~new.stopTime /\ new.decayTo = "never"
             THEN Attributes(a, IF a.state # "absent" THEN "stopping" ELSE "absent", NoAttr, a.timestamp)
             ELSE a
    IN  IF new.time > 0 /\ (~old.stopTime \/ b.duration = NoAttr)
        THEN Attributes(b, "pending", new.time, b.timestamp)
        ELSE b

\* internalRemoveItem, as far as decay is concerned.
Remove(s, i) == StopDecay(WithItem(s, [s.it EXCEPT !.removed = TRUE], s.map), i)

\* Game::startDecay, given what internalDecayItem makes of s if the item has no duration.
StartDecayWith(s, i, decayed) ==
    IF s.it.state = "stopping" \/ (~canDecay(s.it) /\ s.it.state = "true") THEN StopDecay(s, i)
    ELSE IF ~canDecay(s.it) \/ s.it.state = "true" THEN s
    ELSE IF s.it.duration > 0 THEN DecayStart(s, i, s.it.duration)
    ELSE decayed

\* internalDecayItem; a type that decays into another that has no duration of its own left is
\* removed, which ends the chain of such types.
internalDecayItem(s, i) ==
    LET next == ItemTypes[s.it.type].decayTo
        t == WithItem(s, SetID(s.it, next), s.map)
    IN  IF next = "gone" THEN Remove(s, i)
        ELSE StartDecayWith(t, i, Remove(t, i))

StartDecay(s, i) == StartDecayWith(s, i, internalDecayItem(s, i))

Before(i) == [it |-> item[i], map |-> decayMap, event |-> event, orphans |-> orphans]

Leaves(i, s) ==
    /\ item' = [item EXCEPT ![i] = s.it]
    /\ decayMap' = s.map /\ event' = s.event /\ orphans' = s.orphans

-----------------------------------------------------------------------------
(* What the game and its scripts do to an item.                             *)

Present(i) == item[i].alive /\ ~item[i].removed

startDecay(i) ==
    /\ Present(i) /\ Leaves(i, StartDecay(Before(i), i))
    /\ UNCHANGED <<batch, checking, now>>

stopDecay(i) ==
    /\ Present(i) /\ Leaves(i, StopDecay(Before(i), i))
    /\ UNCHANGED <<batch, checking, now>>

\* transformItem to a type of the same kind; the item is equipped, taken off or used.
transformItem(i) ==
    \E t \in DOMAIN ItemTypes \ {item[i].type} :
        /\ Present(i)
        /\ Leaves(i, StartDecay(WithItem(Before(i), SetID(item[i], t), decayMap), i))
        /\ UNCHANGED <<batch, checking, now>>

\* A script sets the duration attribute.
setDuration(i) ==
    \E d \in Durations :
        /\ Present(i)
        /\ Leaves(i, StartDecay(WithItem(Before(i), Attributes(item[i], "pending", d, item[i].timestamp),
                                         decayMap), i))
        /\ UNCHANGED <<batch, checking, now>>

removeItem(i) ==
    /\ Present(i) /\ Leaves(i, Remove(Before(i), i))
    /\ UNCHANGED <<batch, checking, now>>

\* The last reference goes; the batch and the map hold weak ones.
Destroyed(i) ==
    /\ item[i].alive
    /\ LET it == [item[i] EXCEPT !.removed = TRUE] IN item' = [item EXCEPT ![i] = [it EXCEPT !.alive = FALSE]]
    /\ UNCHANGED <<decayMap, event, orphans, batch, checking, now>>

-----------------------------------------------------------------------------
(* The check.                                                               *)

\* The scheduler runs a due task: the expired buckets become the batch.
checkDecay ==
    /\ ~checking
    /\ \/ event # NoAttr /\ event <= now /\ event' = NoAttr /\ UNCHANGED orphans
       \/ \E due \in orphans : due <= now /\ orphans' = orphans \ {due} /\ UNCHANGED event
    /\ LET expired == {x \in decayMap : x[1] <= now} IN
       /\ decayMap' = decayMap \ expired
       /\ \E order \in [1 .. Cardinality(expired) -> {x[2] : x \in expired}] :
             /\ {order[k] : k \in DOMAIN order} = {x[2] : x \in expired}
             /\ batch' = order
    /\ checking' = TRUE
    /\ UNCHANGED <<item, now>>

\* Wrong variant: an item that cannot decay any more keeps its mark.
ProcessedKeepsMark(s, i) ==
    IF ~s.it.alive THEN s
    ELSE IF ~canDecay(s.it) THEN WithItem(s, Attributes(s.it, s.it.state, getDuration(s.it), s.it.timestamp), s.map)
    ELSE internalDecayItem(WithItem(s, [s.it EXCEPT !.state = "false"], s.map), i)

\* One item of processDecayBatch.
Processed(s, i) ==
    IF ~s.it.alive THEN s
    ELSE IF ~canDecay(s.it) THEN WithItem(s, Attributes(s.it, "false", getDuration(s.it), s.it.timestamp), s.map)
    ELSE internalDecayItem(WithItem(s, [s.it EXCEPT !.state = "false"], s.map), i)

processDecayBatch ==
    /\ checking /\ batch # <<>>
    /\ Leaves(Head(batch), Processed(Before(Head(batch)), Head(batch)))
    /\ batch' = Tail(batch)
    /\ UNCHANGED <<checking, now>>

\* scheduleNextCheck: when the check is due.
NextCheck == now + Clamped(IF First(decayMap) > now THEN First(decayMap) - now ELSE 0)

checkEnds ==
    /\ checking /\ batch = <<>>
    /\ checking' = FALSE
    /\ event' = IF decayMap = {} THEN event ELSE NextCheck
    /\ UNCHANGED <<item, decayMap, orphans, batch, now>>

\* At shutdown.
clear ==
    /\ ~checking
    /\ event' = NoAttr /\ decayMap' = {}
    /\ item' = [i \in Items |-> IF \E e \in decayMap : e[2] = i /\ item[i].alive
                                THEN [item[i] EXCEPT !.state = "absent"] ELSE item[i]]
    /\ UNCHANGED <<orphans, batch, checking, now>>

Pending == ({event} \ {NoAttr}) \cup orphans

\* A check is at most one tick late.
Clock ==
    /\ ~checking /\ now < MaxTime
    /\ \A due \in Pending : due >= now
    /\ now' = now + 1
    /\ UNCHANGED <<item, decayMap, event, orphans, batch, checking>>

DecayNext ==
    \/ \E i \in Items : startDecay(i) \/ stopDecay(i) \/ transformItem(i) \/ setDuration(i)
                        \/ removeItem(i) \/ Destroyed(i)
    \/ checkDecay \/ processDecayBatch \/ checkEnds \/ clear \/ Clock

DecaySpec == DecayInit /\ [][DecayNext]_decayVars

-----------------------------------------------------------------------------
(* Properties.                                                              *)

\* The variables have their types, and what is limited stays within its limit.
DecayTypeOK ==
    /\ \A i \in Items : item[i].type \in DOMAIN ItemTypes
                        /\ item[i].state \in {"absent", "false", "true", "pending", "stopping"}
    /\ decayMap \subseteq (Nat \X Items)
    /\ event \in Nat /\ orphans \subseteq Nat

\* However scripts interfere with a batch, an item has one entry at most, at its own timestamp: it
\* cannot decay twice for one start, and stopping it finds the entry.
OneEntry == \A e \in decayMap : item[e[2]].alive => item[e[2]].timestamp = e[1]

\* An item that is marked as decaying waits in the map or in the batch that is being processed: no
\* item is marked and forgotten, which startDecay could not repair since it ignores marked items.
MarkedIsTracked ==
    \A i \in Items : item[i].alive /\ item[i].state = "true" =>
        \/ <<item[i].timestamp, i>> \in decayMap
        \/ \E k \in DOMAIN batch : batch[k] = i

\* While an entry waits, a check is scheduled no later than the entry is due, give or take the
\* shortest interval of the scheduler.
CheckIsDue ==
    decayMap # {} /\ ~checking =>
        \E due \in Pending : due <= Max({First(decayMap), now}) + MIN_TASK_INTERVAL

\* What decays is tracked exactly: a marked item has one entry, or is in the batch, and a check is due
\* for it, whatever scripts start, stop, transform or remove while a batch is processed.
DecayIsTracked == DecayTypeOK /\ OneEntry /\ MarkedIsTracked /\ CheckIsDue

=============================================================================
