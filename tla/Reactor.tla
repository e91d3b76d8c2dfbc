------------------------------ MODULE Reactor ------------------------------
(***************************************************************************)
(* TaskReactor (src/src/reactor.h and .cpp), the queue and timer wheel of  *)
(* the dispatcher thread.  Any thread sends, schedules and cancels; one    *)
(* thread runs the loop.                                                   *)
(*                                                                         *)
(* A task is known by its sequence number, which it draws before it takes  *)
(* the lock, and `place` says which container holds it.  The order inside  *)
(* a container does not matter: a batch is sorted before it runs.  Each    *)
(* critical section is one step, and so is each pass of the loop's own     *)
(* thread over containers that only it touches.  The mutex is visible only *)
(* while waitForWork holds it between testing its predicate and sleeping.  *)
(*                                                                         *)
(* Identifiers are 1 .. MaxId here and 32 bits wide in the code.  Repeated *)
(* cancellations of one identifier are one element of cancelInbox.  A      *)
(* callback is opaque; the calls it makes are those of some thread.        *)
(* MaxTasks and MaxTime bound the tasks and the clock.                     *)
(***************************************************************************)
EXTENDS Naturals, FiniteSets

CONSTANTS
    Threads,            \* callers of send, schedule, cancel and shutdown
    MaxTasks,
    MaxId,              \* the largest identifier, 2^32 - 1 in the code
    MaxTime,
    Delays,             \* the delays that schedule is called with
    Expirations,        \* the expiration times that send is called with
    maxInboxSize,       \* 0: no limit
    maxTasksPerCycle,   \* 0: no limit
    timeBudget          \* may a cycle run out of time?

ASSUME BoundsNat == /\ MaxTasks \in Nat /\ MaxId \in Nat /\ MaxTime \in Nat
                    /\ Delays \subseteq Nat /\ Expirations \subseteq Nat
ASSUME LimitsNat == /\ maxInboxSize \in Nat /\ maxTasksPerCycle \in Nat
                    /\ timeBudget \in BOOLEAN

Tasks == 1 .. MaxTasks
Ids == 1 .. MaxId
distantFuture == MaxTime + 1
Places == {"unused", "prepared", "dropped", "sendInbox", "scheduleInbox", "heap", "swapped",
           "ready", "running", "done", "cancelled", "expired"}

VARIABLES
    running,            \* threadState is THREAD_STATE_RUNNING
    clock,
    nextSequence,
    place,
    owner, fireAt, deadline,
    identifier,         \* 0: not cancellable
    cancelInbox, activeIdentifiers, nextIdentifier, cancelled,
    pc,                 \* of the loop
    tasksExecuted,
    notifying,          \* threads between their critical section and the notify
    requested,          \* history: tasks cancelled before they were committed to run
    deferred            \* history: tasks that the last cycle left in the inbox

task == <<nextSequence, place, owner, fireAt, deadline, identifier>>
ids == <<cancelInbox, activeIdentifiers, nextIdentifier, cancelled, requested, deferred>>
vars == <<running, clock, task, ids, pc, tasksExecuted, notifying>>

In(p) == {t \in Tasks : place[t] = p}
Move(S, p) == [t \in Tasks |-> IF t \in S THEN p ELSE place[t]]

MutexFree == pc # "blocking"
Full(p) == maxInboxSize > 0 /\ Cardinality(In(p)) >= maxInboxSize
hasExpired(t) == deadline[t] # distantFuture /\ deadline[t] <= clock

-----------------------------------------------------------------------------
(* Calls from any thread.                                                   *)

Busy(th) == th \in notifying \/ \E t \in In("prepared") : owner[t] = th

\* send and schedule before the lock: the state is read, the time and the
\* sequence number are taken.  A scheduled task has no deadline.
Prepare(th, delay, until, kind) ==
    /\ running /\ ~Busy(th)
    /\ nextSequence < MaxTasks /\ clock + delay <= MaxTime
    /\ nextSequence' = nextSequence + 1
    /\ place' = Move({nextSequence + 1}, "prepared")
    /\ owner' = [owner EXCEPT ![nextSequence + 1] = th]
    /\ fireAt' = [fireAt EXCEPT ![nextSequence + 1] = clock + delay]
    /\ deadline' = [deadline EXCEPT ![nextSequence + 1] = until]
    /\ identifier' = [identifier EXCEPT ![nextSequence + 1] = kind]
    /\ UNCHANGED <<running, clock, ids, pc, tasksExecuted, notifying>>

\* While it is prepared, a task to be scheduled has this in place of an identifier.
Unassigned == MaxId + 1

send(th) ==
    \E t \in In("prepared") :
        /\ owner[t] = th /\ identifier[t] = 0
        /\ MutexFree
        /\ \/ /\ Full("sendInbox")
              /\ place' = Move({t}, "dropped")
              /\ UNCHANGED notifying
           \/ /\ ~Full("sendInbox")
              /\ place' = Move({t}, "sendInbox")
              /\ notifying' = notifying \cup {th}
        /\ UNCHANGED <<running, clock, nextSequence, owner, fireAt, deadline, identifier, ids, pc,
                       tasksExecuted>>

\* How far the counter has to go to reach i, wrapping through 0.
Steps(i) == (i + MaxId - nextIdentifier) % (MaxId + 1)

\* Wrong variant: only zero is skipped.
FreshSkipsZero(i) == i \in Ids /\ \A j \in Ids : Steps(i) <= Steps(j)

\* The first identifier after the counter that is not 0 and not in use.
Fresh(i) ==
    /\ i \in Ids \ activeIdentifiers
    /\ \A j \in Ids \ activeIdentifiers : Steps(i) <= Steps(j)

schedule(th) ==
    \E t \in In("prepared") :
        /\ owner[t] = th /\ identifier[t] = Unassigned
        /\ MutexFree
        /\ \/ /\ Full("scheduleInbox") \/ Cardinality(activeIdentifiers) >= MaxId
              /\ place' = Move({t}, "dropped")
              /\ UNCHANGED <<identifier, ids, notifying>>
           \/ /\ ~Full("scheduleInbox")
              /\ \E i \in Ids :
                    /\ Fresh(i)
                    /\ nextIdentifier' = i
                    /\ activeIdentifiers' = activeIdentifiers \cup {i}
                    /\ identifier' = [identifier EXCEPT ![t] = i]
              /\ place' = Move({t}, "scheduleInbox")
              /\ notifying' = notifying \cup {th}
              /\ UNCHANGED <<cancelInbox, cancelled, requested, deferred>>
        /\ UNCHANGED <<running, clock, nextSequence, owner, fireAt, deadline, pc, tasksExecuted>>

Waiting == {"sendInbox", "scheduleInbox", "heap", "swapped", "ready"}

\* An identifier that is not live, or a full inbox, makes this a no-op.
cancel(th, i) ==
    /\ running /\ ~Busy(th)
    /\ MutexFree
    /\ i \in activeIdentifiers
    /\ maxInboxSize = 0 \/ Cardinality(cancelInbox) < maxInboxSize
    /\ cancelInbox' = cancelInbox \cup {i}
    /\ requested' = requested \cup {t \in Tasks : identifier[t] = i /\ place[t] \in Waiting}
    /\ notifying' = notifying \cup {th}
    /\ UNCHANGED <<running, clock, task, activeIdentifiers, nextIdentifier, cancelled, deferred, pc, tasksExecuted>>

\* Wrong variant: the state is stored without the lock.
shutdownUnlocked(th) ==
    /\ running /\ ~Busy(th)
    /\ running' = FALSE
    /\ notifying' = notifying \cup {th}
    /\ UNCHANGED <<clock, task, ids, pc, tasksExecuted>>

shutdown(th) ==
    /\ running /\ ~Busy(th)
    /\ MutexFree
    /\ running' = FALSE
    /\ notifying' = notifying \cup {th}
    /\ UNCHANGED <<clock, task, ids, pc, tasksExecuted>>

\* The notification reaches the loop only if it sleeps already.
Notify(th) ==
    /\ th \in notifying
    /\ notifying' = notifying \ {th}
    /\ pc' = IF pc = "asleep" THEN "waiting" ELSE pc
    /\ UNCHANGED <<running, clock, task, ids, tasksExecuted>>

-----------------------------------------------------------------------------
(* The loop.                                                                *)

IdsOf(S) == {identifier[t] : t \in S}

\* Wrong variant: a cancellation still in the inbox outlives the reservation.
retireKeepsInbox(S) ==
    /\ cancelled' = cancelled \ IdsOf(S)
    /\ activeIdentifiers' = activeIdentifiers \ IdsOf(S)
    /\ UNCHANGED <<cancelInbox, nextIdentifier, requested, deferred>>

retireIdentifier(S) ==
    /\ cancelInbox' = cancelInbox \ IdsOf(S)
    /\ cancelled' = cancelled \ IdsOf(S)
    /\ activeIdentifiers' = activeIdentifiers \ IdsOf(S)
    /\ UNCHANGED <<nextIdentifier, requested, deferred>>

Loop == UNCHANGED <<running, clock, nextSequence, owner, fireAt, deadline, identifier, notifying>>

runLoop ==
    /\ pc = "top"
    /\ pc' = IF running THEN "drainInbox" ELSE "stopped"
    /\ UNCHANGED <<running, clock, task, ids, tasksExecuted, notifying>>

\* The swap under the lock; what was scheduled goes to the heap.
drainInbox ==
    /\ pc = "drainInbox"
    /\ pc' = "filter"
    /\ place' = [t \in Tasks |-> IF place[t] = "sendInbox" THEN "swapped"
                                 ELSE IF place[t] = "scheduleInbox" THEN "heap" ELSE place[t]]
    /\ cancelled' = cancelled \cup cancelInbox
    /\ cancelInbox' = {} /\ deferred' = {}
    /\ UNCHANGED <<activeIdentifiers, nextIdentifier, requested, tasksExecuted>>
    /\ Loop

\* The rest of drainInbox, drainReadyTasks: the tasks of one container that are
\* cancelled or expired are retired, the others join the batch.
Filter(S) ==
    LET gone == {t \in S : identifier[t] \in cancelled \/ hasExpired(t)} IN
    /\ place' = [t \in Tasks |-> IF t \in S \ gone THEN "ready"
                                 ELSE IF t \notin S THEN place[t]
                                 ELSE IF identifier[t] \in cancelled THEN "cancelled" ELSE "expired"]
    /\ retireIdentifier(gone)

FilterSent ==
    /\ pc = "filter"
    /\ pc' = "drainReady"
    /\ Filter(In("swapped"))
    /\ UNCHANGED tasksExecuted
    /\ Loop

drainReadyTasks ==
    /\ pc = "drainReady"
    /\ pc' = "execute"
    /\ Filter({t \in In("heap") : fireAt[t] <= clock})
    /\ tasksExecuted' = 0
    /\ Loop

\* Wrong variant: tasks of the same instant are not ordered.
BeforeByTime(t, u) == fireAt[t] <= fireAt[u]

\* The order of the batch.
Before(t, u) == fireAt[t] < fireAt[u] \/ (fireAt[t] = fireAt[u] /\ t <= u)
First(t) == place[t] = "ready" /\ \A u \in In("ready") : Before(t, u)

\* Wrong variant: one task too many.
LimitReachedLate == maxTasksPerCycle > 0 /\ tasksExecuted > maxTasksPerCycle

LimitReached == maxTasksPerCycle > 0 /\ tasksExecuted >= maxTasksPerCycle

\* Wrong variant: a cancellation that is still in the inbox is overlooked.
ConsumesDrained(t) == identifier[t] \in cancelled

Cancelled(t) == identifier[t] \in cancelled \cup cancelInbox

consumeCancellation ==
    /\ pc = "execute" /\ ~LimitReached
    /\ \E t \in Tasks : First(t) /\ Cancelled(t)
                        /\ place' = Move({t}, "cancelled")
                        /\ retireIdentifier({t})
    /\ tasksExecuted' = tasksExecuted + 1
    /\ UNCHANGED pc
    /\ Loop

\* Past its last check: the callback runs.
RunTask ==
    /\ pc = "execute" /\ ~LimitReached
    /\ \E t \in Tasks : First(t) /\ ~Cancelled(t) /\ place' = Move({t}, "running")
    /\ pc' = "running"
    /\ UNCHANGED <<ids, tasksExecuted>>
    /\ Loop

\* The callback returned or threw; then the time budget is looked at.
TaskEnd ==
    /\ pc = "running"
    /\ place' = Move(In("running"), "done")
    /\ retireIdentifier(In("running"))
    /\ tasksExecuted' = tasksExecuted + 1
    /\ pc' = "execute" \/ (timeBudget /\ pc' = "defer")
    /\ Loop

\* The end of the cycle: what was not reached goes back through the inbox.
Defer ==
    /\ pc = "defer" \/ (pc = "execute" /\ (LimitReached \/ In("ready") = {}))
    /\ pc' = "waiting"
    /\ place' = Move(In("ready"), "sendInbox")
    /\ deferred' = In("ready")
    /\ UNCHANGED <<cancelInbox, activeIdentifiers, nextIdentifier, cancelled, requested, tasksExecuted>>
    /\ Loop

\* Wrong variant: what was scheduled does not wake the loop.
wakeIgnoresSchedules == ~running \/ In("sendInbox") # {} \/ cancelInbox # {}

wakePredicate == ~running \/ In("sendInbox") # {} \/ In("scheduleInbox") # {} \/ cancelInbox # {}

\* With the lock taken; it is released by the last step only.
waitForWork ==
    /\ \/ pc = "waiting" /\ pc' = IF wakePredicate THEN "top" ELSE "blocking"
       \/ pc = "blocking" /\ pc' = "asleep"
    /\ UNCHANGED <<running, clock, task, ids, tasksExecuted, notifying>>

\* wait_until the first task of the heap is due.
Timer ==
    /\ pc = "asleep"
    /\ \E t \in In("heap") : fireAt[t] <= clock
    /\ pc' = "top"
    /\ UNCHANGED <<running, clock, task, ids, tasksExecuted, notifying>>

Tick ==
    /\ clock < MaxTime
    /\ clock' = clock + 1
    /\ UNCHANGED <<running, task, ids, pc, tasksExecuted, notifying>>

-----------------------------------------------------------------------------
Init ==
    /\ running = TRUE /\ clock = 0
    /\ nextSequence = 0
    /\ place = [t \in Tasks |-> "unused"]
    /\ owner \in [Tasks -> Threads] /\ \A t, u \in Tasks : owner[t] = owner[u]
    /\ fireAt = [t \in Tasks |-> 0] /\ deadline = [t \in Tasks |-> 0]
    /\ identifier = [t \in Tasks |-> 0]
    /\ cancelInbox = {} /\ activeIdentifiers = {} /\ cancelled = {} /\ requested = {}
    /\ deferred = {}
    /\ nextIdentifier = 0
    /\ pc = "top" /\ tasksExecuted = 0
    /\ notifying = {}

LoopStep ==
    \/ runLoop \/ drainInbox \/ FilterSent \/ drainReadyTasks
    \/ consumeCancellation \/ RunTask \/ TaskEnd \/ Defer \/ waitForWork \/ Timer

Publish(th) == send(th) \/ schedule(th)

Next ==
    \/ \E th \in Threads :
          \/ \E until \in {distantFuture} \cup {clock + e : e \in Expirations} : Prepare(th, 0, until, 0)
          \/ \E delay \in Delays : Prepare(th, delay, distantFuture, Unassigned)
          \/ Publish(th) \/ Notify(th) \/ shutdown(th)
          \/ \E i \in Ids : cancel(th, i)
    \/ LoopStep
    \/ Tick

Spec == Init /\ [][Next]_vars

\* The threads and the clock go on and every callback returns.
Fairness ==
    /\ WF_vars(LoopStep) /\ WF_vars(Tick)
    /\ \A th \in Threads : WF_vars(Notify(th)) /\ WF_vars(Publish(th))

FairSpec == Spec /\ Fairness

-----------------------------------------------------------------------------
(* Properties.                                                              *)

\* Every variable has its type, and a cycle handles at most maxTasksPerCycle tasks.
TypeOK ==
    /\ running \in BOOLEAN /\ clock \in Nat
    /\ nextSequence \in Nat
    /\ place \in [Tasks -> Places]
    /\ owner \in [Tasks -> Threads]
    /\ fireAt \in [Tasks -> Nat] /\ deadline \in [Tasks -> Nat]
    /\ identifier \in [Tasks -> Nat]
    /\ cancelInbox \in SUBSET Ids /\ activeIdentifiers \in SUBSET Ids /\ cancelled \in SUBSET Ids
    /\ requested \in SUBSET Tasks /\ deferred \in SUBSET Tasks
    /\ nextIdentifier \in Nat /\ nextIdentifier <= MaxId
    /\ pc \in {"top", "drainInbox", "filter", "drainReady", "execute", "running", "defer",
               "waiting", "blocking", "asleep", "stopped"}
    /\ tasksExecuted \in Nat /\ (maxTasksPerCycle > 0 => tasksExecuted <= maxTasksPerCycle)
    /\ notifying \in SUBSET Threads

\* Scheduled tasks from acceptance to retirement.
Live == {t \in Tasks : place[t] \in Waiting \cup {"running"} /\ identifier[t] # 0}

\* "Keep ids reserved across heap, ready-batch and fairness deferral states":
\* activeIdentifiers holds exactly the identifiers of the live tasks, no two of
\* which share one, after any number of wraps of the counter.
IdsReserved ==
    /\ activeIdentifiers = IdsOf(Live)
    /\ \A t, u \in Live : identifier[t] = identifier[u] => t = u

\* A task cancelled before it is committed to run never runs, wherever it waits:
\* inbox, heap, batch or deferred.
CancelledNeverRuns == \A t \in requested : place[t] \notin {"running", "done"}

\* What one thread sent runs in the order it was sent, across batches, fairness
\* deferrals and the time budget.
SendsRunInOrder ==
    \A t, u \in Tasks :
        (/\ t < u /\ owner[t] = owner[u]
         /\ identifier[t] = 0 /\ identifier[u] = 0
         /\ place[u] \in {"running", "done"})
        => place[t] \notin {"prepared"} \cup Waiting

\* A task in the terms of TaskService.
Phase(t) ==
    IF place[t] \notin Waiting THEN place[t]
    ELSE IF t \in requested THEN "withdrawn"
    ELSE IF place[t] \in {"sendInbox", "scheduleInbox"} /\ t \notin deferred THEN "accepted"
    ELSE "taken"

Service == INSTANCE TaskService
    WITH Callers <- Threads, open <- running, phase <- [t \in Tasks |-> Phase(t)],
         caller <- owner, due <- fireAt, until <- deadline, timed <- [t \in Tasks |-> identifier[t] # 0]

\* Inboxes, heap, batches and identifiers serve tasks as promised: one at a time,
\* never early, in the order of their times and numbers once a cycle has taken
\* them, even if it defers them; a cancellation takes away its own task and no
\* other, and only what is past its deadline expires.
TasksAreServed == Service!Spec

\* While the reactor runs, what it accepted is run or dropped for a reason.
AcceptedTasksFinish ==
    \A t \in Tasks : place[t] \in {"sendInbox", "scheduleInbox"} ~>
                         place[t] \in {"done", "cancelled", "expired"} \/ ~running

\* shutdown ends the loop, even if it lands while the loop is about to sleep.
ShutdownStops == ~running ~> pc = "stopped"

=============================================================================
