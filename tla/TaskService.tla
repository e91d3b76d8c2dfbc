---------------------------- MODULE TaskService -----------------------------
(***************************************************************************)
(* What the TaskReactor promises to the threads that use it, without       *)
(* containers, cycles, identifiers, limits and locks.  A task is known by  *)
(* its number; numbers are given out in order.                             *)
(*                                                                         *)
(* A task that is accepted waits to be taken over, together with all that  *)
(* were accepted so far.  The tasks that were taken over run one at a      *)
(* time, none before it is due, in the order in which they are due and     *)
(* then of their numbers.  Withdrawing a task keeps it from running and no *)
(* other, and a task that is not taken in time is dropped only after its   *)
(* deadline.                                                               *)
(***************************************************************************)
EXTENDS Naturals

CONSTANTS Tasks, Callers

VARIABLES
    clock, open,
    phase,
    caller, due, until,
    timed       \* scheduled, so that it may be withdrawn

Changed(new, old, t) == new = [old EXCEPT ![t] = new[t]]
Becomes(t, p) == phase' = [phase EXCEPT ![t] = p]

\* A caller waits for its answer before it asks again.  What is not scheduled is due at once.
Ask(t) ==
    /\ open
    /\ \A u \in Tasks : u >= t => phase[u] = "unused"
    /\ Becomes(t, "prepared")
    /\ Changed(caller', caller, t) /\ caller'[t] \in Callers
    /\ \A u \in Tasks : phase[u] = "prepared" => caller[u] # caller'[t]
    /\ Changed(timed', timed, t) /\ Changed(until', until, t)
    /\ Changed(due', due, t) /\ due'[t] >= clock /\ (~timed'[t] => due'[t] = clock)
    /\ UNCHANGED <<clock, open>>

request == <<caller, due, until, timed>>

Answer(t) ==
    /\ phase[t] = "prepared"
    /\ Becomes(t, "accepted") \/ Becomes(t, "dropped")
    /\ UNCHANGED <<clock, open, request>>

Withdraw(t) ==
    /\ open /\ timed[t]
    /\ phase[t] \in {"accepted", "taken"}
    /\ Becomes(t, "withdrawn")
    /\ UNCHANGED <<clock, open, request>>

Idle == \A t \in Tasks : phase[t] # "running"

TakeOver ==
    /\ Idle
    /\ phase' = [t \in Tasks |-> IF phase[t] = "accepted" THEN "taken" ELSE phase[t]]
    /\ UNCHANGED <<clock, open, request>>

\* Any number of tasks are found withdrawn or too late.
Lapses(t) ==
    \/ phase'[t] = phase[t]
    \/ phase[t] = "withdrawn" /\ phase'[t] = "cancelled"
    \/ phase[t] = "taken" /\ ~timed[t] /\ until[t] <= clock /\ phase'[t] = "expired"
Lapse ==
    /\ phase' = [t \in Tasks |-> phase'[t]] /\ \A t \in Tasks : Lapses(t)
    /\ UNCHANGED <<clock, open, request>>

Precedes(t, u) == due[t] < due[u] \/ (due[t] = due[u] /\ t <= u)

Run(t) ==
    /\ Idle
    /\ phase[t] = "taken" /\ due[t] <= clock
    /\ \A u \in Tasks : phase[u] = "taken" => Precedes(t, u)
    /\ Becomes(t, "running")
    /\ UNCHANGED <<clock, open, request>>

Finish(t) ==
    /\ phase[t] = "running"
    /\ Becomes(t, "done")
    /\ UNCHANGED <<clock, open, request>>

Close ==
    /\ open /\ open' = FALSE
    /\ UNCHANGED <<clock, phase, request>>

Tick ==
    /\ clock' = clock + 1
    /\ UNCHANGED <<open, phase, request>>

Init ==
    /\ clock = 0 /\ open = TRUE
    /\ phase = [t \in Tasks |-> "unused"]

Next ==
    \/ \E t \in Tasks : Ask(t) \/ Answer(t) \/ Withdraw(t) \/ Run(t) \/ Finish(t)
    \/ TakeOver \/ Lapse \/ Close \/ Tick

Spec == Init /\ [][Next]_<<clock, open, phase, request>>
=============================================================================
