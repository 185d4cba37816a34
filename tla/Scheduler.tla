----------------------------- MODULE Scheduler -----------------------------
(***************************************************************************)
(* The scheduler of background runs (scheduler.py): a polling thread       *)
(* collects the schedules that are due under the lock, triggers each of    *)
(* them outside of it, and then, under the lock again, moves its next run  *)
(* or, if it runs only once, disables it.  Users add, remove and switch    *)
(* schedules meanwhile.  Every change is saved under the lock, so what is  *)
(* in memory is what a restart loads.                                      *)
(***************************************************************************)
EXTENDS Naturals, FiniteSets

CONSTANTS Schedules,    \* ids
          OneShots,     \* those with interval 0
          NoSchedule,
          MaxToggles    \* bound: how often one schedule is switched

ASSUME SchedulerAssumption ==
    OneShots \subseteq Schedules /\ NoSchedule \notin Schedules /\ MaxToggles \in Nat

VARIABLES
    stored,     \* stored[s]: "new", "on" or "off" (enabled), "removed"
    next_run,   \* next_run[s]: "due" or "later"
    loop,       \* the polling thread: "waiting" or "working"
    due,        \* the schedules it found and has not dealt with
    firing,     \* the one it is triggering
    toggles,    \* history: how often each was switched, and switched on again
    rearmed,
    fires       \* history: how often each one-shot was triggered

schedVars == <<stored, next_run, loop, due, firing, toggles, rearmed, fires>>

SchedInit ==
    /\ stored = [s \in Schedules |-> "new"]
    /\ next_run = [s \in Schedules |-> "due"]
    /\ loop = "waiting" /\ due = {} /\ firing = NoSchedule
    /\ toggles = [s \in Schedules |-> 0] /\ rearmed = [s \in Schedules |-> 0]
    /\ fires = [s \in Schedules |-> 0]

-----------------------------------------------------------------------------
(* The users: socket messages and the agent's own tool. *)

Add(s) ==
    /\ stored[s] = "new"
    /\ stored' = [stored EXCEPT ![s] = "on"]
    /\ UNCHANGED <<next_run, loop, due, firing, toggles, rearmed, fires>>

Remove(s) ==
    /\ stored[s] \in {"on", "off"}
    /\ stored' = [stored EXCEPT ![s] = "removed"]
    /\ UNCHANGED <<next_run, loop, due, firing, toggles, rearmed, fires>>

Toggle(s) ==
    /\ stored[s] \in {"on", "off"} /\ toggles[s] < MaxToggles
    /\ toggles' = [toggles EXCEPT ![s] = @ + 1]
    /\ stored' = [stored EXCEPT ![s] = IF @ = "on" THEN "off" ELSE "on"]
    /\ rearmed' = [rearmed EXCEPT ![s] = IF stored[s] = "off" THEN @ + 1 ELSE @]
    /\ UNCHANGED <<next_run, loop, due, firing, fires>>

-----------------------------------------------------------------------------
(* _loop *)

\* The due list, under the lock.
Poll ==
    /\ loop = "waiting"
    /\ loop' = "working"
    /\ due' = {s \in Schedules : stored[s] = "on" /\ next_run[s] = "due"}
    /\ UNCHANGED <<stored, next_run, firing, toggles, rearmed, fires>>

\* on_trigger, outside the lock; what it raises is logged.
Trigger(s) ==
    /\ firing = NoSchedule /\ s \in due
    /\ firing' = s
    /\ due' = due \ {s}
    /\ fires' = [fires EXCEPT ![s] = IF s \in OneShots THEN @ + 1 ELSE @]
    /\ UNCHANGED <<stored, next_run, loop, toggles, rearmed>>

\* MUTANT of Mark: a one-shot stays enabled.
MarkRepeats ==
    /\ firing # NoSchedule
    /\ firing' = NoSchedule
    /\ next_run' = [next_run EXCEPT ![firing] = IF stored[firing] = "on" THEN "later" ELSE @]
    /\ UNCHANGED <<stored, loop, due, toggles, rearmed, fires>>

\* MUTANT of Mark: the thread dies of a schedule that was removed meanwhile.
MarkTrusting ==
    /\ firing # NoSchedule
    /\ firing' = NoSchedule
    /\ stored' = [stored EXCEPT ![firing] =
           IF @ = "on" /\ firing \in OneShots THEN "off" ELSE @]
    /\ next_run' = [next_run EXCEPT ![firing] =
           IF stored[firing] = "on" /\ firing \notin OneShots THEN "later" ELSE @]
    /\ loop' = IF stored[firing] = "removed" THEN "dead" ELSE loop
    /\ UNCHANGED <<due, toggles, rearmed, fires>>

\* Back under the lock: only a schedule that is still there and enabled is
\* moved on, or disabled if it runs once.
Mark ==
    /\ firing # NoSchedule
    /\ firing' = NoSchedule
    /\ stored' = [stored EXCEPT ![firing] =
           IF @ = "on" /\ firing \in OneShots THEN "off" ELSE @]
    /\ next_run' = [next_run EXCEPT ![firing] =
           IF stored[firing] = "on" /\ firing \notin OneShots THEN "later" ELSE @]
    /\ UNCHANGED <<loop, due, toggles, rearmed, fires>>

Wait ==
    /\ loop = "working" /\ due = {} /\ firing = NoSchedule
    /\ loop' = "waiting"
    /\ UNCHANGED <<stored, next_run, due, firing, toggles, rearmed, fires>>

\* The clock reaches the next run of a schedule.
TimePasses(s) ==
    /\ next_run[s] = "later"
    /\ next_run' = [next_run EXCEPT ![s] = "due"]
    /\ UNCHANGED <<stored, loop, due, firing, toggles, rearmed, fires>>

\* The process dies; _load brings the schedules back and start the thread.
SchedRestart ==
    /\ loop' = "waiting" /\ due' = {} /\ firing' = NoSchedule
    /\ UNCHANGED <<stored, next_run, toggles, rearmed, fires>>

LoopStep == Poll \/ (\E s \in Schedules : Trigger(s)) \/ Mark \/ Wait

SchedNext ==
    \/ LoopStep
    \/ \E s \in Schedules : Add(s) \/ Remove(s) \/ Toggle(s) \/ TimePasses(s)
=============================================================================
