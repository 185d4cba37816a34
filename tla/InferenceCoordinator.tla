------------------------ MODULE InferenceCoordinator ------------------------
(***************************************************************************)
(* Admission to the one language model of the process                      *)
(* (services/inference_coordinator.py).  Foreground callers (a run, a      *)
(* command, a one-off completion) are counted and may be inside together;  *)
(* a background memory worker holds the single memory lease and must never *)
(* be inside at the same time as a foreground caller.                      *)
(*                                                                         *)
(* The Condition's lock makes every method body between two waits one      *)
(* step.  The clock is abstract: Timeout is the step of a caller whose     *)
(* deadline has passed, Idle the moment at which idle_seconds have passed  *)
(* since the last foreground caller left.                                  *)
(***************************************************************************)
EXTENDS Integers, FiniteSets

CONSTANTS Callers,      \* threads that ask for foreground admission
          Workers,      \* memory workers of the processes sharing the object
          NoWorker      \* the value of _memory while no lease is out

ASSUME ActorsAssumption ==
    /\ IsFiniteSet(Callers)
    /\ NoWorker \notin Workers

VARIABLES
    foreground,     \* _foreground, the count of admitted callers
    waiting,        \* _waiting, the count of callers in the wait loop
    memory,         \* _memory, named by the worker whose token it is
    told,           \* the workers whose lease token (an Event) is set
    door,           \* "closed" once close() has set _closed
    lull,           \* "idle" once idle_seconds have passed since _last_foreground
    phase,          \* where each caller is in acquire_foreground
    stopped,        \* the callers whose own cancel_event is set
    holding         \* the workers inside the body of try_acquire_memory

vars == <<foreground, waiting, memory, told, door, lull, phase, stopped, holding>>

Inside  == {c \in Callers : phase[c] = "inside"}
Parked  == {c \in Callers : phase[c] = "waiting"}

Init ==
    /\ foreground = 0
    /\ waiting = 0
    /\ memory = NoWorker
    /\ told = {}
    /\ door = "open"
    /\ lull = "recent"
    /\ phase = [c \in Callers |-> "outside"]
    /\ stopped = {}
    /\ holding = {}

(***************************************************************************)
(* acquire_foreground                                                      *)
(***************************************************************************)

\* Nobody holds the lease: the wait loop is not entered, _waiting is raised
\* and lowered within the step, and the caller is admitted.
AdmitAtOnce(c) ==
    /\ phase[c] = "outside"
    /\ memory = NoWorker
    /\ door = "open" /\ c \notin stopped
    /\ foreground' = foreground + 1
    /\ phase' = [phase EXCEPT ![c] = "inside"]
    /\ UNCHANGED <<waiting, memory, told, door, lull, stopped, holding>>

\* Mutant: the arriving caller does not set the token of the lease.
AskSilently(c) ==
    /\ phase[c] = "outside"
    /\ memory # NoWorker
    /\ door = "open" /\ c \notin stopped
    /\ waiting' = waiting + 1
    /\ phase' = [phase EXCEPT ![c] = "waiting"]
    /\ UNCHANGED <<foreground, memory, told, door, lull, stopped, holding>>

\* The lease is out: its token is set and the caller waits, unless its first
\* pass through the loop already raises, which leaves the token set.
AskForHandoff(c) ==
    /\ phase[c] = "outside"
    /\ memory # NoWorker
    /\ told' = told \cup {memory}
    /\ IF door = "closed" \/ c \in stopped
         THEN UNCHANGED <<waiting, phase>>
         ELSE /\ waiting' = waiting + 1
              /\ phase' = [phase EXCEPT ![c] = "waiting"]
    /\ UNCHANGED <<foreground, memory, door, lull, stopped, holding>>

\* Mutant: the closed and cancelled checks after the loop are missing.
HandoffUnchecked(c) ==
    /\ phase[c] = "waiting"
    /\ memory = NoWorker
    /\ foreground' = foreground + 1
    /\ waiting' = waiting - 1
    /\ phase' = [phase EXCEPT ![c] = "inside"]
    /\ UNCHANGED <<memory, told, door, lull, stopped, holding>>

\* The lease has been given back: the loop ends and the caller is admitted.
Handoff(c) ==
    /\ phase[c] = "waiting"
    /\ memory = NoWorker
    /\ door = "open" /\ c \notin stopped
    /\ foreground' = foreground + 1
    /\ waiting' = waiting - 1
    /\ phase' = [phase EXCEPT ![c] = "inside"]
    /\ UNCHANGED <<memory, told, door, lull, stopped, holding>>

\* Mutant: _waiting is lowered only on admission, not in a finally clause.
InterruptLeaks(c) ==
    /\ phase[c] = "waiting"
    /\ door = "closed" \/ c \in stopped
    /\ phase' = [phase EXCEPT ![c] = "outside"]
    /\ UNCHANGED <<foreground, waiting, memory, told, door, lull, stopped, holding>>

\* InterruptedError, from inside the loop or after it.
Interrupt(c) ==
    /\ phase[c] = "waiting"
    /\ door = "closed" \/ c \in stopped
    /\ waiting' = waiting - 1
    /\ phase' = [phase EXCEPT ![c] = "outside"]
    /\ UNCHANGED <<foreground, memory, told, door, lull, stopped, holding>>

\* Mutants: a timed-out caller proceeds to the model; the deadline is never
\* looked at.
TimeoutProceeds(c) ==
    /\ phase[c] = "waiting" /\ memory # NoWorker
    /\ waiting' = waiting - 1
    /\ foreground' = foreground + 1
    /\ phase' = [phase EXCEPT ![c] = "inside"]
    /\ UNCHANGED <<memory, told, door, lull, stopped, holding>>

TimeoutNever(c) == phase[c] = "never" /\ UNCHANGED vars

\* TimeoutError: the deadline has passed and the lease is still out.
Timeout(c) ==
    /\ phase[c] = "waiting"
    /\ memory # NoWorker
    /\ door = "open" /\ c \notin stopped
    /\ waiting' = waiting - 1
    /\ phase' = [phase EXCEPT ![c] = "outside"]
    /\ UNCHANGED <<foreground, memory, told, door, lull, stopped, holding>>

\* The finally clause of an admitted caller.
ReleaseForeground(c) ==
    /\ phase[c] = "inside"
    /\ foreground' = foreground - 1
    /\ lull' = "recent"
    /\ phase' = [phase EXCEPT ![c] = "outside"]
    /\ UNCHANGED <<waiting, memory, told, door, stopped, holding>>

\* The owner of a caller's cancel_event sets it, or hands out a fresh one.
Stop(c) ==
    /\ c \notin stopped
    /\ stopped' = stopped \cup {c}
    /\ UNCHANGED <<foreground, waiting, memory, told, door, lull, phase, holding>>

FreshStop(c) ==
    /\ c \in stopped /\ phase[c] = "outside"
    /\ stopped' = stopped \ {c}
    /\ UNCHANGED <<foreground, waiting, memory, told, door, lull, phase, holding>>

(***************************************************************************)
(* try_acquire_memory                                                      *)
(***************************************************************************)

\* A worker is admitted; a manual pass asks for no idle time (idle_seconds=0).
\* A refused worker changes nothing.  The token is a new event.
AcquireMemory(w, manual) ==
    /\ w \notin holding
    /\ door = "open"
    /\ foreground = 0 /\ waiting = 0
    /\ memory = NoWorker
    /\ lull = "idle" \/ manual
    /\ memory' = w
    /\ told' = told \ {w}
    /\ holding' = holding \cup {w}
    /\ UNCHANGED <<foreground, waiting, door, lull, phase, stopped>>

ReleaseMemory(w) ==
    /\ w \in holding
    /\ memory' = NoWorker
    /\ holding' = holding \ {w}
    /\ UNCHANGED <<foreground, waiting, told, door, lull, phase, stopped>>

(***************************************************************************)
(* pause_memory, close and the clock                                       *)
(***************************************************************************)

PauseMemory ==
    /\ memory # NoWorker
    /\ told' = told \cup {memory}
    /\ UNCHANGED <<foreground, waiting, memory, door, lull, phase, stopped, holding>>

Close ==
    /\ door = "open"
    /\ door' = "closed"
    /\ told' = IF memory = NoWorker THEN told ELSE told \cup {memory}
    /\ UNCHANGED <<foreground, waiting, memory, lull, phase, stopped, holding>>

IdleElapsed ==
    /\ lull = "recent"
    /\ lull' = "idle"
    /\ UNCHANGED <<foreground, waiting, memory, told, door, phase, stopped, holding>>

CallerStep(c) ==
    \/ AdmitAtOnce(c) \/ AskForHandoff(c) \/ Handoff(c) \/ Interrupt(c)
    \/ Timeout(c) \/ ReleaseForeground(c) \/ Stop(c) \/ FreshStop(c)

WorkerStep(w) ==
    \/ \E manual \in BOOLEAN : AcquireMemory(w, manual)
    \/ ReleaseMemory(w)

Next ==
    \/ \E c \in Callers : CallerStep(c)
    \/ \E w \in Workers : WorkerStep(w)
    \/ PauseMemory
    \/ Close
    \/ IdleElapsed

Spec == Init /\ [][Next]_vars

\* A waiting thread wakes every 50 ms and re-reads the condition, and real time
\* reaches its deadline.  Nothing obliges the memory worker to let go, nor a
\* caller to ask.
Fairness ==
    \A c \in Callers : WF_vars(Handoff(c) \/ Interrupt(c) \/ Timeout(c))

FairSpec == Spec /\ Fairness

(***************************************************************************)
(* Properties                                                              *)
(***************************************************************************)

\* Every variable holds a value of its type.
TypeOK ==
    /\ foreground \in Nat
    /\ waiting \in Nat
    /\ memory \in Workers \cup {NoWorker}
    /\ told \in SUBSET Workers
    /\ door \in {"open", "closed"}
    /\ lull \in {"recent", "idle"}
    /\ phase \in [Callers -> {"outside", "waiting", "inside"}]
    /\ stopped \in SUBSET Callers
    /\ holding \in SUBSET Workers

\* No memory worker is inside its leased section while a foreground caller is
\* inside its own, and two workers are never inside together: the overlapping
\* model calls that the header of inference_coordinator.py rules out.
Exclusive ==
    /\ holding # {} => Inside = {}
    /\ \A v, w \in holding : v = w

\* A caller that waits has told the holder of the lease to stop: no order of
\* arrivals, pauses and grants leaves a caller waiting on a worker that was
\* never asked to let go.  After close() every remaining lease is told too.
HolderTold ==
    memory # NoWorker /\ (Parked # {} \/ door = "closed") => memory \in told

\* The two counters that admission reads agree with the threads they stand for
\* whichever way each thread left: admitted, interrupted or timed out.
CountersExact ==
    /\ foreground = Cardinality(Inside)
    /\ waiting = Cardinality(Parked)
    /\ holding = IF memory = NoWorker THEN {} ELSE {memory}

\* After close() nobody is let in any more, neither a caller that was already
\* waiting nor a worker.
NoEntryAfterClose ==
    [][door = "closed" => (Inside' \subseteq Inside /\ holding' \subseteq holding)]_vars

\* A caller never waits for ever, even for a worker that never lets go.
WaitEnds ==
    \A c \in Callers : phase[c] = "waiting" ~> phase[c] # "waiting"
=============================================================================
