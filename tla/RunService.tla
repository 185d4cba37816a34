----------------------------- MODULE RunService -----------------------------
(***************************************************************************)
(* The application owner of durable foreground runs                        *)
(* (services/run_service.py), with the store it writes, the permission     *)
(* service it asks, and the threads that execute an agent loop: the worker *)
(* of a client that started the run, and every later thread (a client's    *)
(* answer or an expiry timer) that resumes it after a permission wait.     *)
(*                                                                         *)
(* Sections under _lock are one step; everything a thread does outside it  *)
(* is split where another thread may come in between.  The agent loop is   *)
(* reduced to what it does to its run: it reports, calls tools, asks for   *)
(* permission and ends (AgentLoop.tla has its inside).  The provider gives *)
(* every call of a run a fresh id.                                         *)
(***************************************************************************)
EXTENDS RunStore, PermissionService

CONSTANTS
    NoRun,          \* the value of _active_run_id while there is none
    Threads,        \* threads that may execute a loop
    Environments,   \* the environments of the instance, see env
    MaxEvents       \* bound: no progress event beyond this journal length

ASSUME RunServiceAssumption ==
    /\ NoRun \notin Runs
    /\ \A e \in Environments :
         /\ e.clients \in {"eager", "patient"} /\ e.decisions \subseteq Decisions
         /\ {e.runs, e.calls, e.crashes} \subseteq Nat
    /\ MaxEvents \in Nat

VARIABLES
    active,     \* _active_run_id
    loops,      \* the runs with an entry in _loops and _cancel_signals
    signalled,  \* the runs whose cancel event is set
    timers,     \* the requests with a live expiry timer
    phase,      \* "up", "closing" after close(), "down" until the next start
    crashes,    \* how often the process died
    pc,         \* where each thread is
    job,        \* the run it works for
    vstatus,    \* the status and
    vcall,      \* the pending call of the RunState it holds
    emitted,    \* the number of events in the loop result it builds
    unsaved,    \* those before the first one that is in the journal
    expect,     \* the sequence number _persist gives to the next of them
    calls,      \* calls[r]: the call ids in the run's transcript
    effects,    \* effects[k]: how often call k was executed (history)
    late,       \* late[r]: executions begun after the run was finished (history)
    env         \* the environment (never changes): its clients, the decisions they
                \* send, and how many runs, calls of a run and crashes there are

procVars   == <<active, loops, signalled, timers, phase, crashes>>
resultVars == <<emitted, unsaved, expect>>
threadVars == <<pc, job, vstatus, vcall, resultVars>>
pastVars   == <<calls, effects, late, env>>
vars == <<storeVars, permVars, procVars, threadVars, pastVars>>

\* A thread that is past the hand-over of its run and has not let go of it.
Engaged == {"prepared", "admission", "start", "turn", "resume", "dispatch",
            "redispatch", "executed", "reexecuted", "asked", "returned", "write",
            "append"}
ThreadStates == Engaged \cup {"idle", "settle", "release"}

Init ==
    /\ StoreInit /\ PermInit
    /\ active = NoRun /\ loops = {} /\ signalled = {} /\ timers = {}
    /\ phase = "up" /\ crashes = 0
    /\ pc = [t \in Threads |-> "idle"]
    /\ job = [t \in Threads |-> NoRun]
    /\ vstatus = [t \in Threads |-> "none"]
    /\ vcall = [t \in Threads |-> NoCallId]
    /\ emitted = [t \in Threads |-> 0]
    /\ unsaved = [t \in Threads |-> << >>]
    /\ expect = [t \in Threads |-> 0]
    /\ calls = [r \in Runs |-> {}]
    /\ effects = [k \in Keys |-> 0]
    /\ late = [r \in Runs |-> 0]
    /\ env \in Environments

(***************************************************************************)
(* Helpers                                                                 *)
(***************************************************************************)

Goto(t, place) == pc' = [pc EXCEPT ![t] = place]

Hold(t, s, p) ==
    /\ vstatus' = [vstatus EXCEPT ![t] = s]
    /\ vcall' = [vcall EXCEPT ![t] = p]

\* The thread has nothing more to do for its run.
Leave(t) ==
    /\ Goto(t, "idle")
    /\ job' = [job EXCEPT ![t] = NoRun]
    /\ Hold(t, "none", NoCallId)
    /\ emitted' = [emitted EXCEPT ![t] = 0]
    /\ unsaved' = [unsaved EXCEPT ![t] = << >>]
    /\ expect' = [expect EXCEPT ![t] = 0]

\* Mutants: a finished run still takes events; an event is told but not stored.
PersistLiveRaw(t, kind, s, p) ==
    /\ emitted' = [emitted EXCEPT ![t] = @ + 1]
    /\ UNCHANGED <<unsaved, expect>>
    /\ journal' = [journal EXCEPT ![job[t]] = Append(@, kind)]
    /\ status' = [status EXCEPT ![job[t]] = s]
    /\ pending' = [pending EXCEPT ![job[t]] = p]

PersistLiveDrops(t, kind, s, p) ==
    /\ emitted' = [emitted EXCEPT ![t] = @ + 1]
    /\ UNCHANGED <<storeVars, unsaved, expect>>

\* _persist_live: the loop's sink.  A finished run takes no more events.
PersistLive(t, kind, s, p) ==
    LET r == job[t] IN
    /\ emitted' = [emitted EXCEPT ![t] = @ + 1]
    /\ \/ /\ Finished(r)
          /\ unsaved' = [unsaved EXCEPT ![t] = IF Len(@) = emitted[t] THEN Append(@, kind) ELSE @]
          /\ UNCHANGED storeVars
       \/ /\ ~Finished(r)
          /\ StoreAppend(r, kind, s, p)
          /\ UNCHANGED unsaved
    /\ UNCHANGED expect

\* The calls of an eager client arrive at any time.
\* A patient one does not call while the worker of the run is between
\* asking and having stored its wait, nor between _persist's look and write;
\* and no time to live (minutes) runs out within these few writes.
Patient == env.clients = "patient"
MayAnswer(r) ==
    Patient =>
        \A t \in Threads : job[t] = r => pc[t] \notin {"asked", "returned", "write"}
MayCancel(r) ==
    Patient => \A t \in Threads : job[t] = r => pc[t] # "write"

(***************************************************************************)
(* prepare and execute                                                     *)
(***************************************************************************)

\* Bound: the runs of this environment.
MayStart == Cardinality({r \in Runs : Created(r)}) < env.runs

\* Mutant: nobody asks whether a run is active.
PrepareAnyway(t, r) ==
    /\ phase # "down" /\ pc[t] = "idle" /\ MayStart
    /\ StoreCreate(r)
    /\ active' = r
    /\ loops' = loops \cup {r}
    /\ Goto(t, "prepared")
    /\ job' = [job EXCEPT ![t] = r]
    /\ UNCHANGED <<permVars, signalled, timers, phase, crashes, vstatus, vcall, resultVars, pastVars>>

\* RunBusyError unless the active run is finished.
Prepare(t, r) ==
    /\ phase # "down" /\ pc[t] = "idle" /\ MayStart
    /\ active # NoRun => Finished(active)
    /\ StoreCreate(r)
    /\ active' = r
    /\ loops' = loops \cup {r}
    /\ Goto(t, "prepared")
    /\ job' = [job EXCEPT ![t] = r]
    /\ UNCHANGED <<permVars, signalled, timers, phase, crashes, vstatus, vcall, resultVars, pastVars>>

\* The loop is looked up; a run cancelled in between is not prepared any more
\* (ValueError).
Execute(t) ==
    LET r == job[t] IN
    /\ pc[t] = "prepared"
    /\ \/ /\ r \in loops
          /\ Goto(t, "admission") /\ Hold(t, status[r], pending[r])
          /\ UNCHANGED <<job, resultVars>>
       \/ r \notin loops /\ Leave(t)
    /\ UNCHANGED <<storeVars, permVars, procVars, pastVars>>

(***************************************************************************)
(* _execute_loop                                                           *)
(***************************************************************************)

\* Admission is granted and the store is looked at: a finished run is left
\* alone, the others enter the loop by run or resume_permission.
Admit(t) ==
    LET r == job[t] IN
    /\ pc[t] = "admission"
    /\ \/ Finished(r) /\ Leave(t)
       \/ /\ ~Finished(r)
          /\ Goto(t, IF vstatus[t] = "awaiting" THEN "resume" ELSE "start")
          /\ UNCHANGED <<job, vstatus, vcall, resultVars>>
    /\ UNCHANGED <<storeVars, permVars, procVars, pastVars>>

\* Mutant: the failure is stored without its event.
AdmissionFailsSilently(t) ==
    LET r == job[t] IN
    /\ pc[t] = "admission" /\ ~Finished(r)
    /\ StoreUpdate(r, "failed", pending[r])
    /\ Goto(t, "release") /\ Hold(t, "failed", pending[r])
    /\ UNCHANGED <<permVars, procVars, job, resultVars, pastVars>>

\* Admission raises: the lease of the memory worker outlasts the deadline, or
\* the caller's signal is set.  A run that is still open is failed.
AdmissionFails(t) ==
    LET r == job[t] IN
    /\ pc[t] = "admission"
    /\ \/ Finished(r) /\ Leave(t) /\ UNCHANGED storeVars
       \/ /\ ~Finished(r)
          /\ StoreAppend(r, "failed", "failed", pending[r])
          /\ Goto(t, "release") /\ Hold(t, "failed", pending[r])
          /\ UNCHANGED <<job, resultVars>>
    /\ UNCHANGED <<permVars, procVars, pastVars>>

(***************************************************************************)
(* The agent loop: run                                                     *)
(***************************************************************************)

Start(t) ==
    /\ pc[t] = "start"
    /\ PersistLive(t, "started", "running", NoCallId)
    /\ Hold(t, "running", NoCallId)
    /\ Goto(t, "turn")
    /\ UNCHANGED <<permVars, procVars, job, pastVars>>

\* A message, a status line, a tool request.
Report(t) ==
    /\ pc[t] = "turn"
    /\ Len(journal[job[t]]) < MaxEvents /\ emitted[t] < MaxEvents
    /\ PersistLive(t, "progress", "running", NoCallId)
    /\ UNCHANGED <<permVars, procVars, pc, job, vstatus, vcall, pastVars>>

\* The cancel signal is looked at before each provider turn and each call.
SeeCancel(t) ==
    /\ pc[t] = "turn" /\ job[t] \in signalled
    /\ PersistLive(t, "cancelled", "cancelled", NoCallId)
    /\ Hold(t, "cancelled", NoCallId)
    /\ Goto(t, "returned")
    /\ UNCHANGED <<permVars, procVars, job, pastVars>>

\* Natural completion, a provider failure, or a spent budget.
End(t, outcome) ==
    /\ pc[t] = "turn"
    /\ PersistLive(t, outcome, outcome, NoCallId)
    /\ Hold(t, outcome, NoCallId)
    /\ Goto(t, "returned")
    /\ UNCHANGED <<permVars, procVars, job, pastVars>>

\* A tool call of the model is authorized.  Nothing reads the request before
\* the event is stored, so both are one step.
AuthorizeCall(t, c) ==
    LET r == job[t] IN
    /\ pc[t] = "turn" /\ c.id \notin calls[r] /\ Cardinality(calls[r]) < env.calls
    /\ calls' = [calls EXCEPT ![r] = @ \cup {c.id}]
    /\ \/ /\ Authorize(r, c, "denied")
          /\ PersistLive(t, "tool_completed", "running", NoCallId)
          /\ UNCHANGED <<pc, vstatus, vcall>>
       \/ /\ Authorize(r, c, "allowed")
          /\ Goto(t, "dispatch") /\ Hold(t, "running", c.id)
          /\ UNCHANGED <<storeVars, resultVars>>
       \/ /\ Authorize(r, c, "pending")
          /\ PersistLive(t, "requested", "awaiting", c.id)
          /\ Goto(t, "asked") /\ Hold(t, "awaiting", c.id)
    /\ UNCHANGED <<procVars, job, effects, late, env>>

\* Mutant: the cancel signal is not looked at between the calls of a turn.
CallUnchecked(t, c) == AuthorizeCall(t, c)

\* The loop's next call, unless the cancel signal is set.
Call(t, c) == job[t] \notin signalled /\ AuthorizeCall(t, c)

\* The line after permission.requested: it too stores the waiting snapshot.
Asked(t) ==
    /\ pc[t] = "asked"
    /\ PersistLive(t, "progress", "awaiting", vcall[t])
    /\ Goto(t, "returned")
    /\ UNCHANGED <<permVars, procVars, job, vstatus, vcall, pastVars>>

\* Mutant: a tool that fails is run again.
DispatchRetries(t, from, to) ==
    LET r == job[t] IN
    /\ pc[t] = from
    /\ PersistLive(t, "tool_started", "running", NoCallId)
    /\ effects' = [effects EXCEPT ![<<r, vcall[t]>>] = @ + 1]
    /\ late' = [late EXCEPT ![r] = IF Finished(r) THEN @ + 1 ELSE @]
    /\ Goto(t, to) \/ Goto(t, from)
    /\ UNCHANGED <<permVars, procVars, job, vstatus, vcall, calls, env>>

\* The tool runs: nothing is looked at between authorization and execution.
Dispatch(t, from, to) ==
    LET r == job[t] IN
    /\ pc[t] = from
    /\ PersistLive(t, "tool_started", "running", NoCallId)
    /\ effects' = [effects EXCEPT ![<<r, vcall[t]>>] = @ + 1]
    /\ late' = [late EXCEPT ![r] = IF Finished(r) THEN @ + 1 ELSE @]
    /\ Goto(t, to)
    /\ UNCHANGED <<permVars, procVars, job, vstatus, vcall, calls, env>>

Executed(t) ==
    /\ pc[t] = "executed"
    /\ PersistLive(t, "tool_completed", "running", NoCallId)
    /\ Hold(t, "running", NoCallId)
    /\ Goto(t, "turn")
    /\ UNCHANGED <<permVars, procVars, job, pastVars>>

(***************************************************************************)
(* The agent loop: resume_permission                                       *)
(***************************************************************************)

\* The call of the pending request is authorized again, now with its answer.
Resume(t) ==
    LET r == job[t] IN
    /\ pc[t] = "resume"
    /\ \E c \in Calls :
          /\ c.id = vcall[t]
          /\ [tool |-> c.tool, args |-> c.args] = asked[<<r, c.id>>]
          /\ \/ /\ Authorize(r, c, "allowed")
                /\ Goto(t, "redispatch") /\ Hold(t, "running", c.id)
             \/ /\ Authorize(r, c, "denied")
                /\ Goto(t, "reexecuted") /\ Hold(t, "running", c.id)
    /\ PersistLive(t, "resolved", "running", NoCallId)
    /\ UNCHANGED <<procVars, job, pastVars>>

\* The result is stored and the same run goes on (run with a running state).
Reexecuted(t) ==
    /\ pc[t] = "reexecuted"
    /\ PersistLive(t, "tool_completed", "running", NoCallId)
    /\ Hold(t, "running", NoCallId)
    /\ Goto(t, "start")
    /\ UNCHANGED <<permVars, procVars, job, pastVars>>

(***************************************************************************)
(* _finish_execution                                                       *)
(***************************************************************************)

\* Mutant: the result replaces the status of a run that was finished meanwhile.
PersistLookLastWins(t) ==
    LET r == job[t] IN
    /\ pc[t] = "returned"
    /\ \/ /\ Finished(r) /\ Goto(t, "settle")
          /\ status' = [status EXCEPT ![r] = IF vstatus[t] \in TerminalStatuses THEN vstatus[t] ELSE @]
       \/ /\ ~Finished(r) /\ Goto(t, "write")
          /\ UNCHANGED status
    /\ UNCHANGED <<pending, journal, permVars, procVars, job, vstatus, vcall, resultVars, pastVars>>

\* _persist, first half: without the lock, is the run finished?
PersistLook(t) ==
    /\ pc[t] = "returned"
    /\ \/ Finished(job[t]) /\ Goto(t, "settle")
       \/ ~Finished(job[t]) /\ Goto(t, "write")
    /\ UNCHANGED <<storeVars, permVars, procVars, job, vstatus, vcall, resultVars, pastVars>>

\* _persist, second half: the events are in the journal already, so only the
\* snapshot is replaced; a shorter journal is to take the events of the result.
PersistWrite(t) ==
    LET r == job[t] IN
    /\ pc[t] = "write"
    /\ \/ /\ Len(journal[r]) >= emitted[t]
          /\ StoreUpdate(r, vstatus[t], vcall[t])
          /\ Goto(t, "settle")
          /\ UNCHANGED expect
       \/ /\ Len(journal[r]) < emitted[t]
          /\ expect' = [expect EXCEPT ![t] = Len(journal[r]) + 1]
          /\ Goto(t, "append")
          /\ UNCHANGED storeVars
    /\ UNCHANGED <<permVars, procVars, job, vstatus, vcall, emitted, unsaved, pastVars>>

\* append takes the next event: it is new, its sequence number fits and the run
\* is open.  An event that is not about the outcome comes with a running snapshot.
CanAppend(t) ==
    /\ unsaved[t] # << >> /\ ~Finished(job[t])
    /\ expect[t] = Len(journal[job[t]]) + 1

PersistAppend(t) ==
    LET kind == Head(unsaved[t]) IN
    /\ pc[t] = "append" /\ CanAppend(t)
    /\ StoreAppend(job[t], kind,
            IF kind \in TerminalEvents \cup {"requested"} THEN vstatus[t] ELSE "running", vcall[t])
    /\ unsaved' = [unsaved EXCEPT ![t] = Tail(@)]
    /\ emitted' = [emitted EXCEPT ![t] = @ - 1]
    /\ expect' = [expect EXCEPT ![t] = @ + 1]
    /\ UNCHANGED <<permVars, procVars, pc, job, vstatus, vcall, pastVars>>

\* All are stored, or append raises and the thread is lost to its run.
PersistEnds(t) ==
    /\ pc[t] = "append"
    /\ \/ /\ emitted[t] = 0
          /\ Goto(t, "settle")
          /\ UNCHANGED <<job, vstatus, vcall, resultVars>>
       \/ emitted[t] > 0 /\ ~CanAppend(t) /\ Leave(t)
    /\ UNCHANGED <<storeVars, permVars, procVars, pastVars>>

\* The final snapshot is read back.
Settle(t) ==
    /\ pc[t] = "settle"
    /\ Hold(t, status[job[t]], pending[job[t]])
    /\ Goto(t, "release")
    /\ UNCHANGED <<storeVars, permVars, procVars, job, resultVars, pastVars>>

\* Mutant: no run gets a timer.
ReleaseTimesNone(t) ==
    LET r == job[t] IN
    /\ pc[t] = "release"
    /\ active' = IF vstatus[t] \in TerminalStatuses /\ active = r THEN NoRun ELSE active
    /\ loops' = IF vstatus[t] \in TerminalStatuses THEN loops \ {r} ELSE loops
    /\ Leave(t)
    /\ UNCHANGED <<storeVars, permVars, timers, signalled, phase, crashes, pastVars>>

\* _release_if_terminal and _schedule_permission_expiry on that snapshot.
Release(t) ==
    LET r == job[t] IN
    /\ pc[t] = "release"
    /\ \/ /\ vstatus[t] \in TerminalStatuses
          /\ active' = IF active = r THEN NoRun ELSE active
          /\ loops' = loops \ {r}
          /\ UNCHANGED timers
       \/ /\ vstatus[t] = "awaiting" /\ phase = "up" /\ ~Finished(r)
          /\ timers' = timers \cup {<<r, vcall[t]>>}
          /\ UNCHANGED <<active, loops>>
       \/ /\ vstatus[t] \notin TerminalStatuses
          /\ vstatus[t] # "awaiting" \/ phase # "up" \/ Finished(r)
          /\ UNCHANGED <<active, loops, timers>>
    /\ Leave(t)
    /\ UNCHANGED <<storeVars, permVars, signalled, phase, crashes, pastVars>>

(***************************************************************************)
(* respond_permission, the expiry timer and cancel                         *)
(***************************************************************************)

\* The locked part of respond_permission.  Every check that fails raises
\* ValueError and changes nothing.
Respond(t, k, kind) ==
    /\ phase # "down" /\ pc[t] = "idle"
    /\ status[k[1]] = "awaiting" /\ pending[k[1]] = k[2]
    /\ k[1] \in loops
    /\ Resolve(k, kind)
    /\ Goto(t, "admission")
    /\ job' = [job EXCEPT ![t] = k[1]]
    /\ Hold(t, "awaiting", k[2])
    /\ UNCHANGED <<storeVars, active, loops, signalled, phase, crashes, resultVars, pastVars>>

Answer(t, k, kind) ==
    /\ MayAnswer(k[1])
    /\ Respond(t, k, kind)
    /\ timers' = timers \ {k}

\* _expire_permission: a refusal is swallowed, the timer is spent either way.
CanRespond(k) ==
    /\ status[k[1]] = "awaiting" /\ pending[k[1]] = k[2]
    /\ k[1] \in loops /\ decision[k] = "none"

FireTimer(t, k) ==
    /\ phase # "down" /\ k \in timers /\ k \in overdue /\ pc[t] = "idle"
    /\ timers' = timers \ {k}
    /\ \/ CanRespond(k) /\ Respond(t, k, "expired")
       \/ /\ ~CanRespond(k)
          /\ UNCHANGED <<storeVars, permVars, active, loops, signalled, phase, crashes,
                         threadVars, pastVars>>

Cancel(r) ==
    /\ phase # "down" /\ MayCancel(r)
    /\ Live(r)
    /\ signalled' = IF r \in loops THEN signalled \cup {r} ELSE signalled
    /\ StoreAppend(r, "cancelled", "cancelled", pending[r])
    /\ timers' = timers \ {<<r, pending[r]>>}
    /\ active' = NoRun
    /\ loops' = loops \ {r}
    /\ UNCHANGED <<permVars, phase, crashes, threadVars, pastVars>>

Lapse(k) ==
    /\ phase # "down" /\ MayAnswer(k[1])
    /\ decision[k] = "none"
    /\ DeadlinePasses(k)
    /\ UNCHANGED <<storeVars, procVars, threadVars, pastVars>>

(***************************************************************************)
(* close, the end of the process, and the sweep of the next start          *)
(***************************************************************************)

Close ==
    /\ phase = "up"
    /\ phase' = "closing"
    /\ timers' = {}
    /\ UNCHANGED <<storeVars, permVars, active, loops, signalled, crashes, threadVars, pastVars>>

\* Everything but the database is gone.
Crash ==
    /\ phase # "down" /\ crashes < env.crashes
    /\ crashes' = crashes + 1
    /\ phase' = "down"
    /\ active' = NoRun /\ loops' = {} /\ signalled' = {} /\ timers' = {}
    /\ pc' = [t \in Threads |-> "idle"]
    /\ job' = [t \in Threads |-> NoRun]
    /\ vstatus' = [t \in Threads |-> "none"]
    /\ vcall' = [t \in Threads |-> NoCallId]
    /\ emitted' = [t \in Threads |-> 0]
    /\ unsaved' = [t \in Threads |-> << >>]
    /\ expect' = [t \in Threads |-> 0]
    /\ asked' = [k \in Keys |-> NoCall]
    /\ decision' = [k \in Keys |-> "none"]
    /\ consumed' = {} /\ grants' = {} /\ overdue' = {}
    /\ passes' = [k \in Keys |-> 0]
    /\ UNCHANGED <<storeVars, rule, pastVars>>

\* interrupt_active_runs, before the new service takes a request.
Sweep(r) ==
    /\ phase = "down"
    /\ StoreInterrupt(r)
    /\ UNCHANGED <<permVars, procVars, threadVars, pastVars>>

Restart ==
    /\ phase = "down"
    /\ \A r \in Runs : ~Live(r)
    /\ phase' = "up"
    /\ UNCHANGED <<storeVars, permVars, active, loops, signalled, timers, crashes, threadVars, pastVars>>

LoopStep(t) ==
    \/ Start(t) \/ Report(t) \/ SeeCancel(t)
    \/ \E outcome \in {"completed", "failed", "blocked"} : End(t, outcome)
    \/ \E c \in Calls : Call(t, c)
    \/ Asked(t) \/ Executed(t) \/ Resume(t) \/ Reexecuted(t)
    \/ Dispatch(t, "dispatch", "executed") \/ Dispatch(t, "redispatch", "reexecuted")

ThreadStep(t) ==
    \/ Execute(t) \/ Admit(t) \/ AdmissionFails(t)
    \/ LoopStep(t)
    \/ PersistLook(t) \/ PersistWrite(t) \/ PersistAppend(t) \/ PersistEnds(t)
    \/ Settle(t) \/ Release(t)

Next ==
    \/ \E t \in Threads, r \in Runs : Prepare(t, r)
    \/ \E t \in Threads : ThreadStep(t)
    \/ \E t \in Threads, k \in Keys, kind \in env.decisions : Answer(t, k, kind)
    \/ \E t \in Threads, k \in Keys : FireTimer(t, k)
    \/ \E r \in Runs : Cancel(r)
    \/ \E k \in Keys : Lapse(k)
    \/ Close \/ Crash \/ Restart
    \/ \E r \in Runs : Sweep(r)

Spec == Init /\ [][Next]_vars

\* Threads go on, the clock goes on, a timer that is due fires.  No client is
\* obliged to answer, and neither a report nor a call is an endless source of
\* steps: both are bounded.
FairSpec ==
    /\ Spec
    /\ \A t \in Threads : WF_vars(ThreadStep(t))
    /\ \A k \in Keys : WF_vars(Lapse(k))
    /\ \A k \in Keys : WF_vars(\E t \in Threads : FireTimer(t, k))

(***************************************************************************)
(* Properties                                                              *)
(***************************************************************************)

\* Every variable holds a value of its type.
TypeOK ==
    /\ status \in [Runs -> RunStatuses \cup {"none"}]
    /\ pending \in [Runs -> PendingCalls]
    /\ journal \in [Runs -> Seq(EventKinds)]
    /\ PermTypeOK
    /\ active \in Runs \cup {NoRun}
    /\ loops \in SUBSET Runs
    /\ signalled \in SUBSET Runs
    /\ timers \in SUBSET Keys
    /\ phase \in {"up", "closing", "down"}
    /\ crashes \in Nat
    /\ pc \in [Threads -> ThreadStates]
    /\ job \in [Threads -> Runs \cup {NoRun}]
    /\ vstatus \in [Threads -> RunStatuses \cup {"none"}]
    /\ vcall \in [Threads -> PendingCalls]
    /\ emitted \in [Threads -> Nat] /\ expect \in [Threads -> Nat]
    /\ unsaved \in [Threads -> Seq(EventKinds)]
    /\ calls \in [Runs -> SUBSET CallIds]
    /\ effects \in [Keys -> Nat]
    /\ late \in [Runs -> Nat]

\* Among patient clients the journal of a run has at most one terminal event,
\* and it is the last.
OneTerminal ==
    Patient => \A r \in Runs : TerminalAt(r) \subseteq {Len(journal[r])}

\* A durable terminal status is never left again, among patient clients.
TerminalStays ==
    [][Patient => \A r \in Runs : Finished(r) => status'[r] = status[r]]_vars

\* A run that was durably cancelled stays cancelled, whatever its worker writes.
CancelIsFinal ==
    [][\A r \in Runs : status[r] = "cancelled" => status'[r] = "cancelled"]_vars

\* Status and journal agree among patient clients: finished exactly if the last
\* event is terminal.
StatusMatchesJournal ==
    Patient => \A r \in Runs : Finished(r) <=> TerminalAt(r) # {}

\* At most one run of this process is unfinished, and it is the active one (an
\* overwritten cancel leaves one more).
SingleFlight ==
    Patient /\ phase # "down" => \A r \in Runs : Live(r) => active = r

\* No tool call is executed twice, and none that a user was asked about before
\* an answer allows it: whatever answers, timers and cancels race.
ExecutedOnce ==
    \A k \in Keys :
        /\ effects[k] <= 1
        /\ effects[k] = 1 /\ Requested(k) => decision[k] \in AllowKinds

\* After a run is finished (cancelled, say) at most one more call of it begins.
OneLateCallAtMost ==
    \A r \in Runs : late[r] <= 1

\* Among patient clients the journal is never shorter than a loop result that is
\* to be stored: the branch of _persist that would append the result's events is
\* not reached.
LiveSinkCovers ==
    Patient => \A t \in Threads : pc[t] = "write" => Len(journal[job[t]]) >= emitted[t]

\* While the process is up every run of patient clients ends, also one whose
\* permission request nobody answers.
RunsEnd ==
    \A r \in Runs : Live(r) /\ Patient ~> (Finished(r) \/ phase # "up")
=============================================================================
