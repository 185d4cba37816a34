-------------------------- MODULE RunServiceProofs --------------------------
(***************************************************************************)
(* The run service for any number of runs, calls, tools, threads and       *)
(* crashes, and for clients of both kinds.  None of the properties is      *)
(* inductive: what makes them hold is who may act for a run.               *)
(*                                                                         *)
(*   - A run has one thread inside the loop or one open request, never     *)
(*     both (OneActor).  An answer moves a run from the second to the      *)
(*     first, asking moves it back, an outcome ends both.                  *)
(*   - Hence nobody else touches the call a thread has authorized, and no  *)
(*     grant is added while a decided request waits to be authorized again *)
(*     (CallsOK).                                                          *)
(*   - An actor of a run that was finished from outside finds the cancel   *)
(*     signal set (SignalsOK), so only a call that was authorized before   *)
(*     can still begin (LateOK).                                           *)
(*                                                                         *)
(* RunServicePatientProofs.tla goes on from here to what holds among       *)
(* patient clients.                                                        *)
(***************************************************************************)
EXTENDS RunService, PermissionServiceProofs

\* Where a thread is inside the loop; where it has still a call to begin
\* that is not authorized by a look at the cancel signal any more; where it has
\* its result.
Looping == {"prepared", "admission", "start", "turn", "resume", "dispatch",
            "redispatch", "executed", "reexecuted"}
Committed == {"prepared", "admission", "resume", "dispatch", "redispatch"}
Concluding == {"returned", "write", "append"}

\* Thread t is inside the loop for run r; request i of r waits for an answer;
\* t brings the answer to its request back to the loop.
LoopsFor(t, r) == pc[t] \in Looping /\ job[t] = r
Undecided(r, i) == Requested(<<r, i>>) /\ decision[<<r, i>>] = "none"
Resuming(t) == pc[t] = "resume" \/ (pc[t] = "admission" /\ vstatus[t] = "awaiting")
ScopeOf(r, i) == <<r, asked[<<r, i>>].tool, asked[<<r, i>>].args>>

\* What a thread holds at each of its places.
ThreadOK(t) ==
    /\ pc[t] = "idle" => job[t] = NoRun /\ emitted[t] = 0 /\ unsaved[t] = << >>
    /\ pc[t] # "idle" => job[t] \in Runs /\ Created(job[t])
    /\ Len(unsaved[t]) <= emitted[t]
    /\ pc[t] = "prepared" => status[job[t]] \in {"queued"} \cup TerminalStatuses
    /\ pc[t] \in {"dispatch", "redispatch", "asked"} \/ Resuming(t) => vcall[t] \in CallIds
    /\ pc[t] = "asked" => vstatus[t] = "awaiting"
    /\ pc[t] \in Concluding =>
         \/ vstatus[t] = "awaiting" /\ vcall[t] \in CallIds
         \/ vstatus[t] \in TerminalStatuses

\* The threads, and what is left when the process is down.
ThreadsOK ==
    /\ \A t \in Threads : ThreadOK(t)
    /\ \A t, u \in Threads : pc[t] = "prepared" /\ job[u] = job[t] => u = t
    /\ \A r \in loops \cup signalled : Created(r)
    /\ loops \cap signalled = {}
    /\ phase = "down" => /\ \A t \in Threads : pc[t] = "idle"
                         /\ \A r \in Runs, i \in CallIds : ~Requested(<<r, i>>)
                         /\ loops = {}

\* A run has one thread in the loop or one open request, and neither when a
\* thread comes back from the loop with an outcome.
OneActor ==
    /\ \A t, u \in Threads, r \in Runs : LoopsFor(t, r) /\ LoopsFor(u, r) => t = u
    /\ \A t \in Threads, r \in Runs, i \in CallIds : LoopsFor(t, r) => ~Undecided(r, i)
    /\ \A r \in Runs, i, j \in CallIds : Undecided(r, i) /\ Undecided(r, j) => i = j
    /\ \A t \in Threads, r \in Runs :
         pc[t] \in Concluding /\ job[t] = r /\ vstatus[t] \in TerminalStatuses =>
            /\ \A u \in Threads : ~LoopsFor(u, r)
            /\ \A i \in CallIds : ~Undecided(r, i)

\* A request belongs to a call of the transcript that a rule asks about; until
\* it is answered nothing covers it and nothing was executed for it; and a thread
\* on its way to a call holds one that is not executed and not refused.
CallsOK ==
    /\ \A r \in Runs, i \in CallIds :
         /\ Requested(<<r, i>>) => /\ i \in calls[r] /\ Created(r)
                                   /\ rule[asked[<<r, i>>].tool] = "ask"
         /\ Undecided(r, i) => effects[<<r, i>>] = 0 /\ ScopeOf(r, i) \notin grants
         /\ effects[<<r, i>>] > 0 => i \in calls[r]
         /\ <<r, i>> \in overdue => Requested(<<r, i>>)
    /\ \A t \in Threads, r \in Runs, i \in CallIds :
         /\ Resuming(t) /\ job[t] = r /\ vcall[t] = i =>
              /\ Requested(<<r, i>>) /\ decision[<<r, i>>] # "none"
              /\ effects[<<r, i>>] = 0
              /\ ScopeOf(r, i) \in grants => decision[<<r, i>>] = "allow_run_scope"
         /\ pc[t] \in {"dispatch", "redispatch"} /\ job[t] = r /\ vcall[t] = i =>
              /\ i \in calls[r] /\ effects[<<r, i>>] = 0
              /\ Requested(<<r, i>>) => decision[<<r, i>>] \in AllowKinds
    /\ ExecutedOnce

\* Somebody may still act for the run.
Open(r) ==
    \/ \E t \in Threads : LoopsFor(t, r)
    \/ \E i \in CallIds : Undecided(r, i)

\* A thread is about to take the run out of the process.
Releasing(r) ==
    \E t \in Threads : pc[t] = "release" /\ job[t] = r /\ vstatus[t] \in TerminalStatuses

\* Whoever may still act for a run that is finished or let go finds its signal set.
SignalsOK ==
    \A r \in Runs :
        Open(r) /\ (Finished(r) \/ r \notin loops \/ Releasing(r)) => r \in signalled

\* After a late call nobody is committed to another one.
LateOK ==
    \A r \in Runs :
        /\ late[r] <= 1
        /\ late[r] > 0 =>
             /\ Created(r) /\ r \notin loops
             /\ \A t \in Threads : job[t] = r => pc[t] \notin Committed
             /\ \A t \in Threads : LoopsFor(t, r) => r \in signalled

\* A run that waits, and a thread that reports its wait, name the request.
WaitsOK ==
    /\ \A r \in Runs : status[r] = "awaiting" => pending[r] \in CallIds
    /\ \A t \in Threads : pc[t] = "release" /\ vstatus[t] = "awaiting" => vcall[t] \in CallIds

ServiceInv ==
    /\ TypeOK /\ PermInv /\ env \in Environments /\ WaitsOK
    /\ ThreadsOK /\ OneActor /\ CallsOK /\ SignalsOK /\ LateOK

(***************************************************************************)
(* Types                                                                   *)
(***************************************************************************)

\* TypeOK, by the part of the state it is about.
StoreTypeOK ==
    /\ status \in [Runs -> RunStatuses \cup {"none"}]
    /\ pending \in [Runs -> PendingCalls]
    /\ journal \in [Runs -> Seq(EventKinds)]
ProcTypeOK ==
    /\ active \in Runs \cup {NoRun}
    /\ loops \in SUBSET Runs /\ signalled \in SUBSET Runs /\ timers \in SUBSET Keys
    /\ phase \in {"up", "closing", "down"} /\ crashes \in Nat
HoldTypeOK ==
    /\ pc \in [Threads -> ThreadStates]
    /\ job \in [Threads -> Runs \cup {NoRun}]
    /\ vstatus \in [Threads -> RunStatuses \cup {"none"}]
    /\ vcall \in [Threads -> PendingCalls]
ResultTypeOK ==
    /\ emitted \in [Threads -> Nat] /\ expect \in [Threads -> Nat]
    /\ unsaved \in [Threads -> Seq(EventKinds)]
PastTypeOK ==
    /\ calls \in [Runs -> SUBSET CallIds]
    /\ effects \in [Keys -> Nat]
    /\ late \in [Runs -> Nat]

\* The parts make up the whole, before and after a step.
LEMMA TypeParts ==
    /\ TypeOK <=> /\ StoreTypeOK /\ PermTypeOK /\ ProcTypeOK
                  /\ HoldTypeOK /\ ResultTypeOK /\ PastTypeOK
    /\ TypeOK' <=> /\ StoreTypeOK' /\ PermTypeOK' /\ ProcTypeOK'
                   /\ HoldTypeOK' /\ ResultTypeOK' /\ PastTypeOK'
  BY DEF TypeOK, StoreTypeOK, ProcTypeOK, HoldTypeOK, ResultTypeOK, PastTypeOK

\* What _persist_live does to the store and to the result of the loop.
LEMMA PersistLiveType ==
    ASSUME StoreTypeOK, ResultTypeOK, NEW t \in Threads, job[t] \in Runs,
           NEW kind \in EventKinds, NEW s \in RunStatuses, NEW p \in PendingCalls,
           PersistLive(t, kind, s, p)
    PROVE  StoreTypeOK' /\ ResultTypeOK'
<1>1. StoreTypeOK'
  <2>1. CASE UNCHANGED storeVars
    BY <2>1 DEF StoreTypeOK, storeVars
  <2>2. CASE StoreAppend(job[t], kind, s, p)
    <3>1. journal[job[t]] \in Seq(EventKinds)
      BY DEF StoreTypeOK
    <3>2. Append(journal[job[t]], kind) \in Seq(EventKinds)
      BY <3>1
    <3> QED
      BY <2>2, <3>2 DEF StoreAppend, StoreTypeOK
  <2> QED
    BY <2>1, <2>2 DEF PersistLive
<1>2. emitted' \in [Threads -> Nat] /\ expect' \in [Threads -> Nat]
  BY DEF PersistLive, ResultTypeOK
<1>3. unsaved' \in [Threads -> Seq(EventKinds)]
  <2>1. unsaved[t] \in Seq(EventKinds)
    BY DEF ResultTypeOK
  <2>2. Append(unsaved[t], kind) \in Seq(EventKinds)
    BY <2>1
  <2> QED
    BY <2>1, <2>2 DEF PersistLive, ResultTypeOK
<1> QED
  BY <1>1, <1>2, <1>3 DEF ResultTypeOK

\* What authorize leaves alone and what its verdicts mean.
LEMMA AuthorizeEffect ==
    ASSUME NEW r \in Runs, NEW c \in Calls, NEW verdict \in Verdicts,
           Authorize(r, c, verdict)
    PROVE  /\ UNCHANGED <<rule, decision, grants, overdue>>
           /\ verdict # "pending" => asked' = asked
           /\ verdict = "pending" =>
                /\ MustAsk(r, c)
                /\ \/ /\ ~Requested(<<r, c.id>>)
                      /\ asked' = [asked EXCEPT ![<<r, c.id>>] = [tool |-> c.tool, args |-> c.args]]
                   \/ Requested(<<r, c.id>>) /\ asked' = asked
           /\ verdict = "allowed" =>
                \/ FreePass(r, c)
                \/ Requested(<<r, c.id>>) /\ decision[<<r, c.id>>] \in AllowKinds
  BY DEF Authorize, FirstAsk, AskedBefore, Consume, permVars, KeyOf, Verdicts

\* The status of a run keeps its meaning: a run that is created stays created,
\* and a thread that reports changes no other run.
LEMMA PersistLiveEffect ==
    ASSUME TypeOK, NEW t \in Threads, job[t] \in Runs, Created(job[t]),
           NEW kind \in EventKinds, NEW s \in RunStatuses, NEW p \in PendingCalls,
           PersistLive(t, kind, s, p)
    PROVE  /\ emitted' = [emitted EXCEPT ![t] = @ + 1]
           /\ \A u \in Threads : u # t => unsaved'[u] = unsaved[u]
           /\ Len(unsaved[t]) <= emitted[t] => Len(unsaved'[t]) <= emitted'[t]
           /\ \A r \in Runs : r # job[t] => status'[r] = status[r] /\ journal'[r] = journal[r]
           /\ \/ /\ Finished(job[t]) /\ UNCHANGED storeVars
              \/ /\ ~Finished(job[t]) /\ status'[job[t]] = s
                 /\ journal'[job[t]] = Append(journal[job[t]], kind)
<1>1. StoreTypeOK /\ ResultTypeOK
  BY TypeParts
<1>2. /\ unsaved[t] \in Seq(EventKinds) /\ emitted[t] \in Nat
      /\ Len(Append(unsaved[t], kind)) = Len(unsaved[t]) + 1
      /\ Len(unsaved[t]) \in Nat
  BY <1>1 DEF ResultTypeOK
<1>3. emitted' = [emitted EXCEPT ![t] = @ + 1] /\ emitted'[t] = emitted[t] + 1
  BY <1>1 DEF PersistLive, ResultTypeOK
<1>4. \/ unsaved' = unsaved
      \/ /\ Len(unsaved[t]) = emitted[t]
         /\ unsaved' = [unsaved EXCEPT ![t] = Append(@, kind)]
  BY <1>1 DEF PersistLive, ResultTypeOK
<1>5. /\ \A u \in Threads : u # t => unsaved'[u] = unsaved[u]
      /\ Len(unsaved[t]) <= emitted[t] => Len(unsaved'[t]) <= emitted'[t]
  BY <1>1, <1>2, <1>3, <1>4 DEF ResultTypeOK
<1>6. CASE Finished(job[t]) /\ UNCHANGED storeVars
  BY <1>3, <1>5, <1>6 DEF storeVars
<1>7. CASE ~Finished(job[t]) /\ StoreAppend(job[t], kind, s, p)
  BY <1>1, <1>3, <1>5, <1>7 DEF StoreAppend, StoreTypeOK
<1> QED
  BY <1>6, <1>7 DEF PersistLive

\* No thread, request or run yet.
LEMMA ServiceInitInv == Init => ServiceInv
<1> SUFFICES ASSUME Init PROVE ServiceInv
  OBVIOUS
<1>1. PermInv
  BY PermInitInv DEF Init
<1>2. TypeOK
  BY <1>1 DEF Init, StoreInit, TypeOK, PermInv, PendingCalls, ThreadStates, RunStatuses
<1>3. ThreadsOK
  BY PermissionAssumption
  DEF Init, StoreInit, PermInit, ThreadsOK, ThreadOK, Created, Resuming, Concluding, Requested, Keys
<1>4. OneActor
  BY DEF Init, PermInit, OneActor, LoopsFor, Looping, Undecided, Requested, Keys, Concluding
<1>5. CallsOK
  BY DEF Init, PermInit, CallsOK, ExecutedOnce, Resuming, Requested, Undecided, Keys
<1>6. \A r \in Runs : ~Open(r)
  BY DEF Init, PermInit, Open, LoopsFor, Looping, Undecided, Requested, Keys
<1>7. SignalsOK /\ LateOK
  BY <1>6 DEF Init, SignalsOK, LateOK
<1>8. WaitsOK
  BY DEF Init, StoreInit, WaitsOK
<1> QED
  BY <1>1, <1>2, <1>3, <1>4, <1>5, <1>7, <1>8 DEF ServiceInv, Init

(***************************************************************************)
(* The steps of one thread                                                 *)
(***************************************************************************)

\* The other threads stay where they are.
Alone(t) ==
    \A u \in Threads : u # t =>
        /\ pc'[u] = pc[u] /\ job'[u] = job[u]
        /\ vstatus'[u] = vstatus[u] /\ vcall'[u] = vcall[u]
        /\ emitted'[u] = emitted[u] /\ unsaved'[u] = unsaved[u]

\* What the steps of a thread have in common that neither open a request nor
\* execute a call nor let go of the run: the thread moves on, and nothing but its
\* own run may be finished by it, as the last thing it does in the loop.
Quiet(t) ==
    /\ UNCHANGED <<rule, asked, decision, grants, overdue, loops, signalled, phase,
                   effects, late>>
    /\ \A r \in Runs : calls[r] \subseteq calls'[r]
    /\ Alone(t)
    /\ pc[t] # "idle" /\ pc'[t] \notin {"prepared", "asked"}
    /\ \/ pc'[t] # "idle" /\ job'[t] = job[t]
       \/ pc'[t] = "idle" /\ job'[t] = NoRun /\ emitted'[t] = 0 /\ unsaved'[t] = << >>
    /\ Len(unsaved'[t]) <= emitted'[t]
    /\ pc'[t] \in Looping => pc[t] \in Looping
    /\ pc'[t] \in Committed => pc[t] \in Committed \/ (pc[t] \in Looping /\ job[t] \notin signalled)
    /\ Resuming(t)' => Resuming(t) /\ vcall'[t] = vcall[t]
    /\ pc'[t] \in {"dispatch", "redispatch"} =>
         /\ vcall'[t] \in CallIds
         /\ vcall'[t] \in calls'[job[t]] /\ effects[<<job[t], vcall'[t]>>] = 0
         /\ Requested(<<job[t], vcall'[t]>>) => decision[<<job[t], vcall'[t]>>] \in AllowKinds
    /\ pc'[t] \in Concluding =>
         /\ \/ vstatus'[t] = "awaiting" /\ vcall'[t] \in CallIds
            \/ vstatus'[t] \in TerminalStatuses
         /\ vstatus'[t] \in TerminalStatuses =>
              \/ pc[t] \in Looping
              \/ pc[t] \in Concluding /\ vstatus[t] \in TerminalStatuses
    /\ pc'[t] = "release" /\ vstatus'[t] \in TerminalStatuses =>
         status'[job[t]] \in TerminalStatuses
    /\ \A r \in Runs : r # job[t] => status'[r] = status[r]
    /\ status'[job[t]] # "none"
    /\ status'[job[t]] \in TerminalStatuses =>
         \/ Finished(job[t])
         \/ pc'[t] \notin Looping /\ pc[t] \in Looping
         \/ pc[t] \in Concluding /\ vstatus[t] \in TerminalStatuses

\* The facts about a thread at work that the next lemmas share.
LEMMA AtWork ==
    ASSUME ServiceInv, NEW t \in Threads, pc[t] # "idle"
    PROVE  /\ job[t] \in Runs /\ Created(job[t]) /\ job[t] # NoRun
           /\ Len(unsaved[t]) <= emitted[t]
           /\ pc \in [Threads -> ThreadStates]
           /\ job \in [Threads -> Runs \cup {NoRun}]
           /\ vstatus \in [Threads -> RunStatuses \cup {"none"}]
           /\ vcall \in [Threads -> PendingCalls]
           /\ emitted \in [Threads -> Nat] /\ unsaved \in [Threads -> Seq(EventKinds)]
           /\ status \in [Runs -> RunStatuses \cup {"none"}]
           /\ pending \in [Runs -> PendingCalls]
           /\ calls \in [Runs -> SUBSET CallIds]
  BY RunServiceAssumption DEF ServiceInv, ThreadsOK, ThreadOK, TypeOK

\* Where a thread is after it has moved, and what it holds.
LEMMA GotoAt ==
    ASSUME pc \in [Threads -> ThreadStates], NEW t \in Threads, NEW place, Goto(t, place)
    PROVE  pc'[t] = place /\ \A u \in Threads : u # t => pc'[u] = pc[u]
  BY DEF Goto

\* What a thread holds after it has taken a new RunState.
LEMMA HoldAt ==
    ASSUME vstatus \in [Threads -> RunStatuses \cup {"none"}], vcall \in [Threads -> PendingCalls],
           NEW t \in Threads, NEW s, NEW p, Hold(t, s, p)
    PROVE  /\ vstatus'[t] = s /\ vcall'[t] = p
           /\ \A u \in Threads : u # t => vstatus'[u] = vstatus[u] /\ vcall'[u] = vcall[u]
  BY DEF Hold

\* A thread that is done is idle and holds nothing.
LEMMA LeaveAt ==
    ASSUME ServiceInv, NEW t \in Threads, pc[t] # "idle", Leave(t)
    PROVE  /\ Alone(t)
           /\ pc'[t] = "idle" /\ job'[t] = NoRun /\ emitted'[t] = 0 /\ unsaved'[t] = << >>
           /\ vstatus'[t] = "none"
  BY AtWork DEF Leave, Goto, Hold, Alone

\* A thread that leaves its run as it is.
LEMMA QuietLeave ==
    ASSUME ServiceInv, NEW t \in Threads, pc[t] # "idle", Leave(t),
           UNCHANGED <<storeVars, permVars, procVars, pastVars>>
    PROVE  Quiet(t)
<1>1. Len(unsaved'[t]) <= emitted'[t]
  BY LeaveAt
<1> QED
  BY <1>1, LeaveAt, AtWork
  DEF Quiet, storeVars, permVars, procVars, pastVars, Looping, Committed, Concluding, Resuming,
      Created, Finished

\* From the hand-over of the run into the loop, or to its failure.
LEMMA QuietEnter ==
    ASSUME ServiceInv, NEW t \in Threads,
           Execute(t) \/ Admit(t) \/ AdmissionFails(t)
    PROVE  Quiet(t)
<1>1. pc[t] \in {"prepared", "admission"} /\ pc[t] # "idle"
  BY DEF Execute, Admit, AdmissionFails
<1>2. CASE Leave(t) /\ UNCHANGED <<storeVars, permVars, procVars, pastVars>>
  BY <1>1, <1>2, QuietLeave
<1>3. CASE /\ pc[t] = "prepared" /\ Goto(t, "admission") /\ Hold(t, status[job[t]], pending[job[t]])
           /\ UNCHANGED <<job, resultVars, storeVars, permVars, procVars, pastVars>>
  <2>1. status[job[t]] # "awaiting"
    BY <1>3 DEF ServiceInv, ThreadsOK, ThreadOK, TerminalStatuses
  <2> QED
    BY <1>3, <2>1, AtWork, GotoAt, HoldAt
    DEF Quiet, Alone, storeVars, permVars, procVars, resultVars, pastVars, Looping, Committed,
        Concluding, Resuming, Created, Finished
<1>4. CASE /\ pc[t] = "admission"
           /\ Goto(t, IF vstatus[t] = "awaiting" THEN "resume" ELSE "start")
           /\ UNCHANGED <<job, vstatus, vcall, resultVars, storeVars, permVars, procVars, pastVars>>
  BY <1>4, AtWork, GotoAt
  DEF Quiet, Alone, storeVars, permVars, procVars, resultVars, pastVars, Looping, Committed,
      Concluding, Resuming, Created, Finished
<1>5. CASE /\ pc[t] = "admission" /\ StoreAppend(job[t], "failed", "failed", pending[job[t]])
           /\ Goto(t, "release") /\ Hold(t, "failed", pending[job[t]])
           /\ UNCHANGED <<job, resultVars, permVars, procVars, pastVars>>
  BY <1>5, AtWork, GotoAt, HoldAt
  DEF Quiet, Alone, permVars, procVars, resultVars, pastVars, Looping, Committed,
      Concluding, Resuming, Created, Finished, StoreAppend, TerminalStatuses
<1> QED
  BY <1>1, <1>2, <1>3, <1>4, <1>5 DEF Execute, Admit, AdmissionFails

\* A thread that reports an event and moves on.
LEMMA QuietReport ==
    ASSUME ServiceInv, NEW t \in Threads, pc[t] # "idle",
           NEW kind \in EventKinds, NEW s \in RunStatuses, NEW p \in PendingCalls,
           PersistLive(t, kind, s, p),
           UNCHANGED <<rule, asked, decision, grants, overdue, procVars, job, effects, late>>,
           \A r \in Runs : calls[r] \subseteq calls'[r],
           \A u \in Threads : u # t =>
               pc'[u] = pc[u] /\ vstatus'[u] = vstatus[u] /\ vcall'[u] = vcall[u],
           \/ /\ pc[t] \in Looping /\ pc'[t] \in {"start", "turn", "reexecuted"}
              /\ s = "running"
           \/ /\ pc[t] = "resume" /\ pc'[t] = "redispatch" /\ s = "running"
              /\ vcall'[t] \in CallIds /\ vcall'[t] \in calls'[job[t]]
              /\ effects[<<job[t], vcall'[t]>>] = 0
              /\ Requested(<<job[t], vcall'[t]>>) =>
                   decision[<<job[t], vcall'[t]>>] \in AllowKinds
           \/ /\ pc[t] \in Looping /\ pc'[t] = "returned"
              /\ s \in TerminalStatuses /\ vstatus'[t] = s
           \/ /\ pc[t] = "asked" /\ pc'[t] = "returned" /\ s = "awaiting"
              /\ vstatus'[t] = "awaiting" /\ vcall'[t] \in CallIds
    PROVE  Quiet(t)
<1>1. /\ \A u \in Threads : u # t => emitted'[u] = emitted[u] /\ unsaved'[u] = unsaved[u]
      /\ Len(unsaved'[t]) <= emitted'[t]
      /\ \A r \in Runs : r # job[t] => status'[r] = status[r]
      /\ \/ Finished(job[t]) /\ status' = status
         \/ ~Finished(job[t]) /\ status'[job[t]] = s
  BY AtWork, PersistLiveEffect DEF ServiceInv, storeVars
<1> QED
  BY <1>1, AtWork
  DEF Quiet, Alone, procVars, Looping, Committed, Concluding, Resuming, Created, Finished,
      TerminalStatuses, RunStatuses

\* Inside the loop, and out of it with an outcome or a stored wait.
LEMMA QuietLoop ==
    ASSUME ServiceInv, NEW t \in Threads,
           \/ Start(t) \/ Report(t) \/ SeeCancel(t) \/ Executed(t) \/ Reexecuted(t) \/ Asked(t)
           \/ \E outcome \in {"completed", "failed", "blocked"} : End(t, outcome)
    PROVE  Quiet(t)
<1> USE DEF permVars, pastVars
<1>1. pc[t] \in {"start", "turn", "executed", "reexecuted", "asked"} /\ pc[t] # "idle"
  BY DEF Start, Report, SeeCancel, Executed, Reexecuted, Asked, End
<1>2. /\ {"started", "progress", "tool_completed"} \cup TerminalStatuses \subseteq EventKinds
      /\ {"running", "awaiting"} \cup TerminalStatuses \subseteq RunStatuses
      /\ NoCallId \in PendingCalls /\ CallIds \subseteq PendingCalls
  BY DEF EventKinds, TerminalEvents, RunStatuses, PendingCalls
<1>3. CASE Start(t) \/ Executed(t) \/ Reexecuted(t)
  <2>1. PICK kind \in {"started", "tool_completed"}, place \in {"turn", "start"} :
          /\ pc[t] \in Looping
          /\ PersistLive(t, kind, "running", NoCallId)
          /\ Hold(t, "running", NoCallId) /\ Goto(t, place)
          /\ UNCHANGED <<permVars, procVars, job, pastVars>>
    BY <1>3 DEF Start, Executed, Reexecuted, Looping
  <2>2. /\ pc'[t] = place
        /\ \A u \in Threads : u # t =>
             pc'[u] = pc[u] /\ vstatus'[u] = vstatus[u] /\ vcall'[u] = vcall[u]
    BY <1>1, <2>1, AtWork, GotoAt, HoldAt
  <2> QED
    BY <1>1, <1>2, <2>1, <2>2, QuietReport
<1>4. CASE Report(t)
  <2>1. /\ pc[t] \in Looping /\ pc[t] = "turn"
        /\ PersistLive(t, "progress", "running", NoCallId)
        /\ UNCHANGED <<permVars, procVars, pc, job, vstatus, vcall, pastVars>>
    BY <1>4 DEF Report, Looping
  <2> QED
    BY <1>1, <1>2, <2>1, QuietReport
<1>5. CASE SeeCancel(t)
  <2>1. /\ pc[t] \in Looping
        /\ PersistLive(t, "cancelled", "cancelled", NoCallId)
        /\ Hold(t, "cancelled", NoCallId) /\ Goto(t, "returned")
        /\ UNCHANGED <<permVars, procVars, job, pastVars>>
    BY <1>5 DEF SeeCancel, Looping
  <2>2. /\ pc'[t] = "returned" /\ vstatus'[t] = "cancelled"
        /\ \A u \in Threads : u # t =>
             pc'[u] = pc[u] /\ vstatus'[u] = vstatus[u] /\ vcall'[u] = vcall[u]
    BY <1>1, <2>1, AtWork, GotoAt, HoldAt
  <2>3. "cancelled" \in TerminalStatuses
    BY DEF TerminalStatuses
  <2> QED
    BY <1>1, <1>2, <2>1, <2>2, <2>3, QuietReport
<1>6. CASE Asked(t)
  <2>1. vstatus[t] = "awaiting" /\ vcall[t] \in CallIds
    BY <1>6 DEF Asked, ServiceInv, ThreadsOK, ThreadOK
  <2> QED
    BY <1>2, <1>6, <2>1, AtWork, GotoAt, QuietReport DEF Asked
<1>7. ASSUME NEW outcome \in {"completed", "failed", "blocked"}, End(t, outcome)
      PROVE  Quiet(t)
  <2>1. /\ pc[t] \in Looping
        /\ PersistLive(t, outcome, outcome, NoCallId)
        /\ Hold(t, outcome, NoCallId) /\ Goto(t, "returned")
        /\ UNCHANGED <<permVars, procVars, job, pastVars>>
    BY <1>7 DEF End, Looping
  <2>2. /\ pc'[t] = "returned" /\ vstatus'[t] = outcome
        /\ \A u \in Threads : u # t =>
             pc'[u] = pc[u] /\ vstatus'[u] = vstatus[u] /\ vcall'[u] = vcall[u]
    BY <1>1, <2>1, AtWork, GotoAt, HoldAt
  <2>3. outcome \in TerminalStatuses
    BY DEF TerminalStatuses
  <2> QED
    BY <1>1, <1>2, <2>1, <2>2, <2>3, QuietReport
<1> QED
  BY <1>3, <1>4, <1>5, <1>6, <1>7

\* The answer is brought back: what it allowed was not executed yet.
LEMMA QuietResume ==
    ASSUME ServiceInv, NEW t \in Threads, Resume(t)
    PROVE  Quiet(t)
<1>1. pc[t] = "resume" /\ pc[t] # "idle" /\ Resuming(t)
  BY DEF Resume, Resuming
<1>2. PICK c \in Calls :
        /\ c.id = vcall[t]
        /\ [tool |-> c.tool, args |-> c.args] = asked[<<job[t], c.id>>]
        /\ \/ /\ Authorize(job[t], c, "allowed")
              /\ Goto(t, "redispatch") /\ Hold(t, "running", c.id)
           \/ /\ Authorize(job[t], c, "denied")
              /\ Goto(t, "reexecuted") /\ Hold(t, "running", c.id)
  BY DEF Resume
<1>3. c.id \in CallIds /\ c.id \in PendingCalls
  BY DEF Calls, PendingCalls
<1>4. /\ Requested(<<job[t], c.id>>) /\ effects[<<job[t], c.id>>] = 0
      /\ ScopeOf(job[t], c.id) \in grants => decision[<<job[t], c.id>>] \in AllowKinds
      /\ c.id \in calls[job[t]] /\ rule[asked[<<job[t], c.id>>].tool] = "ask"
  BY <1>1, <1>2, <1>3, AtWork DEF ServiceInv, CallsOK, AllowKinds
<1>5. asked[<<job[t], c.id>>].tool = c.tool /\ asked[<<job[t], c.id>>].args = c.args
  BY <1>2
<1>6. UNCHANGED <<rule, asked, decision, grants, overdue>>
  BY <1>1, <1>2, AtWork, AuthorizeEffect DEF Verdicts
<1>7. /\ PersistLive(t, "resolved", "running", NoCallId)
      /\ UNCHANGED <<procVars, job, calls, effects, late>>
  BY DEF Resume, pastVars
<1>8. "resolved" \in EventKinds /\ "running" \in RunStatuses /\ NoCallId \in PendingCalls
  BY DEF EventKinds, RunStatuses, PendingCalls
<1>9. CASE Authorize(job[t], c, "allowed") /\ Goto(t, "redispatch") /\ Hold(t, "running", c.id)
  <2>1. FreePass(job[t], c) \/ decision[<<job[t], c.id>>] \in AllowKinds
    BY <1>1, <1>9, AtWork, AuthorizeEffect DEF Verdicts
  <2>2. FreePass(job[t], c) => ScopeOf(job[t], c.id) \in grants
    BY <1>4, <1>5 DEF FreePass, ScopeOf
  <2>3. decision[<<job[t], c.id>>] \in AllowKinds
    BY <1>4, <2>1, <2>2
  <2>4. /\ pc'[t] = "redispatch" /\ vcall'[t] = c.id
        /\ \A u \in Threads : u # t =>
             pc'[u] = pc[u] /\ vstatus'[u] = vstatus[u] /\ vcall'[u] = vcall[u]
    BY <1>1, <1>9, AtWork, GotoAt, HoldAt
  <2>5. \A r \in Runs : calls[r] \subseteq calls'[r]
    BY <1>7
  <2> QED
    BY <1>1, <1>3, <1>4, <1>6, <1>7, <1>8, <2>3, <2>4, <2>5, QuietReport
<1>10. CASE Goto(t, "reexecuted") /\ Hold(t, "running", c.id)
  <2>1. /\ pc'[t] = "reexecuted"
        /\ \A u \in Threads : u # t =>
             pc'[u] = pc[u] /\ vstatus'[u] = vstatus[u] /\ vcall'[u] = vcall[u]
    BY <1>1, <1>10, AtWork, GotoAt, HoldAt
  <2>2. pc[t] \in Looping
    BY <1>1 DEF Looping
  <2> QED
    BY <1>1, <1>6, <1>7, <1>8, <2>1, <2>2, QuietReport
<1> QED
  BY <1>2, <1>9, <1>10

\* A call that is refused, or covered by a rule or a grant.
LEMMA QuietCall ==
    ASSUME ServiceInv, NEW t \in Threads, NEW c \in Calls, Call(t, c),
           NEW verdict \in {"denied", "allowed"}, Authorize(job[t], c, verdict),
           \/ /\ verdict = "denied"
              /\ PersistLive(t, "tool_completed", "running", NoCallId)
              /\ UNCHANGED <<pc, vstatus, vcall>>
           \/ /\ verdict = "allowed"
              /\ Goto(t, "dispatch") /\ Hold(t, "running", c.id)
              /\ UNCHANGED <<storeVars, resultVars>>
    PROVE  Quiet(t)
<1>1. /\ pc[t] = "turn" /\ pc[t] # "idle" /\ job[t] \notin signalled
      /\ c.id \notin calls[job[t]] /\ calls' = [calls EXCEPT ![job[t]] = @ \cup {c.id}]
      /\ UNCHANGED <<procVars, job, effects, late>>
  BY DEF Call, AuthorizeCall
<1>2. c.id \in CallIds
  BY DEF Calls
<1>3. UNCHANGED <<rule, asked, decision, grants, overdue>>
  <2>1. verdict \in Verdicts /\ verdict # "pending"
    BY DEF Verdicts
  <2> QED
    BY <1>1, <2>1, AtWork, AuthorizeEffect
<1>4. (\A r \in Runs : calls[r] \subseteq calls'[r]) /\ c.id \in calls'[job[t]]
  BY <1>1, AtWork
<1>5. CASE /\ PersistLive(t, "tool_completed", "running", NoCallId)
           /\ UNCHANGED <<pc, vstatus, vcall>>
  <2>1. /\ "tool_completed" \in EventKinds /\ "running" \in RunStatuses
        /\ NoCallId \in PendingCalls
    BY DEF EventKinds, RunStatuses, PendingCalls
  <2> QED
    BY <1>1, <1>3, <1>4, <1>5, <2>1, QuietReport DEF Looping
<1>6. CASE /\ Goto(t, "dispatch") /\ Hold(t, "running", c.id)
           /\ UNCHANGED <<storeVars, resultVars>>
  <2>1. effects[<<job[t], c.id>>] = 0 /\ ~Requested(<<job[t], c.id>>)
    <3>1. <<job[t], c.id>> \in Keys /\ effects[<<job[t], c.id>>] \in Nat
      BY <1>1, <1>2, AtWork DEF ServiceInv, TypeOK, Keys
    <3> QED
      BY <1>1, <1>2, <3>1, AtWork DEF ServiceInv, CallsOK
  <2>2. /\ pc'[t] = "dispatch" /\ vcall'[t] = c.id /\ vstatus'[t] = "running"
        /\ \A u \in Threads : u # t =>
             pc'[u] = pc[u] /\ vstatus'[u] = vstatus[u] /\ vcall'[u] = vcall[u]
    BY <1>1, <1>6, AtWork, GotoAt, HoldAt
  <2> QED
    BY <1>1, <1>2, <1>3, <1>4, <1>6, <2>1, <2>2, AtWork
    DEF Quiet, Alone, storeVars, resultVars, procVars, Looping, Committed, Concluding, Resuming,
        Created, Finished
<1> QED
  BY <1>5, <1>6

\* Storing the result, and reading it back.
LEMMA QuietPersist ==
    ASSUME ServiceInv, NEW t \in Threads,
           PersistLook(t) \/ PersistWrite(t) \/ PersistAppend(t) \/ PersistEnds(t) \/ Settle(t)
    PROVE  Quiet(t)
<1> USE DEF procVars, permVars, pastVars, resultVars
<1>1. pc[t] \in Concluding \cup {"settle"} /\ pc[t] # "idle"
  BY DEF PersistLook, PersistWrite, PersistAppend, PersistEnds, Settle, Concluding
<1>2. pc[t] \in Concluding =>
        \/ vstatus[t] = "awaiting" /\ vcall[t] \in CallIds
        \/ vstatus[t] \in TerminalStatuses
  BY DEF ServiceInv, ThreadsOK, ThreadOK
<1>3. CASE PersistLook(t)
  BY <1>2, <1>3, AtWork, GotoAt
  DEF PersistLook, Quiet, Alone, storeVars, Looping, Committed, Concluding, Resuming, Created, Finished
<1>4. CASE PersistWrite(t)
  BY <1>2, <1>4, AtWork, GotoAt
  DEF PersistWrite, Quiet, Alone, storeVars, StoreUpdate, Looping, Committed, Concluding, Resuming,
      Created, Finished, TerminalStatuses
<1>5. CASE PersistAppend(t)
  <2>1. /\ pc[t] = "append" /\ UNCHANGED <<pc, job, vstatus, vcall>>
        /\ StoreAppend(job[t], Head(unsaved[t]),
               IF Head(unsaved[t]) \in TerminalEvents \cup {"requested"}
                 THEN vstatus[t] ELSE "running", vcall[t])
    BY <1>5 DEF PersistAppend
  <2>2. /\ \A u \in Threads : u # t => emitted'[u] = emitted[u] /\ unsaved'[u] = unsaved[u]
        /\ Len(unsaved'[t]) <= emitted'[t]
    <3>1. unsaved[t] # << >> /\ unsaved[t] \in Seq(EventKinds) /\ emitted[t] \in Nat
      BY <1>5, AtWork DEF PersistAppend, CanAppend
    <3>2. Len(Tail(unsaved[t])) = Len(unsaved[t]) - 1 /\ Len(unsaved[t]) \in Nat
      BY <3>1
    <3>3. unsaved' = [unsaved EXCEPT ![t] = Tail(@)] /\ emitted' = [emitted EXCEPT ![t] = @ - 1]
      BY <1>5 DEF PersistAppend
    <3>4. unsaved'[t] = Tail(unsaved[t]) /\ emitted'[t] = emitted[t] - 1
      BY <1>1, <3>3, AtWork
    <3>5. Len(unsaved'[t]) <= emitted'[t]
      BY <1>1, <3>1, <3>2, <3>4, AtWork
    <3> QED
      BY <1>1, <3>3, <3>5, AtWork
  <2>3. /\ \A r \in Runs : r # job[t] => status'[r] = status[r]
        /\ status'[job[t]] \in {vstatus[t], "running"}
    BY <2>1, AtWork DEF StoreAppend
  <2>4. UNCHANGED <<rule, asked, decision, grants, overdue, loops, signalled, phase, calls,
                    effects, late>>
    BY <1>5 DEF PersistAppend
  <2> QED
    BY <1>2, <2>1, <2>2, <2>3, <2>4, AtWork
    DEF Quiet, Alone, Looping, Committed, Concluding, Resuming, TerminalStatuses
<1>6. CASE PersistEnds(t)
  <2>1. CASE Leave(t)
    BY <1>1, <1>6, <2>1, QuietLeave DEF PersistEnds
  <2>2. CASE Goto(t, "settle") /\ UNCHANGED <<job, vstatus, vcall, resultVars>>
    BY <1>1, <1>2, <1>6, <2>2, AtWork, GotoAt
    DEF PersistEnds, Quiet, Alone, storeVars, Looping, Committed, Concluding, Resuming, Created, Finished
  <2> QED
    BY <1>6, <2>1, <2>2 DEF PersistEnds
<1>7. CASE Settle(t)
  BY <1>7, AtWork, GotoAt, HoldAt
  DEF Settle, Quiet, Alone, storeVars, Looping, Committed, Concluding, Resuming, Created, Finished
<1> QED
  BY <1>3, <1>4, <1>5, <1>6, <1>7

(***************************************************************************)
(* The invariant after a quiet step                                        *)
(***************************************************************************)

\* The part of the invariant that is about who may act.
ActorsOK == ThreadsOK /\ OneActor /\ CallsOK /\ SignalsOK /\ LateOK

\* A quiet step keeps who may act for a run, and what each of them relies on.
LEMMA QuietInv ==
    ASSUME ServiceInv, TypeOK', NEW t \in Threads, Quiet(t)
    PROVE  ActorsOK'
<1> DEFINE r == job[t]
<1>1. /\ r \in Runs /\ r # NoRun
      /\ \A u \in Threads : pc[u] # "idle" => job[u] \in Runs /\ job[u] # NoRun
  BY AtWork DEF Quiet
<1>2. ThreadsOK'
  <2>1. ASSUME NEW u \in Threads, pc'[u] = "prepared"
        PROVE  /\ u # t /\ pc[u] = "prepared" /\ job[u] # r /\ job'[u] = job[u]
               /\ status'[job[u]] = status[job[u]] /\ job[u] \in Runs
    <3>1. u # t /\ pc[u] = "prepared" /\ job'[u] = job[u]
      BY <2>1 DEF Quiet, Alone
    <3>2. job[u] # r
      BY <3>1 DEF ServiceInv, ThreadsOK
    <3> QED
      BY <1>1, <3>1, <3>2 DEF Quiet
  <2>2. \A q \in Runs : Created(q) => Created(q)'
    BY <1>1 DEF Quiet, Created
  <2>3. ThreadOK(t)'
    <3>1. Resuming(t)' => vcall'[t] \in CallIds
      BY DEF Quiet, ServiceInv, ThreadsOK, ThreadOK
    <3> QED
      BY <1>1, <3>1 DEF Quiet, ThreadOK, Created, Concluding, Looping
  <2>4. ASSUME NEW u \in Threads, u # t
        PROVE  ThreadOK(u)'
    <3>1. ThreadOK(u)
      BY DEF ServiceInv, ThreadsOK
    <3>2. /\ pc'[u] = pc[u] /\ job'[u] = job[u]
          /\ vstatus'[u] = vstatus[u] /\ vcall'[u] = vcall[u]
          /\ emitted'[u] = emitted[u] /\ unsaved'[u] = unsaved[u]
      BY <2>4 DEF Quiet, Alone
    <3>3. pc[u] # "idle" => Created(job[u])'
      BY <1>1, <2>2, <3>1, <3>2 DEF ThreadOK, Created
    <3> QED
      BY <2>1, <3>1, <3>2, <3>3 DEF ThreadOK, Resuming
  <2>5. \A u, v \in Threads : pc'[u] = "prepared" /\ job'[v] = job'[u] => v = u
    BY <1>1, <2>1 DEF Quiet, Alone, ServiceInv, ThreadsOK
  <2>6. \A q \in loops' \cup signalled' : Created(q)'
    BY <2>2 DEF Quiet, ServiceInv, ThreadsOK, TypeOK
  <2>7. (loops \cap signalled)' = {} /\ phase # "down"
    BY DEF Quiet, ServiceInv, ThreadsOK
  <2> QED
    BY <2>3, <2>4, <2>5, <2>6, <2>7 DEF Quiet, ThreadsOK
<1>3. \A q \in Runs : \A u \in Threads : LoopsFor(u, q)' => LoopsFor(u, q)
  BY <1>1 DEF Quiet, Alone, LoopsFor, Looping
<1>4. \A q \in Runs, i \in CallIds : Undecided(q, i)' <=> Undecided(q, i)
  BY DEF Quiet, Undecided, Requested
<1>5. OneActor'
  <2>1. ASSUME NEW u \in Threads, NEW q \in Runs,
               pc'[u] \in Concluding, job'[u] = q, vstatus'[u] \in TerminalStatuses
        PROVE  /\ \A v \in Threads : ~LoopsFor(v, q)'
               /\ \A i \in CallIds : ~Undecided(q, i)'
    <3>1. \/ pc[u] \in Concluding /\ job[u] = q /\ vstatus[u] \in TerminalStatuses
          \/ u = t /\ q = r /\ LoopsFor(t, q)
      BY <1>1, <2>1 DEF Quiet, Alone, LoopsFor, Concluding
    <3>2. CASE pc[u] \in Concluding /\ job[u] = q /\ vstatus[u] \in TerminalStatuses
      BY <1>3, <1>4, <3>2 DEF ServiceInv, OneActor
    <3>3. CASE u = t /\ q = r /\ LoopsFor(t, q)
      <4>1. ~LoopsFor(t, q)'
        BY <2>1, <3>3 DEF LoopsFor, Looping, Concluding
      <4> QED
        BY <1>3, <1>4, <3>3, <4>1 DEF ServiceInv, OneActor
    <3> QED
      BY <3>1, <3>2, <3>3
  <2>2. \A u, v \in Threads, q \in Runs : LoopsFor(u, q)' /\ LoopsFor(v, q)' => u = v
    BY <1>3 DEF ServiceInv, OneActor
  <2>3. \A u \in Threads, q \in Runs, i \in CallIds : LoopsFor(u, q)' => ~Undecided(q, i)'
    BY <1>3, <1>4 DEF ServiceInv, OneActor
  <2>4. \A q \in Runs, i, j \in CallIds : Undecided(q, i)' /\ Undecided(q, j)' => i = j
    BY <1>4 DEF ServiceInv, OneActor
  <2> QED
    BY <2>1, <2>2, <2>3, <2>4 DEF OneActor
<1>6. CallsOK'
  <2>1. ExecutedOnce'
    BY DEF Quiet, ServiceInv, CallsOK, ExecutedOnce, Requested
  <2>2. ASSUME NEW q \in Runs, NEW i \in CallIds
        PROVE  /\ Requested(<<q, i>>)' => /\ i \in calls'[q] /\ Created(q)'
                                         /\ rule'[asked'[<<q, i>>].tool] = "ask"
               /\ Undecided(q, i)' => effects'[<<q, i>>] = 0 /\ ScopeOf(q, i)' \notin grants'
               /\ effects'[<<q, i>>] > 0 => i \in calls'[q]
               /\ <<q, i>> \in overdue' => Requested(<<q, i>>)'
    <3>1. Created(q) => Created(q)'
      BY <1>1 DEF Quiet, Created
    <3> QED
      BY <3>1 DEF Quiet, ServiceInv, CallsOK, Requested, Undecided, ScopeOf
  <2>3. ASSUME NEW u \in Threads, NEW q \in Runs, NEW i \in CallIds
        PROVE  /\ Resuming(u)' /\ job'[u] = q /\ vcall'[u] = i =>
                    /\ Requested(<<q, i>>)' /\ decision'[<<q, i>>] # "none"
                    /\ effects'[<<q, i>>] = 0
                    /\ ScopeOf(q, i)' \in grants' => decision'[<<q, i>>] = "allow_run_scope"
               /\ pc'[u] \in {"dispatch", "redispatch"} /\ job'[u] = q /\ vcall'[u] = i =>
                    /\ i \in calls'[q] /\ effects'[<<q, i>>] = 0
                    /\ Requested(<<q, i>>)' => decision'[<<q, i>>] \in AllowKinds
    <3>1. CASE u = t
      <4>1. ASSUME Resuming(t)', job'[t] = q, vcall'[t] = i
            PROVE  Resuming(t) /\ job[t] = q /\ vcall[t] = i
        BY <4>1 DEF Quiet, Resuming
      <4>2. pc'[t] \in {"dispatch", "redispatch"} /\ job'[t] = q => job[t] = q
        BY DEF Quiet
      <4> QED
        BY <3>1, <4>1, <4>2 DEF Quiet, ServiceInv, CallsOK, Requested, ScopeOf
    <3>2. CASE u # t
      <4>1. pc'[u] = pc[u] /\ job'[u] = job[u] /\ vcall'[u] = vcall[u] /\ vstatus'[u] = vstatus[u]
        BY <3>2 DEF Quiet, Alone
      <4> QED
        BY <4>1 DEF Quiet, ServiceInv, CallsOK, Requested, ScopeOf, Resuming
    <3> QED
      BY <3>1, <3>2
  <2> QED
    BY <2>1, <2>2, <2>3 DEF CallsOK
<1>7. SignalsOK'
  <2> SUFFICES ASSUME NEW q \in Runs, Open(q)', Finished(q)' \/ q \notin loops \/ Releasing(q)'
               PROVE  q \in signalled
    BY DEF SignalsOK, Quiet
  <2>1. Open(q)
    BY <1>3, <1>4 DEF Open
  <2>2. Releasing(q)' => Releasing(q) \/ Finished(q)'
    BY <1>1 DEF Quiet, Alone, Releasing, Finished
  <2>3. ASSUME Finished(q)', ~Finished(q)
        PROVE  FALSE
    <3>1. q = r
      BY <2>3 DEF Quiet, Finished
    <3>2. CASE pc'[t] \notin Looping /\ pc[t] \in Looping
      <4>1. LoopsFor(t, q) /\ ~LoopsFor(t, q)'
        BY <3>1, <3>2 DEF LoopsFor
      <4>2. /\ \A u \in Threads : ~LoopsFor(u, q)'
            /\ \A i \in CallIds : ~Undecided(q, i)'
        BY <1>3, <1>4, <4>1 DEF ServiceInv, OneActor
      <4> QED
        BY <4>2 DEF Open
    <3>3. CASE pc[t] \in Concluding /\ vstatus[t] \in TerminalStatuses
      BY <1>3, <1>4, <3>1, <3>3 DEF Open, ServiceInv, OneActor
    <3> QED
      BY <2>3, <3>1, <3>2, <3>3 DEF Quiet, Finished
  <2> QED
    BY <2>1, <2>2, <2>3 DEF ServiceInv, SignalsOK
<1>8. LateOK'
  <2> SUFFICES ASSUME NEW q \in Runs, late[q] > 0
               PROVE  /\ Created(q)' /\ q \notin loops
                      /\ \A u \in Threads : job'[u] = q => pc'[u] \notin Committed
                      /\ \A u \in Threads : LoopsFor(u, q)' => q \in signalled
    BY DEF ServiceInv, LateOK, Quiet
  <2>1. Created(q)'
    BY <1>1 DEF ServiceInv, LateOK, Quiet, Created
  <2> QED
    BY <1>1, <1>3, <2>1 DEF ServiceInv, LateOK, Quiet, Alone, LoopsFor, Committed
<1> QED
  BY <1>2, <1>5, <1>6, <1>7, <1>8 DEF ActorsOK

(***************************************************************************)
(* The steps that change who may act                                       *)
(***************************************************************************)

\* A call that a user is asked about: its thread hands the run to the request.
Asks(t, c) ==
    /\ Call(t, c)
    /\ Authorize(job[t], c, "pending")
    /\ PersistLive(t, "requested", "awaiting", c.id)
    /\ Goto(t, "asked") /\ Hold(t, "awaiting", c.id)

\* What such a call does: its request is new and nothing covers it.
Handover(t, c) ==
    /\ LoopsFor(t, job[t]) /\ pc[t] = "turn" /\ job[t] \notin signalled
    /\ c.id \in CallIds /\ ~Requested(<<job[t], c.id>>) /\ effects[<<job[t], c.id>>] = 0
    /\ rule[c.tool] = "ask" /\ <<job[t], c.tool, c.args>> \notin grants
    /\ asked' = [asked EXCEPT ![<<job[t], c.id>>] = [tool |-> c.tool, args |-> c.args]]
    /\ calls' = [calls EXCEPT ![job[t]] = @ \cup {c.id}]
    /\ UNCHANGED <<rule, decision, grants, overdue, procVars, job, effects, late>>
    /\ pc'[t] = "asked" /\ vstatus'[t] = "awaiting" /\ vcall'[t] = c.id
    /\ Alone(t)
    /\ Len(unsaved'[t]) <= emitted'[t]
    /\ \A r \in Runs : Created(r) => Created(r)'
    /\ \A r \in Runs : Finished(r)' <=> Finished(r)
    /\ \A r \in Runs : r # job[t] => status'[r] = status[r]

\* The call had no request, and its tool neither a grant nor a rule that allows it.
LEMMA AsksEffect ==
    ASSUME ServiceInv, NEW t \in Threads, NEW c \in Calls, Asks(t, c)
    PROVE  Handover(t, c)
<1>1. /\ pc[t] = "turn" /\ pc[t] # "idle" /\ job[t] \notin signalled
      /\ c.id \notin calls[job[t]] /\ calls' = [calls EXCEPT ![job[t]] = @ \cup {c.id}]
      /\ UNCHANGED <<procVars, job, effects, late>>
  BY DEF Asks, Call, AuthorizeCall
<1>2. c.id \in CallIds /\ c.tool \in Tools /\ c.args \in Args
  BY DEF Calls
<1>3. /\ ~Requested(<<job[t], c.id>>) /\ effects[<<job[t], c.id>>] = 0
      /\ <<job[t], c.id>> \in Keys
  <2>1. <<job[t], c.id>> \in Keys /\ effects[<<job[t], c.id>>] \in Nat
    BY <1>1, <1>2, AtWork DEF ServiceInv, TypeOK, Keys
  <2> QED
    BY <1>1, <1>2, <2>1, AtWork DEF ServiceInv, CallsOK
<1>4. /\ MustAsk(job[t], c)
      /\ asked' = [asked EXCEPT ![<<job[t], c.id>>] = [tool |-> c.tool, args |-> c.args]]
      /\ UNCHANGED <<rule, decision, grants, overdue>>
  BY <1>1, <1>3, AtWork, AuthorizeEffect DEF Asks, Verdicts
<1>5. rule[c.tool] = "ask" /\ <<job[t], c.tool, c.args>> \notin grants
  BY <1>2, <1>4 DEF MustAsk, Refused, FreePass, ServiceInv, TypeOK, PermTypeOK, Rules
<1>6. /\ pc'[t] = "asked" /\ vstatus'[t] = "awaiting" /\ vcall'[t] = c.id
      /\ \A u \in Threads : u # t =>
           pc'[u] = pc[u] /\ vstatus'[u] = vstatus[u] /\ vcall'[u] = vcall[u]
  BY <1>1, AtWork, GotoAt, HoldAt DEF Asks
<1>7. "requested" \in EventKinds /\ "awaiting" \in RunStatuses /\ c.id \in PendingCalls
  BY <1>2 DEF EventKinds, RunStatuses, PendingCalls
<1>8. /\ \A u \in Threads : u # t => emitted'[u] = emitted[u] /\ unsaved'[u] = unsaved[u]
      /\ Len(unsaved'[t]) <= emitted'[t]
      /\ \A r \in Runs : r # job[t] => status'[r] = status[r]
      /\ \/ Finished(job[t]) /\ status' = status
         \/ ~Finished(job[t]) /\ status'[job[t]] = "awaiting"
  <2>1. PersistLive(t, "requested", "awaiting", c.id)
    BY DEF Asks
  <2> QED
    BY <1>1, <1>7, <2>1, AtWork, PersistLiveEffect DEF ServiceInv, storeVars
<1>9. (\A r \in Runs : Created(r) => Created(r)') /\ (\A r \in Runs : Finished(r)' <=> Finished(r))
  BY <1>1, <1>8, AtWork DEF Created, Finished, TerminalStatuses
<1> QED
  BY <1>1, <1>2, <1>3, <1>4, <1>5, <1>6, <1>8, <1>9 DEF Handover, Alone, LoopsFor, Looping

\* The thread in the loop gives its run to the one open request.
LEMMA AsksInv ==
    ASSUME ServiceInv, NEW t \in Threads, NEW c \in Calls, Asks(t, c)
    PROVE  ActorsOK'
<1>0. Handover(t, c)
  BY AsksEffect
<1> PICK r \in Runs : r = job[t]
  BY <1>0, AtWork DEF Handover
<1>1. /\ r # NoRun /\ pc[t] # "idle" /\ c.id \in CallIds
      /\ \A u \in Threads : pc[u] # "idle" => job[u] \in Runs /\ job[u] # NoRun
  BY AtWork, <1>0 DEF Handover
<1>2. /\ \A q \in Runs, i \in CallIds : <<q, i>> # <<r, c.id>> =>
           asked'[<<q, i>>] = asked[<<q, i>>]
      /\ asked'[<<r, c.id>>] = [tool |-> c.tool, args |-> c.args]
      /\ Requested(<<r, c.id>>)'
  <2>1. asked \in [Keys -> [tool : Tools, args : Args] \cup {NoCall}] /\ <<r, c.id>> \in Keys
    BY <1>1 DEF ServiceInv, TypeOK, PermTypeOK, Keys
  <2>2. [tool |-> c.tool, args |-> c.args] # NoCall
    BY PermissionAssumption DEF Calls
  <2> QED
    BY <2>1, <2>2, <1>0 DEF Handover, Keys, Requested
<1>3. \A q \in Runs : \A u \in Threads : LoopsFor(u, q)' <=> LoopsFor(u, q) /\ u # t
  BY <1>0 DEF Handover, Alone, LoopsFor, Looping
<1>4. \A q \in Runs, i \in CallIds :
         Undecided(q, i)' => Undecided(q, i) \/ (q = r /\ i = c.id)
  BY <1>2, <1>0 DEF Handover, Undecided, Requested
<1>5. \A u \in Threads : ~LoopsFor(u, r)'
  BY <1>1, <1>3, <1>0 DEF Handover, ServiceInv, OneActor
<1>6. \A i \in CallIds : ~Undecided(r, i)
  BY <1>1, <1>0 DEF Handover, ServiceInv, OneActor
<1>7. OneActor'
  <2>1. \A u, v \in Threads, q \in Runs : LoopsFor(u, q)' /\ LoopsFor(v, q)' => u = v
    BY <1>3 DEF ServiceInv, OneActor
  <2>2. \A u \in Threads, q \in Runs, i \in CallIds : LoopsFor(u, q)' => ~Undecided(q, i)'
    BY <1>3, <1>4, <1>5 DEF ServiceInv, OneActor
  <2>3. \A q \in Runs, i, j \in CallIds : Undecided(q, i)' /\ Undecided(q, j)' => i = j
    BY <1>4, <1>6 DEF ServiceInv, OneActor
  <2>4. ASSUME NEW u \in Threads, NEW q \in Runs,
               pc'[u] \in Concluding, job'[u] = q, vstatus'[u] \in TerminalStatuses
        PROVE  (\A v \in Threads : ~LoopsFor(v, q)') /\ (\A i \in CallIds : ~Undecided(q, i)')
    <3>1. u # t /\ pc[u] \in Concluding /\ job[u] = q /\ vstatus[u] \in TerminalStatuses
      BY <2>4, <1>0 DEF Handover, Alone, Concluding
    <3>2. q # r
      BY <1>1, <3>1, <1>0 DEF Handover, ServiceInv, OneActor
    <3> QED
      BY <1>3, <1>4, <3>1, <3>2 DEF ServiceInv, OneActor
  <2> QED
    BY <2>1, <2>2, <2>3, <2>4 DEF OneActor
<1>8. ThreadsOK'
  <2>1. ThreadOK(t)'
    BY <1>1, <1>0, AtWork DEF Handover, ThreadOK, Concluding, Resuming
  <2>2. ASSUME NEW u \in Threads, u # t
        PROVE  ThreadOK(u)'
    <3>1. pc[u] = "prepared" => job[u] # r
      BY <2>2 DEF ServiceInv, ThreadsOK
    <3>2. ThreadOK(u)
      BY DEF ServiceInv, ThreadsOK
    <3> QED
      BY <1>1, <2>2, <3>1, <3>2, <1>0 DEF Handover, Alone, ThreadOK, Resuming, Created
  <2>3. \A u, v \in Threads : pc'[u] = "prepared" /\ job'[v] = job'[u] => v = u
    BY <1>0 DEF Handover, Alone, ServiceInv, ThreadsOK
  <2>4. /\ \A q \in loops' \cup signalled' : Created(q)'
        /\ (loops \cap signalled)' = {} /\ phase' # "down"
    BY <1>1, <1>0 DEF Handover, procVars, ServiceInv, ThreadsOK, TypeOK
  <2> QED
    BY <2>1, <2>2, <2>3, <2>4 DEF ThreadsOK
<1>9. CallsOK'
  <2>1. ASSUME NEW q \in Runs, NEW i \in CallIds
        PROVE  /\ Requested(<<q, i>>)' => /\ i \in calls'[q] /\ Created(q)'
                                         /\ rule'[asked'[<<q, i>>].tool] = "ask"
               /\ Undecided(q, i)' => effects'[<<q, i>>] = 0 /\ ScopeOf(q, i)' \notin grants'
               /\ effects'[<<q, i>>] > 0 => i \in calls'[q]
               /\ <<q, i>> \in overdue' => Requested(<<q, i>>)'
    <3>1. calls[q] \subseteq calls'[q] /\ c.id \in calls'[r] /\ Created(r)
      BY <1>1, <1>0, AtWork DEF Handover
    <3>2. CASE <<q, i>> = <<r, c.id>>
      BY <1>1, <1>2, <3>1, <3>2, <1>0 DEF Handover, ScopeOf
    <3>3. CASE <<q, i>> # <<r, c.id>>
      BY <1>1, <1>2, <3>1, <3>3, <1>0 DEF Handover, ServiceInv, CallsOK, Requested, Undecided, ScopeOf
    <3> QED
      BY <3>2, <3>3
  <2>2. ASSUME NEW u \in Threads, NEW q \in Runs, NEW i \in CallIds, job'[u] = q, vcall'[u] = i
        PROVE  /\ Resuming(u)' =>
                    /\ Requested(<<q, i>>)' /\ decision'[<<q, i>>] # "none"
                    /\ effects'[<<q, i>>] = 0
                    /\ ScopeOf(q, i)' \in grants' => decision'[<<q, i>>] = "allow_run_scope"
               /\ pc'[u] \in {"dispatch", "redispatch"} =>
                    /\ i \in calls'[q] /\ effects'[<<q, i>>] = 0
                    /\ Requested(<<q, i>>)' => decision'[<<q, i>>] \in AllowKinds
    <3>1. CASE u = t
      BY <3>1, <1>0 DEF Handover, Resuming
    <3>2. CASE u # t
      <4>1. pc'[u] = pc[u] /\ job[u] = q /\ vcall[u] = i /\ vstatus'[u] = vstatus[u]
        BY <2>2, <3>2, <1>0 DEF Handover, Alone
      <4>2. Resuming(u) \/ pc[u] \in {"dispatch", "redispatch"} => q # r
        BY <3>2, <4>1, <1>1, <1>0 DEF Handover, ServiceInv, OneActor, LoopsFor, Looping, Resuming
      <4> QED
        BY <1>2, <4>1, <4>2, <1>0 DEF Handover, ServiceInv, CallsOK, Requested, ScopeOf, Resuming
    <3> QED
      BY <3>1, <3>2
  <2>3. ExecutedOnce'
    <3> SUFFICES ASSUME NEW k \in Keys
                 PROVE  /\ effects[k] <= 1
                        /\ effects[k] = 1 /\ Requested(k)' => decision[k] \in AllowKinds
      BY <1>0 DEF Handover, ExecutedOnce
    <3>1. PICK q \in Runs, i \in CallIds : k = <<q, i>>
      BY DEF Keys
    <3> QED
      BY <1>2, <3>1, <1>0 DEF Handover, ServiceInv, CallsOK, ExecutedOnce, Requested
  <2> QED
    BY <2>1, <2>2, <2>3 DEF CallsOK
<1>10. SignalsOK'
  <2> SUFFICES ASSUME NEW q \in Runs, Open(q)', Finished(q)' \/ q \notin loops' \/ Releasing(q)'
               PROVE  q \in signalled'
    BY DEF SignalsOK
  <2>1. Open(q)
    BY <1>1, <1>3, <1>4, <1>0 DEF Handover, Open
  <2>2. Releasing(q)' => Releasing(q)
    BY <1>0 DEF Handover, Releasing, Alone
  <2> QED
    BY <2>1, <2>2, <1>0 DEF Handover, ServiceInv, SignalsOK, procVars
<1>11. LateOK'
  <2> SUFFICES ASSUME NEW q \in Runs, late[q] > 0
               PROVE  /\ Created(q)' /\ q \notin loops'
                      /\ \A u \in Threads : job'[u] = q => pc'[u] \notin Committed
                      /\ \A u \in Threads : LoopsFor(u, q)' => q \in signalled'
    BY <1>0 DEF Handover, ServiceInv, LateOK
  <2> QED
    BY <1>3, <1>0 DEF Handover, ServiceInv, LateOK, Alone, Committed, procVars
<1> QED
  BY <1>7, <1>8, <1>9, <1>10, <1>11 DEF ActorsOK

\* A tool runs: its thread was the only one that could run it, and is now past
\* every point from which another call begins without a look at the signal.
LEMMA DispatchInv ==
    ASSUME ServiceInv, NEW t \in Threads,
           Dispatch(t, "dispatch", "executed") \/ Dispatch(t, "redispatch", "reexecuted")
    PROVE  ActorsOK'
<1>1. pc[t] \in {"dispatch", "redispatch"} /\ pc[t] # "idle"
  BY DEF Dispatch
<1> PICK r \in Runs : r = job[t]
  BY <1>1, AtWork
<1> PICK i \in CallIds : i = vcall[t]
  BY <1>1 DEF ServiceInv, ThreadsOK, ThreadOK
<1>2. /\ PersistLive(t, "tool_started", "running", NoCallId)
      /\ effects' = [effects EXCEPT ![<<r, i>>] = @ + 1]
      /\ late' = [late EXCEPT ![r] = IF Finished(r) THEN @ + 1 ELSE @]
      /\ UNCHANGED <<permVars, procVars, job, vstatus, vcall, calls>>
      /\ Goto(t, "executed") \/ Goto(t, "reexecuted")
  BY DEF Dispatch
<1>3. /\ pc'[t] \in {"executed", "reexecuted"}
      /\ \A u \in Threads : u # t => pc'[u] = pc[u]
  BY <1>1, <1>2, AtWork, GotoAt
<1>4. /\ \A u \in Threads : u # t => emitted'[u] = emitted[u] /\ unsaved'[u] = unsaved[u]
      /\ Len(unsaved'[t]) <= emitted'[t]
      /\ \A q \in Runs : q # r => status'[q] = status[q]
      /\ \/ Finished(r) /\ status' = status
         \/ ~Finished(r) /\ status'[r] = "running"
  <2>1. /\ "tool_started" \in EventKinds /\ "running" \in RunStatuses
        /\ NoCallId \in PendingCalls
    BY DEF EventKinds, RunStatuses, PendingCalls
  <2> QED
    BY <1>1, <1>2, <2>1, AtWork, PersistLiveEffect DEF ServiceInv, storeVars
<1>5. /\ \A q \in Runs : Created(q) => Created(q)'
      /\ \A q \in Runs : Finished(q)' <=> Finished(q)
  BY <1>1, <1>4, AtWork DEF Created, Finished, TerminalStatuses
<1>6. \A q \in Runs : \A u \in Threads : LoopsFor(u, q)' <=> LoopsFor(u, q)
  BY <1>1, <1>2, <1>3 DEF LoopsFor, Looping
<1>7. \A q \in Runs, j \in CallIds :
         /\ Undecided(q, j)' <=> Undecided(q, j)
         /\ Requested(<<q, j>>)' <=> Requested(<<q, j>>)
  BY <1>2 DEF Undecided, Requested, permVars
<1>8. LoopsFor(t, r)
  BY <1>1 DEF LoopsFor, Looping
<1>9. /\ effects[<<r, i>>] = 0 /\ i \in calls[r]
      /\ Requested(<<r, i>>) => decision[<<r, i>>] \in AllowKinds
  BY <1>1 DEF ServiceInv, CallsOK
<1>10. /\ effects'[<<r, i>>] = 1
       /\ \A q \in Runs, j \in CallIds : <<q, j>> # <<r, i>> => effects'[<<q, j>>] = effects[<<q, j>>]
  <2>1. effects \in [Keys -> Nat] /\ <<r, i>> \in Keys
    BY DEF ServiceInv, TypeOK, Keys
  <2> QED
    BY <1>2, <1>9, <2>1 DEF Keys
<1>11. OneActor'
  <2>1. \A u \in Threads : pc'[u] \in Concluding <=> pc[u] \in Concluding
    BY <1>1, <1>3 DEF Concluding
  <2> QED
    BY <1>2, <1>6, <1>7, <2>1 DEF ServiceInv, OneActor
<1>12. ThreadsOK'
  <2>1. ThreadOK(t)'
    BY <1>1, <1>2, <1>3, <1>4, <1>5, AtWork DEF ThreadOK, Resuming, Concluding
  <2>2. ASSUME NEW u \in Threads, u # t
        PROVE  ThreadOK(u)'
    <3>1. pc[u] = "prepared" => job[u] # r
      BY <2>2 DEF ServiceInv, ThreadsOK
    <3>2. ThreadOK(u)
      BY DEF ServiceInv, ThreadsOK
    <3> QED
      BY <1>2, <1>3, <1>4, <1>5, <2>2, <3>1, <3>2 DEF ThreadOK, Resuming, Created
  <2>3. \A u, v \in Threads : pc'[u] = "prepared" /\ job'[v] = job'[u] => v = u
    BY <1>2, <1>3 DEF ServiceInv, ThreadsOK
  <2>4. /\ \A q \in loops' \cup signalled' : Created(q)'
        /\ (loops \cap signalled)' = {} /\ phase' # "down"
    BY <1>1, <1>2, <1>5 DEF procVars, ServiceInv, ThreadsOK, TypeOK
  <2> QED
    BY <2>1, <2>2, <2>3, <2>4 DEF ThreadsOK
<1>13. CallsOK'
  <2>1. ASSUME NEW q \in Runs, NEW j \in CallIds
        PROVE  /\ Requested(<<q, j>>)' => /\ j \in calls'[q] /\ Created(q)'
                                         /\ rule'[asked'[<<q, j>>].tool] = "ask"
               /\ Undecided(q, j)' => effects'[<<q, j>>] = 0 /\ ScopeOf(q, j)' \notin grants'
               /\ effects'[<<q, j>>] > 0 => j \in calls'[q]
               /\ <<q, j>> \in overdue' => Requested(<<q, j>>)'
    <3>1. Undecided(q, j) => q # r
      BY <1>8 DEF ServiceInv, OneActor
    <3>2. effects'[<<q, j>>] > 0 => j \in calls[q]
      BY <1>9, <1>10 DEF ServiceInv, CallsOK
    <3> QED
      BY <1>2, <1>5, <1>7, <1>10, <3>1, <3>2 DEF permVars, ServiceInv, CallsOK, ScopeOf
  <2>2. ASSUME NEW u \in Threads, NEW q \in Runs, NEW j \in CallIds, job'[u] = q, vcall'[u] = j
        PROVE  /\ Resuming(u)' =>
                    /\ Requested(<<q, j>>)' /\ decision'[<<q, j>>] # "none"
                    /\ effects'[<<q, j>>] = 0
                    /\ ScopeOf(q, j)' \in grants' => decision'[<<q, j>>] = "allow_run_scope"
               /\ pc'[u] \in {"dispatch", "redispatch"} =>
                    /\ j \in calls'[q] /\ effects'[<<q, j>>] = 0
                    /\ Requested(<<q, j>>)' => decision'[<<q, j>>] \in AllowKinds
    <3>1. CASE u = t
      BY <1>3, <3>1 DEF Resuming
    <3>2. CASE u # t
      <4>1. pc'[u] = pc[u] /\ job[u] = q /\ vcall[u] = j /\ vstatus'[u] = vstatus[u]
        BY <1>2, <1>3, <2>2, <3>2
      <4>2. Resuming(u) \/ pc[u] \in {"dispatch", "redispatch"} => q # r
        BY <1>8, <3>2, <4>1 DEF ServiceInv, OneActor, LoopsFor, Looping, Resuming
      <4> QED
        BY <1>2, <1>7, <1>10, <4>1, <4>2 DEF ServiceInv, CallsOK, ScopeOf, Resuming, permVars
    <3> QED
      BY <3>1, <3>2
  <2>3. ExecutedOnce'
    <3> SUFFICES ASSUME NEW q \in Runs, NEW j \in CallIds
                 PROVE  /\ effects'[<<q, j>>] <= 1
                        /\ effects'[<<q, j>>] = 1 /\ Requested(<<q, j>>)' =>
                             decision'[<<q, j>>] \in AllowKinds
      BY DEF ExecutedOnce, Keys
    <3>1. <<q, j>> \in Keys
      BY DEF Keys
    <3>2. /\ effects[<<q, j>>] <= 1
          /\ effects[<<q, j>>] = 1 /\ Requested(<<q, j>>) => decision[<<q, j>>] \in AllowKinds
      BY <3>1 DEF ServiceInv, CallsOK, ExecutedOnce
    <3>3. decision' = decision
      BY <1>2 DEF permVars
    <3> QED
      BY <1>7, <1>9, <1>10, <3>2, <3>3
  <2> QED
    BY <2>1, <2>2, <2>3 DEF CallsOK
<1>14. SignalsOK'
  <2> SUFFICES ASSUME NEW q \in Runs, Open(q)', Finished(q)' \/ q \notin loops' \/ Releasing(q)'
               PROVE  q \in signalled'
    BY DEF SignalsOK
  <2>1. Open(q)
    BY <1>6, <1>7 DEF Open
  <2>2. Releasing(q)' => Releasing(q)
    BY <1>2, <1>3 DEF Releasing
  <2> QED
    BY <1>2, <1>5, <2>1, <2>2 DEF ServiceInv, SignalsOK, procVars
<1>15. LateOK'
  <2>1. late[r] = 0
    <3>1. late[r] \in Nat
      BY DEF ServiceInv, TypeOK
    <3> QED
      BY <1>1, <3>1 DEF ServiceInv, LateOK, Committed
  <2>2. /\ late'[r] <= 1 /\ (late'[r] > 0 => Finished(r))
        /\ \A q \in Runs : q # r => late'[q] = late[q]
    BY <1>2, <2>1 DEF ServiceInv, TypeOK
  <2>3. ASSUME Finished(r)
        PROVE  /\ Created(r)' /\ r \notin loops' /\ r \in signalled'
               /\ \A u \in Threads : job'[u] = r => pc'[u] \notin Committed
    <3>1. r \in signalled
      BY <1>8, <2>3 DEF ServiceInv, SignalsOK, Open
    <3>2. r \notin loops
      BY <3>1 DEF ServiceInv, ThreadsOK
    <3>3. ASSUME NEW u \in Threads, job'[u] = r
          PROVE  pc'[u] \notin Committed
      <4>1. CASE u = t
        BY <1>3, <4>1 DEF Committed
      <4>2. CASE u # t
        BY <1>2, <1>3, <1>8, <3>3, <4>2 DEF ServiceInv, OneActor, LoopsFor, Looping, Committed
      <4> QED
        BY <4>1, <4>2
    <3> QED
      BY <1>1, <1>2, <1>5, <3>1, <3>2, <3>3, AtWork DEF procVars
  <2>4. ASSUME NEW q \in Runs, q # r, late[q] > 0
        PROVE  /\ Created(q)' /\ q \notin loops'
               /\ \A u \in Threads : job'[u] = q => pc'[u] \notin Committed
               /\ \A u \in Threads : LoopsFor(u, q)' => q \in signalled'
    <3>1. \A u \in Threads : job'[u] = q => u # t
      BY <1>2, <2>4
    <3> QED
      BY <1>2, <1>3, <1>5, <1>6, <2>4, <3>1 DEF ServiceInv, LateOK, procVars
  <2> QED
    BY <2>2, <2>3, <2>4 DEF ServiceInv, LateOK
<1> QED
  BY <1>11, <1>12, <1>13, <1>14, <1>15 DEF ActorsOK

\* A thread lets go of its run: whoever may still act for it is signalled.
LEMMA ReleaseInv ==
    ASSUME ServiceInv, NEW t \in Threads, Release(t)
    PROVE  ActorsOK'
<1>1. pc[t] = "release" /\ pc[t] # "idle" /\ Leave(t)
  BY DEF Release
<1> PICK r \in Runs : r = job[t]
  BY <1>1, AtWork
<1>2. /\ Alone(t) /\ pc'[t] = "idle" /\ job'[t] = NoRun /\ r # NoRun
      /\ emitted'[t] = 0 /\ unsaved'[t] = << >> /\ vstatus'[t] = "none"
  BY <1>1, LeaveAt, AtWork
<1>3. UNCHANGED <<storeVars, permVars, signalled, phase, pastVars>>
  BY DEF Release
<1>4. loops' \subseteq loops /\ \A q \in Runs : q \in loops /\ q \notin loops' => Releasing(q)
  BY <1>1 DEF Release, Releasing
<1>5. \A q \in Runs : \A u \in Threads : LoopsFor(u, q)' <=> LoopsFor(u, q)
  BY <1>1, <1>2 DEF Alone, LoopsFor, Looping
<1>6. \A q \in Runs, j \in CallIds :
         /\ Undecided(q, j)' <=> Undecided(q, j)
         /\ Requested(<<q, j>>)' <=> Requested(<<q, j>>)
         /\ ScopeOf(q, j)' = ScopeOf(q, j)
  BY <1>3 DEF Undecided, Requested, permVars, ScopeOf
<1>7. OneActor'
  <2>1. \A u \in Threads : pc'[u] \in Concluding =>
           pc[u] \in Concluding /\ job'[u] = job[u] /\ vstatus'[u] = vstatus[u]
    BY <1>2 DEF Concluding, Alone
  <2> QED
    BY <1>5, <1>6, <2>1 DEF ServiceInv, OneActor
<1>8. ThreadsOK'
  <2>1. ASSUME NEW u \in Threads
        PROVE  ThreadOK(u)'
    <3>1. CASE u = t
      BY <1>2, <3>1 DEF ThreadOK, Resuming, Concluding
    <3>2. CASE u # t
      BY <1>2, <1>3, <3>2 DEF Alone, storeVars, ServiceInv, ThreadsOK, ThreadOK, Resuming, Created
    <3> QED
      BY <3>1, <3>2
  <2>2. \A u, v \in Threads : pc'[u] = "prepared" /\ job'[v] = job'[u] => v = u
    <3>1. \A u \in Threads : pc[u] = "prepared" => job[u] # NoRun
      BY RunServiceAssumption DEF ServiceInv, ThreadsOK, ThreadOK
    <3> QED
      BY <1>2, <3>1 DEF Alone, ServiceInv, ThreadsOK
  <2>3. /\ \A q \in loops' \cup signalled' : Created(q)'
        /\ (loops \cap signalled)' = {} /\ phase' # "down"
    BY <1>1, <1>3, <1>4 DEF ServiceInv, ThreadsOK, storeVars, Created
  <2> QED
    BY <2>1, <2>2, <2>3 DEF ThreadsOK
<1>9. CallsOK'
  <2>1. \A u \in Threads, q \in Runs :
           /\ (Resuming(u)' /\ job'[u] = q) => (Resuming(u) /\ job[u] = q /\ vcall'[u] = vcall[u])
           /\ pc'[u] \in {"dispatch", "redispatch"} /\ job'[u] = q =>
                 pc'[u] = pc[u] /\ job[u] = q /\ vcall'[u] = vcall[u]
    BY <1>2 DEF Alone, Resuming
  <2>2. ExecutedOnce'
    BY <1>3 DEF ServiceInv, CallsOK, ExecutedOnce, Requested, permVars, pastVars
  <2>3. UNCHANGED <<rule, asked, decision, grants, overdue, calls, effects, status>>
    BY <1>3 DEF storeVars, permVars, pastVars
  <2> QED
    BY <1>6, <2>1, <2>2, <2>3 DEF ServiceInv, CallsOK, Created
<1>10. SignalsOK'
  <2> SUFFICES ASSUME NEW q \in Runs, Open(q)', Finished(q)' \/ q \notin loops' \/ Releasing(q)'
               PROVE  q \in signalled'
    BY DEF SignalsOK
  <2>1. Open(q)
    BY <1>5, <1>6 DEF Open
  <2>2. Releasing(q)' => Releasing(q)
    BY <1>2 DEF Releasing, Alone
  <2>3. Finished(q)' <=> Finished(q)
    BY <1>3 DEF Finished, storeVars
  <2> QED
    BY <1>3, <1>4, <2>1, <2>2, <2>3 DEF ServiceInv, SignalsOK
<1>11. LateOK'
  <2> SUFFICES ASSUME NEW q \in Runs, late[q] > 0
               PROVE  /\ Created(q)' /\ q \notin loops'
                      /\ \A u \in Threads : job'[u] = q => pc'[u] \notin Committed
                      /\ \A u \in Threads : LoopsFor(u, q)' => q \in signalled'
    BY <1>3 DEF ServiceInv, LateOK, pastVars
  <2> QED
    BY <1>2, <1>3, <1>4, <1>5 DEF ServiceInv, LateOK, Alone, Committed, storeVars, Created
<1> QED
  BY <1>7, <1>8, <1>9, <1>10, <1>11 DEF ActorsOK

\* A new run: nobody works for it, nothing was asked or executed for it.
LEMMA PrepareInv ==
    ASSUME ServiceInv, NEW t \in Threads, NEW r \in Runs, Prepare(t, r)
    PROVE  ActorsOK'
<1>1. /\ phase # "down" /\ pc[t] = "idle" /\ ~Created(r)
      /\ status' = [status EXCEPT ![r] = "queued"]
      /\ loops' = loops \cup {r}
      /\ Goto(t, "prepared") /\ job' = [job EXCEPT ![t] = r]
      /\ UNCHANGED <<permVars, signalled, phase, vstatus, vcall, resultVars, pastVars>>
  BY DEF Prepare, StoreCreate
<1>2. /\ pc'[t] = "prepared" /\ job'[t] = r
      /\ \A u \in Threads : u # t => pc'[u] = pc[u] /\ job'[u] = job[u]
  BY <1>1, GotoAt DEF ServiceInv, TypeOK
<1>3. /\ status'[r] = "queued" /\ \A q \in Runs : q # r => status'[q] = status[q]
      /\ \A q \in Runs : Created(q) => Created(q)' /\ q # r
      /\ Created(r)' /\ ~Finished(r)'
  BY <1>1 DEF ServiceInv, TypeOK, Created, Finished, TerminalStatuses
<1>4. \A u \in Threads : job[u] # r
  BY <1>1, RunServiceAssumption DEF ServiceInv, ThreadsOK, ThreadOK
<1>5. r \notin loops /\ r \notin signalled /\ \A i \in CallIds : ~Requested(<<r, i>>)
  BY <1>1 DEF ServiceInv, ThreadsOK, CallsOK
<1>6. \A u \in Threads, q \in Runs : LoopsFor(u, q)' <=> LoopsFor(u, q) \/ (u = t /\ q = r)
  BY <1>1, <1>2 DEF LoopsFor, Looping
<1>7. \A q \in Runs, j \in CallIds :
         /\ Undecided(q, j)' <=> Undecided(q, j)
         /\ Requested(<<q, j>>)' <=> Requested(<<q, j>>)
         /\ ScopeOf(q, j)' = ScopeOf(q, j)
  BY <1>1 DEF Undecided, Requested, permVars, ScopeOf
<1>8. OneActor'
  <2>1. \A u \in Threads : pc'[u] \in Concluding =>
           pc[u] \in Concluding /\ job'[u] = job[u] /\ vstatus'[u] = vstatus[u] /\ job[u] # r
    BY <1>1, <1>2, <1>4 DEF Concluding
  <2>2. \A u \in Threads : ~LoopsFor(u, r)
    BY <1>4 DEF LoopsFor
  <2>3. \A i \in CallIds : ~Undecided(r, i)
    BY <1>5 DEF Undecided
  <2>4. \A u, v \in Threads, q \in Runs : LoopsFor(u, q)' /\ LoopsFor(v, q)' => u = v
    BY <1>6, <2>2 DEF ServiceInv, OneActor
  <2>5. \A u \in Threads, q \in Runs, i \in CallIds : LoopsFor(u, q)' => ~Undecided(q, i)'
    BY <1>6, <1>7, <2>3 DEF ServiceInv, OneActor
  <2>6. \A q \in Runs, i, j \in CallIds : Undecided(q, i)' /\ Undecided(q, j)' => i = j
    BY <1>7 DEF ServiceInv, OneActor
  <2>7. ASSUME NEW u \in Threads, NEW q \in Runs,
               pc'[u] \in Concluding, job'[u] = q, vstatus'[u] \in TerminalStatuses
        PROVE  (\A v \in Threads : ~LoopsFor(v, q)') /\ (\A i \in CallIds : ~Undecided(q, i)')
    <3>1. q # r
      BY <2>1, <2>7
    <3> QED
      BY <1>6, <1>7, <2>1, <2>7, <3>1 DEF ServiceInv, OneActor
  <2> QED
    BY <2>4, <2>5, <2>6, <2>7 DEF OneActor
<1>9. ThreadsOK'
  <2>1. ThreadOK(t)'
    BY <1>1, <1>2, <1>3 DEF ServiceInv, ThreadsOK, ThreadOK, Resuming, Concluding, resultVars
  <2>2. ASSUME NEW u \in Threads, u # t
        PROVE  ThreadOK(u)'
    <3>1. ThreadOK(u)
      BY DEF ServiceInv, ThreadsOK
    <3> QED
      BY <1>1, <1>2, <1>3, <1>4, <2>2, <3>1 DEF ThreadOK, Resuming, Created, resultVars
  <2>3. \A u, v \in Threads : pc'[u] = "prepared" /\ job'[v] = job'[u] => v = u
    BY <1>2, <1>4 DEF ServiceInv, ThreadsOK
  <2>4. /\ \A q \in loops' \cup signalled' : Created(q)'
        /\ (loops \cap signalled)' = {} /\ phase' # "down"
    BY <1>1, <1>3, <1>5 DEF ServiceInv, ThreadsOK, TypeOK
  <2> QED
    BY <2>1, <2>2, <2>3, <2>4 DEF ThreadsOK
<1>10. CallsOK'
  <2>1. \A u \in Threads, q \in Runs :
           /\ (Resuming(u)' /\ job'[u] = q) => (Resuming(u) /\ job[u] = q /\ vcall'[u] = vcall[u])
           /\ pc'[u] \in {"dispatch", "redispatch"} /\ job'[u] = q =>
                 pc'[u] = pc[u] /\ job[u] = q /\ vcall'[u] = vcall[u]
    BY <1>1, <1>2 DEF Resuming
  <2>2. UNCHANGED <<rule, asked, decision, grants, overdue, calls, effects>>
    BY <1>1 DEF permVars, pastVars
  <2>3. ExecutedOnce'
    BY <2>2 DEF ServiceInv, CallsOK, ExecutedOnce, Requested
  <2> QED
    BY <1>3, <1>7, <2>1, <2>2, <2>3 DEF ServiceInv, CallsOK
<1>11. SignalsOK'
  <2> SUFFICES ASSUME NEW q \in Runs, Open(q)', Finished(q)' \/ q \notin loops' \/ Releasing(q)'
               PROVE  q \in signalled'
    BY DEF SignalsOK
  <2>1. Releasing(q)' => Releasing(q) /\ q # r
    BY <1>1, <1>2, <1>4 DEF Releasing
  <2>2. q # r
    BY <1>1, <1>3, <2>1
  <2>3. Open(q)
    BY <1>6, <1>7, <2>2 DEF Open
  <2>4. Finished(q)' <=> Finished(q)
    BY <1>3, <2>2 DEF Finished
  <2> QED
    BY <1>1, <2>1, <2>2, <2>3, <2>4 DEF ServiceInv, SignalsOK
<1>12. LateOK'
  <2> SUFFICES ASSUME NEW q \in Runs, late[q] > 0
               PROVE  /\ Created(q)' /\ q \notin loops'
                      /\ \A u \in Threads : job'[u] = q => pc'[u] \notin Committed
                      /\ \A u \in Threads : LoopsFor(u, q)' => q \in signalled'
    BY <1>1 DEF ServiceInv, LateOK, pastVars
  <2>1. q # r
    BY <1>1 DEF ServiceInv, LateOK
  <2> QED
    BY <1>1, <1>2, <1>3, <1>6, <2>1 DEF ServiceInv, LateOK
<1> QED
  BY <1>8, <1>9, <1>10, <1>11, <1>12 DEF ActorsOK

\* An answer: the thread that brings it takes the run over from the request.
LEMMA RespondInv ==
    ASSUME ServiceInv, NEW t \in Threads, NEW r \in Runs, NEW i \in CallIds, NEW kind \in Decisions,
           Respond(t, <<r, i>>, kind)
    PROVE  ActorsOK'
<1> DEFINE final == IF <<r, i>> \in overdue THEN "expired" ELSE kind
<1>1. /\ phase # "down" /\ pc[t] = "idle" /\ status[r] = "awaiting" /\ r \in loops
      /\ Undecided(r, i)
      /\ decision' = [decision EXCEPT ![<<r, i>>] = final]
      /\ grants' = IF final = "allow_run_scope" THEN grants \cup {ScopeOf(r, i)} ELSE grants
      /\ Goto(t, "admission") /\ job' = [job EXCEPT ![t] = r] /\ Hold(t, "awaiting", i)
      /\ UNCHANGED <<rule, asked, overdue, storeVars, loops, signalled, phase, resultVars, pastVars>>
  BY DEF Respond, Resolve, Undecided, ScopeOf
<1>2. final \in Decisions /\ final # "none"
  BY DEF Decisions, AllowKinds
<1>3. /\ pc'[t] = "admission" /\ job'[t] = r /\ vstatus'[t] = "awaiting" /\ vcall'[t] = i
      /\ \A u \in Threads : u # t => pc'[u] = pc[u] /\ job'[u] = job[u]
                                     /\ vstatus'[u] = vstatus[u] /\ vcall'[u] = vcall[u]
  BY <1>1, GotoAt, HoldAt DEF ServiceInv, TypeOK
<1>4. /\ decision'[<<r, i>>] = final
      /\ \A q \in Runs, j \in CallIds :
           <<q, j>> # <<r, i>> => decision'[<<q, j>>] = decision[<<q, j>>]
  <2>1. decision \in [Keys -> Decisions \cup {"none"}] /\ <<r, i>> \in Keys
    BY DEF ServiceInv, TypeOK, PermTypeOK, Keys
  <2> QED
    BY <1>1, <2>1 DEF Keys
<1>5. Created(r) /\ ~Finished(r)
  BY <1>1 DEF Created, Finished, TerminalStatuses
<1>6. \A u \in Threads, q \in Runs : LoopsFor(u, q)' <=> LoopsFor(u, q) \/ (u = t /\ q = r)
  BY <1>1, <1>3 DEF LoopsFor, Looping
<1>7. \A q \in Runs, j \in CallIds : Undecided(q, j)' <=> Undecided(q, j) /\ <<q, j>> # <<r, i>>
  BY <1>1, <1>2, <1>4 DEF Undecided, Requested
<1>8. \A q \in Runs, j \in CallIds :
         (Requested(<<q, j>>)' <=> Requested(<<q, j>>)) /\ ScopeOf(q, j)' = ScopeOf(q, j)
  BY <1>1 DEF Requested, ScopeOf
<1>9. \A u \in Threads : ~LoopsFor(u, r)
  BY <1>1 DEF ServiceInv, OneActor
<1>10. \A j \in CallIds : Undecided(r, j) => j = i
  BY <1>1 DEF ServiceInv, OneActor
<1>11. \A u \in Threads : pc[u] = "prepared" => job[u] # r
  BY <1>9 DEF LoopsFor, Looping
<1>12. OneActor'
  <2>1. \A u, v \in Threads, q \in Runs : LoopsFor(u, q)' /\ LoopsFor(v, q)' => u = v
    BY <1>6, <1>9 DEF ServiceInv, OneActor
  <2>2. \A u \in Threads, q \in Runs, j \in CallIds : LoopsFor(u, q)' => ~Undecided(q, j)'
    BY <1>6, <1>7, <1>10 DEF ServiceInv, OneActor
  <2>3. \A q \in Runs, j, l \in CallIds : Undecided(q, j)' /\ Undecided(q, l)' => j = l
    BY <1>7 DEF ServiceInv, OneActor
  <2>4. ASSUME NEW u \in Threads, NEW q \in Runs,
               pc'[u] \in Concluding, job'[u] = q, vstatus'[u] \in TerminalStatuses
        PROVE  (\A v \in Threads : ~LoopsFor(v, q)') /\ (\A j \in CallIds : ~Undecided(q, j)')
    <3>1. u # t /\ pc[u] \in Concluding /\ job[u] = q /\ vstatus[u] \in TerminalStatuses
      BY <1>3, <2>4 DEF Concluding
    <3>2. q # r
      BY <1>1, <3>1 DEF ServiceInv, OneActor
    <3> QED
      BY <1>6, <1>7, <3>1, <3>2 DEF ServiceInv, OneActor
  <2> QED
    BY <2>1, <2>2, <2>3, <2>4 DEF OneActor
<1>13. ThreadsOK'
  <2>1. ThreadOK(t)'
    BY <1>1, <1>3, <1>5 DEF ServiceInv, ThreadsOK, ThreadOK, Resuming, Concluding, resultVars,
      storeVars, Created
  <2>2. ASSUME NEW u \in Threads, u # t
        PROVE  ThreadOK(u)'
    <3>1. ThreadOK(u)
      BY DEF ServiceInv, ThreadsOK
    <3> QED
      BY <1>1, <1>3, <2>2, <3>1 DEF ThreadOK, Resuming, Created, resultVars, storeVars
  <2>3. \A u, v \in Threads : pc'[u] = "prepared" /\ job'[v] = job'[u] => v = u
    BY <1>3, <1>11 DEF ServiceInv, ThreadsOK
  <2>4. /\ \A q \in loops' \cup signalled' : Created(q)'
        /\ (loops \cap signalled)' = {} /\ phase' # "down"
    BY <1>1 DEF ServiceInv, ThreadsOK, storeVars, Created
  <2> QED
    BY <2>1, <2>2, <2>3, <2>4 DEF ThreadsOK
<1>14. CallsOK'
  <2>1. \A q \in Runs, j \in CallIds : q # r => (ScopeOf(q, j) \in grants' <=> ScopeOf(q, j) \in grants)
    BY <1>1 DEF ScopeOf
  <2>2. ASSUME NEW q \in Runs, NEW j \in CallIds
        PROVE  /\ Requested(<<q, j>>)' => /\ j \in calls'[q] /\ Created(q)'
                                         /\ rule'[asked'[<<q, j>>].tool] = "ask"
               /\ Undecided(q, j)' => effects'[<<q, j>>] = 0 /\ ScopeOf(q, j)' \notin grants'
               /\ effects'[<<q, j>>] > 0 => j \in calls'[q]
               /\ <<q, j>> \in overdue' => Requested(<<q, j>>)'
    <3>1. Undecided(q, j)' => q # r
      BY <1>7, <1>10
    <3> QED
      BY <1>1, <1>7, <1>8, <2>1, <3>1 DEF ServiceInv, CallsOK, pastVars, storeVars, Created
  <2>3. ASSUME NEW u \in Threads, NEW q \in Runs, NEW j \in CallIds, job'[u] = q, vcall'[u] = j
        PROVE  /\ Resuming(u)' =>
                    /\ Requested(<<q, j>>)' /\ decision'[<<q, j>>] # "none"
                    /\ effects'[<<q, j>>] = 0
                    /\ ScopeOf(q, j)' \in grants' => decision'[<<q, j>>] = "allow_run_scope"
               /\ pc'[u] \in {"dispatch", "redispatch"} =>
                    /\ j \in calls'[q] /\ effects'[<<q, j>>] = 0
                    /\ Requested(<<q, j>>)' => decision'[<<q, j>>] \in AllowKinds
    <3>1. CASE u = t
      <4>1. q = r /\ j = i /\ pc'[u] = "admission"
        BY <1>3, <2>3, <3>1
      <4>2. Requested(<<r, i>>) /\ effects[<<r, i>>] = 0 /\ ScopeOf(r, i) \notin grants
        BY <1>1 DEF ServiceInv, CallsOK, Undecided
      <4> QED
        BY <1>1, <1>2, <1>4, <1>8, <4>1, <4>2 DEF pastVars
    <3>2. CASE u # t
      <4>1. pc'[u] = pc[u] /\ job[u] = q /\ vcall[u] = j /\ vstatus'[u] = vstatus[u]
        BY <1>3, <2>3, <3>2
      <4>2. Resuming(u) \/ pc[u] \in {"dispatch", "redispatch"} => q # r
        BY <1>9, <4>1 DEF LoopsFor, Looping, Resuming
      <4>3. q # r => decision'[<<q, j>>] = decision[<<q, j>>]
        BY <1>4
      <4> QED
        BY <1>1, <1>8, <2>1, <4>1, <4>2, <4>3 DEF ServiceInv, CallsOK, Resuming, pastVars
    <3> QED
      BY <3>1, <3>2
  <2>4. ExecutedOnce'
    <3> SUFFICES ASSUME NEW q \in Runs, NEW j \in CallIds
                 PROVE  /\ effects'[<<q, j>>] <= 1
                        /\ effects'[<<q, j>>] = 1 /\ Requested(<<q, j>>)' =>
                             decision'[<<q, j>>] \in AllowKinds
      BY DEF ExecutedOnce, Keys
    <3>1. <<q, j>> \in Keys
      BY DEF Keys
    <3>2. effects[<<r, i>>] = 0
      BY <1>1 DEF ServiceInv, CallsOK
    <3> QED
      BY <1>1, <1>4, <1>8, <3>1, <3>2 DEF ServiceInv, CallsOK, ExecutedOnce, pastVars
  <2> QED
    BY <2>2, <2>3, <2>4 DEF CallsOK
<1>15. SignalsOK'
  <2> SUFFICES ASSUME NEW q \in Runs, Open(q)', Finished(q)' \/ q \notin loops' \/ Releasing(q)'
               PROVE  q \in signalled'
    BY DEF SignalsOK
  <2>1. Open(q)
    BY <1>1, <1>6, <1>7 DEF Open
  <2>2. Releasing(q)' => Releasing(q)
    BY <1>3 DEF Releasing
  <2> QED
    BY <1>1, <2>1, <2>2 DEF ServiceInv, SignalsOK, storeVars, Finished
<1>16. LateOK'
  <2> SUFFICES ASSUME NEW q \in Runs, late[q] > 0
               PROVE  /\ Created(q)' /\ q \notin loops'
                      /\ \A u \in Threads : job'[u] = q => pc'[u] \notin Committed
                      /\ \A u \in Threads : LoopsFor(u, q)' => q \in signalled'
    BY <1>1 DEF ServiceInv, LateOK, pastVars
  <2>1. q # r
    BY <1>1 DEF ServiceInv, LateOK
  <2> QED
    BY <1>1, <1>3, <1>6, <2>1 DEF ServiceInv, LateOK, storeVars, Created
<1> QED
  BY <1>12, <1>13, <1>14, <1>15, <1>16 DEF ActorsOK

\* A step that no thread takes and that asks and answers nothing: close, the
\* clock, a spent timer, a cancel, and the sweep and the start after a crash.
Outside ==
    /\ UNCHANGED <<rule, asked, decision, grants, threadVars, calls, effects, late>>
    /\ \A k \in overdue' : k \in overdue \/ Requested(k)
    /\ phase' = "down" => phase = "down"
    /\ loops' \subseteq loops /\ signalled \subseteq signalled'
    /\ \A r \in signalled' : r \in signalled \/ r \in loops \ loops'
    /\ \A r \in Runs : Created(r) => Created(r)'
    /\ \A r \in Runs : status'[r] = status[r] \/ Finished(r)'
    /\ \A r \in Runs : (Finished(r)' /\ ~Finished(r)) \/ (r \in loops /\ r \notin loops') =>
         r \in signalled' \/ r \notin loops

\* Such a step leaves the actors of a run as they are, and warns those of a run it
\* finishes.
LEMMA OutsideInv ==
    ASSUME ServiceInv, Outside
    PROVE  ActorsOK'
<1>1. \A u \in Threads, q \in Runs : LoopsFor(u, q)' <=> LoopsFor(u, q)
  BY DEF Outside, threadVars, LoopsFor
<1>2. \A q \in Runs, j \in CallIds :
         /\ Undecided(q, j)' <=> Undecided(q, j)
         /\ Requested(<<q, j>>)' <=> Requested(<<q, j>>)
         /\ ScopeOf(q, j)' = ScopeOf(q, j)
  BY DEF Outside, Undecided, Requested, ScopeOf
<1>3. OneActor'
  BY <1>1, <1>2 DEF Outside, threadVars, ServiceInv, OneActor
<1>4. ThreadsOK'
  <2>1. ASSUME NEW u \in Threads
        PROVE  ThreadOK(u)'
    <3>1. ThreadOK(u)
      BY DEF ServiceInv, ThreadsOK
    <3> QED
      BY <3>1 DEF Outside, threadVars, resultVars, ThreadOK, Resuming, Finished
  <2>2. /\ \A q \in loops' \cup signalled' : Created(q)'
        /\ (loops \cap signalled)' = {}
    BY DEF Outside, ServiceInv, ThreadsOK, TypeOK
  <2> QED
    BY <1>2, <2>1, <2>2 DEF Outside, threadVars, ServiceInv, ThreadsOK
<1>5. CallsOK'
  <2>1. ExecutedOnce'
    BY DEF Outside, ServiceInv, CallsOK, ExecutedOnce, Requested
  <2>2. UNCHANGED <<rule, asked, decision, grants, calls, effects, pc, job, vstatus, vcall>>
    BY DEF Outside, threadVars
  <2>3. \A u \in Threads : Resuming(u)' <=> Resuming(u)
    BY <2>2 DEF Resuming
  <2>4. \A q \in Runs, j \in CallIds : <<q, j>> \in overdue' => Requested(<<q, j>>)'
    BY <1>2 DEF Outside, ServiceInv, CallsOK
  <2>5. \A q \in Runs : Created(q) => Created(q)'
    BY DEF Outside
  <2> QED
    BY <1>2, <2>1, <2>2, <2>3, <2>4, <2>5 DEF ServiceInv, CallsOK
<1>6. SignalsOK'
  <2> SUFFICES ASSUME NEW q \in Runs, Open(q)', Finished(q)' \/ q \notin loops' \/ Releasing(q)'
               PROVE  q \in signalled'
    BY DEF SignalsOK
  <2>1. Open(q)
    BY <1>1, <1>2 DEF Open
  <2>2. Releasing(q)' => Releasing(q)
    BY DEF Releasing, Outside, threadVars
  <2> QED
    BY <2>1, <2>2 DEF ServiceInv, SignalsOK, Outside
<1>7. LateOK'
  BY <1>1 DEF ServiceInv, LateOK, Outside, threadVars
<1> QED
  BY <1>3, <1>4, <1>5, <1>6, <1>7 DEF ActorsOK

\* A cancel, and the sweep after a crash, finish a run from outside.
LEMMA OutsideSteps ==
    ASSUME ServiceInv,
           \/ \E r \in Runs : Cancel(r) \/ Sweep(r)
           \/ \E k \in Keys : Lapse(k)
           \/ \E t \in Threads, k \in Keys : FireTimer(t, k) /\ ~CanRespond(k)
           \/ Close \/ Restart \/ UNCHANGED vars
    PROVE  Outside
<1>1. ASSUME NEW r \in Runs, Live(r), StoreAppend(r, "cancelled", "cancelled", pending[r])
      PROVE  /\ \A q \in Runs : Created(q) => Created(q)'
             /\ \A q \in Runs : status'[q] = status[q] \/ Finished(q)'
             /\ \A q \in Runs : Finished(q)' /\ ~Finished(q) => q = r
  BY <1>1 DEF StoreAppend, ServiceInv, TypeOK, Created, Finished, TerminalStatuses
<1>2. ASSUME NEW r \in Runs, Cancel(r)
      PROVE  Outside
  BY <1>1, <1>2 DEF Cancel, Outside, permVars, pastVars
<1>3. ASSUME NEW r \in Runs, Sweep(r)
      PROVE  Outside
  <2>1. loops = {}
    BY <1>3 DEF Sweep, ServiceInv, ThreadsOK
  <2>2. /\ \A q \in Runs : Created(q) => Created(q)'
        /\ \A q \in Runs : status'[q] = status[q] \/ Finished(q)'
    BY <1>3
    DEF Sweep, StoreInterrupt, StoreAppend, ServiceInv, TypeOK, Created, Finished, TerminalStatuses
  <2> QED
    BY <1>3, <2>1, <2>2 DEF Sweep, Outside, permVars, procVars, pastVars
<1>4. ASSUME NEW k \in Keys, Lapse(k)
      PROVE  Outside
  BY <1>4 DEF Lapse, DeadlinePasses, Outside, procVars, storeVars, pastVars, Created, Finished
<1>5. ASSUME NEW t \in Threads, NEW k \in Keys, FireTimer(t, k), ~CanRespond(k)
      PROVE  Outside
  BY <1>5
  DEF FireTimer, CanRespond, Respond, Resolve, Outside, storeVars, permVars, pastVars, Created, Finished
<1>6. CASE Close
  BY <1>6 DEF Close, Outside, storeVars, permVars, pastVars, Created, Finished
<1>7. CASE Restart
  BY <1>7 DEF Restart, Outside, storeVars, permVars, pastVars, Created, Finished
<1>8. CASE UNCHANGED vars
  BY <1>8 DEF vars, procVars, Outside, storeVars, permVars, pastVars, Created, Finished
<1> QED
  BY <1>2, <1>3, <1>4, <1>5, <1>6, <1>7, <1>8

\* The process dies: what was executed stays executed.
LEMMA CrashInv ==
    ASSUME ServiceInv, Crash
    PROVE  ActorsOK'
<1>1. /\ \A t \in Threads : pc'[t] = "idle" /\ job'[t] = NoRun /\ emitted'[t] = 0
                             /\ unsaved'[t] = << >>
      /\ \A k \in Keys : ~Requested(k)'
      /\ loops' = {} /\ signalled' = {} /\ overdue' = {}
      /\ UNCHANGED <<storeVars, calls, effects, late>>
  BY DEF Crash, Requested, pastVars
<1>2. /\ \A t \in Threads, r \in Runs : ~LoopsFor(t, r)'
      /\ \A r \in Runs, i \in CallIds : ~Undecided(r, i)' /\ ~Requested(<<r, i>>)'
      /\ \A t \in Threads : ~Resuming(t)'
  BY <1>1 DEF LoopsFor, Looping, Undecided, Resuming, Keys
<1>3. ThreadsOK'
  <2>1. ASSUME NEW t \in Threads
        PROVE  ThreadOK(t)'
    BY <1>1, <1>2 DEF ThreadOK, Concluding
  <2> QED
    BY <1>1, <1>2, <2>1 DEF ThreadsOK
<1>4. OneActor'
  BY <1>1, <1>2 DEF OneActor, Concluding
<1>5. CallsOK'
  <2>1. ExecutedOnce'
    BY <1>1 DEF ServiceInv, CallsOK, ExecutedOnce
  <2> QED
    BY <1>1, <1>2, <2>1 DEF ServiceInv, CallsOK
<1>6. SignalsOK'
  BY <1>2 DEF SignalsOK, Open
<1>7. LateOK'
  BY <1>1, <1>2 DEF ServiceInv, LateOK, Committed, storeVars, Created
<1> QED
  BY <1>3, <1>4, <1>5, <1>6, <1>7 DEF ActorsOK

(***************************************************************************)
(* The inductive step                                                      *)
(***************************************************************************)

\* Every step of a thread.
LEMMA ThreadSteps ==
    ASSUME ServiceInv, TypeOK', NEW t \in Threads, ThreadStep(t)
    PROVE  ActorsOK'
<1>1. CASE Execute(t) \/ Admit(t) \/ AdmissionFails(t)
  BY <1>1, QuietEnter, QuietInv
<1>2. CASE \/ Start(t) \/ Report(t) \/ SeeCancel(t) \/ Executed(t) \/ Reexecuted(t) \/ Asked(t)
           \/ \E outcome \in {"completed", "failed", "blocked"} : End(t, outcome)
  BY <1>2, QuietLoop, QuietInv
<1>3. CASE Resume(t)
  BY <1>3, QuietResume, QuietInv
<1>4. ASSUME NEW c \in Calls, Call(t, c)
      PROVE  ActorsOK'
  <2>1. \/ Authorize(job[t], c, "denied")
           /\ PersistLive(t, "tool_completed", "running", NoCallId)
           /\ UNCHANGED <<pc, vstatus, vcall>>
        \/ Authorize(job[t], c, "allowed")
           /\ Goto(t, "dispatch") /\ Hold(t, "running", c.id) /\ UNCHANGED <<storeVars, resultVars>>
        \/ Asks(t, c)
    BY <1>4 DEF Call, AuthorizeCall, Asks
  <2>2. CASE Asks(t, c)
    BY <2>2, AsksInv
  <2>3. CASE \/ Authorize(job[t], c, "denied")
                /\ PersistLive(t, "tool_completed", "running", NoCallId)
                /\ UNCHANGED <<pc, vstatus, vcall>>
             \/ Authorize(job[t], c, "allowed")
                /\ Goto(t, "dispatch") /\ Hold(t, "running", c.id) /\ UNCHANGED <<storeVars, resultVars>>
    BY <1>4, <2>3, QuietCall, QuietInv
  <2> QED
    BY <2>1, <2>2, <2>3
<1>5. CASE Dispatch(t, "dispatch", "executed") \/ Dispatch(t, "redispatch", "reexecuted")
  BY <1>5, DispatchInv
<1>6. CASE PersistLook(t) \/ PersistWrite(t) \/ PersistAppend(t) \/ PersistEnds(t) \/ Settle(t)
  BY <1>6, QuietPersist, QuietInv
<1>7. CASE Release(t)
  BY <1>7, ReleaseInv
<1> QED
  BY <1>1, <1>2, <1>3, <1>4, <1>5, <1>6, <1>7 DEF ThreadStep, LoopStep

\* A step of the run service is one of its permission service, or not seen by it;
\* a death of the process takes what the service held in memory.
LEMMA ServiceUsesPermissions ==
    ASSUME ServiceInv, Next, ~ Crash
    PROVE  [PermNext]_permVars
<1> USE DEF ServiceInv
<1>0. "expired" \in Decisions /\ env.decisions \subseteq Decisions
      /\ Verdicts = {"allowed", "denied", "pending", "blocked"}
  BY RunServiceAssumption DEF Decisions, Verdicts
<1>1. ASSUME NEW r \in Runs, NEW c \in Calls, NEW verdict \in Verdicts, Authorize(r, c, verdict)
      PROVE  PermNext
  BY <1>0, <1>1 DEF PermNext
<1>2. ASSUME NEW k \in Keys, NEW kind \in Decisions, Resolve(k, kind)
      PROVE  PermNext
  BY <1>2 DEF PermNext
<1>3. ASSUME NEW t \in Threads, ThreadStep(t)
      PROVE  [PermNext]_permVars
  <2>1. CASE Resume(t)
    <3>1. job[t] \in Runs
      BY <2>1, AtWork DEF Resume
    <3>2. PICK c \in Calls : Authorize(job[t], c, "allowed") \/ Authorize(job[t], c, "denied")
      BY <2>1 DEF Resume
    <3> QED
      BY <1>1, <3>1, <3>2 DEF Verdicts
  <2>2. ASSUME NEW c \in Calls, Call(t, c)
        PROVE  PermNext
    <3>1. job[t] \in Runs
      BY <2>2, AtWork DEF Call, AuthorizeCall
    <3>2. \/ Authorize(job[t], c, "denied") \/ Authorize(job[t], c, "allowed")
          \/ Authorize(job[t], c, "pending")
      BY <2>2 DEF Call, AuthorizeCall
    <3> QED
      BY <1>1, <3>1, <3>2 DEF Verdicts
  <2>3. CASE ~Resume(t) /\ ~\E c \in Calls : Call(t, c)
    <3>1. UNCHANGED permVars
      BY <1>3, <2>3
      DEF ThreadStep, LoopStep, Execute, Admit, AdmissionFails, Start, Report, SeeCancel, End, Asked,
          Executed, Reexecuted, Dispatch, PersistLook, PersistWrite, PersistAppend, PersistEnds,
          Settle, Release
    <3> QED
      BY <3>1
  <2> QED
    BY <2>1, <2>2, <2>3
<1>4. ASSUME NEW t \in Threads, NEW k \in Keys, NEW kind \in Decisions, Respond(t, k, kind)
      PROVE  PermNext
  BY <1>2, <1>4 DEF Respond
<1>5. ASSUME NEW t \in Threads, NEW k \in Keys, FireTimer(t, k)
      PROVE  [PermNext]_permVars
  BY <1>0, <1>4, <1>5 DEF FireTimer
<1>6. ASSUME NEW t \in Threads, NEW k \in Keys, NEW kind \in env.decisions, Answer(t, k, kind)
      PROVE  PermNext
  BY <1>0, <1>4, <1>6 DEF Answer
<1>7. ASSUME NEW k \in Keys, Lapse(k)
      PROVE  PermNext
  BY <1>7 DEF Lapse, PermNext
<1>8. ASSUME NEW r \in Runs, \/ \E t \in Threads : Prepare(t, r)
                             \/ Cancel(r) \/ Sweep(r)
      PROVE  UNCHANGED permVars
  BY <1>8 DEF Prepare, Cancel, Sweep
<1>9. CASE Close \/ Restart
  BY <1>9 DEF Close, Restart
<1> QED
  BY <1>3, <1>5, <1>6, <1>7, <1>8, <1>9 DEF Next

\* The permission service keeps its invariant inside the run service.
LEMMA PermissionsKept ==
    ASSUME ServiceInv, Next
    PROVE  PermInv'
<1>1. CASE Crash
  BY <1>1 DEF Crash, ServiceInv, PermInv, TypeOK, PermTypeOK, ApprovalPassesOnce, GrantsJustified,
              Keys, Scopes
<1>2. CASE ~ Crash
  BY <1>2, ServiceUsesPermissions, PermStepInv DEF ServiceInv
<1> QED
  BY <1>1, <1>2

\* The parts of the state no step of the thread disturbs, and the words it uses.
LEMMA Words ==
    /\ {"started", "progress", "requested", "resolved", "tool_started", "tool_completed",
        "completed", "blocked", "failed", "cancelled", "interrupted"} \subseteq EventKinds
    /\ {"none", "queued", "running", "awaiting", "completed", "blocked", "failed", "cancelled",
        "interrupted"} = RunStatuses \cup {"none"}
    /\ "none" \notin RunStatuses
    /\ NoCallId \in PendingCalls /\ CallIds \subseteq PendingCalls
    /\ \A c \in Calls : c.id \in CallIds /\ c.id \in PendingCalls
  BY DEF EventKinds, TerminalEvents, TerminalStatuses, RunStatuses, PendingCalls, Calls

\* Moving, holding and leaving keep the types of what a thread holds.
LEMMA HoldTypes ==
    ASSUME HoldTypeOK, ResultTypeOK, NEW t \in Threads
    PROVE  /\ \A place \in ThreadStates : Goto(t, place) => pc' \in [Threads -> ThreadStates]
           /\ \A s \in RunStatuses \cup {"none"}, p \in PendingCalls : Hold(t, s, p) =>
                /\ vstatus' \in [Threads -> RunStatuses \cup {"none"}]
                /\ vcall' \in [Threads -> PendingCalls]
           /\ Leave(t) => HoldTypeOK' /\ ResultTypeOK'
<1>1. \A place \in ThreadStates : Goto(t, place) => pc' \in [Threads -> ThreadStates]
  BY DEF Goto, HoldTypeOK
<1>2. \A s \in RunStatuses \cup {"none"}, p \in PendingCalls : Hold(t, s, p) =>
         /\ vstatus' \in [Threads -> RunStatuses \cup {"none"}]
         /\ vcall' \in [Threads -> PendingCalls]
  BY DEF Hold, HoldTypeOK
<1>3. ASSUME Leave(t)
      PROVE  HoldTypeOK' /\ ResultTypeOK'
  <2>1. "idle" \in ThreadStates
    BY DEF ThreadStates
  <2>2. pc' \in [Threads -> ThreadStates] /\ job' \in [Threads -> Runs \cup {NoRun}]
    BY <1>1, <1>3, <2>1 DEF Leave, HoldTypeOK
  <2>3. vstatus' \in [Threads -> RunStatuses \cup {"none"}] /\ vcall' \in [Threads -> PendingCalls]
    BY <1>2, <1>3, Words DEF Leave
  <2>4. ResultTypeOK'
    BY <1>3 DEF Leave, ResultTypeOK
  <2> QED
    BY <2>2, <2>3, <2>4 DEF HoldTypeOK
<1> QED
  BY <1>1, <1>2, <1>3

\* Every place a thread goes to.
LEMMA Places ==
    /\ {"idle", "prepared", "admission", "start", "turn", "resume", "dispatch", "redispatch",
        "executed", "reexecuted", "asked", "returned", "write", "append", "settle", "release"}
         = ThreadStates
  BY DEF ThreadStates, Engaged

\* Types are kept by the steps of a thread inside the loop.
LEMMA LoopTypes ==
    ASSUME ServiceInv, NEW t \in Threads, LoopStep(t)
    PROVE  StoreTypeOK' /\ ProcTypeOK' /\ HoldTypeOK' /\ ResultTypeOK' /\ PastTypeOK'
<1> USE DEF pastVars
<1>0. /\ StoreTypeOK /\ ProcTypeOK /\ HoldTypeOK /\ ResultTypeOK /\ PastTypeOK
      /\ pc[t] # "idle" /\ job[t] \in Runs /\ job' = job
      /\ vcall[t] \in PendingCalls
  <2>1. pc[t] # "idle"
    BY DEF LoopStep, Start, Report, SeeCancel, End, Call, AuthorizeCall, Asked, Executed, Resume,
       Reexecuted, Dispatch
  <2>2. job' = job
    BY DEF LoopStep, Start, Report, SeeCancel, End, Call, AuthorizeCall, Asked, Executed, Resume,
       Reexecuted, Dispatch
  <2> QED
    BY <2>1, <2>2, TypeParts, AtWork DEF ServiceInv
<1>1. ProcTypeOK'
  <2>1. UNCHANGED procVars
    BY DEF LoopStep, Start, Report, SeeCancel, End, Call, AuthorizeCall, Asked, Executed, Resume,
       Reexecuted, Dispatch
  <2> QED
    BY <1>0, <2>1 DEF procVars, ProcTypeOK
<1>2. StoreTypeOK' /\ ResultTypeOK'
  <2>1. CASE UNCHANGED <<storeVars, resultVars>>
    BY <1>0, <2>1 DEF storeVars, resultVars, StoreTypeOK, ResultTypeOK
  <2>2. ASSUME NEW kind \in EventKinds, NEW s \in RunStatuses, NEW p \in PendingCalls,
               PersistLive(t, kind, s, p)
        PROVE  StoreTypeOK' /\ ResultTypeOK'
    BY <1>0, <2>2, PersistLiveType
  <2>3. CASE Start(t) \/ Report(t) \/ SeeCancel(t) \/ Asked(t) \/ Executed(t) \/ Resume(t)
             \/ Reexecuted(t)
             \/ Dispatch(t, "dispatch", "executed") \/ Dispatch(t, "redispatch", "reexecuted")
    BY <1>0, <2>2, <2>3, Words
    DEF Start, Report, SeeCancel, Asked, Executed, Resume, Reexecuted, Dispatch
  <2>4. ASSUME NEW outcome \in {"completed", "failed", "blocked"}, End(t, outcome)
        PROVE  StoreTypeOK' /\ ResultTypeOK'
    BY <2>2, <2>4, Words DEF End
  <2>5. ASSUME NEW c \in Calls, Call(t, c)
        PROVE  StoreTypeOK' /\ ResultTypeOK'
    BY <2>1, <2>2, <2>5, Words DEF Call, AuthorizeCall
  <2> QED
    BY <2>3, <2>4, <2>5 DEF LoopStep
<1>3. PastTypeOK'
  <2>1. CASE UNCHANGED <<calls, effects, late>>
    BY <1>0, <2>1 DEF PastTypeOK
  <2>2. ASSUME NEW c \in Calls, Call(t, c)
        PROVE  PastTypeOK'
    BY <1>0, <2>2, Words DEF Call, AuthorizeCall, PastTypeOK
  <2>3. ASSUME NEW from, NEW to, Dispatch(t, from, to)
        PROVE  PastTypeOK'
    <3>1. /\ effects' = [effects EXCEPT ![<<job[t], vcall[t]>>] = @ + 1]
          /\ late' = [late EXCEPT ![job[t]] = IF Finished(job[t]) THEN @ + 1 ELSE @]
          /\ calls' = calls
      BY <2>3 DEF Dispatch
    <3>2. effects' \in [Keys -> Nat]
      <4> DEFINE k == <<job[t], vcall[t]>>
      <4>1. effects \in [Keys -> Nat] /\ effects' = [effects EXCEPT ![k] = effects[k] + 1]
        BY <1>0, <3>1 DEF PastTypeOK
      <4> HIDE DEF k
      <4>2. k \in Keys => effects[k] + 1 \in Nat
        BY <4>1
      <4> QED
        BY <4>1, <4>2
    <3>3. late[job[t]] \in Nat /\ (IF Finished(job[t]) THEN late[job[t]] + 1 ELSE late[job[t]]) \in Nat
      BY <1>0 DEF PastTypeOK
    <3>4. late' \in [Runs -> Nat]
      BY <1>0, <3>1, <3>3 DEF PastTypeOK
    <3> QED
      BY <1>0, <3>1, <3>2, <3>4 DEF PastTypeOK
  <2> QED
    BY <2>1, <2>2, <2>3
    DEF LoopStep, Start, Report, SeeCancel, End, Asked, Executed, Resume, Reexecuted
<1>4. HoldTypeOK'
  <2>1. CASE UNCHANGED <<pc, vstatus, vcall>>
    BY <1>0, <2>1 DEF HoldTypeOK
  <2>2. ASSUME NEW place \in ThreadStates, NEW s \in RunStatuses \cup {"none"}, NEW p \in PendingCalls,
               Goto(t, place), Hold(t, s, p) \/ UNCHANGED <<vstatus, vcall>>
        PROVE  HoldTypeOK'
    BY <1>0, <2>2, HoldTypes DEF HoldTypeOK
  <2>3. CASE Start(t) \/ SeeCancel(t) \/ Asked(t) \/ Executed(t) \/ Reexecuted(t)
             \/ Dispatch(t, "dispatch", "executed") \/ Dispatch(t, "redispatch", "reexecuted")
    BY <2>2, <2>3, Words, Places DEF Start, SeeCancel, Asked, Executed, Reexecuted, Dispatch
  <2>4. CASE Resume(t)
    BY <2>2, <2>4, Words, Places DEF Resume
  <2>5. ASSUME NEW outcome \in {"completed", "failed", "blocked"}, End(t, outcome)
        PROVE  HoldTypeOK'
    BY <2>2, <2>5, Words, Places DEF End
  <2>6. ASSUME NEW c \in Calls, Call(t, c)
        PROVE  HoldTypeOK'
    BY <2>1, <2>2, <2>6, Words, Places DEF Call, AuthorizeCall
  <2>7. CASE Report(t)
    BY <2>1, <2>7 DEF Report
  <2> QED
    BY <2>3, <2>4, <2>5, <2>6, <2>7 DEF LoopStep
<1> QED
  BY <1>1, <1>2, <1>3, <1>4

\* Types are kept by the steps of a thread before and after the loop.
LEMMA EdgeTypes ==
    ASSUME ServiceInv, NEW t \in Threads,
           \/ Execute(t) \/ Admit(t) \/ AdmissionFails(t) \/ PersistLook(t) \/ PersistWrite(t)
           \/ PersistAppend(t) \/ PersistEnds(t) \/ Settle(t) \/ Release(t)
    PROVE  StoreTypeOK' /\ ProcTypeOK' /\ HoldTypeOK' /\ ResultTypeOK' /\ PastTypeOK'
<1>0. /\ StoreTypeOK /\ ProcTypeOK /\ HoldTypeOK /\ ResultTypeOK /\ PastTypeOK
      /\ pc[t] # "idle" /\ job[t] \in Runs
      /\ status[job[t]] \in RunStatuses \cup {"none"} /\ pending[job[t]] \in PendingCalls
      /\ vcall[t] \in PendingCalls /\ vstatus[t] \in RunStatuses \cup {"none"}
      /\ journal[job[t]] \in Seq(EventKinds)
  <2>1. pc[t] # "idle"
    BY DEF Execute, Admit, AdmissionFails, PersistLook, PersistWrite, PersistAppend, PersistEnds,
       Settle, Release
  <2>2. TypeOK
    BY DEF ServiceInv
  <2>3. StoreTypeOK /\ ProcTypeOK /\ HoldTypeOK /\ ResultTypeOK /\ PastTypeOK
    BY <2>2, TypeParts
  <2> QED
    BY <2>1, <2>3, AtWork DEF StoreTypeOK, HoldTypeOK
<1>1. PastTypeOK'
  BY <1>0 DEF PastTypeOK, pastVars, Execute, Admit, AdmissionFails, PersistLook, PersistWrite,
     PersistAppend, PersistEnds, Settle, Release
<1>2. ProcTypeOK'
  <2>1. CASE Release(t)
    <3>1. vstatus[t] = "awaiting" => <<job[t], vcall[t]>> \in Keys
      BY <1>0, <2>1 DEF Release, ServiceInv, WaitsOK, Keys
    <3> QED
      BY <1>0, <2>1, <3>1 DEF ProcTypeOK, Release
  <2>2. CASE UNCHANGED procVars
    BY <1>0, <2>2 DEF ProcTypeOK, procVars
  <2> QED
    BY <2>1, <2>2
    DEF Execute, Admit, AdmissionFails, PersistLook, PersistWrite, PersistAppend, PersistEnds, Settle
<1>3. StoreTypeOK'
  <2>1. CASE UNCHANGED storeVars
    BY <1>0, <2>1 DEF storeVars, StoreTypeOK
  <2>2. ASSUME NEW kind \in EventKinds, NEW s \in RunStatuses \cup {"none"}, NEW p \in PendingCalls,
               StoreAppend(job[t], kind, s, p)
        PROVE  StoreTypeOK'
    <3>1. Append(journal[job[t]], kind) \in Seq(EventKinds)
      BY <1>0
    <3> QED
      BY <1>0, <2>2, <3>1 DEF StoreAppend, StoreTypeOK
  <2>3. CASE AdmissionFails(t)
    BY <1>0, <2>1, <2>2, <2>3, Words DEF AdmissionFails
  <2>4. CASE PersistWrite(t)
    BY <1>0, <2>1, <2>4 DEF PersistWrite, StoreUpdate, StoreTypeOK
  <2>5. CASE PersistAppend(t)
    <3>1. Head(unsaved[t]) \in EventKinds
      <4>1. unsaved[t] \in Seq(EventKinds) /\ unsaved[t] # << >>
        BY <1>0, <2>5 DEF ResultTypeOK, PersistAppend, CanAppend
      <4> QED
        BY <4>1
    <3> QED
      BY <1>0, <2>2, <2>5, <3>1, Words DEF PersistAppend
  <2> QED
    BY <2>1, <2>3, <2>4, <2>5
    DEF Execute, Admit, PersistLook, PersistEnds, Settle, Release
<1>4. ResultTypeOK'
  <2>1. CASE UNCHANGED resultVars
    BY <1>0, <2>1 DEF resultVars, ResultTypeOK
  <2>2. CASE Leave(t)
    BY <1>0, <2>2, HoldTypes
  <2>3. CASE PersistWrite(t)
    <3>1. Len(journal[job[t]]) + 1 \in Nat
      BY <1>0
    <3> QED
      BY <1>0, <2>3, <3>1 DEF PersistWrite, ResultTypeOK
  <2>4. CASE PersistAppend(t)
    <3>1. unsaved[t] # << >> /\ unsaved[t] \in Seq(EventKinds) /\ emitted[t] \in Nat /\ expect[t] \in Nat
      BY <1>0, <2>4 DEF PersistAppend, CanAppend, ResultTypeOK
    <3>2. Tail(unsaved[t]) \in Seq(EventKinds) /\ Len(unsaved[t]) \in Nat /\ Len(unsaved[t]) > 0
      BY <3>1
    <3>3. emitted[t] - 1 \in Nat /\ expect[t] + 1 \in Nat
      BY <1>0, <3>1, <3>2, AtWork
    <3> QED
      BY <1>0, <2>4, <3>2, <3>3 DEF PersistAppend, ResultTypeOK
  <2> QED
    BY <2>1, <2>2, <2>3, <2>4
    DEF Execute, Admit, AdmissionFails, PersistLook, PersistEnds, Settle, Release
<1>5. HoldTypeOK'
  <2>1. CASE Leave(t)
    BY <1>0, <2>1, HoldTypes
  <2>2. ASSUME NEW place \in ThreadStates, NEW s \in RunStatuses \cup {"none"}, NEW p \in PendingCalls,
               Goto(t, place), Hold(t, s, p) \/ UNCHANGED <<vstatus, vcall>>, job' = job
        PROVE  HoldTypeOK'
    BY <1>0, <2>2, HoldTypes DEF HoldTypeOK
  <2>3. CASE Execute(t)
    BY <1>0, <2>1, <2>2, <2>3, Places DEF Execute
  <2>4. CASE Admit(t)
    BY <1>0, <2>1, <2>2, <2>4, Places DEF Admit
  <2>5. CASE AdmissionFails(t)
    BY <1>0, <2>1, <2>2, <2>5, Places, Words DEF AdmissionFails
  <2>6. CASE PersistLook(t) \/ PersistWrite(t) \/ PersistEnds(t)
    BY <1>0, <2>1, <2>2, <2>6, Places, Words DEF PersistLook, PersistWrite, PersistEnds
  <2>7. CASE PersistAppend(t)
    BY <1>0, <2>7 DEF PersistAppend, HoldTypeOK
  <2>8. CASE Settle(t)
    BY <1>0, <2>2, <2>8, Places DEF Settle
  <2>9. CASE Release(t)
    BY <2>1, <2>9 DEF Release
  <2> QED
    BY <2>3, <2>4, <2>5, <2>6, <2>7, <2>8, <2>9
<1> QED
  BY <1>1, <1>2, <1>3, <1>4, <1>5

\* Every step keeps the types.
LEMMA TypesKept ==
    ASSUME ServiceInv, Next
    PROVE  TypeOK'
<1>0. /\ StoreTypeOK /\ ProcTypeOK /\ HoldTypeOK /\ ResultTypeOK /\ PastTypeOK
      /\ PermTypeOK'
  <2>1. TypeOK /\ PermInv'
    BY PermissionsKept DEF ServiceInv
  <2> QED
    BY <2>1, TypeParts DEF PermInv
<1> DEFINE Rest == StoreTypeOK' /\ ProcTypeOK' /\ HoldTypeOK' /\ ResultTypeOK' /\ PastTypeOK'
<1>1. ASSUME NEW t \in Threads, ThreadStep(t)
      PROVE  Rest
  BY <1>1, LoopTypes, EdgeTypes DEF ThreadStep
<1>2. ASSUME NEW t \in Threads, NEW r \in Runs, Prepare(t, r)
      PROVE  Rest
  <2>1. HoldTypeOK'
    BY <1>0, <1>2, HoldTypes, Places DEF Prepare, HoldTypeOK
  <2>2. StoreTypeOK' /\ ProcTypeOK' /\ ResultTypeOK' /\ PastTypeOK'
    BY <1>0, <1>2, Words
    DEF Prepare, StoreCreate, StoreTypeOK, ProcTypeOK, ResultTypeOK, PastTypeOK, resultVars, pastVars
  <2> QED
    BY <2>1, <2>2
<1>3. ASSUME NEW t \in Threads, NEW k \in Keys, NEW kind, Respond(t, k, kind),
             timers' = timers \ {k}
      PROVE  Rest
  <2>1. k[1] \in Runs /\ k[2] \in PendingCalls
    BY Words DEF Keys
  <2>2. HoldTypeOK'
    BY <1>0, <1>3, <2>1, HoldTypes, Places, Words DEF Respond, HoldTypeOK
  <2>3. StoreTypeOK' /\ ProcTypeOK' /\ ResultTypeOK' /\ PastTypeOK'
    BY <1>0, <1>3
    DEF Respond, storeVars, resultVars, pastVars, StoreTypeOK, ProcTypeOK, ResultTypeOK, PastTypeOK
  <2> QED
    BY <2>2, <2>3
<1>4. ASSUME NEW t \in Threads, NEW k \in Keys, FireTimer(t, k)
      PROVE  Rest
  <2>1. CASE Respond(t, k, "expired")
    BY <1>3, <1>4, <2>1 DEF FireTimer
  <2>2. CASE UNCHANGED <<storeVars, active, loops, signalled, phase, crashes, threadVars, pastVars>>
    BY <1>0, <1>4, <2>2
    DEF FireTimer, storeVars, threadVars, resultVars, pastVars, StoreTypeOK, ProcTypeOK, HoldTypeOK,
        ResultTypeOK, PastTypeOK
  <2> QED
    BY <1>4, <2>1, <2>2 DEF FireTimer
<1>5. ASSUME NEW r \in Runs, NEW kind \in EventKinds, NEW s \in RunStatuses,
             StoreAppend(r, kind, s, pending[r])
      PROVE  StoreTypeOK'
  <2>1. journal[r] \in Seq(EventKinds) /\ pending[r] \in PendingCalls
    BY <1>0 DEF StoreTypeOK
  <2>2. Append(journal[r], kind) \in Seq(EventKinds)
    BY <2>1
  <2> QED
    BY <1>0, <1>5, <2>1, <2>2 DEF StoreAppend, StoreTypeOK
<1>6. ASSUME NEW r \in Runs, Cancel(r)
      PROVE  Rest
  <2>1. StoreTypeOK'
    BY <1>5, <1>6, Words DEF Cancel
  <2> QED
    BY <1>0, <1>6, <2>1
    DEF Cancel, threadVars, resultVars, pastVars, ProcTypeOK, HoldTypeOK, ResultTypeOK, PastTypeOK
<1>7. ASSUME NEW r \in Runs, Sweep(r)
      PROVE  Rest
  <2>1. StoreTypeOK'
    BY <1>5, <1>7, Words DEF Sweep, StoreInterrupt
  <2> QED
    BY <1>0, <1>7, <2>1
    DEF Sweep, procVars, threadVars, resultVars, pastVars, ProcTypeOK, HoldTypeOK, ResultTypeOK,
        PastTypeOK
<1>8. ASSUME NEW k \in Keys, Lapse(k)
      PROVE  Rest
  BY <1>0, <1>8
  DEF Lapse, storeVars, procVars, threadVars, resultVars, pastVars, StoreTypeOK, ProcTypeOK,
      HoldTypeOK, ResultTypeOK, PastTypeOK
<1>9. ASSUME Close \/ Restart
      PROVE  Rest
  <2>1. UNCHANGED <<storeVars, active, loops, signalled, crashes, threadVars, pastVars>>
    BY <1>9 DEF Close, Restart
  <2>2. phase' \in {"up", "closing"} /\ timers' \subseteq timers
    BY <1>9 DEF Close, Restart
  <2> QED
    BY <1>0, <2>1, <2>2
    DEF storeVars, threadVars, resultVars, pastVars, StoreTypeOK, ProcTypeOK, HoldTypeOK,
        ResultTypeOK, PastTypeOK
<1>10. ASSUME Crash
       PROVE  Rest
  <2>1. << >> \in Seq(EventKinds)
    OBVIOUS
  <2>2. HoldTypeOK' /\ ResultTypeOK'
    BY <1>10, <2>1, Words, Places DEF Crash, HoldTypeOK, ResultTypeOK
  <2>3. UNCHANGED <<storeVars, pastVars>>
    BY <1>10 DEF Crash
  <2>4. StoreTypeOK' /\ PastTypeOK'
    BY <1>0, <2>3 DEF storeVars, pastVars, StoreTypeOK, PastTypeOK
  <2>5. ProcTypeOK'
    BY <1>0, <1>10 DEF Crash, ProcTypeOK
  <2> QED
    BY <2>2, <2>4, <2>5
<1>11. ASSUME NEW t \in Threads, NEW k \in Keys, NEW kind \in env.decisions, Answer(t, k, kind)
       PROVE  Rest
  BY <1>3, <1>11 DEF Answer
<1> HIDE DEF Rest
<1>12. Rest
  BY <1>1, <1>2, <1>4, <1>6, <1>7, <1>8, <1>9, <1>10, <1>11 DEF Next
<1> QED
  BY <1>0, <1>12, TypeParts DEF Rest

\* _persist_live stores a wait only together with its call.
LEMMA PersistLiveWaits ==
    ASSUME TypeOK, WaitsOK, NEW t \in Threads, job[t] \in Runs, NEW kind, NEW s, NEW p,
           PersistLive(t, kind, s, p), s = "awaiting" => p \in CallIds
    PROVE  \A r \in Runs : status'[r] = "awaiting" => pending'[r] \in CallIds
<1>1. CASE UNCHANGED storeVars
  BY <1>1 DEF storeVars, WaitsOK
<1>2. CASE StoreAppend(job[t], kind, s, p)
  <2>1. /\ status' = [status EXCEPT ![job[t]] = s] /\ pending' = [pending EXCEPT ![job[t]] = p]
        /\ DOMAIN status = Runs /\ DOMAIN pending = Runs
    BY <1>2 DEF StoreAppend, TypeOK
  <2> QED
    BY <2>1 DEF WaitsOK
<1> QED
  BY <1>1, <1>2 DEF PersistLive

\* The wait of a run names its request.
LEMMA WaitsKept ==
    ASSUME ServiceInv, Next
    PROVE  WaitsOK'
<1> DEFINE Stored == \A r \in Runs : status'[r] = "awaiting" => pending'[r] \in CallIds
           Reported == \A t \in Threads :
                          pc'[t] = "release" /\ vstatus'[t] = "awaiting" => vcall'[t] \in CallIds
<1>0. TypeOK /\ WaitsOK
  BY DEF ServiceInv
<1>1. UNCHANGED storeVars => Stored
  BY <1>0 DEF storeVars, WaitsOK
<1>2. UNCHANGED threadVars => Reported
  BY <1>0 DEF threadVars, WaitsOK
<1>3. ASSUME NEW t \in Threads, NEW place, Goto(t, place), place # "release",
             \A u \in Threads : u # t => vstatus'[u] = vstatus[u] /\ vcall'[u] = vcall[u]
      PROVE  Reported
  <2>1. pc'[t] = place /\ \A u \in Threads : u # t => pc'[u] = pc[u]
    BY <1>0, <1>3, GotoAt DEF TypeOK
  <2> QED
    BY <1>0, <1>3, <2>1 DEF WaitsOK
<1>4. ASSUME NEW t \in Threads, NEW s, NEW p, Hold(t, s, p)
      PROVE  \A u \in Threads : u # t => vstatus'[u] = vstatus[u] /\ vcall'[u] = vcall[u]
  BY <1>0, <1>4, HoldAt DEF TypeOK
<1>5. ASSUME NEW t \in Threads, Leave(t)
      PROVE  Reported
  BY <1>3, <1>4, <1>5 DEF Leave
<1>6. ASSUME NEW t \in Threads, LoopStep(t)
      PROVE  Stored /\ Reported
  <2>0. pc[t] # "idle" /\ job[t] \in Runs
    <3>1. pc[t] # "idle"
      BY <1>6 DEF LoopStep, Start, Report, SeeCancel, End, Call, AuthorizeCall, Asked, Executed, Resume,
         Reexecuted, Dispatch
    <3> QED
      BY <3>1, AtWork
  <2>1. ASSUME NEW kind, NEW s, NEW p, PersistLive(t, kind, s, p), s = "awaiting" => p \in CallIds
        PROVE  Stored
    BY <1>0, <2>0, <2>1, PersistLiveWaits
  <2>2. CASE Start(t) \/ SeeCancel(t) \/ Executed(t) \/ Reexecuted(t) \/ Resume(t)
    BY <1>3, <1>4, <2>1, <2>2 DEF Start, SeeCancel, Executed, Reexecuted, Resume
  <2>3. CASE Report(t)
    BY <1>0, <2>1, <2>3 DEF Report, WaitsOK
  <2>4. ASSUME NEW outcome \in {"completed", "failed", "blocked"}, End(t, outcome)
        PROVE  Stored /\ Reported
    BY <1>3, <1>4, <2>1, <2>4 DEF End
  <2>5. CASE Asked(t)
    <3>1. vcall[t] \in CallIds
      BY <2>5 DEF Asked, ServiceInv, ThreadsOK, ThreadOK
    <3> QED
      BY <1>3, <2>1, <2>5, <3>1 DEF Asked
  <2>6. CASE Dispatch(t, "dispatch", "executed") \/ Dispatch(t, "redispatch", "reexecuted")
    BY <1>3, <2>1, <2>6 DEF Dispatch
  <2>7. ASSUME NEW c \in Calls, Call(t, c)
        PROVE  Stored /\ Reported
    <3>1. \/ PersistLive(t, "tool_completed", "running", NoCallId) /\ UNCHANGED <<pc, vstatus, vcall>>
          \/ Goto(t, "dispatch") /\ Hold(t, "running", c.id) /\ UNCHANGED storeVars
          \/ /\ PersistLive(t, "requested", "awaiting", c.id)
             /\ Goto(t, "asked") /\ Hold(t, "awaiting", c.id)
      BY <2>7 DEF Call, AuthorizeCall
    <3>2. UNCHANGED <<pc, vstatus, vcall>> => Reported
      BY <1>0 DEF WaitsOK
    <3> QED
      BY <1>1, <1>3, <1>4, <2>1, <3>1, <3>2, Words
  <2> QED
    BY <1>6, <2>2, <2>3, <2>4, <2>5, <2>6, <2>7 DEF LoopStep
<1>7. ASSUME NEW r \in Runs, NEW s, NEW p, StoreAppend(r, s, s, p), s # "awaiting"
      PROVE  Stored
  BY <1>0, <1>7 DEF StoreAppend, TypeOK, WaitsOK
<1>8. ASSUME NEW t \in Threads,
             \/ Execute(t) \/ Admit(t) \/ AdmissionFails(t) \/ PersistLook(t) \/ PersistWrite(t)
             \/ PersistAppend(t) \/ PersistEnds(t) \/ Settle(t) \/ Release(t)
      PROVE  Stored /\ Reported
  <2>0. pc[t] # "idle" /\ job[t] \in Runs
    <3>1. pc[t] # "idle"
      BY <1>8 DEF Execute, Admit, AdmissionFails, PersistLook, PersistWrite, PersistAppend,
         PersistEnds, Settle, Release
    <3> QED
      BY <3>1, AtWork
  <2>1. CASE Execute(t) \/ Admit(t) \/ PersistLook(t) \/ PersistEnds(t) \/ Release(t)
    BY <1>1, <1>3, <1>4, <1>5, <2>1 DEF Execute, Admit, PersistLook, PersistEnds, Release
  <2>2. CASE AdmissionFails(t)
    <3>1. CASE Leave(t) /\ UNCHANGED storeVars
      BY <1>1, <1>5, <3>1
    <3>2. CASE /\ StoreAppend(job[t], "failed", "failed", pending[job[t]])
               /\ Goto(t, "release") /\ Hold(t, "failed", pending[job[t]])
      <4>1. Stored
        BY <1>0, <2>0, <3>2 DEF StoreAppend, TypeOK, WaitsOK
      <4>2. /\ vstatus'[t] = "failed"
            /\ \A u \in Threads : u # t => /\ pc'[u] = pc[u] /\ vstatus'[u] = vstatus[u]
                                          /\ vcall'[u] = vcall[u]
        BY <1>0, <3>2, GotoAt, HoldAt DEF TypeOK
      <4>3. Reported
        BY <1>0, <4>2 DEF WaitsOK
      <4> QED
        BY <4>1, <4>3
    <3> QED
      BY <2>2, <3>1, <3>2 DEF AdmissionFails
  <2>3. pc[t] \in {"write", "append"} /\ vstatus[t] = "awaiting" => vcall[t] \in CallIds
    BY DEF ServiceInv, ThreadsOK, ThreadOK, Concluding, TerminalStatuses
  <2>4. CASE PersistWrite(t)
    <3>1. Stored
      BY <1>0, <1>1, <2>0, <2>3, <2>4 DEF PersistWrite, StoreUpdate, TypeOK, WaitsOK
    <3> QED
      BY <1>3, <2>4, <3>1 DEF PersistWrite
  <2>5. CASE PersistAppend(t)
    <3>1. Stored
      BY <1>0, <2>0, <2>3, <2>5 DEF PersistAppend, StoreAppend, TypeOK, WaitsOK
    <3>2. Reported
      BY <1>0, <2>5 DEF PersistAppend, WaitsOK
    <3> QED
      BY <3>1, <3>2
  <2>6. CASE Settle(t)
    <3>1. Stored
      BY <1>1, <2>6 DEF Settle
    <3>2. /\ vstatus'[t] = status[job[t]] /\ vcall'[t] = pending[job[t]]
          /\ \A u \in Threads : u # t => /\ pc'[u] = pc[u] /\ vstatus'[u] = vstatus[u]
                                        /\ vcall'[u] = vcall[u]
      BY <1>0, <2>6, GotoAt, HoldAt DEF Settle, TypeOK
    <3>3. status[job[t]] = "awaiting" => pending[job[t]] \in CallIds
      BY <1>0, <2>0 DEF WaitsOK
    <3>4. Reported
      BY <1>0, <3>2, <3>3 DEF WaitsOK
    <3> QED
      BY <3>1, <3>4
  <2> QED
    BY <1>8, <2>1, <2>2, <2>4, <2>5, <2>6
<1>9. ASSUME NEW t \in Threads, NEW r \in Runs, Prepare(t, r)
      PROVE  Stored /\ Reported
  <2>1. Stored
    BY <1>0, <1>9 DEF Prepare, StoreCreate, TypeOK, WaitsOK
  <2> QED
    BY <1>3, <1>9, <2>1 DEF Prepare
<1>10. ASSUME NEW t \in Threads, NEW k \in Keys, NEW kind, Respond(t, k, kind)
       PROVE  Stored /\ Reported
  BY <1>1, <1>3, <1>4, <1>10 DEF Respond
<1>11. ASSUME NEW t \in Threads, NEW k \in Keys, FireTimer(t, k)
       PROVE  Stored /\ Reported
  BY <1>1, <1>2, <1>10, <1>11 DEF FireTimer
<1>12. ASSUME NEW r \in Runs, Cancel(r) \/ Sweep(r)
       PROVE  Stored /\ Reported
  <2>1. UNCHANGED threadVars
    BY <1>12 DEF Cancel, Sweep
  <2>2. \/ StoreAppend(r, "cancelled", "cancelled", pending[r])
        \/ StoreAppend(r, "interrupted", "interrupted", pending[r])
    BY <1>12 DEF Cancel, Sweep, StoreInterrupt
  <2>3. Stored
    BY <1>0, <2>2 DEF StoreAppend, TypeOK, WaitsOK
  <2> QED
    BY <1>2, <2>1, <2>3
<1>13. ASSUME Crash
       PROVE  Stored /\ Reported
  <2>1. Stored
    BY <1>1, <1>13 DEF Crash
  <2>2. \A t \in Threads : pc'[t] = "idle"
    BY <1>13 DEF Crash
  <2> QED
    BY <2>1, <2>2
<1>14. ASSUME Close \/ Restart \/ \E k \in Keys : Lapse(k)
       PROVE  Stored /\ Reported
  BY <1>1, <1>2, <1>14 DEF Close, Restart, Lapse
<1>15. ASSUME NEW t \in Threads, NEW k \in Keys, NEW kind \in env.decisions, Answer(t, k, kind)
       PROVE  Stored /\ Reported
  BY <1>10, <1>15 DEF Answer
<1> HIDE DEF Stored, Reported
<1>16. Stored /\ Reported
  BY <1>6, <1>8, <1>9, <1>11, <1>12, <1>13, <1>14, <1>15 DEF Next, ThreadStep
<1> QED
  BY <1>16 DEF WaitsOK, Stored, Reported

\* The environment is chosen once.
LEMMA EnvKept == [Next]_vars => UNCHANGED env
<1>1. ASSUME NEW t \in Threads, LoopStep(t) PROVE UNCHANGED env
  BY <1>1 DEF LoopStep, Start, Report, SeeCancel, End, Call, AuthorizeCall, Asked, Executed, Resume,
             Reexecuted, Dispatch, pastVars
<1>2. ASSUME NEW t \in Threads, ThreadStep(t) PROVE UNCHANGED env
  <2>1. CASE Execute(t) \/ Admit(t) \/ AdmissionFails(t) \/ Settle(t) \/ Release(t)
    BY <2>1 DEF Execute, Admit, AdmissionFails, Settle, Release, pastVars
  <2>2. CASE PersistLook(t) \/ PersistWrite(t) \/ PersistAppend(t) \/ PersistEnds(t)
    BY <2>2 DEF PersistLook, PersistWrite, PersistAppend, PersistEnds, pastVars
  <2> QED
    BY <1>1, <1>2, <2>1, <2>2 DEF ThreadStep
<1>3. ASSUME NEW t \in Threads, NEW r \in Runs, Prepare(t, r) PROVE UNCHANGED env
  BY <1>3 DEF Prepare, pastVars
<1>4. ASSUME NEW t \in Threads, NEW k \in Keys, NEW kind, Answer(t, k, kind) \/ FireTimer(t, k)
      PROVE  UNCHANGED env
  BY <1>4 DEF Answer, FireTimer, Respond, pastVars
<1>5. ASSUME NEW r \in Runs, Cancel(r) \/ Sweep(r) PROVE UNCHANGED env
  BY <1>5 DEF Cancel, Sweep, pastVars
<1>6. CASE Close \/ Crash \/ Restart \/ \E k \in Keys : Lapse(k)
  BY <1>6 DEF Close, Crash, Restart, Lapse, pastVars
<1>7. Next => UNCHANGED env
  BY <1>2, <1>3, <1>4, <1>5, <1>6 DEF Next
<1> QED
  BY <1>7 DEF vars, pastVars

\* Every step keeps the invariant.
LEMMA ServiceStepInv == ServiceInv /\ [Next]_vars => ServiceInv'
<1> SUFFICES ASSUME ServiceInv, [Next]_vars PROVE ServiceInv'
  OBVIOUS
<1>1. CASE UNCHANGED vars
  <2>1. ActorsOK'
    BY <1>1, OutsideSteps, OutsideInv
  <2>2. TypeOK' /\ PermInv' /\ env' \in Environments /\ WaitsOK'
    BY <1>1
    DEF vars, storeVars, permVars, procVars, threadVars, resultVars, pastVars, ServiceInv, TypeOK,
        WaitsOK, PermInv, PermTypeOK, ApprovalPassesOnce, GrantsJustified
  <2> QED
    BY <2>1, <2>2 DEF ServiceInv, ActorsOK
<1>2. CASE Next
  <2>1. TypeOK' /\ PermInv' /\ WaitsOK'
    BY <1>2, TypesKept, PermissionsKept, WaitsKept
  <2>2. env' \in Environments
    BY <1>2, EnvKept DEF ServiceInv
  <2>3. ActorsOK'
    <3>1. ASSUME NEW t \in Threads, NEW k \in Keys, NEW kind \in Decisions, Respond(t, k, kind)
          PROVE  ActorsOK'
      <4>1. k[1] \in Runs /\ k[2] \in CallIds /\ k = <<k[1], k[2]>>
        BY DEF Keys
      <4> QED
        BY <3>1, <4>1, RespondInv
    <3>2. env.decisions \subseteq Decisions /\ "expired" \in Decisions
      BY RunServiceAssumption DEF ServiceInv, Decisions
    <3>3. ASSUME NEW t \in Threads, NEW k \in Keys, FireTimer(t, k)
          PROVE  ActorsOK'
      <4>1. CASE CanRespond(k)
        BY <3>1, <3>2, <3>3, <4>1 DEF FireTimer
      <4>2. CASE ~CanRespond(k)
        BY <3>3, <4>2, OutsideSteps, OutsideInv
      <4> QED
        BY <4>1, <4>2
    <3>4. ASSUME NEW t \in Threads, NEW k \in Keys, NEW kind \in env.decisions, Answer(t, k, kind)
          PROVE  ActorsOK'
      BY <3>1, <3>2, <3>4 DEF Answer
    <3>5. CASE \/ \E r \in Runs : Cancel(r) \/ Sweep(r)
               \/ \E k \in Keys : Lapse(k)
               \/ Close \/ Restart
      BY <3>5, OutsideSteps, OutsideInv
    <3>6. ASSUME NEW t \in Threads, ThreadStep(t)
          PROVE  ActorsOK'
      BY <2>1, <3>6, ThreadSteps
    <3> QED
      BY <1>2, <3>3, <3>4, <3>5, <3>6, PrepareInv, CrashInv DEF Next
  <2> QED
    BY <2>1, <2>2, <2>3 DEF ServiceInv, ActorsOK
<1> QED
  BY <1>1, <1>2

\* The invariant holds in every reachable state.
THEOREM RunServiceInvariant == Spec => []ServiceInv
  BY ServiceInitInv, ServiceStepInv, PTL DEF Spec

\* Type correctness of the run service with its store and permission service.
THEOREM RunServiceTypeCorrect == Spec => []TypeOK
<1>1. ServiceInv => TypeOK
  BY DEF ServiceInv
<1> QED
  BY <1>1, RunServiceInvariant, PTL

\* No call is executed twice, and none that a user was asked about before an
\* answer allows it, whatever answers, timers, cancels and crashes race.
THEOREM CallsRunOnce == Spec => []ExecutedOnce
<1>1. ServiceInv => ExecutedOnce
  BY DEF ServiceInv, CallsOK
<1> QED
  BY <1>1, RunServiceInvariant, PTL

\* At most one call of a finished run still begins: the one whose thread had
\* authorized it before.
THEOREM LateCallsBounded == Spec => []OneLateCallAtMost
<1>1. ServiceInv => OneLateCallAtMost
  BY DEF ServiceInv, LateOK, OneLateCallAtMost
<1> QED
  BY <1>1, RunServiceInvariant, PTL

\* Inside the run service, too, one approval lets one call through and every
\* grant is one a user gave.
THEOREM ApprovalsInTheService == Spec => [](ApprovalPassesOnce /\ GrantsJustified)
<1>1. ServiceInv => ApprovalPassesOnce /\ GrantsJustified
  BY DEF ServiceInv, PermInv
<1> QED
  BY <1>1, RunServiceInvariant, PTL

\* The permission service that the threads, clients and timers share is the one of
\* PermissionService, but for a death of the process.
THEOREM ServiceKeepsPermissions == Spec => [][PermNext \/ Crash]_permVars
<1>1. ServiceInv /\ [Next]_vars => [PermNext \/ Crash]_permVars
  BY ServiceUsesPermissions DEF vars
<1> QED
  BY <1>1, RunServiceInvariant, PTL DEF Spec

\* Answers, timers, a worker and a cancel race: as long as the process lives the
\* first decision of a request stays, and one that comes after the deadline allows
\* nothing.  (The runs a crash leaves are interrupted, so nothing asks again.)
THEOREM DecisionsInTheService == Spec => [][DecisionsHold \/ Crash]_vars
<1>1. ServiceInv /\ [Next]_vars => [DecisionsHold \/ Crash]_vars
  <2>1. ASSUME ServiceInv, Next, ~ Crash PROVE DecisionsHold
    <3>1. PermInv /\ [PermNext]_permVars
      BY <2>1, ServiceUsesPermissions DEF ServiceInv
    <3> QED
      BY <3>1, DecisionsHoldStep
  <2> QED
    BY <2>1
<1> QED
  BY <1>1, RunServiceInvariant, PTL DEF Spec

(***************************************************************************)
(* The journals, whatever the clients do                                   *)
(***************************************************************************)

\* One event is added to the journal of a live run, or none to any.
JournalGrows ==
    \/ UNCHANGED journal
    \/ \E r \in Runs, kind \in EventKinds :
           Live(r) /\ journal' = [journal EXCEPT ![r] = Append(@, kind)]

\* What a thread tells its run goes to the journal of that run, if it is open.
LEMMA ReportGrows ==
    ASSUME ServiceInv, NEW t \in Threads, pc[t] # "idle", NEW kind \in EventKinds, NEW s, NEW p,
           PersistLive(t, kind, s, p) \/ StoreAppend(job[t], kind, s, p)
    PROVE  JournalGrows
<1>1. job[t] \in Runs
  BY AtWork
<1>2. UNCHANGED storeVars \/ StoreAppend(job[t], kind, s, p)
  BY DEF PersistLive
<1> QED
  BY <1>1, <1>2 DEF StoreAppend, JournalGrows, storeVars

\* The loop reports, or leaves the store alone.
LEMMA LoopGrows ==
    ASSUME ServiceInv, NEW t \in Threads, LoopStep(t)
    PROVE  JournalGrows
<1>1. CASE Start(t) \/ Report(t) \/ SeeCancel(t) \/ Asked(t) \/ Executed(t) \/ Reexecuted(t)
  <2>1. PICK kind \in {"started", "progress", "cancelled", "tool_completed"} :
            pc[t] # "idle" /\ \E s, p : PersistLive(t, kind, s, p)
    BY <1>1 DEF Start, Report, SeeCancel, Asked, Executed, Reexecuted
  <2> QED
    BY <2>1, Words, ReportGrows
<1>2. ASSUME NEW outcome \in {"completed", "failed", "blocked"}, End(t, outcome)
      PROVE  JournalGrows
  BY <1>2, Words, ReportGrows DEF End
<1>3. ASSUME NEW c \in Calls, Call(t, c)
      PROVE  JournalGrows
  <2>1. /\ pc[t] # "idle"
        /\ \/ PersistLive(t, "tool_completed", "running", NoCallId)
           \/ UNCHANGED storeVars
           \/ PersistLive(t, "requested", "awaiting", c.id)
    BY <1>3 DEF Call, AuthorizeCall
  <2> QED
    BY <2>1, Words, ReportGrows DEF JournalGrows, storeVars
<1>4. CASE Dispatch(t, "dispatch", "executed") \/ Dispatch(t, "redispatch", "reexecuted")
  BY <1>4, Words, ReportGrows DEF Dispatch
<1>5. CASE Resume(t)
  BY <1>5, Words, ReportGrows DEF Resume
<1> QED
  BY <1>1, <1>2, <1>3, <1>4, <1>5 DEF LoopStep

\* Every step adds at most one event, and only to a live run.
LEMMA ServiceGrows ==
    ASSUME ServiceInv, [Next]_vars
    PROVE  JournalGrows
<1>1. ASSUME NEW t \in Threads, ThreadStep(t)
      PROVE  JournalGrows
  <2>1. CASE AdmissionFails(t)
    <3>1. /\ pc[t] # "idle"
          /\ UNCHANGED storeVars \/ StoreAppend(job[t], "failed", "failed", pending[job[t]])
      BY <2>1 DEF AdmissionFails
    <3> QED
      BY <3>1, Words, ReportGrows DEF JournalGrows, storeVars
  <2>2. CASE PersistAppend(t)
    <3>1. PICK kind : /\ kind = Head(unsaved[t]) /\ unsaved[t] # << >> /\ pc[t] = "append"
                      /\ \E s, p : StoreAppend(job[t], kind, s, p)
      BY <2>2 DEF PersistAppend, CanAppend
    <3>2. kind \in EventKinds
      <4>1. unsaved[t] \in Seq(EventKinds)
        BY <3>1, AtWork
      <4> QED
        BY <3>1, <4>1
    <3> QED
      BY <3>1, <3>2, ReportGrows
  <2>3. CASE \/ Execute(t) \/ Admit(t) \/ PersistLook(t) \/ PersistWrite(t) \/ PersistEnds(t)
             \/ Settle(t) \/ Release(t)
    BY <2>3 DEF Execute, Admit, PersistLook, PersistWrite, PersistEnds, Settle, Release, StoreUpdate,
                storeVars, JournalGrows
  <2> QED
    BY <1>1, <2>1, <2>2, <2>3, LoopGrows DEF ThreadStep
<1>2. ASSUME NEW r \in Runs, Cancel(r) \/ Sweep(r)
      PROVE  JournalGrows
  <2>1. PICK kind \in {"cancelled", "interrupted"} : StoreAppend(r, kind, kind, pending[r])
    BY <1>2 DEF Cancel, Sweep, StoreInterrupt
  <2> QED
    BY <2>1, Words DEF StoreAppend, JournalGrows
<1>3. ASSUME NEW t \in Threads, NEW r \in Runs, Prepare(t, r)
      PROVE  JournalGrows
  BY <1>3 DEF Prepare, StoreCreate, JournalGrows
<1>4. ASSUME \/ \E t \in Threads, k \in Keys, kind \in env.decisions : Answer(t, k, kind)
             \/ \E t \in Threads, k \in Keys : FireTimer(t, k)
             \/ \E k \in Keys : Lapse(k)
             \/ Close \/ Crash \/ Restart \/ UNCHANGED vars
      PROVE  JournalGrows
  BY <1>4 DEF Answer, FireTimer, Respond, Lapse, Close, Crash, Restart, vars, storeVars, JournalGrows
<1> QED
  BY <1>1, <1>2, <1>3, <1>4 DEF Next

\* Whatever clients, timers, workers and crashes do, no event of a journal is ever
\* lost, replaced or moved, and none is added while the run's status is terminal.
THEOREM JournalsOnlyGrow == Spec => [][JournalGrows]_vars
<1>1. ServiceInv /\ [Next]_vars => [JournalGrows]_vars
  BY ServiceGrows
<1> QED
  BY <1>1, RunServiceInvariant, PTL DEF Spec

=============================================================================
