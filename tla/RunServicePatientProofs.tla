----------------------- MODULE RunServicePatientProofs -----------------------
(***************************************************************************)
(* What holds of the run service among patient clients, for any number of  *)
(* runs, calls, threads and crashes.  A patient client neither answers nor *)
(* cancels between the look and the write of _persist; everybody else      *)
(* still interleaves.  Then                                                *)
(*                                                                         *)
(*   - a run has at most one thread engaged with it (OneEngaged): an       *)
(*     answer that comes later than the stored wait finds its asker gone,  *)
(*     and the expiry timer is not due earlier;                            *)
(*   - so the run a thread decides to write is still the run it looked at  *)
(*     (HolderOK), the write never meets a finished run, and the loop's    *)
(*     result is never longer than the journal;                            *)
(*   - so status and journal only change together (JournalOK), and a run   *)
(*     leaves _active_run_id only when it is finished (SingleFlight).      *)
(***************************************************************************)
EXTENDS RunServiceProofs

OneEngaged ==
    \A t, u \in Threads :
        pc[t] \in Engaged /\ pc[u] \in Engaged /\ job[t] = job[u] => t = u

\* What thread t relies on.
HolderOK(t) ==
    /\ pc[t] # "append"
    /\ pc[t] \in {"asked", "returned", "write"} /\ vstatus[t] = "awaiting" =>
         Undecided(job[t], vcall[t]) /\ <<job[t], vcall[t]>> \notin overdue
    /\ pc[t] \in {"returned", "write", "release"} /\ vstatus[t] \in TerminalStatuses =>
         Finished(job[t])
    /\ pc[t] = "write" => ~Finished(job[t])
    /\ pc[t] \in Engaged /\ ~Finished(job[t]) => emitted[t] <= Len(journal[job[t]])

JournalOK ==
    \A r \in Runs :
        /\ TerminalAt(r) \subseteq {Len(journal[r])}
        /\ Finished(r) <=> TerminalAt(r) # {}

\* Only a request that exists is decided.
DecidedAsked ==
    \A k \in Keys : decision[k] # "none" => Requested(k)

PatientInv ==
    Patient =>
      /\ OneEngaged /\ (\A t \in Threads : HolderOK(t))
      /\ JournalOK /\ SingleFlight

(***************************************************************************)
(* Status and journal                                                      *)
(***************************************************************************)

\* A step that tells the journal what it does to the status of r: neither
\* changes how finished the run is, or an event of an unfinished run does.
Told(r) ==
    \/ journal'[r] = journal[r] /\ (Finished(r)' <=> Finished(r))
    \/ /\ ~Finished(r)
       /\ \E kind \in EventKinds : /\ journal'[r] = Append(journal[r], kind)
                                   /\ Finished(r)' <=> kind \in TerminalEvents

\* No run is created, and a finished one stays as it is.
StoreKept ==
    \A r \in Runs :
        Told(r) /\ (Created(r)' => Created(r)) /\ (Finished(r) => status'[r] = status[r])

\* The store's own operations tell the journal.
LEMMA StoreSteps ==
    ASSUME TypeOK
    PROVE  /\ UNCHANGED storeVars => StoreKept
           /\ \A r \in Runs, kind \in EventKinds, s \in RunStatuses, p \in PendingCalls :
                StoreAppend(r, kind, s, p) /\ (s \in TerminalStatuses <=> kind \in TerminalEvents)
                  => StoreKept
           /\ \A r \in Runs, p \in PendingCalls :
                StoreUpdate(r, "awaiting", p) /\ ~Finished(r) => StoreKept
<1>1. UNCHANGED storeVars => StoreKept
  BY DEF storeVars, StoreKept, Told, Created, Finished
<1>2. ASSUME NEW r \in Runs, NEW kind \in EventKinds, NEW s \in RunStatuses, NEW p \in PendingCalls,
             StoreAppend(r, kind, s, p), s \in TerminalStatuses <=> kind \in TerminalEvents
      PROVE  StoreKept
  <2>1. /\ journal'[r] = Append(journal[r], kind) /\ status'[r] = s
        /\ ~Finished(r) /\ Created(r)
        /\ \A q \in Runs : q # r => journal'[q] = journal[q] /\ status'[q] = status[q]
    BY <1>2 DEF StoreAppend, Live, TypeOK
  <2> QED
    BY <1>2, <2>1 DEF StoreKept, Told, Created, Finished
<1>3. ASSUME NEW r \in Runs, NEW p \in PendingCalls, StoreUpdate(r, "awaiting", p), ~Finished(r)
      PROVE  StoreKept
  <2>1. /\ journal' = journal /\ status'[r] = "awaiting" /\ Created(r)
        /\ \A q \in Runs : q # r => status'[q] = status[q]
    BY <1>3 DEF StoreUpdate, TypeOK
  <2> QED
    BY <1>3, <2>1 DEF StoreKept, Told, Created, Finished, TerminalStatuses
<1> QED
  BY <1>1, <1>2, <1>3

\* Such a step keeps status and journal together.
LEMMA JournalStep ==
    ASSUME TypeOK, JournalOK, \A r \in Runs : Told(r)
    PROVE  JournalOK'
<1> SUFFICES ASSUME NEW r \in Runs
             PROVE  /\ TerminalAt(r)' \subseteq {Len(journal'[r])}
                    /\ Finished(r)' <=> TerminalAt(r)' # {}
  BY DEF JournalOK
<1>1. CASE journal'[r] = journal[r] /\ (Finished(r)' <=> Finished(r))
  BY <1>1 DEF JournalOK, TerminalAt
<1>2. ASSUME ~Finished(r), NEW kind \in EventKinds, journal'[r] = Append(journal[r], kind),
             Finished(r)' <=> kind \in TerminalEvents
      PROVE  /\ TerminalAt(r)' \subseteq {Len(journal'[r])}
             /\ Finished(r)' <=> TerminalAt(r)' # {}
  <2>1. journal[r] \in Seq(EventKinds)
    BY DEF TypeOK
  <2>2. /\ Len(journal[r]) \in Nat /\ Len(journal'[r]) = Len(journal[r]) + 1
        /\ journal'[r][Len(journal[r]) + 1] = kind
        /\ \A i \in 1..Len(journal[r]) : journal'[r][i] = journal[r][i]
    BY <1>2, <2>1
  <2>3. \A i \in 1..Len(journal[r]) : journal[r][i] \notin TerminalEvents
    BY <1>2 DEF JournalOK, TerminalAt
  <2>4. \A i \in 1..Len(journal'[r]) : i # Len(journal[r]) + 1 => i \in 1..Len(journal[r])
    BY <2>2
  <2>5. \A i \in TerminalAt(r)' : i = Len(journal'[r])
    BY <2>2, <2>3, <2>4 DEF TerminalAt
  <2>6. kind \in TerminalEvents => Len(journal'[r]) \in TerminalAt(r)'
    BY <2>2 DEF TerminalAt
  <2>7. kind \notin TerminalEvents => TerminalAt(r)' = {}
    BY <2>2, <2>5 DEF TerminalAt
  <2> QED
    BY <1>2, <2>5, <2>6, <2>7
<1> QED
  BY <1>1, <1>2 DEF Told

\* The run in flight, when no other becomes live and the field is only cleared
\* when none is.
LEMMA FlightStep ==
    ASSUME Patient, SingleFlight, StoreKept, phase' # "down" => phase # "down",
           \/ active' = active
           \/ \A r \in Runs : ~Live(r)'
    PROVE  SingleFlight'
  BY DEF SingleFlight, StoreKept, Told, Live

(***************************************************************************)
(* The steps of one thread                                                 *)
(***************************************************************************)

\* Thread t works on, touching nothing but its own run.
Goes(t) ==
    /\ Alone(t) /\ pc[t] # "idle"
    /\ StoreKept
    /\ \A r \in Runs : r # job[t] => journal'[r] = journal[r] /\ status'[r] = status[r]
    /\ pc[t] \in {"settle", "release"} => UNCHANGED <<journal, status>>
    /\ UNCHANGED <<decision, overdue, phase, env>>
    /\ \A k \in Keys : Requested(k) => Requested(k)'
    /\ pc'[t] \in Engaged => pc[t] \in Engaged /\ job'[t] = job[t]
    /\ HolderOK(t)'
    /\ \/ active' = active
       \/ active' = NoRun /\ active = job[t] /\ Finished(job[t])

\* The parts of the patient invariant.
PatientParts ==
    OneEngaged /\ (\A t \in Threads : HolderOK(t)) /\ JournalOK /\ SingleFlight

\* The threads of other runs keep what they rely on, and so do those that have
\* stored the result of this one.
LEMMA GoesInv ==
    ASSUME ServiceInv, Patient, PatientParts, NEW t \in Threads, Goes(t)
    PROVE  PatientParts'
<1>1. /\ job[t] \in Runs /\ job[t] # NoRun
      /\ \A u \in Threads : pc[u] # "idle" => job[u] \in Runs
      /\ TypeOK
  BY AtWork DEF Goes, ServiceInv
<1>2. \A u \in Threads : u # t =>
        /\ pc'[u] = pc[u] /\ job'[u] = job[u] /\ vstatus'[u] = vstatus[u]
        /\ vcall'[u] = vcall[u] /\ emitted'[u] = emitted[u]
  BY DEF Goes, Alone
<1>3. OneEngaged'
  <2> SUFFICES ASSUME NEW u \in Threads, NEW w \in Threads, u # w,
                      pc'[u] \in Engaged, pc'[w] \in Engaged, job'[u] = job'[w]
               PROVE  FALSE
    BY DEF OneEngaged
  <2> QED
    BY <1>2 DEF Goes, PatientParts, OneEngaged
<1>4. ASSUME NEW u \in Threads
      PROVE  HolderOK(u)'
  <2>1. CASE u = t
    BY <2>1 DEF Goes
  <2>2. CASE u # t /\ pc[u] = "idle"
    BY <1>2, <2>2 DEF HolderOK, Engaged
  <2>3. CASE u # t /\ pc[u] # "idle"
    <3>1. PICK q \in Runs : q = job[u]
      BY <1>1, <2>3
    <3>2. /\ pc'[u] = pc[u] /\ job'[u] = q /\ vstatus'[u] = vstatus[u]
          /\ vcall'[u] = vcall[u] /\ emitted'[u] = emitted[u]
      BY <1>2, <2>3, <3>1
    <3>3. /\ Finished(q) => status'[q] = status[q]
          /\ pc[u] \in Engaged => journal'[q] = journal[q] /\ status'[q] = status[q]
      <4>1. Finished(q) => status'[q] = status[q]
        BY DEF Goes, StoreKept
      <4>2. CASE q # job[t]
        BY <4>1, <4>2 DEF Goes
      <4>3. CASE q = job[t] /\ pc[u] \in Engaged
        <5>1. pc[t] \notin Engaged
          BY <2>3, <3>1, <4>3 DEF PatientParts, OneEngaged
        <5>2. pc[t] \in {"settle", "release"}
          BY <1>1, <5>1 DEF TypeOK, ThreadStates, Goes
        <5> QED
          BY <4>1, <5>2 DEF Goes
      <4> QED
        BY <4>1, <4>2, <4>3
    <3>4. \A i : <<q, i>> \in Keys => /\ Undecided(q, i) => Undecided(q, i)'
                                      /\ <<q, i>> \notin overdue => <<q, i>> \notin overdue'
      BY DEF Goes, Undecided, Requested
    <3>5. HolderOK(u)
      BY DEF PatientParts
    <3>6. pc[u] \in {"asked", "returned", "write"} /\ vstatus[u] = "awaiting" => vcall[u] \in CallIds
      BY DEF ServiceInv, ThreadsOK, ThreadOK, Concluding, TerminalStatuses
    <3>7. pc[u] \in {"asked", "returned", "write"} /\ vstatus[u] = "awaiting" =>
            /\ Undecided(q, vcall[u]) /\ <<q, vcall[u]>> \notin overdue
            /\ <<q, vcall[u]>> \in Keys
      BY <3>1, <3>5, <3>6 DEF HolderOK, Keys
    <3>8. pc'[u] \in {"asked", "returned", "write"} /\ vstatus'[u] = "awaiting" =>
            Undecided(job[u], vcall[u])' /\ <<job'[u], vcall'[u]>> \notin overdue'
      BY <3>2, <3>4, <3>7 DEF Undecided, Requested
    <3>9. /\ pc[u] # "append"
          /\ pc[u] \in {"returned", "write", "release"} /\ vstatus[u] \in TerminalStatuses =>
               Finished(q)
          /\ pc[u] = "write" => ~Finished(q)
          /\ pc[u] \in Engaged /\ ~Finished(q) => emitted[u] <= Len(journal[q])
      BY <3>1, <3>5 DEF HolderOK
    <3> QED
      BY <3>2, <3>3, <3>8, <3>9 DEF HolderOK, Finished, Engaged
  <2> QED
    BY <2>1, <2>2, <2>3
<1>5. JournalOK'
  BY <1>1, JournalStep DEF Goes, StoreKept, PatientParts
<1>6. SingleFlight'
  <2>1. CASE active' = active
    BY <2>1, FlightStep DEF Goes, PatientParts
  <2>2. CASE active' = NoRun /\ active = job[t] /\ Finished(job[t])
    <3>1. phase # "down" => \A r \in Runs : ~Live(r)
      BY <2>2 DEF PatientParts, SingleFlight, Live
    <3>2. phase' # "down" => \A r \in Runs : ~Live(r)'
      BY <3>1 DEF Goes, StoreKept, Told, Live
    <3> QED
      BY <3>2 DEF SingleFlight
  <2> QED
    BY <2>1, <2>2 DEF Goes
<1> QED
  BY <1>3, <1>4, <1>5, <1>6 DEF PatientParts

\* A thread that reports an event and moves on.
LEMMA GoesReport ==
    ASSUME ServiceInv, PatientParts, NEW t \in Threads, pc[t] \in Engaged,
           NEW kind \in EventKinds, NEW s \in RunStatuses, NEW p \in PendingCalls,
           PersistLive(t, kind, s, p), s \in TerminalStatuses <=> kind \in TerminalEvents,
           UNCHANGED <<decision, overdue, procVars, job, env>>,
           \A k \in Keys : Requested(k) => Requested(k)',
           \A u \in Threads : u # t =>
               pc'[u] = pc[u] /\ vstatus'[u] = vstatus[u] /\ vcall'[u] = vcall[u],
           pc'[t] \in Engaged \ {"append", "write"},
           pc'[t] = "returned" /\ vstatus'[t] \in TerminalStatuses => s \in TerminalStatuses,
           pc'[t] \in {"asked", "returned"} /\ vstatus'[t] = "awaiting" =>
             /\ Undecided(job[t], vcall[t])'
             /\ <<job[t], vcall'[t]>> \notin overdue
    PROVE  Goes(t)
<1>1. pc[t] # "idle" /\ TypeOK
  BY DEF Engaged, ServiceInv
<1>2. PICK r \in Runs : r = job[t] /\ Created(r)
  BY <1>1, AtWork
<1>3. StoreKept
  BY <1>1, <1>2, StoreSteps DEF PersistLive
<1>4. /\ \A u \in Threads : u # t => emitted'[u] = emitted[u] /\ unsaved'[u] = unsaved[u]
      /\ emitted'[t] = emitted[t] + 1
      /\ \A q \in Runs : q # r => status'[q] = status[q] /\ journal'[q] = journal[q]
      /\ \/ Finished(r) /\ status'[r] = status[r]
         \/ /\ ~Finished(r) /\ status'[r] = s
            /\ journal'[r] = Append(journal[r], kind)
  BY <1>1, <1>2, AtWork, PersistLiveEffect DEF storeVars
<1>5. Alone(t)
  BY <1>4 DEF Alone
<1>6. ~Finished(r)' => emitted'[t] <= Len(journal'[r])
  <2>1. ASSUME ~Finished(r)
        PROVE  emitted'[t] <= Len(journal'[r])
    <3>1. journal[r] \in Seq(EventKinds) /\ emitted[t] \in Nat
      BY <1>1 DEF TypeOK
    <3>2. Len(journal'[r]) = Len(journal[r]) + 1 /\ Len(journal[r]) \in Nat
      BY <1>4, <2>1, <3>1
    <3>3. emitted[t] <= Len(journal[r])
      BY <1>2, <2>1 DEF PatientParts, HolderOK
    <3> QED
      BY <1>4, <3>1, <3>2, <3>3
  <2> QED
    BY <1>4, <2>1 DEF Finished
<1>7. pc'[t] = "returned" /\ vstatus'[t] \in TerminalStatuses => Finished(r)'
  BY <1>4 DEF Finished
<1>8. job'[t] = r
  BY <1>2
<1>9. HolderOK(t)'
  BY <1>2, <1>6, <1>7, <1>8 DEF HolderOK, Engaged, Finished
<1> QED
  BY <1>1, <1>2, <1>3, <1>4, <1>5, <1>9 DEF Goes, Engaged, procVars

\* A thread that reports and stays inside the loop.
LEMMA GoesOn ==
    ASSUME ServiceInv, PatientParts, NEW t \in Threads, pc[t] \in Engaged,
           NEW kind \in {"started", "progress", "resolved", "tool_started", "tool_completed"},
           PersistLive(t, kind, "running", NoCallId),
           UNCHANGED <<asked, decision, overdue, procVars, job, env>>,
           \A u \in Threads : u # t =>
               pc'[u] = pc[u] /\ vstatus'[u] = vstatus[u] /\ vcall'[u] = vcall[u],
           pc'[t] \in {"start", "turn", "executed", "reexecuted", "redispatch"}
    PROVE  Goes(t)
<1>1. /\ pc'[t] \in Engaged \ {"append", "write"}
      /\ pc'[t] \notin {"returned", "asked"}
  BY DEF Engaged
<1>2. /\ kind \in EventKinds /\ kind \notin TerminalEvents
      /\ "running" \in RunStatuses /\ "running" \notin TerminalStatuses
      /\ NoCallId \in PendingCalls
  BY DEF EventKinds, RunStatuses, TerminalEvents, TerminalStatuses, PendingCalls
<1>3. \A k \in Keys : Requested(k) => Requested(k)'
  BY DEF Requested
<1> QED
  BY <1>1, <1>2, <1>3, GoesReport

\* A thread that neither reports nor touches the store nor a request.
LEMMA GoesSilent ==
    ASSUME ServiceInv, NEW t \in Threads, pc[t] # "idle", Alone(t),
           UNCHANGED <<storeVars, asked, decision, overdue, phase, env>>,
           pc'[t] \in Engaged => pc[t] \in Engaged /\ job'[t] = job[t],
           HolderOK(t)',
           \/ active' = active
           \/ active' = NoRun /\ active = job[t] /\ Finished(job[t])
    PROVE  Goes(t)
  BY StoreSteps DEF Goes, ServiceInv, storeVars, Requested

\* A thread that leaves.
LEMMA GoesLeave ==
    ASSUME ServiceInv, NEW t \in Threads, pc[t] # "idle", Leave(t),
           UNCHANGED <<storeVars, permVars, phase, pastVars>>,
           \/ active' = active
           \/ active' = NoRun /\ active = job[t] /\ Finished(job[t])
    PROVE  Goes(t)
<1>1. pc'[t] = "idle" /\ Alone(t)
  BY LeaveAt
<1>2. HolderOK(t)'
  BY <1>1 DEF HolderOK, Engaged
<1> QED
  BY <1>1, <1>2, GoesSilent DEF Engaged, permVars, pastVars

\* The loop, from its first event to its outcome or its wait.
LEMMA GoesLoop ==
    ASSUME ServiceInv, PatientParts, DecidedAsked, NEW t \in Threads, LoopStep(t)
    PROVE  Goes(t)
<1>1. /\ pc[t] \in {"start", "turn", "asked", "executed", "resume", "reexecuted", "dispatch",
                    "redispatch"}
      /\ pc[t] \in Engaged /\ pc[t] # "idle"
  BY DEF LoopStep, Start, Report, SeeCancel, End, Call, AuthorizeCall, Asked, Executed, Resume,
         Reexecuted, Dispatch, Engaged
<1>2. PICK r \in Runs : r = job[t]
  BY <1>1, AtWork
<1>3. /\ TerminalStatuses = TerminalEvents
      /\ {"running", "awaiting"} \cap TerminalStatuses = {}
      /\ {"started", "progress", "requested", "resolved", "tool_started", "tool_completed"}
           \cap TerminalEvents = {}
      /\ {"completed", "failed", "blocked", "cancelled"} \subseteq TerminalStatuses
      /\ TerminalStatuses \subseteq RunStatuses /\ {"running", "awaiting"} \subseteq RunStatuses
  BY DEF TerminalEvents, TerminalStatuses, RunStatuses
<1>4. CASE Start(t) \/ Executed(t) \/ Reexecuted(t)
  <2>1. PICK kind \in {"started", "tool_completed"}, place \in {"turn", "start"} :
          /\ PersistLive(t, kind, "running", NoCallId)
          /\ Hold(t, "running", NoCallId) /\ Goto(t, place)
          /\ UNCHANGED <<permVars, procVars, job, pastVars>>
    BY <1>4 DEF Start, Executed, Reexecuted
  <2>2. /\ pc'[t] = place
        /\ \A u \in Threads : u # t =>
             pc'[u] = pc[u] /\ vstatus'[u] = vstatus[u] /\ vcall'[u] = vcall[u]
    BY <1>1, <2>1, AtWork, GotoAt, HoldAt
  <2>3. UNCHANGED <<asked, decision, overdue, procVars, job, env>>
    BY <2>1 DEF permVars, pastVars
  <2> QED
    BY <1>1, <2>1, <2>2, <2>3, GoesOn
<1>5. CASE Report(t)
  BY <1>1, <1>5, GoesOn DEF Report, permVars, pastVars
<1>6. CASE SeeCancel(t)
  <2>1. pc'[t] = "returned" /\ vstatus'[t] = "cancelled"
    BY <1>1, <1>6, AtWork, GotoAt, HoldAt DEF SeeCancel
  <2>2. \A u \in Threads : u # t =>
          pc'[u] = pc[u] /\ vstatus'[u] = vstatus[u] /\ vcall'[u] = vcall[u]
    BY <1>1, <1>6, AtWork, GotoAt, HoldAt DEF SeeCancel
  <2>3. /\ PersistLive(t, "cancelled", "cancelled", NoCallId)
        /\ UNCHANGED <<asked, decision, overdue, procVars, job, env>>
    BY <1>6 DEF SeeCancel, permVars, pastVars
  <2>4. /\ "cancelled" \in EventKinds /\ "cancelled" \in TerminalEvents
        /\ "cancelled" \in TerminalStatuses /\ "cancelled" \in RunStatuses
        /\ NoCallId \in PendingCalls /\ vstatus'[t] # "awaiting"
    BY <1>3, <2>1, Words
  <2>5. pc'[t] \in Engaged \ {"append", "write"}
    BY <2>1 DEF Engaged
  <2> QED
    BY <1>1, <2>1, <2>2, <2>3, <2>4, <2>5, GoesReport DEF Requested
<1>7. ASSUME NEW outcome \in {"completed", "failed", "blocked"}, End(t, outcome)
      PROVE  Goes(t)
  <2>1. /\ pc'[t] = "returned" /\ vstatus'[t] = outcome
        /\ \A u \in Threads : u # t =>
             pc'[u] = pc[u] /\ vstatus'[u] = vstatus[u] /\ vcall'[u] = vcall[u]
    BY <1>1, <1>7, AtWork, GotoAt, HoldAt DEF End
  <2>2. /\ PersistLive(t, outcome, outcome, NoCallId)
        /\ UNCHANGED <<asked, decision, overdue, procVars, job, env>>
    BY <1>7 DEF End, permVars, pastVars
  <2>3. /\ outcome \in EventKinds /\ outcome \in TerminalEvents /\ outcome \in TerminalStatuses
        /\ outcome \in RunStatuses /\ NoCallId \in PendingCalls /\ vstatus'[t] # "awaiting"
    BY <1>3, <2>1, Words
  <2>4. pc'[t] \in Engaged \ {"append", "write"}
    BY <2>1 DEF Engaged
  <2> QED
    BY <1>1, <2>1, <2>2, <2>3, <2>4, GoesReport DEF Requested
<1>8. CASE Asked(t)
  <2>1. /\ pc'[t] = "returned" /\ UNCHANGED <<vstatus, vcall, job, asked, decision, overdue>>
        /\ \A u \in Threads : u # t => pc'[u] = pc[u]
    BY <1>1, <1>8, AtWork, GotoAt DEF Asked, permVars
  <2>2. vstatus[t] = "awaiting" /\ vcall[t] \in CallIds
    BY <1>8 DEF Asked, ServiceInv, ThreadsOK, ThreadOK
  <2>3. Undecided(job[t], vcall[t]) /\ <<job[t], vcall[t]>> \notin overdue
    BY <1>8, <2>2 DEF Asked, PatientParts, HolderOK
  <2>4. Undecided(job[t], vcall[t])' /\ <<job[t], vcall'[t]>> \notin overdue
    BY <2>1, <2>3 DEF Undecided, Requested
  <2>5. PersistLive(t, "progress", "awaiting", vcall[t]) /\ UNCHANGED <<procVars, env>>
    BY <1>8 DEF Asked, pastVars
  <2> QED
    BY <1>1, <1>3, <2>1, <2>2, <2>4, <2>5, Words, GoesReport
    DEF Engaged, Requested, TerminalStatuses
<1>9. CASE Dispatch(t, "dispatch", "executed") \/ Dispatch(t, "redispatch", "reexecuted")
  <2>1. /\ PersistLive(t, "tool_started", "running", NoCallId)
        /\ pc'[t] \in {"executed", "reexecuted"}
        /\ \A u \in Threads : u # t => pc'[u] = pc[u]
        /\ UNCHANGED <<asked, decision, overdue, procVars, job, vstatus, vcall, env>>
    BY <1>1, <1>9, AtWork, GotoAt DEF Dispatch, permVars
  <2> QED
    BY <1>1, <2>1, GoesOn
<1>10. CASE Resume(t)
  <2>1. PICK c \in Calls, verdict \in {"allowed", "denied"}, place \in {"redispatch", "reexecuted"} :
          Authorize(r, c, verdict) /\ Goto(t, place) /\ Hold(t, "running", c.id)
    BY <1>2, <1>10 DEF Resume
  <2>2. UNCHANGED <<asked, decision, overdue>>
    BY <2>1, AuthorizeEffect DEF Verdicts
  <2>3. PersistLive(t, "resolved", "running", NoCallId) /\ UNCHANGED <<procVars, job, env>>
    BY <1>10 DEF Resume, pastVars
  <2> QED
    BY <1>1, <2>1, <2>2, <2>3, AtWork, GotoAt, HoldAt, GoesOn
<1>11. ASSUME NEW c \in Calls, Call(t, c)
       PROVE  Goes(t)
  <2>0. pc[t] = "turn" /\ UNCHANGED <<procVars, job, env>>
    BY <1>11 DEF Call, AuthorizeCall
  <2>1. CASE /\ Authorize(r, c, "denied")
             /\ PersistLive(t, "tool_completed", "running", NoCallId)
             /\ UNCHANGED <<pc, vstatus, vcall>>
    <3>1. UNCHANGED <<asked, decision, overdue>>
      BY <2>1, AuthorizeEffect DEF Verdicts
    <3> QED
      BY <1>1, <1>3, <2>0, <2>1, <3>1, Words, GoesReport DEF Engaged, Requested
  <2>2. CASE /\ Authorize(r, c, "allowed")
             /\ Goto(t, "dispatch") /\ Hold(t, "running", c.id)
             /\ UNCHANGED <<storeVars, resultVars>>
    <3>1. UNCHANGED <<asked, decision, overdue>>
      BY <2>2, AuthorizeEffect DEF Verdicts
    <3>2. pc'[t] = "dispatch" /\ job'[t] = r /\ Alone(t) /\ emitted'[t] = emitted[t]
      BY <1>1, <1>2, <2>0, <2>2, AtWork, GotoAt, HoldAt DEF Alone, resultVars
    <3>3. ~Finished(r) => emitted[t] <= Len(journal[r])
      BY <1>1, <1>2 DEF PatientParts, HolderOK
    <3>4. HolderOK(t)'
      BY <2>2, <3>2, <3>3 DEF HolderOK, Engaged, Finished, storeVars
    <3> QED
      BY <1>1, <1>2, <2>0, <2>2, <3>1, <3>2, <3>4, GoesSilent DEF Engaged, procVars
  <2>3. CASE Asks(t, c)
    <3>1. Handover(t, c)
      BY <2>3, AsksEffect
    <3>2. PICK i \in CallIds : i = c.id
      BY <3>1 DEF Handover
    <3>3. <<r, i>> \in Keys /\ ~Requested(<<r, i>>) /\ <<r, i>> \notin overdue
          /\ decision[<<r, i>>] = "none"
      BY <1>2, <3>1, <3>2 DEF Handover, Keys, DecidedAsked, ServiceInv, CallsOK
    <3>4. /\ asked' = [asked EXCEPT ![<<r, i>>] = [tool |-> c.tool, args |-> c.args]]
          /\ UNCHANGED <<decision, overdue>> /\ pc'[t] = "asked" /\ vcall'[t] = i /\ job'[t] = r
      BY <1>2, <3>1, <3>2 DEF Handover
    <3>5. asked'[<<r, i>>] # NoCall /\ \A k \in Keys : Requested(k) => Requested(k)'
      BY <3>3, <3>4, KeysAndScopes, PermissionAssumption
      DEF Requested, ServiceInv, TypeOK, PermTypeOK
    <3>6. Undecided(job[t], vcall[t])' /\ <<job[t], vcall'[t]>> \notin overdue
      BY <1>2, <3>3, <3>4, <3>5 DEF Undecided, Requested
    <3>7. /\ PersistLive(t, "requested", "awaiting", c.id)
          /\ \A u \in Threads : u # t =>
               pc'[u] = pc[u] /\ vstatus'[u] = vstatus[u] /\ vcall'[u] = vcall[u]
          /\ vstatus'[t] = "awaiting"
      BY <2>3, <3>1 DEF Asks, Handover, Alone
    <3> QED
      BY <1>1, <1>3, <2>0, <3>4, <3>5, <3>6, <3>7, Words, GoesReport DEF Engaged, TerminalStatuses
  <2> QED
    BY <1>2, <1>11, <2>1, <2>2, <2>3 DEF Asks, Call, AuthorizeCall
<1> QED
  BY <1>4, <1>5, <1>6, <1>7, <1>8, <1>9, <1>10, <1>11 DEF LoopStep

\* Into the loop, and out of it: the write of _persist meets an unfinished run
\* and a wait, so it replaces a status by "awaiting" and needs no event.
LEMMA GoesEdges ==
    ASSUME ServiceInv, PatientParts, NEW t \in Threads,
           \/ Execute(t) \/ Admit(t) \/ AdmissionFails(t) \/ PersistLook(t) \/ PersistWrite(t)
           \/ PersistAppend(t) \/ PersistEnds(t) \/ Settle(t) \/ Release(t)
    PROVE  Goes(t)
<1>1. /\ pc[t] \in {"prepared", "admission", "returned", "write", "settle", "release"}
      /\ pc[t] # "idle" /\ HolderOK(t) /\ TypeOK
  BY DEF Execute, Admit, AdmissionFails, PersistLook, PersistWrite, PersistAppend, PersistEnds,
         Settle, Release, PatientParts, HolderOK, ServiceInv
<1>2. PICK r \in Runs : r = job[t]
  BY <1>1, AtWork
<1>3. /\ pc[t] \in {"returned", "write"} =>
           \/ vstatus[t] = "awaiting" /\ vcall[t] \in CallIds
           \/ vstatus[t] \in TerminalStatuses
      /\ pc[t] \in Engaged /\ ~Finished(r) => emitted[t] <= Len(journal[r])
  BY <1>1, <1>2 DEF ServiceInv, ThreadsOK, ThreadOK, Concluding, HolderOK
<1>4. ASSUME pc[t] # "release", Leave(t), UNCHANGED <<storeVars, permVars, procVars, pastVars>>
      PROVE  Goes(t)
  BY <1>1, <1>4, GoesLeave DEF procVars
<1>5. ASSUME NEW place \in {"admission", "resume", "start"}, Goto(t, place), pc[t] \in Engaged,
             \A u \in Threads : u # t => vstatus'[u] = vstatus[u] /\ vcall'[u] = vcall[u],
             UNCHANGED <<job, resultVars, storeVars, permVars, procVars, pastVars>>
      PROVE  Goes(t)
  <2>1. pc'[t] = place /\ job'[t] = r /\ emitted'[t] = emitted[t] /\ Alone(t)
    BY <1>1, <1>2, <1>5, AtWork, GotoAt DEF Alone, resultVars
  <2>2. HolderOK(t)'
    BY <1>3, <1>5, <2>1 DEF HolderOK, Engaged, Finished, storeVars
  <2> QED
    BY <1>1, <1>2, <1>5, <2>1, <2>2, GoesSilent DEF permVars, procVars, pastVars
<1>6. CASE Execute(t)
  BY <1>1, <1>4, <1>5, <1>6, AtWork, HoldAt DEF Execute, Engaged
<1>7. CASE Admit(t)
  BY <1>1, <1>4, <1>5, <1>7 DEF Admit, Engaged
<1>8. CASE AdmissionFails(t)
  <2>1. CASE Finished(r) /\ Leave(t) /\ UNCHANGED storeVars
    BY <1>1, <1>4, <1>8, <2>1 DEF AdmissionFails
  <2>2. CASE /\ StoreAppend(r, "failed", "failed", pending[r])
             /\ Goto(t, "release") /\ Hold(t, "failed", pending[r])
             /\ UNCHANGED <<job, resultVars>>
    <3>1. /\ pc'[t] = "release" /\ job'[t] = r /\ vstatus'[t] = "failed" /\ Alone(t)
      BY <1>1, <1>2, <2>2, AtWork, GotoAt, HoldAt DEF Alone, resultVars
    <3>2. /\ Finished(r)'
          /\ \A q \in Runs : q # r => journal'[q] = journal[q] /\ status'[q] = status[q]
      BY <1>1, <2>2 DEF StoreAppend, Finished, TerminalStatuses, TypeOK
    <3>3. StoreKept
      <4>1. "failed" \in TerminalStatuses /\ "failed" \in TerminalEvents /\ "failed" \in RunStatuses
            /\ pending[r] \in PendingCalls
        BY <1>1 DEF TerminalStatuses, TerminalEvents, RunStatuses, TypeOK
      <4> QED
        BY <1>1, <2>2, <4>1, Words, StoreSteps
    <3>4. HolderOK(t)'
      BY <3>1, <3>2 DEF HolderOK, Engaged, Finished
    <3>5. UNCHANGED <<asked, decision, overdue, phase, active, env>>
      BY <1>8 DEF AdmissionFails, permVars, procVars, pastVars
    <3> QED
      BY <1>1, <1>2, <1>8, <3>1, <3>2, <3>3, <3>4, <3>5 DEF Goes, Engaged, Requested, AdmissionFails
  <2> QED
    BY <1>2, <1>8, <2>1, <2>2 DEF AdmissionFails
<1>9. CASE PersistLook(t)
  <2>1. /\ Alone(t) /\ job'[t] = r /\ vstatus'[t] = vstatus[t] /\ vcall'[t] = vcall[t]
        /\ emitted'[t] = emitted[t]
        /\ UNCHANGED <<storeVars, asked, decision, overdue, active, phase, env>>
    BY <1>1, <1>2, <1>9, AtWork, GotoAt
    DEF PersistLook, Alone, resultVars, permVars, procVars, pastVars
  <2>2. pc'[t] = "settle" \/ (pc'[t] = "write" /\ ~Finished(r))
    BY <1>1, <1>2, <1>9, AtWork, GotoAt DEF PersistLook
  <2>3. HolderOK(t)'
    <3>1. pc[t] = "returned" /\ vstatus[t] \in TerminalStatuses => Finished(r)
      BY <1>1, <1>2 DEF HolderOK
    <3>2. pc[t] = "returned" /\ vstatus[t] = "awaiting" =>
             Undecided(r, vcall[t]) /\ <<r, vcall[t]>> \notin overdue
      BY <1>1, <1>2 DEF HolderOK
    <3>3. pc[t] = "returned" /\ pc[t] \in Engaged
      BY <1>9 DEF PersistLook, Engaged
    <3>4. CASE pc'[t] = "settle"
      BY <3>4 DEF HolderOK, Engaged
    <3>5. CASE pc'[t] = "write" /\ ~Finished(r)
      BY <1>3, <2>1, <3>1, <3>2, <3>3, <3>5 DEF HolderOK, Undecided, Requested, Finished, storeVars
    <3> QED
      BY <2>2, <3>4, <3>5
  <2>4. pc[t] \in Engaged
    BY <1>9 DEF PersistLook, Engaged
  <2> QED
    BY <1>1, <1>2, <2>1, <2>3, <2>4, GoesSilent
<1>10. CASE PersistWrite(t)
  <2>1. ~Finished(r) /\ emitted[t] <= Len(journal[r]) /\ vstatus[t] = "awaiting"
    BY <1>1, <1>2, <1>3, <1>10 DEF PersistWrite, HolderOK, Engaged
  <2>2. emitted[t] \in Nat /\ Len(journal[r]) \in Nat
    BY <1>1 DEF TypeOK
  <2>3. /\ StoreUpdate(r, "awaiting", vcall[t]) /\ Goto(t, "settle")
        /\ UNCHANGED <<permVars, procVars, job, vstatus, vcall, emitted, unsaved, pastVars>>
    BY <1>2, <1>10, <2>1, <2>2 DEF PersistWrite
  <2>4. /\ Alone(t) /\ pc'[t] = "settle"
        /\ \A q \in Runs : q # r => journal'[q] = journal[q] /\ status'[q] = status[q]
    BY <1>1, <2>3, AtWork, GotoAt DEF Alone, StoreUpdate, TypeOK
  <2>5. StoreKept
    BY <1>1, <2>1, <2>3, StoreSteps DEF TypeOK
  <2>6. HolderOK(t)' /\ pc'[t] \notin Engaged
    BY <2>4 DEF HolderOK, Engaged
  <2>7. pc[t] = "write"
    BY <1>10 DEF PersistWrite
  <2> QED
    BY <1>1, <1>2, <2>3, <2>4, <2>5, <2>6, <2>7 DEF Goes, Requested, permVars, procVars, pastVars
<1>11. CASE PersistAppend(t) \/ PersistEnds(t)
  BY <1>1, <1>11 DEF PersistAppend, PersistEnds
<1>12. CASE Settle(t)
  <2>1. /\ Alone(t) /\ pc'[t] = "release" /\ job'[t] = r /\ vstatus'[t] = status[r]
        /\ UNCHANGED <<storeVars, asked, decision, overdue, active, phase, env>>
    BY <1>1, <1>2, <1>12, AtWork, GotoAt, HoldAt
    DEF Settle, Alone, resultVars, permVars, procVars, pastVars
  <2>2. HolderOK(t)' /\ pc'[t] \notin Engaged
    BY <2>1 DEF HolderOK, Engaged, Finished, storeVars
  <2> QED
    BY <1>1, <2>1, <2>2, GoesSilent
<1>13. CASE Release(t)
  <2>1. vstatus[t] \in TerminalStatuses => Finished(r)
    BY <1>1, <1>2, <1>13 DEF Release, HolderOK
  <2>2. \/ active' = active
        \/ active' = NoRun /\ active = r /\ Finished(r)
    BY <1>2, <1>13, <2>1 DEF Release
  <2> QED
    BY <1>1, <1>2, <1>13, <2>2, GoesLeave DEF Release
<1> QED
  BY <1>6, <1>7, <1>8, <1>9, <1>10, <1>11, <1>12, <1>13

(***************************************************************************)
(* The other steps                                                         *)
(***************************************************************************)

\* A new run has a thread of its own, and no other run is in flight.
LEMMA PreparePatient ==
    ASSUME ServiceInv, Patient, PatientParts, NEW t \in Threads, NEW r \in Runs, Prepare(t, r)
    PROVE  PatientParts'
<1>1. /\ TypeOK /\ ~Created(r) /\ phase # "down" /\ pc[t] = "idle" /\ emitted[t] = 0
      /\ active # NoRun => Finished(active)
      /\ status' = [status EXCEPT ![r] = "queued"] /\ active' = r
      /\ UNCHANGED <<journal, asked, decision, overdue, phase, vstatus, vcall, emitted>>
  BY DEF ServiceInv, ThreadsOK, ThreadOK, Prepare, StoreCreate, permVars, resultVars
<1>2. /\ pc'[t] = "prepared" /\ job'[t] = r
      /\ \A u \in Threads : u # t => pc'[u] = pc[u] /\ job'[u] = job[u]
  BY <1>1 DEF Prepare, Goto, TypeOK
<1>3. \A u \in Threads : pc[u] # "idle" => job[u] \in Runs /\ job[u] # r /\ status'[job[u]] = status[job[u]]
  BY <1>1, AtWork DEF Created
<1>4. \A q \in Runs : Finished(q)' <=> Finished(q)
  BY <1>1 DEF Finished, Created, TypeOK, TerminalStatuses
<1>5. OneEngaged'
  BY <1>2, <1>3 DEF PatientParts, OneEngaged, Engaged
<1>6. ASSUME NEW u \in Threads
      PROVE  HolderOK(u)'
  <2>1. CASE u = t
    <3>1. Len(journal[r]) \in Nat
      BY <1>1 DEF TypeOK
    <3> QED
      BY <1>1, <1>2, <2>1, <3>1 DEF HolderOK
  <2>2. CASE u # t /\ pc[u] = "idle"
    BY <1>2, <2>2 DEF HolderOK, Engaged
  <2>3. CASE u # t /\ pc[u] # "idle"
    <3>1. HolderOK(u) /\ job[u] \in Runs
      BY <1>3, <2>3 DEF PatientParts
    <3> QED
      BY <1>1, <1>2, <1>3, <2>3, <3>1 DEF HolderOK, Undecided, Requested, Finished
  <2> QED
    BY <2>1, <2>2, <2>3
<1>7. JournalOK'
  <2>1. \A q \in Runs : Told(q)
    BY <1>1, <1>4 DEF Told
  <2> QED
    BY <1>1, <2>1, JournalStep DEF PatientParts
<1>8. SingleFlight'
  <2>1. \A q \in Runs : ~Live(q)
    BY <1>1, RunServiceAssumption DEF PatientParts, SingleFlight, Live
  <2>2. \A q \in Runs : Live(q)' => q = r
    BY <1>1, <2>1 DEF Live, Created, Finished, TypeOK
  <2> QED
    BY <1>1, <2>2 DEF SingleFlight
<1> QED
  BY <1>5, <1>6, <1>7, <1>8 DEF PatientParts

\* When a request can be answered, by a client or by its timer, nobody is
\* engaged with its run any more.
LEMMA NobodyEngaged ==
    ASSUME ServiceInv, PatientParts, NEW r \in Runs, NEW i \in CallIds, Undecided(r, i),
           \/ \A u \in Threads : job[u] = r => pc[u] \notin {"asked", "returned", "write"}
           \/ <<r, i>> \in overdue,
           NEW u \in Threads, job[u] = r
    PROVE  pc[u] \notin Engaged
<1>1. ~LoopsFor(u, r)
  BY DEF ServiceInv, OneActor
<1>2. HolderOK(u) /\ ThreadOK(u)
  BY DEF PatientParts, ServiceInv, ThreadsOK
<1>3. ASSUME pc[u] \in {"asked", "returned", "write"}
      PROVE  FALSE
  <2>1. <<r, i>> \in overdue
    BY <1>3
  <2>2. CASE vstatus[u] = "awaiting"
    <3>1. vcall[u] \in CallIds
      BY <1>2, <1>3, <2>2 DEF ThreadOK, Concluding, TerminalStatuses
    <3>2. Undecided(r, vcall[u]) /\ <<r, vcall[u]>> \notin overdue
      BY <1>2, <1>3, <2>2 DEF HolderOK
    <3>3. vcall[u] = i
      BY <3>1, <3>2 DEF ServiceInv, OneActor
    <3> QED
      BY <2>1, <3>2, <3>3
  <2>3. CASE vstatus[u] # "awaiting"
    <3>1. pc[u] \in Concluding /\ vstatus[u] \in TerminalStatuses
      BY <1>2, <1>3, <2>3 DEF ThreadOK, Concluding
    <3> QED
      BY <3>1 DEF ServiceInv, OneActor
  <2> QED
    BY <2>2, <2>3
<1> QED
  BY <1>1, <1>2, <1>3 DEF HolderOK, LoopsFor, Looping, Engaged

\* An answer brings one thread back to a run that has none.
LEMMA RespondPatient ==
    ASSUME ServiceInv, Patient, PatientParts, NEW t \in Threads, NEW r \in Runs, NEW i \in CallIds,
           NEW kind, Respond(t, <<r, i>>, kind), MayAnswer(r) \/ <<r, i>> \in overdue
    PROVE  PatientParts'
<1>1. /\ TypeOK /\ pc[t] = "idle" /\ emitted[t] = 0 /\ status[r] = "awaiting"
      /\ Undecided(r, i)
      /\ UNCHANGED <<storeVars, asked, overdue, active, phase, emitted>>
  BY DEF ServiceInv, ThreadsOK, ThreadOK, Respond, Resolve, Undecided, resultVars
<1>2. \A u \in Threads : job[u] = r => pc[u] \notin Engaged
  BY <1>1, NobodyEngaged DEF MayAnswer
<1>3. /\ pc'[t] = "admission" /\ job'[t] = r
      /\ \A u \in Threads : u # t => /\ pc'[u] = pc[u] /\ job'[u] = job[u]
                                     /\ vstatus'[u] = vstatus[u] /\ vcall'[u] = vcall[u]
  BY <1>1, GotoAt, HoldAt DEF Respond, TypeOK
<1>4. \A q \in Runs, j \in CallIds : q # r /\ Undecided(q, j) => Undecided(q, j)'
  BY <1>1 DEF Respond, Resolve, Undecided, Requested, TypeOK, PermTypeOK, Keys
<1>5. OneEngaged'
  BY <1>2, <1>3 DEF PatientParts, OneEngaged
<1>6. ASSUME NEW u \in Threads
      PROVE  HolderOK(u)'
  <2>1. CASE u = t
    <3>1. Len(journal[r]) \in Nat
      BY <1>1 DEF TypeOK
    <3> QED
      BY <1>1, <1>3, <2>1, <3>1 DEF HolderOK, storeVars
  <2>2. CASE u # t /\ pc[u] \notin {"asked", "returned", "write"}
    <3>1. /\ UNCHANGED <<journal, status>>
          /\ pc'[u] = pc[u] /\ job'[u] = job[u] /\ vstatus'[u] = vstatus[u]
          /\ emitted'[u] = emitted[u]
      BY <1>1, <1>3, <2>2 DEF storeVars
    <3>2. HolderOK(u)
      BY DEF PatientParts
    <3> QED
      BY <2>2, <3>1, <3>2 DEF HolderOK, Finished
  <2>3. CASE u # t /\ pc[u] \in {"asked", "returned", "write"}
    <3>1. PICK q \in Runs : q = job[u] /\ q # r
      BY <1>2, <2>3, AtWork DEF Engaged
    <3>2. vstatus[u] = "awaiting" => vcall[u] \in CallIds
      BY <2>3 DEF ServiceInv, ThreadsOK, ThreadOK, Concluding, TerminalStatuses
    <3>3. HolderOK(u)
      BY DEF PatientParts
    <3>4. /\ UNCHANGED <<journal, status, overdue>>
          /\ pc'[u] = pc[u] /\ job'[u] = q /\ vstatus'[u] = vstatus[u]
          /\ vcall'[u] = vcall[u] /\ emitted'[u] = emitted[u]
      BY <1>1, <1>3, <2>3, <3>1 DEF storeVars
    <3>5. vstatus[u] = "awaiting" => Undecided(job[u], vcall[u])' /\ <<q, vcall[u]>> \notin overdue
      <4> SUFFICES ASSUME vstatus[u] = "awaiting"
                   PROVE  Undecided(job[u], vcall[u])' /\ <<q, vcall[u]>> \notin overdue
        OBVIOUS
      <4>1. PICK j \in CallIds : j = vcall[u]
        BY <3>2
      <4>2. Undecided(q, j) /\ <<q, j>> \notin overdue
        BY <2>3, <3>1, <3>3, <4>1 DEF HolderOK
      <4>3. Undecided(q, j)'
        BY <1>4, <3>1, <4>2
      <4> QED
        BY <3>4, <4>1, <4>2, <4>3 DEF Undecided, Requested
    <3> QED
      BY <2>3, <3>1, <3>3, <3>4, <3>5 DEF HolderOK, Finished
  <2> QED
    BY <2>1, <2>2, <2>3
<1>7. JournalOK' /\ SingleFlight'
  BY <1>1 DEF PatientParts, JournalOK, TerminalAt, SingleFlight, Live, Created, Finished, Patient,
     storeVars
<1> QED
  BY <1>5, <1>6, <1>7 DEF PatientParts

\* A cancel, the clock, a spent timer, close, and the sweep and the start after
\* a crash touch no run between the look and the write of its thread.
LEMMA OutsidePatient ==
    ASSUME ServiceInv, Patient, PatientParts, UNCHANGED <<threadVars, asked, decision, env>>,
           StoreKept, phase' # "down" => phase # "down" \/ \A r \in Runs : ~Live(r),
           \A r \in Runs : status'[r] = status[r] \/ (Finished(r)' /\ MayCancel(r)),
           \A k \in Keys : k \in overdue' => k \in overdue \/ MayAnswer(k[1]),
           active' = active \/ \A r \in Runs : ~Live(r)'
    PROVE  PatientParts'
<1>1. /\ TypeOK /\ \A u \in Threads : pc[u] # "idle" => job[u] \in Runs
      /\ UNCHANGED <<pc, job, vstatus, vcall, emitted>>
  BY AtWork DEF ServiceInv, threadVars, resultVars
<1>2. OneEngaged'
  BY <1>1 DEF PatientParts, OneEngaged
<1>3. ASSUME NEW u \in Threads
      PROVE  HolderOK(u)'
  <2>1. CASE pc[u] = "idle"
    BY <1>1, <2>1 DEF HolderOK, Engaged
  <2>2. CASE pc[u] # "idle"
    <3>1. PICK q \in Runs : q = job[u]
      BY <1>1, <2>2
    <3>2. HolderOK(u)
      BY DEF PatientParts
    <3>3. pc[u] \in {"asked", "returned", "write"} /\ vstatus[u] = "awaiting" =>
            Undecided(job[u], vcall[u])' /\ <<q, vcall[u]>> \notin overdue'
      <4> SUFFICES ASSUME pc[u] \in {"asked", "returned", "write"}, vstatus[u] = "awaiting"
                   PROVE  Undecided(job[u], vcall[u])' /\ <<q, vcall[u]>> \notin overdue'
        OBVIOUS
      <4>1. vcall[u] \in CallIds
        BY DEF ServiceInv, ThreadsOK, ThreadOK, Concluding, TerminalStatuses
      <4>2. Undecided(q, vcall[u]) /\ <<q, vcall[u]>> \notin overdue
        BY <3>1, <3>2 DEF HolderOK
      <4>3. ~MayAnswer(q)
        BY <3>1 DEF MayAnswer
      <4>4. <<q, vcall[u]>> \notin overdue'
        BY <4>1, <4>2, <4>3 DEF Keys
      <4>5. Undecided(job[u], vcall[u])'
        BY <1>1, <3>1, <4>2 DEF Undecided, Requested
      <4> QED
        BY <4>4, <4>5
    <3>4. Finished(q) => Finished(q)'
      BY DEF Finished
    <3>5. pc[u] = "write" => ~Finished(q)'
      <4>1. pc[u] = "write" => ~MayCancel(q) /\ ~Finished(q)
        BY <3>1, <3>2 DEF HolderOK, MayCancel
      <4> QED
        BY <4>1 DEF Finished
    <3>6. ~Finished(q)' => Len(journal'[q]) >= Len(journal[q])
      <4>1. journal[q] \in Seq(EventKinds)
        BY <1>1 DEF TypeOK
      <4>2. \A kind \in EventKinds :
              Len(Append(journal[q], kind)) = Len(journal[q]) + 1 /\ Len(journal[q]) \in Nat
        BY <4>1
      <4>3. Told(q) /\ Len(journal[q]) \in Nat
        BY <4>1 DEF StoreKept
      <4> QED
        BY <4>2, <4>3 DEF Told
    <3>7. pc[u] \in Engaged /\ ~Finished(q)' => emitted[u] <= Len(journal'[q])
      <4>1. emitted[u] \in Nat /\ journal[q] \in Seq(EventKinds)
        BY <1>1 DEF TypeOK
      <4>2. \A kind \in EventKinds : Append(journal[q], kind) \in Seq(EventKinds)
        BY <4>1
      <4>3. journal'[q] \in Seq(EventKinds)
        BY <4>1, <4>2 DEF StoreKept, Told
      <4>4. Len(journal[q]) \in Nat /\ Len(journal'[q]) \in Nat
        BY <4>1, <4>3
      <4>5. pc[u] \in Engaged /\ ~Finished(q)' => emitted[u] <= Len(journal[q])
        BY <3>1, <3>2, <3>4 DEF HolderOK
      <4> QED
        BY <3>6, <4>1, <4>4, <4>5
    <3>8. job'[u] = q
      BY <1>1, <3>1
    <3> QED
      BY <1>1, <3>1, <3>2, <3>3, <3>4, <3>5, <3>7, <3>8 DEF HolderOK, Finished
  <2> QED
    BY <2>1, <2>2
<1>4. JournalOK'
  BY <1>1, JournalStep DEF StoreKept, PatientParts
<1>5. SingleFlight'
  <2>1. CASE phase' # "down" /\ phase = "down"
    <3>1. \A r \in Runs : ~Live(r)'
      BY <2>1 DEF StoreKept, Told, Live
    <3> QED
      BY <3>1 DEF SingleFlight
  <2>2. CASE phase' # "down" => phase # "down"
    BY <2>2, FlightStep DEF PatientParts
  <2> QED
    BY <2>1, <2>2
<1> QED
  BY <1>2, <1>3, <1>4, <1>5 DEF PatientParts

\* The steps no thread takes.
LEMMA OutsideStepsPatient ==
    ASSUME ServiceInv, Patient, PatientParts,
           \/ \E r \in Runs : Cancel(r) \/ Sweep(r)
           \/ \E k \in Keys : Lapse(k)
           \/ \E t \in Threads, k \in Keys : FireTimer(t, k) /\ ~CanRespond(k)
           \/ Close \/ Restart \/ UNCHANGED vars
    PROVE  PatientParts'
<1>1. TypeOK
  BY DEF ServiceInv
<1>2. ASSUME UNCHANGED <<threadVars, asked, decision, env, storeVars>>,
             phase' # "down" => phase # "down" \/ \A r \in Runs : ~Live(r),
             \A k \in Keys : k \in overdue' => k \in overdue \/ MayAnswer(k[1]),
             active' = active
      PROVE  PatientParts'
  BY <1>1, <1>2, StoreSteps, OutsidePatient DEF storeVars
<1>3. ASSUME NEW r \in Runs, Cancel(r) \/ Sweep(r)
      PROVE  PatientParts'
  <2>1. PICK s \in {"cancelled", "interrupted"} : StoreAppend(r, s, s, pending[r])
    BY <1>3 DEF Cancel, Sweep, StoreInterrupt
  <2>2. /\ s \in TerminalStatuses /\ s \in TerminalEvents /\ s \in RunStatuses /\ s \in EventKinds
        /\ pending[r] \in PendingCalls
    BY <1>1 DEF TerminalStatuses, TerminalEvents, RunStatuses, EventKinds, TypeOK
  <2>3. StoreKept
    BY <1>1, <2>1, <2>2, StoreSteps
  <2>4. /\ Finished(r)' /\ Live(r)
        /\ \A q \in Runs : q # r => status'[q] = status[q]
    BY <1>1, <2>1, <2>2 DEF StoreAppend, Finished, TypeOK
  <2>5. MayCancel(r)
    <3>1. CASE Sweep(r)
      BY <3>1 DEF Sweep, MayCancel, ServiceInv, ThreadsOK
    <3> QED
      BY <1>3, <3>1 DEF Cancel
  <2>6. active' = active \/ \A q \in Runs : ~Live(q)'
    <3>1. CASE Cancel(r)
      <4>1. \A q \in Runs : Live(q) => q = r
        BY <2>4, <3>1 DEF Cancel, PatientParts, SingleFlight
      <4>2. \A q \in Runs : Live(q)' => Live(q)
        BY <2>3 DEF StoreKept, Told, Live
      <4> QED
        BY <2>4, <4>1, <4>2 DEF Live
    <3> QED
      BY <1>3, <3>1 DEF Sweep, procVars
  <2>7. /\ UNCHANGED <<threadVars, asked, decision, env, overdue>>
        /\ phase' = phase
    BY <1>3 DEF Cancel, Sweep, permVars, procVars, pastVars
  <2> QED
    BY <2>3, <2>4, <2>5, <2>6, <2>7, OutsidePatient
<1>4. ASSUME NEW k \in Keys, Lapse(k)
      PROVE  PatientParts'
  BY <1>2, <1>4 DEF Lapse, DeadlinePasses, procVars, pastVars
<1>5. ASSUME NEW t \in Threads, NEW k \in Keys, FireTimer(t, k), ~CanRespond(k)
      PROVE  PatientParts'
  <2>1. UNCHANGED <<storeVars, permVars, active, loops, signalled, phase, crashes, threadVars, pastVars>>
    BY <1>5 DEF FireTimer
  <2> QED
    BY <1>2, <2>1 DEF permVars, pastVars
<1>6. CASE Close \/ Restart
  <2>1. /\ UNCHANGED <<threadVars, permVars, pastVars, storeVars, active>>
        /\ phase # "down" \/ \A r \in Runs : ~Live(r)
    BY <1>6 DEF Close, Restart
  <2> QED
    BY <1>2, <2>1 DEF permVars, pastVars
<1>7. CASE UNCHANGED vars
  BY <1>2, <1>7 DEF vars, permVars, procVars, pastVars
<1> QED
  BY <1>3, <1>4, <1>5, <1>6, <1>7

\* The process dies, and with it everybody who was engaged.
LEMMA CrashPatient ==
    ASSUME ServiceInv, PatientParts, Crash
    PROVE  PatientParts'
<1>1. (\A t \in Threads : pc'[t] = "idle") /\ UNCHANGED storeVars /\ phase' = "down"
  BY DEF Crash
<1>2. OneEngaged' /\ \A t \in Threads : HolderOK(t)'
  BY <1>1 DEF OneEngaged, HolderOK, Engaged
<1>3. JournalOK' /\ SingleFlight'
  BY <1>1 DEF PatientParts, JournalOK, TerminalAt, SingleFlight, Finished, storeVars
<1> QED
  BY <1>2, <1>3 DEF PatientParts

(***************************************************************************)
(* The theorems                                                            *)
(***************************************************************************)

\* An answer is only taken to a request that exists, and a request only goes
\* with its process.
LEMMA DecidedKept == ServiceInv /\ DecidedAsked /\ [Next]_vars => DecidedAsked'
<1> SUFFICES ASSUME ServiceInv, DecidedAsked, [Next]_vars PROVE DecidedAsked'
  OBVIOUS
<1>1. ASSUME UNCHANGED decision, \A k \in Keys : Requested(k) => Requested(k)'
      PROVE  DecidedAsked'
  BY <1>1 DEF DecidedAsked
<1>2. ASSUME UNCHANGED <<asked, decision>>
      PROVE  DecidedAsked'
  BY <1>2 DEF DecidedAsked, Requested
<1>3. ASSUME NEW t \in Threads, ThreadStep(t)
      PROVE  DecidedAsked'
  <2>1. ASSUME NEW r \in Runs, NEW c \in Calls, NEW verdict \in Verdicts, Authorize(r, c, verdict)
        PROVE  DecidedAsked'
    <3>1. /\ UNCHANGED decision
          /\ \/ asked' = asked
             \/ asked' = [asked EXCEPT ![<<r, c.id>>] = [tool |-> c.tool, args |-> c.args]]
      BY <2>1, AuthorizeEffect
    <3>2. [tool |-> c.tool, args |-> c.args] # NoCall
      BY KeysAndScopes, PermissionAssumption
    <3> QED
      BY <1>1, <3>1, <3>2 DEF Requested, ServiceInv, TypeOK, PermTypeOK
  <2>2. CASE Resume(t)
    <3>1. job[t] \in Runs
      BY <2>2, AtWork DEF Resume
    <3> QED
      BY <2>1, <2>2, <3>1 DEF Resume, Verdicts
  <2>3. ASSUME NEW c \in Calls, Call(t, c)
        PROVE  DecidedAsked'
    <3>1. job[t] \in Runs
      BY <2>3, AtWork DEF Call, AuthorizeCall
    <3> QED
      BY <2>1, <2>3, <3>1 DEF Call, AuthorizeCall, Verdicts
  <2>4. CASE ~Resume(t) /\ ~\E c \in Calls : Call(t, c)
    BY <1>2, <1>3, <2>4
    DEF ThreadStep, LoopStep, Execute, Admit, AdmissionFails, Start, Report, SeeCancel, End, Asked,
        Executed, Reexecuted, Dispatch, PersistLook, PersistWrite, PersistAppend, PersistEnds,
        Settle, Release, permVars
  <2> QED
    BY <2>2, <2>3, <2>4
<1>4. ASSUME NEW k \in Keys, NEW kind, Resolve(k, kind)
      PROVE  DecidedAsked'
  BY <1>4 DEF Resolve, DecidedAsked, Requested, ServiceInv, TypeOK, PermTypeOK
<1>5. ASSUME NEW t \in Threads, NEW k \in Keys, NEW kind, Respond(t, k, kind)
      PROVE  DecidedAsked'
  BY <1>4, <1>5 DEF Respond
<1>6. ASSUME NEW t \in Threads, NEW k \in Keys, FireTimer(t, k)
      PROVE  DecidedAsked'
  BY <1>2, <1>5, <1>6 DEF FireTimer, permVars
<1>7. ASSUME Crash
      PROVE  DecidedAsked'
  BY <1>7 DEF Crash, DecidedAsked
<1>8. ASSUME \/ \E r \in Runs : Cancel(r) \/ Sweep(r) \/ \E t \in Threads : Prepare(t, r)
             \/ \E k \in Keys : Lapse(k)
             \/ Close \/ Restart \/ UNCHANGED vars
      PROVE  DecidedAsked'
  <2>1. UNCHANGED <<asked, decision>>
    BY <1>8 DEF Cancel, Sweep, Prepare, Lapse, DeadlinePasses, Close, Restart, vars, permVars
  <2> QED
    BY <1>2, <2>1
<1>9. ASSUME NEW t \in Threads, NEW k \in Keys, NEW kind \in env.decisions, Answer(t, k, kind)
      PROVE  DecidedAsked'
  BY <1>5, <1>9 DEF Answer
<1> QED
  BY <1>3, <1>6, <1>7, <1>8, <1>9 DEF Next

\* Every step keeps the patient invariant.
LEMMA PatientStepInv ==
    ASSUME ServiceInv, DecidedAsked, PatientInv, [Next]_vars
    PROVE  PatientInv'
<1>1. Patient' <=> Patient
  BY EnvKept DEF Patient
<1> SUFFICES ASSUME Patient PROVE PatientParts'
  BY <1>1 DEF PatientInv, PatientParts
<1>2. PatientParts
  BY DEF PatientInv, PatientParts
<1>3. ASSUME NEW t \in Threads, NEW r \in Runs, Prepare(t, r)
      PROVE  PatientParts'
  BY <1>2, <1>3, PreparePatient
<1>4. ASSUME NEW t \in Threads, ThreadStep(t)
      PROVE  PatientParts'
  <2>1. Goes(t)
    BY <1>2, <1>4, GoesLoop, GoesEdges DEF ThreadStep
  <2> QED
    BY <1>2, <2>1, GoesInv
<1>5. ASSUME NEW t \in Threads, NEW k \in Keys, NEW kind, Respond(t, k, kind),
             MayAnswer(k[1]) \/ k \in overdue
      PROVE  PatientParts'
  <2>1. k[1] \in Runs /\ k[2] \in CallIds /\ k = <<k[1], k[2]>>
    BY DEF Keys
  <2> QED
    BY <1>2, <1>5, <2>1, RespondPatient
<1>6. ASSUME NEW t \in Threads, NEW k \in Keys, FireTimer(t, k), CanRespond(k)
      PROVE  PatientParts'
  BY <1>5, <1>6 DEF FireTimer
<1>7. ASSUME NEW t \in Threads, NEW k \in Keys, NEW kind \in env.decisions, Answer(t, k, kind)
      PROVE  PatientParts'
  BY <1>5, <1>7 DEF Answer
<1>8. ASSUME \/ \E r \in Runs : Cancel(r) \/ Sweep(r)
             \/ \E k \in Keys : Lapse(k)
             \/ \E t \in Threads, k \in Keys : FireTimer(t, k) /\ ~CanRespond(k)
             \/ Close \/ Restart \/ UNCHANGED vars
      PROVE  PatientParts'
  BY <1>2, <1>8, OutsideStepsPatient
<1>9. ASSUME Crash
      PROVE  PatientParts'
  BY <1>2, <1>9, CrashPatient
<1> QED
  BY <1>3, <1>4, <1>6, <1>7, <1>8, <1>9 DEF Next

\* Nobody is engaged and no run exists yet.
LEMMA PatientInitInv == Init => DecidedAsked /\ PatientInv
<1> SUFFICES ASSUME Init PROVE DecidedAsked /\ PatientInv
  OBVIOUS
<1>1. DecidedAsked
  BY DEF Init, PermInit, DecidedAsked
<1>2. OneEngaged /\ \A t \in Threads : HolderOK(t)
  BY DEF Init, OneEngaged, HolderOK, Engaged
<1>3. \A r \in Runs : TerminalAt(r) = {} /\ ~Finished(r) /\ ~Live(r)
  <2>1. Len(<< >>) = 0
    OBVIOUS
  <2> QED
    BY <2>1 DEF Init, StoreInit, TerminalAt, Finished, Live, Created, TerminalStatuses
<1> QED
  BY <1>1, <1>2, <1>3 DEF PatientInv, JournalOK, SingleFlight

\* The invariant of the patient clients, with the one it rests on.
THEOREM PatientInvariant == Spec => [](ServiceInv /\ DecidedAsked /\ PatientInv)
<1>1. Init => ServiceInv /\ DecidedAsked /\ PatientInv
  BY ServiceInitInv, PatientInitInv
<1>2. ServiceInv /\ DecidedAsked /\ PatientInv /\ [Next]_vars
        => (ServiceInv /\ DecidedAsked /\ PatientInv)'
  BY ServiceStepInv, DecidedKept, PatientStepInv
<1> QED
  BY <1>1, <1>2, PTL DEF Spec

\* Among patient clients the journal of a run has at most one terminal event,
\* and it is the last.
THEOREM OneTerminalEvent == Spec => []OneTerminal
<1>1. PatientInv => OneTerminal
  BY DEF PatientInv, JournalOK, OneTerminal
<1> QED
  BY <1>1, PatientInvariant, PTL

\* Snapshot and journal of patient clients' runs agree on which runs are over.
THEOREM StatusIsTold == Spec => []StatusMatchesJournal
<1>1. PatientInv => StatusMatchesJournal
  BY DEF PatientInv, JournalOK, StatusMatchesJournal
<1> QED
  BY <1>1, PatientInvariant, PTL

\* At most one run of a process is in flight, and _active_run_id is its id.
THEOREM OneRunInFlight == Spec => []SingleFlight
<1>1. PatientInv => SingleFlight
  BY DEF PatientInv, SingleFlight
<1> QED
  BY <1>1, PatientInvariant, PTL

\* _persist never finds events of its result missing in the journal.
THEOREM ResultIsJournaled == Spec => []LiveSinkCovers
<1>1. ServiceInv /\ PatientInv => LiveSinkCovers
  <2> SUFFICES ASSUME ServiceInv, PatientInv, Patient, NEW t \in Threads, pc[t] = "write"
               PROVE  Len(journal[job[t]]) >= emitted[t]
    BY DEF LiveSinkCovers
  <2>1. job[t] \in Runs /\ emitted[t] \in Nat
    BY AtWork
  <2>2. Len(journal[job[t]]) \in Nat
    BY <2>1 DEF ServiceInv, TypeOK
  <2>3. emitted[t] <= Len(journal[job[t]])
    BY DEF PatientInv, HolderOK, Engaged
  <2> QED
    BY <2>1, <2>2, <2>3
<1> QED
  BY <1>1, PatientInvariant, PTL

\* A durable terminal status of a patient clients' run is never left again.
THEOREM TerminalIsKept == Spec => TerminalStays
<1>1. ServiceInv /\ DecidedAsked /\ PatientInv /\ [Next]_vars =>
        [Patient => \A r \in Runs : Finished(r) => status'[r] = status[r]]_vars
  <2> SUFFICES ASSUME ServiceInv, DecidedAsked, PatientInv, Next, Patient
               PROVE  \A r \in Runs : Finished(r) => status'[r] = status[r]
    OBVIOUS
  <2>0. PatientParts /\ TypeOK
    BY DEF PatientInv, PatientParts, ServiceInv
  <2>1. ASSUME NEW t \in Threads, ThreadStep(t)
        PROVE  \A r \in Runs : Finished(r) => status'[r] = status[r]
    <3>1. Goes(t)
      BY <2>0, <2>1, GoesLoop, GoesEdges DEF ThreadStep
    <3> QED
      BY <3>1 DEF Goes, StoreKept
  <2>2. ASSUME NEW t \in Threads, NEW q \in Runs, Prepare(t, q)
        PROVE  \A r \in Runs : Finished(r) => status'[r] = status[r]
    BY <2>0, <2>2 DEF Prepare, StoreCreate, Created, Finished, TypeOK, TerminalStatuses
  <2>3. ASSUME NEW q \in Runs, Cancel(q) \/ Sweep(q)
        PROVE  \A r \in Runs : Finished(r) => status'[r] = status[r]
    BY <2>0, <2>3 DEF Cancel, Sweep, StoreInterrupt, StoreAppend, Live, TypeOK
  <2>4. ASSUME \/ \E t \in Threads, k \in Keys, kind \in env.decisions : Answer(t, k, kind)
               \/ \E t \in Threads, k \in Keys : FireTimer(t, k)
               \/ \E k \in Keys : Lapse(k)
               \/ Close \/ Crash \/ Restart
        PROVE  \A r \in Runs : Finished(r) => status'[r] = status[r]
    BY <2>4 DEF Answer, FireTimer, Respond, Lapse, Close, Crash, Restart, storeVars
  <2> QED
    BY <2>1, <2>2, <2>3, <2>4 DEF Next
<1> QED
  BY <1>1, PatientInvariant, PTL DEF Spec, TerminalStays

(***************************************************************************)
(* The journals are logs of RunFeed                                        *)
(***************************************************************************)

\* The service as RunFeed sees it: its journals are the logs, and nobody reads.
NoView == [c \in {} |-> [run |-> 0, shown |-> << >>]]
Logs == INSTANCE RunFeed WITH Convs <- {}, Kinds <- EventKinds, Ends <- TerminalEvents,
                              log <- journal, view <- NoView

\* A run that is live has a log without an end.
LEMMA LiveIsNotEnded ==
    ASSUME TypeOK, JournalOK, NEW r \in Runs, Live(r)
    PROVE  ~ Logs!Ended(r)
<1>1. TerminalAt(r) = {}
  BY DEF JournalOK, Live
<1>2. DOMAIN journal[r] = 1..Len(journal[r])
  BY DEF TypeOK
<1> QED
  BY <1>1, <1>2 DEF TerminalAt, Logs!Ended

\* Among patient clients a step grows a log that has no end, or is not seen.
LEMMA LogStep ==
    ASSUME ServiceInv, PatientInv, Patient, [Next]_vars
    PROVE  [Logs!Next]_<<journal, NoView>>
<1>1. CASE UNCHANGED journal
  BY <1>1 DEF NoView
<1>2. ASSUME NEW r \in Runs, NEW kind \in EventKinds, Live(r),
             journal' = [journal EXCEPT ![r] = Append(@, kind)]
      PROVE  Logs!Next
  <2>1. ~ Logs!Ended(r)
    BY <1>2, LiveIsNotEnded DEF PatientInv, ServiceInv
  <2>2. Logs!Grow(r, kind)
    BY <1>2, <2>1 DEF Logs!Grow, NoView
  <2> QED
    BY <2>2 DEF Logs!Next
<1> QED
  BY <1>1, <1>2, ServiceGrows DEF JournalGrows

\* What RunTransport takes of the store, that the log of a run grows event by event
\* and no more after its end, the run service keeps for patient clients, whatever
\* its threads, timers and crashes do.
THEOREM JournalsAreLogs == Spec /\ Patient => Logs!Spec
<1>1. Init => Logs!Init
  BY DEF Init, StoreInit, Logs!Init, NoView
<1>2. Patient /\ [Next]_vars => Patient'
  BY EnvKept DEF Patient
<1>3. ServiceInv /\ PatientInv /\ Patient /\ [Next]_vars => [Logs!Next]_<<journal, NoView>>
  BY LogStep
<1> QED
  BY <1>1, <1>2, <1>3, PatientInvariant, PTL DEF Spec, Logs!Spec

=============================================================================
