---------------------------- MODULE MemoryWorker ----------------------------
(***************************************************************************)
(* Memory curation: the worker thread of each process (curation/worker.py  *)
(* run_once), the two model passes (pipeline.py), and the application of   *)
(* an approved result to the notes (apply.py), over the shared journal of  *)
(* MemoryJobs.  Several processes may run on one database; each has its    *)
(* own worker, foreground calls and switches.  Processes die between any   *)
(* two steps, the user edits notes at any moment, foreground calls and     *)
(* switches interrupt.                                                     *)
(*                                                                         *)
(* A note is the sequence of the sections and edits it consists of; <<>>   *)
(* is a file that does not exist.  Two contents are equal exactly when     *)
(* their digests are.  A <<"section", j, k, a>> is operation k of job j as   *)
(* prepared in attempt a (its time stamp is part of the bytes).            *)
(***************************************************************************)
EXTENDS MemoryJobs, Sequences

CONSTANTS Workers,      \* one per process
          Notes,        \* the notes that exist before curation
          MaxOperations,    \* operations of one proposal at most (4 in contracts.py)
          Proposals,    \* what the model may propose: sequences of operations
          Refusals,     \* verdicts without a change: "abstained", "rejected"
          Switches,     \* durable ways to switch memory off: pause, settings
          MaxSize       \* bound: jobs, edits, interruptions, deaths and leases
                        \* that lapse under a living worker, together

\* An operation adds a note, updates one, or links one to another.
Operation ==
    {op \in [action : {"add", "update", "link"}, target : Notes \cup {NoResult},
             link : Notes \cup {NoResult}] :
        /\ op.action # "add" => op.target \in Notes
        /\ op.action = "link" => op.link \in Notes}

ASSUME WorkerAssumption ==
    /\ MaxOperations \in Nat
    /\ \A p \in Proposals : p \in Seq(Operation) /\ Len(p) \in 1 .. MaxOperations
    /\ Refusals \subseteq {"abstained", "rejected"}
    /\ MaxSize \in Nat

VARIABLES
    notes,      \* the knowledge directory
    at,         \* where each worker's thread is
    mine,       \* the claimed job as its worker remembers it
    cancel,     \* the token of the lease: "clear", or "set" once cancelled
    calls,      \* whether foreground calls are waiting or inside
    off,        \* the switches (and "stop") each process knows of
    stored,     \* the switches that were saved
    edits,      \* history: the note of each edit, in order
    exposed,    \* history: edits made between a worker's check and its write
    late,       \* history: writes of this attempt since it was told to stop
    crashes, overruns, interrupts   \* history: counts of the disturbances

workerVars == <<notes, at, mine, cancel, calls, off, stored, late>>
history    == <<edits, exposed, crashes, overruns, interrupts>>
vars       == <<jobVars, workerVars, history>>

NewNotes == JobIds \X (1 .. MaxOperations)
AllNotes == Notes \cup NewNotes

Nothing == [job |-> NoResult, attempt |-> 0, packet |-> NoResult, result |-> NoResult,
            op |-> 0, record |-> NoResult, outcome |-> "none"]

Init ==
    /\ JobsInit
    /\ notes = [n \in AllNotes |-> IF n \in Notes THEN << <<"user", 0>> >> ELSE <<>>]
    /\ at = [w \in Workers |-> "idle"]
    /\ mine = [w \in Workers |-> Nothing]
    /\ cancel = [w \in Workers |-> "clear"]
    /\ calls = [w \in Workers |-> "none"]
    /\ off = [w \in Workers |-> {}]
    /\ stored = {}
    /\ late = [w \in Workers |-> 0]
    /\ edits = <<>> /\ exposed = {}
    /\ crashes = 0 /\ overruns = 0 /\ interrupts = 0

Size == Cardinality(DOMAIN jobs) + Len(edits) + crashes + overruns + interrupts

Goto(w, place) == at' = [at EXCEPT ![w] = place]
Keep(w, fields) == mine' = [mine EXCEPT ![w] = fields]
Approved(result) == result # NoResult /\ result.state = "approved"

\* Reasons not to save: the token, the switches, a foreground call.
Interrupted(w) == cancel[w] = "set" \/ off[w] # {} \/ calls[w] = "some"

\* The except clause: what the journal holds as result is read back.
Raise(w) ==
    /\ Goto(w, "failing")
    /\ Keep(w, [mine[w] EXCEPT !.result = jobs[mine[w].job].result])

(***************************************************************************)
(* run_once up to the decision                                             *)
(***************************************************************************)

MayClaim(w) == at[w] = "idle" /\ off[w] = {} /\ calls[w] = "none"

Begin(w, j) ==
    /\ Goto(w, "claimed")
    /\ Keep(w, [Nothing EXCEPT !.job = j, !.attempt = jobs'[j].attempts,
                               !.packet = jobs'[j].packet, !.result = jobs'[j].result])
    /\ UNCHANGED <<notes, cancel, calls, off, stored, late, history>>

Claim(w) ==
    /\ MayClaim(w)
    /\ \/ ClaimNothing /\ UNCHANGED <<workerVars, history>>
       \/ \E j \in DOMAIN jobs : ClaimWaiting(j) /\ Begin(w, j)
       \/ \E c \in Conversations, count \in 1 .. MaxSegments :
              /\ Size + count <= MaxSize
              /\ ClaimBatch(c, count)
              /\ Begin(w, [conv |-> c, start |-> progress'[c], segment |-> 0])

\* The packet: as stored if an approved result waits to be replayed, else a
\* new look at the notes (which may fail: too large, changed meanwhile).
Prepare(w) ==
    /\ at[w] = "claimed"
    /\ \/ /\ Approved(mine[w].result)
          /\ Goto(w, "prepared") /\ UNCHANGED mine
       \/ /\ ~Approved(mine[w].result)
          /\ Goto(w, "prepared")
          /\ Keep(w, [mine[w] EXCEPT !.packet = [n \in Notes |-> notes[n]]])
       \/ ~Approved(mine[w].result) /\ Raise(w)
    /\ UNCHANGED <<jobVars, notes, cancel, calls, off, stored, late, history>>

\* try_acquire_memory: refused while foreground calls are waiting or inside or
\* were a moment ago; the token is set at once for a pause or a stop, not yet for
\* updates that were switched off in the settings since the claim.
Lease(w) ==
    /\ at[w] = "prepared"
    /\ \/ Raise(w)
       \/ calls[w] = "none" /\ off[w] \subseteq {"settings"} /\ Goto(w, "leased") /\ UNCHANGED mine
    /\ UNCHANGED <<jobVars, notes, cancel, calls, off, stored, late, history>>

\* A stored approval is replayed; anything else goes to the model.
Review(w) ==
    /\ at[w] = "leased"
    /\ IF Approved(mine[w].result)
         THEN Goto(w, "decided") /\ UNCHANGED jobVars
         ELSE Stage(mine[w].job, "verifying", mine[w].packet, NoResult) /\ Goto(w, "curating")
    /\ UNCHANGED <<notes, mine, cancel, calls, off, stored, late, history>>

\* validate: targets and linked notes are in the packet as the proposal saw them.
Valid(result, packet) ==
    \A k \in DOMAIN result.ops :
        LET op == result.ops[k]
        IN  /\ op.action # "add" =>
                   packet[op.target] # <<>> /\ packet[op.target] = result.seen[op.target]
            /\ op.action = "link" => packet[op.link] # <<>> /\ op.link # op.target

Verdict(state, ops, packet) == [state |-> state, ops |-> ops, seen |-> packet]

\* Proposal, review, at most one repair. A verdict is only taken while the
\* token is clear; giving up (deferred) and failing are possible at any time.
Curate(w) ==
    /\ at[w] = "curating"
    /\ \/ Raise(w)
       \/ \E verdict \in {Verdict("approved", ops, mine[w].packet) : ops \in Proposals}
                         \cup {Verdict(s, <<>>, NoResult) : s \in Refusals} :
              /\ cancel[w] = "clear"
              /\ verdict.state = "approved" => Valid(verdict, mine[w].packet)
              /\ Keep(w, [mine[w] EXCEPT !.result = verdict])
              /\ Goto(w, "decided")
       \/ /\ Keep(w, [mine[w] EXCEPT !.result = Verdict("deferred", <<>>, NoResult)])
          /\ Goto(w, "decided")
    /\ UNCHANGED <<jobVars, notes, cancel, calls, off, stored, late, history>>

GivesUp(w) == mine[w].attempt >= MaxAttempts

\* The lease on the model is back; what was decided is staged or finished.
Decide(w) ==
    LET state == mine[w].result.state
    IN  /\ at[w] = "decided"
        /\ IF state = "approved"
             THEN /\ Stage(mine[w].job, "approved", NoResult, mine[w].result)
                  /\ Goto(w, "approved") /\ UNCHANGED mine
             ELSE /\ Keep(w, [mine[w] EXCEPT
                        !.outcome = IF state = "deferred" /\ GivesUp(w) THEN "parked" ELSE state])
                  /\ Goto(w, "finishing") /\ UNCHANGED jobVars
        /\ UNCHANGED <<notes, cancel, calls, off, stored, late, history>>

\* The last look at switches and foreground before anything is written.
OpenApply(w) ==
    /\ at[w] = "approved"
    /\ IF Interrupted(w)
         THEN Raise(w) /\ UNCHANGED jobVars
         ELSE /\ Stage(mine[w].job, "applying", NoResult, NoResult)
              /\ Keep(w, [mine[w] EXCEPT !.op = 1])
              /\ Goto(w, "applying")
    /\ UNCHANGED <<notes, cancel, calls, off, stored, late, history>>

(***************************************************************************)
(* apply_verified, one operation after the other                           *)
(***************************************************************************)

Op(w) == mine[w].result.ops[mine[w].op]

\* A new note has a name made from the job and the operation.
Path(w) == IF Op(w).action = "add" THEN <<mine[w].job, mine[w].op>> ELSE Op(w).target

OneChangePerNote(ops) ==
    \A k, l \in DOMAIN ops : ops[k].action # "add" /\ ops[l].action # "add"
                              /\ ops[k].target = ops[l].target => k = l

\* What the change is prepared from is what the proposal was made from.
Unchanged(w) ==
    LET op == Op(w)
    IN  /\ IF op.action = "add" THEN notes[Path(w)] = <<>>
           ELSE notes[op.target] # <<>> /\ notes[op.target] = mine[w].result.seen[op.target]
        /\ op.action = "link" => notes[op.link] = mine[w].packet[op.link]

Prepared(w) ==
    [before |-> notes[Path(w)], done |-> "no",
     after |-> Append(notes[Path(w)], <<"section", mine[w].job, mine[w].op, mine[w].attempt>>)]

Journaled(w) == <<mine[w].job, mine[w].op>> \in DOMAIN operations

\* Mutant: the switches are not looked at between two operations.
RefusedUnasked(w) ==
    ~Valid(mine[w].result, mine[w].packet) \/ ~OneChangePerNote(mine[w].result.ops)

Refused(w) ==
    \/ ~Valid(mine[w].result, mine[w].packet)
    \/ ~OneChangePerNote(mine[w].result.ops)
    \/ Interrupted(w)

\* Mutant: every attempt prepares its own change from what it finds.
TakeUpAnew(w) ==
    Keep(w, [mine[w] EXCEPT !.record = Prepared(w)]) /\ Goto(w, "journaling")

\* A journal record is taken up as it is; without one the change is prepared.
TakeUp(w) ==
    IF Journaled(w)
      THEN /\ Keep(w, [mine[w] EXCEPT !.record = operations[<<mine[w].job, mine[w].op>>]])
           /\ Goto(w, "comparing")
    ELSE IF Unchanged(w)
      THEN Keep(w, [mine[w] EXCEPT !.record = Prepared(w)]) /\ Goto(w, "journaling")
    ELSE Raise(w)

\* Mutant: the loop ends one operation early.
AllTakenUpEarly(w) == mine[w].op >= Len(mine[w].result.ops)

AllTakenUp(w) == mine[w].op > Len(mine[w].result.ops)

\* The head of the loop over the operations.
Look(w) ==
    /\ at[w] = "applying"
    /\ IF AllTakenUp(w)
         THEN Keep(w, [mine[w] EXCEPT !.outcome = "applied"]) /\ Goto(w, "finishing")
       ELSE IF Refused(w) THEN Raise(w)
       ELSE TakeUp(w)
    /\ UNCHANGED <<jobVars, notes, cancel, calls, off, stored, late, history>>

\* The record is in the journal before the note is touched.
Record(w) ==
    /\ at[w] = "journaling"
    /\ Journal(mine[w].job, mine[w].op, mine[w].record)
    /\ Goto(w, "comparing")
    /\ UNCHANGED <<notes, mine, cancel, calls, off, stored, late, history>>

\* Mutant: a replayed record is written whatever the note has become.
CompareNothing(w) ==
    /\ at[w] = "comparing"
    /\ Goto(w, "writing") /\ UNCHANGED mine
    /\ UNCHANGED <<jobVars, notes, cancel, calls, off, stored, late, history>>

\* Already written, still as before, or changed by somebody else.
Compare(w) ==
    LET current == notes[Path(w)]
        record  == mine[w].record
    IN  /\ at[w] = "comparing"
        /\ \/ current = record.after /\ Goto(w, "written") /\ UNCHANGED mine
           \/ /\ current # record.after /\ current = record.before
              /\ Goto(w, "writing") /\ UNCHANGED mine
           \/ current \notin {record.after, record.before} /\ Raise(w)
        /\ UNCHANGED <<jobVars, notes, cancel, calls, off, stored, late, history>>

\* os.replace: whatever is there by now is replaced.
Write(w) ==
    /\ at[w] = "writing"
    /\ notes' = [notes EXCEPT ![Path(w)] = mine[w].record.after]
    /\ late' = [late EXCEPT ![w] = IF cancel[w] = "set" THEN @ + 1 ELSE @]
    /\ Goto(w, "written")
    /\ UNCHANGED <<jobVars, mine, cancel, calls, off, stored, history>>

\* Read back, reconcile the index (which may fail), mark the record done.
Confirm(w) ==
    /\ at[w] = "written"
    /\ \/ Raise(w) /\ UNCHANGED jobVars
       \/ /\ notes[Path(w)] = mine[w].record.after
          /\ Journal(mine[w].job, mine[w].op, [mine[w].record EXCEPT !.done = "yes"])
          /\ Keep(w, [mine[w] EXCEPT !.op = @ + 1, !.record = NoResult])
          /\ Goto(w, "applying")
    /\ UNCHANGED <<notes, cancel, calls, off, stored, late, history>>

(***************************************************************************)
(* The end of run_once                                                     *)
(***************************************************************************)

Leave(w) ==
    /\ Goto(w, "idle") /\ Keep(w, Nothing)
    /\ cancel' = [cancel EXCEPT ![w] = "clear"]
    /\ late' = [late EXCEPT ![w] = 0]
    /\ UNCHANGED <<notes, calls, off, stored, history>>

Finish(w) ==
    /\ at[w] = "finishing"
    /\ FinishJob(mine[w].job, mine[w].outcome, mine[w].result)
    /\ Leave(w)

\* Interruptions by the user and by foreground calls count as attempts.
FinishFailed(w) ==
    /\ at[w] = "failing"
    /\ FinishJob(mine[w].job, IF GivesUp(w) THEN "parked" ELSE "deferred", mine[w].result)
    /\ Leave(w)

(***************************************************************************)
(* The user, other callers, time and failures                              *)
(***************************************************************************)

InLease(w) == at[w] \in {"leased", "curating"}
Active(w)  == at[w] \in {"leased", "curating", "decided", "approved", "applying", "journaling",
                         "comparing", "writing", "written", "finishing"}

Interrupt(w) ==
    /\ Size < MaxSize /\ interrupts' = interrupts + 1
    /\ UNCHANGED <<jobVars, notes, at, mine, late, edits, exposed, crashes, overruns>>

\* acquire_foreground sets the token of the lease only while it is out.
CallArrives(w) ==
    /\ calls[w] = "none"
    /\ calls' = [calls EXCEPT ![w] = "some"]
    /\ cancel' = IF InLease(w) THEN [cancel EXCEPT ![w] = "set"] ELSE cancel
    /\ Interrupt(w)
    /\ UNCHANGED <<off, stored>>

CallsLeave(w) ==
    /\ calls[w] = "some"
    /\ calls' = [calls EXCEPT ![w] = "none"]
    /\ UNCHANGED <<jobVars, notes, at, mine, cancel, off, stored, late, history>>

\* pause(True) and configuration_changed(): the setting is saved, _active_cancel
\* and the token of the lease are set.
SwitchOff(w, s) ==
    /\ s \in Switches \ off[w]
    /\ off' = [off EXCEPT ![w] = @ \cup {s}]
    /\ stored' = stored \cup {s}
    /\ cancel' = IF Active(w) THEN [cancel EXCEPT ![w] = "set"] ELSE cancel
    /\ Interrupt(w)
    /\ UNCHANGED calls

SwitchOn(w, s) ==
    /\ s \in Switches \cap off[w]
    /\ off' = [off EXCEPT ![w] = @ \ {s}]
    /\ stored' = stored \ {s}
    /\ UNCHANGED <<jobVars, notes, at, mine, cancel, calls, late, history>>

\* close() does not wait for the thread; Crash may end it at any step.
Close(w) ==
    /\ "stop" \notin off[w]
    /\ off' = [off EXCEPT ![w] = @ \cup {"stop"}]
    /\ cancel' = IF Active(w) THEN [cancel EXCEPT ![w] = "set"] ELSE cancel
    /\ Interrupt(w)
    /\ UNCHANGED <<calls, stored>>

\* The process ends or dies, and is started again with the saved switches.
Crash(w) ==
    /\ Size < MaxSize /\ crashes' = crashes + 1
    /\ Goto(w, "idle") /\ Keep(w, Nothing)
    /\ cancel' = [cancel EXCEPT ![w] = "clear"]
    /\ calls' = [calls EXCEPT ![w] = "none"]
    /\ off' = [off EXCEPT ![w] = stored]
    /\ late' = [late EXCEPT ![w] = 0]
    /\ UNCHANGED <<jobVars, notes, stored, edits, exposed, overruns, interrupts>>

\* The user edits or deletes a note, one that curation wrote included.
UserChanges(n, how) ==
    /\ Size < MaxSize /\ notes[n] # <<>>
    /\ edits' = Append(edits, [note |-> n, how |-> how])
    /\ notes' = [notes EXCEPT ![n] =
                     IF how = "edit" THEN Append(@, <<"user", Len(edits) + 1>>) ELSE <<>>]
    /\ exposed' = IF \E w \in Workers : at[w] = "writing" /\ Path(w) = n
                    THEN exposed \cup {Len(edits) + 1} ELSE exposed
    /\ UNCHANGED <<jobVars, at, mine, cancel, calls, off, stored, late,
                   crashes, overruns, interrupts>>

\* A lease of a dead holder lapses, or one whose holder is still at work.
TimePasses(j) ==
    /\ Lapse(j) \/ RetryDue(j)
    /\ IF jobs[j].lease = "live" /\ \E w \in Workers : mine[w].job = j
         THEN Size < MaxSize /\ overruns' = overruns + 1
         ELSE UNCHANGED overruns
    /\ UNCHANGED <<workerVars, edits, exposed, crashes, interrupts>>

Grow(c) == SaveTurn(c) /\ UNCHANGED <<workerVars, history>>

Step(w) ==
    \/ Prepare(w) \/ Lease(w) \/ Review(w) \/ Curate(w) \/ Decide(w) \/ OpenApply(w)
    \/ Look(w) \/ Record(w) \/ Compare(w) \/ Write(w) \/ Confirm(w)
    \/ Finish(w) \/ FinishFailed(w)

Next ==
    \/ \E w \in Workers :
          \/ Claim(w) \/ Step(w)
          \/ CallArrives(w) \/ CallsLeave(w) \/ Close(w) \/ Crash(w)
          \/ \E s \in Switches : SwitchOff(w, s) \/ SwitchOn(w, s)
    \/ \E n \in AllNotes, how \in {"edit", "delete"} : UserChanges(n, how)
    \/ \E j \in JobIds : TimePasses(j)
    \/ \E c \in Conversations : Grow(c)

Spec == Init /\ [][Next]_vars

-----------------------------------------------------------------------------
Job == [next : Nat, state : Held \cup Waiting \cup Terminal, attempts : Nat,
        retry : {"due", "later"}, lease : {"none", "live", "lapsed"}]

\* Every variable has its type.
MemoryTypeOK ==
    /\ turns \in [Conversations -> 0 .. MaxTurns]
    /\ progress \in [Conversations -> 0 .. MaxTurns]
    /\ DOMAIN jobs \subseteq JobIds
    /\ \A j \in DOMAIN jobs : [f \in DOMAIN jobs[j] \ {"result", "packet"} |-> jobs[j][f]] \in Job
    /\ DOMAIN operations \subseteq NewNotes
    /\ DOMAIN notes = AllNotes
    /\ off \in [Workers -> SUBSET (Switches \cup {"stop"})]
    /\ calls \in [Workers -> {"none", "some"}] /\ cancel \in [Workers -> {"clear", "set"}]

\* A batch is not attempted for ever: interruptions by foreground work and
\* failures count, and only a death or a lapsed lease gives a job one attempt
\* more (claim takes a lapsed job back after it has parked the exhausted ones).
AttemptsBounded ==
    \A j \in DOMAIN jobs : jobs[j].attempts <= MaxAttempts + crashes + overruns

Contains(n, entry) == \E i \in DOMAIN notes[n] : notes[n][i] = entry

\* What the user wrote into a note stays there, through crashes, replays and
\* lapsed leases, unless the user deleted the note, or wrote between the check
\* and the replacement of a worker (apply.py says it cannot exclude that).
EditsKept ==
    \A e \in DOMAIN edits \ exposed :
        \/ \E d \in DOMAIN edits : d >= e /\ edits[d] = [note |-> edits[e].note, how |-> "delete"]
        \/ Contains(edits[e].note, <<"user", e>>)

\* However often a job is replayed, and whoever replays it, no note holds the
\* section of one operation twice.
SectionOnce ==
    \A n \in AllNotes : \A i, k \in DOMAIN notes[n] :
        notes[n][i][1] = "section" /\ notes[n][k][1] = "section"
        /\ notes[n][i][2] = notes[n][k][2] /\ notes[n][i][3] = notes[n][k][3] => i = k

\* A job counts as applied only when every operation of its result is in the
\* journal, and marked done there unless a worker that outlived its lease put
\* its own record over it.
AppliedWhole ==
    \A j \in DOMAIN jobs : jobs[j].state = "applied" =>
        \A k \in DOMAIN jobs[j].result.ops :
            /\ <<j, k>> \in DOMAIN operations
            /\ overruns = 0 => operations[<<j, k>>].done = "yes"

\* Progress never passes a batch of which a segment is unsettled, and passes no
\* turn that no batch covers, as long as no lease lapsed under a living worker.
ProgressJustified ==
    overruns = 0 =>
        \A c \in Conversations :
            /\ \A j \in DOMAIN jobs : j.conv = c /\ jobs[j].state \notin Terminal
                   => progress[c] <= j.start
            /\ \A t \in 0 .. progress[c] - 1 : \E j \in DOMAIN jobs :
                   j.conv = c /\ j.start <= t /\ t < jobs[j].next

\* After a pause, a switched-off setting, a close or a foreground call at most
\* one more note is written in this attempt.
OneLateWrite == \A w \in Workers : late[w] <= 1

=============================================================================
