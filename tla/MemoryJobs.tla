----------------------------- MODULE MemoryJobs -----------------------------
(***************************************************************************)
(* The journal of memory curation (brain/curation/jobs.py): batches of     *)
(* saved turns, cut into segments, each segment a job that is claimed with *)
(* a lease, staged and finished; the progress of a conversation is the     *)
(* first turn no finished batch covers.  All of it is in one SQLite file   *)
(* that several processes open; every method is one transaction, so every  *)
(* operator below that primes a variable is one step.                      *)
(*                                                                         *)
(* The mode is "apply" throughout: the application never asks for "shadow" *)
(* (only scripts/memory_qualification does).  The clock is abstract: a     *)
(* lease is live until it has lapsed, a retry is due from some moment on.  *)
(***************************************************************************)
EXTENDS Naturals, FiniteSets, FiniteSetsExt, Functions

CONSTANTS Conversations,
          BatchTurns,       \* turns of one batch at most (turns=5)
          MaxSegments,      \* bound: segments one batch is cut into
          MaxTurns,         \* bound: turns a conversation ever has
          MaxAttempts,      \* 3 in claim and in the worker
          NoResult          \* a NULL result, an unfilled packet

JobIds == [conv : Conversations, start : 0 .. MaxTurns - 1, segment : 0 .. MaxSegments - 1]

ASSUME JobsAssumption ==
    /\ BatchTurns \in Nat \ {0}
    /\ MaxSegments \in Nat \ {0}
    /\ MaxTurns \in Nat
    /\ MaxAttempts \in Nat \ {0}
    /\ NoResult \notin JobIds

VARIABLES
    turns,      \* turns saved in each conversation, numbered from 0
    progress,   \* memory_progress.next_seq of each conversation
    jobs,       \* memory_jobs: a record for each job that exists
    operations  \* memory_operations: the journal record of <<job, operation>>

jobVars == <<turns, progress, jobs, operations>>

Held       == {"proposing", "verifying", "approved", "applying"}
Waiting    == {"queued", "deferred"}
Terminal   == {"applied", "abstained", "rejected", "parked"}

JobsInit ==
    /\ turns = [c \in Conversations |-> 0]
    /\ progress = [c \in Conversations |-> 0]
    /\ jobs = <<>>
    /\ operations = <<>>

\* INSERT ... ON CONFLICT DO UPDATE SET next_seq=MAX(next_seq, excluded).
Advanced(table, done) ==
    [c \in Conversations |->
        Max({progress[c]} \cup {table[j].next : j \in {i \in done : i.conv = c}})]

(***************************************************************************)
(* claim                                                                   *)
(***************************************************************************)

Exhausted == {j \in DOMAIN jobs : jobs[j].state = "deferred"
                                  /\ jobs[j].attempts >= MaxAttempts}

\* Mutant: a lapsed lease is counted as one more attempt.
SweptCounts ==
    [j \in DOMAIN jobs |->
        IF j \in Exhausted
          THEN [jobs[j] EXCEPT !.state = "parked", !.lease = "none"]
        ELSE IF jobs[j].state \in Held /\ jobs[j].lease = "lapsed"
          THEN [jobs[j] EXCEPT !.state = "deferred", !.lease = "none", !.attempts = @ + 1]
        ELSE jobs[j]]

\* The sweep: exhausted batches are parked, then lapsed leases are taken back.
Swept ==
    [j \in DOMAIN jobs |->
        IF j \in Exhausted
          THEN [jobs[j] EXCEPT !.state = "parked", !.lease = "none"]
        ELSE IF jobs[j].state \in Held /\ jobs[j].lease = "lapsed"
          THEN [jobs[j] EXCEPT !.state = "deferred", !.lease = "none"]
        ELSE jobs[j]]

Leased(table) == {j \in DOMAIN table : table[j].state \in Held}

\* Waiting jobs whose retry is due, behind settled segments of their batch.
Eligible(table) ==
    {j \in DOMAIN table :
        /\ table[j].state \in Waiting
        /\ table[j].retry = "due"
        /\ \A i \in DOMAIN table :
               i.conv = j.conv /\ i.start = j.start /\ i.segment < j.segment
                   => table[i].state \in Terminal}

\* Conversations with turns beyond their progress and no unfinished job. A
\* short batch is taken once its oldest turn has aged: the age is abstract.
Candidates(table, reached) ==
    {c \in Conversations :
        /\ reached[c] < turns[c]
        /\ \A j \in DOMAIN table : j.conv = c => table[j].state \in Terminal
        /\ [conv |-> c, start |-> reached[c], segment |-> 0] \notin DOMAIN table}

\* seq + 1 of the last turn that was read.
BatchEnd(start, c) == Min({start + BatchTurns, turns[c]})

\* The segments of the next batch, written before any of them is looked at.
\* Only the last one carries the end of the batch.
Batch(c, start, count) ==
    [j \in {[conv |-> c, start |-> start, segment |-> s] : s \in 0 .. count - 1} |->
        [next |-> IF j.segment = count - 1 THEN BatchEnd(start, c) ELSE start,
         state |-> "queued", result |-> NoResult, packet |-> NoResult,
         attempts |-> 0, retry |-> "due", lease |-> "none"]]

Taken(table, j) ==
    [table EXCEPT ![j].state = "proposing", ![j].attempts = @ + 1, ![j].lease = "live"]

\* Nothing can be claimed: the sweep is committed all the same.
ClaimNothing ==
    /\ Leased(Swept) # {} \/ (Eligible(Swept) = {}
                              /\ Candidates(Swept, Advanced(jobs, Exhausted)) = {})
    /\ jobs' = Swept
    /\ progress' = Advanced(jobs, Exhausted)
    /\ UNCHANGED <<turns, operations>>

ClaimWaiting(j) ==
    /\ Leased(Swept) = {}
    /\ j \in Eligible(Swept)
    /\ jobs' = Taken(Swept, j)
    /\ progress' = Advanced(jobs, Exhausted)
    /\ UNCHANGED <<turns, operations>>

ClaimBatch(c, count) ==
    LET reached == Advanced(jobs, Exhausted)
        batch   == Batch(c, reached[c], count)
    IN  /\ Leased(Swept) = {} /\ Eligible(Swept) = {}
        /\ c \in Candidates(Swept, reached)
        /\ jobs' = Taken([j \in DOMAIN Swept \cup DOMAIN batch |->
                             IF j \in DOMAIN batch THEN batch[j] ELSE Swept[j]],
                         [conv |-> c, start |-> reached[c], segment |-> 0])
        /\ progress' = reached
        /\ UNCHANGED <<turns, operations>>

(***************************************************************************)
(* stage, finish, operation                                                *)
(***************************************************************************)

\* stage asks nothing about the job's present state or holder.
Stage(j, state, packet, result) ==
    /\ jobs' = [jobs EXCEPT ![j].state = state,
                            ![j].packet = IF packet = NoResult THEN @ ELSE packet,
                            ![j].result = IF result = NoResult THEN @ ELSE result]
    /\ UNCHANGED <<turns, progress, operations>>

\* Mutant: a deferred job moves the progress of its conversation as well.
FinishAdvances(j, state, result) ==
    /\ jobs' = [jobs EXCEPT ![j].state = state, ![j].result = result,
                            ![j].lease = "none", ![j].retry = "later"]
    /\ progress' = Advanced(jobs, {j})
    /\ UNCHANGED <<turns, operations>>

\* finish asks neither who holds the job nor what became of it meanwhile.
FinishJob(j, state, result) ==
    /\ jobs' = [jobs EXCEPT ![j].state = state, ![j].result = result,
                            ![j].lease = "none", ![j].retry = "later"]
    /\ progress' = IF state = "deferred" THEN progress ELSE Advanced(jobs, {j})
    /\ UNCHANGED <<turns, operations>>

\* INSERT OR REPLACE of a journal record.
Journal(j, k, record) ==
    /\ operations' = [o \in DOMAIN operations \cup {<<j, k>>} |->
                         IF o = <<j, k>> THEN record ELSE operations[o]]
    /\ UNCHANGED <<turns, progress, jobs>>

(***************************************************************************)
(* The conversation grows and time passes.                                 *)
(***************************************************************************)

SaveTurn(c) ==
    /\ turns[c] < MaxTurns
    /\ turns' = [turns EXCEPT ![c] = @ + 1]
    /\ UNCHANGED <<progress, jobs, operations>>

Lapse(j) ==
    /\ j \in DOMAIN jobs /\ jobs[j].lease = "live"
    /\ jobs' = [jobs EXCEPT ![j].lease = "lapsed"]
    /\ UNCHANGED <<turns, progress, operations>>

RetryDue(j) ==
    /\ j \in DOMAIN jobs /\ jobs[j].retry = "later" /\ jobs[j].state \in Waiting
    /\ jobs' = [jobs EXCEPT ![j].retry = "due"]
    /\ UNCHANGED <<turns, progress, operations>>
=============================================================================
