------------------------------ MODULE RunMemory ------------------------------
(***************************************************************************)
(* The finished runs of one conversation become turns of its long-term     *)
(* memory (services/run_memory.py, called by RunService).  Two threads may *)
(* ingest the same run: the one that cancels it and the worker that        *)
(* executes it.  Each looks for the run among the turns that               *)
(* ConversationStore.turns hands out, then appends.  Requests that forbid  *)
(* retention are left out: they are no turn at all.                        *)
(***************************************************************************)
EXTENDS Naturals, Sequences, Functions

CONSTANTS LastRun,      \* bound: runs in all
          Recent        \* the limit that ingest_run passes to turns (8)

Runs == 1..LastRun
Threads == {"canceller", "worker"}

VARIABLES
    status,     \* status[r]: "none", "running", "cancelled", "failed" or "completed"
    at,         \* at[r][t]: how far thread t is with run r
    turns       \* the turns of the conversation, each the run it is about

vars == <<status, at, turns>>

Init ==
    /\ status = [r \in Runs |-> "none"]
    /\ at = [r \in Runs |-> [t \in Threads |-> "idle"]]
    /\ turns = << >>

Move(r, t, from, to) == at[r][t] = from /\ at' = [at EXCEPT ![r][t] = to]

\* The canceller ingests under the lock of the service.
Locked == \E r \in Runs : at[r]["canceller"] \in {"ingesting", "checked"}

\* One run is active at a time; a cancelled one is not active any more.
Prepare(r) ==
    /\ ~Locked /\ status[r] = "none" /\ \A s \in Runs : s < r => status[s] \notin {"none", "running"}
    /\ status' = [status EXCEPT ![r] = "running"]
    /\ Move(r, "worker", "idle", "waiting") /\ UNCHANGED turns

\* A run that was cancelled while it waited is not executed.
Admit(r) ==
    /\ Move(r, "worker", "waiting", IF status[r] = "running" THEN "executing" ELSE "done")
    /\ UNCHANGED <<status, turns>>

\* Memory work does not release the model in time: the run fails and is not ingested.
GiveUp(r) ==
    /\ ~Locked /\ status[r] = "running" /\ status' = [status EXCEPT ![r] = "failed"]
    /\ Move(r, "worker", "waiting", "done") /\ UNCHANGED turns

\* The loop waits for a permission: the resumed run is admitted anew.
Pause(r) ==
    /\ status[r] = "running" /\ Move(r, "worker", "executing", "waiting")
    /\ UNCHANGED <<status, turns>>

\* The loop has returned: its result counts unless the run was cancelled.
Finish(r) ==
    /\ Move(r, "worker", "executing", "ingesting")
    /\ status' = [status EXCEPT ![r] = IF @ = "running" THEN "completed" ELSE @]
    /\ UNCHANGED turns

Cancel(r) ==
    /\ ~Locked /\ status[r] = "running" /\ status' = [status EXCEPT ![r] = "cancelled"]
    /\ Move(r, "canceller", "idle", "ingesting") /\ UNCHANGED turns

\* ConversationStore.turns: the oldest turns, as many as the limit.
Turns(limit) == SubSeq(turns, 1, IF Len(turns) < limit THEN Len(turns) ELSE limit)

\* ingest_run: is the run among them?
Check(r, t) ==
    /\ Move(r, t, "ingesting", IF r \in Range(Turns(Recent)) THEN "done" ELSE "checked")
    /\ UNCHANGED <<status, turns>>

\* Brain.observe appends in a transaction.
Observe(r, t) ==
    /\ Move(r, t, "checked", "done")
    /\ turns' = Append(turns, r) /\ UNCHANGED status

Next ==
    \E r \in Runs :
        \/ Prepare(r) \/ Admit(r) \/ GiveUp(r) \/ Pause(r) \/ Finish(r) \/ Cancel(r)
        \/ \E t \in Threads : Check(r, t) \/ Observe(r, t)

Spec == Init /\ [][Next]_vars

-----------------------------------------------------------------------------
\* "Idempotent: second ingest of the same terminal state is a no-op"
\* (services/run_memory.py:15): a thread that begins to ingest a run whose turn
\* is stored already does not go on to append another.
SecondIngestIsNoOp ==
    [][\A r \in Range(turns), t \in Threads :
        at[r][t] = "ingesting" => at'[r][t] # "checked"]_vars
=============================================================================
