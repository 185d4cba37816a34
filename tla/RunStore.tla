------------------------------ MODULE RunStore ------------------------------
(***************************************************************************)
(* The durable half of a run (services/run_store.py): one snapshot row and *)
(* one event journal per run in SQLite.  Each method is one transaction    *)
(* and one step.  An event's sequence number is its index in the journal:  *)
(* append refuses any other number, and every caller computes it under the *)
(* same lock.                                                              *)
(***************************************************************************)
EXTENDS RunContracts

VARIABLES
    status,     \* status[r]: the status column, "none" while there is no row
    pending,    \* pending[r]: the call of pending_permission_ids in the snapshot
    journal     \* journal[r]: the kinds of the run's events, in sequence

storeVars == <<status, pending, journal>>

Created(r)  == status[r] # "none"
Finished(r) == status[r] \in TerminalStatuses
Live(r)     == Created(r) /\ ~Finished(r)

StoreInit ==
    /\ status = [r \in Runs |-> "none"]
    /\ pending = [r \in Runs |-> NoCallId]
    /\ journal = [r \in Runs |-> << >>]

\* create: a fresh row, queued, with an empty journal.
StoreCreate(r) ==
    /\ ~Created(r)
    /\ status' = [status EXCEPT ![r] = "queued"]
    /\ UNCHANGED <<pending, journal>>

\* append: the event and the snapshot it comes with, in one transaction; a
\* terminal row refuses (InvalidRunTransitionError).
StoreAppend(r, kind, s, p) ==
    /\ Live(r)
    /\ journal' = [journal EXCEPT ![r] = Append(@, kind)]
    /\ status' = [status EXCEPT ![r] = s]
    /\ pending' = [pending EXCEPT ![r] = p]

\* update_snapshot: the row is replaced whatever its status is.
StoreUpdate(r, s, p) ==
    /\ Created(r)
    /\ status' = [status EXCEPT ![r] = s]
    /\ pending' = [pending EXCEPT ![r] = p]
    /\ UNCHANGED journal

\* interrupt_active_runs, for one of the runs it finds: the pending call stays
\* in the snapshot.
StoreInterrupt(r) ==
    /\ Live(r)
    /\ StoreAppend(r, "interrupted", "interrupted", pending[r])

\* The positions of the terminal events of a run.
TerminalAt(r) == {i \in 1..Len(journal[r]) : journal[r][i] \in TerminalEvents}
=============================================================================
