---------------------------- MODULE RunContracts ----------------------------
(***************************************************************************)
(* The vocabulary of a run (runtime/run_contracts.py): its statuses, the   *)
(* events of its journal and which of them are terminal.  Events that only *)
(* tell the user something (messages, status lines, thinking, tool         *)
(* requests) are all "progress".                                           *)
(***************************************************************************)
EXTENDS Integers, Sequences, FiniteSets

CONSTANTS
    Runs,           \* run ids
    CallIds,        \* call ids a provider uses within a run
    NoCallId        \* no pending call

ASSUME RunContractsAssumption == NoCallId \notin CallIds

TerminalStatuses == {"completed", "blocked", "failed", "cancelled", "interrupted"}
RunStatuses == {"queued", "running", "awaiting"} \cup TerminalStatuses

\* The event that announces a terminal status carries the status as its name.
TerminalEvents == TerminalStatuses
EventKinds ==
    {"started", "progress", "requested", "resolved", "tool_started", "tool_completed"}
        \cup TerminalEvents

PendingCalls == CallIds \cup {NoCallId}
=============================================================================
