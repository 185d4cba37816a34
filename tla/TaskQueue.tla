----------------------------- MODULE TaskQueue -----------------------------
(***************************************************************************)
(* The queue of background tasks (task_queue.py) as the web server calls   *)
(* it (webui_server.py /api/tasks): one thread per run request, a status   *)
(* per task, and a file per task that a restart reads.  Everything is done *)
(* under the lock, except the deletion, which changes the status and saves *)
(* the file without it.                                                    *)
(***************************************************************************)
EXTENDS Naturals

CONSTANTS Tasks,
          MaxCancels    \* bound: cancellations and deletions of one task

ASSUME QueueAssumption == MaxCancels \in Nat

TaskStatus == {"pending", "running", "completed", "failed", "cancelled"}

VARIABLES
    status,     \* status[t] in memory, "absent" before the task is added
    file,       \* file[t]: the status in its file
    threads,    \* threads[t]: how many threads execute it
    deleting,   \* deleting[t]: "no", "marked", or the status about to be saved
    cancels     \* history: cancellations and deletions of each task

queueVars == <<status, file, threads, deleting, cancels>>

QueueInit ==
    /\ status = [t \in Tasks |-> "absent"] /\ file = [t \in Tasks |-> "absent"]
    /\ threads = [t \in Tasks |-> 0]
    /\ deleting = [t \in Tasks |-> "no"]
    /\ cancels = [t \in Tasks |-> 0]

\* Change the status and save it, in one critical section.
Put(t, s) == /\ status' = [status EXCEPT ![t] = s]
             /\ file' = [file EXCEPT ![t] = s]

AddTask(t) ==
    /\ status[t] = "absent"
    /\ Put(t, "pending")
    /\ UNCHANGED <<threads, deleting, cancels>>

\* MUTANT of RunTask: the status is not looked at.
RunTaskAgain(t) ==
    /\ status[t] # "absent" /\ threads[t] <= MaxCancels + 1
    /\ Put(t, "running")
    /\ threads' = [threads EXCEPT ![t] = @ + 1]
    /\ UNCHANGED <<deleting, cancels>>

\* run_task: any task that is not running is, also a cancelled or finished one.
RunTask(t) ==
    /\ status[t] \notin {"absent", "running"}
    /\ Put(t, "running")
    /\ threads' = [threads EXCEPT ![t] = @ + 1]
    /\ UNCHANGED <<deleting, cancels>>

\* _worker: the end of the run is stored, whatever became of the task meanwhile.
FinishTask(t) ==
    /\ threads[t] > 0
    /\ \E s \in {"completed", "failed"} : Put(t, s)
    /\ threads' = [threads EXCEPT ![t] = @ - 1]
    /\ UNCHANGED <<deleting, cancels>>

CancelTask(t) ==
    /\ status[t] # "absent" /\ cancels[t] < MaxCancels
    /\ Put(t, IF status[t] \in {"running", "pending"} THEN "cancelled" ELSE status[t])
    /\ cancels' = [cancels EXCEPT ![t] = @ + 1]
    /\ UNCHANGED <<threads, deleting>>

\* delete_task: mark, turn the task into text, write the text.
DeleteMark(t) ==
    /\ status[t] # "absent" /\ deleting[t] = "no" /\ cancels[t] < MaxCancels
    /\ status' = [status EXCEPT ![t] = "cancelled"]
    /\ deleting' = [deleting EXCEPT ![t] = "marked"]
    /\ cancels' = [cancels EXCEPT ![t] = @ + 1]
    /\ UNCHANGED <<file, threads>>

DeleteRead(t) ==
    /\ deleting[t] = "marked"
    /\ deleting' = [deleting EXCEPT ![t] = status[t]]
    /\ UNCHANGED <<status, file, threads, cancels>>

DeleteWrite(t) ==
    /\ deleting[t] \in TaskStatus
    /\ file' = [file EXCEPT ![t] = deleting[t]]
    /\ deleting' = [deleting EXCEPT ![t] = "no"]
    /\ UNCHANGED <<status, threads, cancels>>

\* The process dies; _load queues what was running again.
QueueRestart ==
    /\ status' = [t \in Tasks |-> IF file[t] = "running" THEN "pending" ELSE file[t]]
    /\ threads' = [t \in Tasks |-> 0]
    /\ deleting' = [t \in Tasks |-> "no"]
    /\ UNCHANGED <<file, cancels>>

QueueNext == \E t \in Tasks :
    \/ AddTask(t) \/ RunTask(t) \/ FinishTask(t) \/ CancelTask(t)
    \/ DeleteMark(t) \/ DeleteRead(t) \/ DeleteWrite(t)
=============================================================================
