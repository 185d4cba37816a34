----------------------------- MODULE WebServer -----------------------------
(***************************************************************************)
(* What the web server keeps beside the runs: the scheduler, the task      *)
(* queue, the conversation files, the source folders and the notes of the  *)
(* brain.  They share nothing but the process they die with, so a          *)
(* behaviour is one of the queue and the scheduler together, one of the    *)
(* conversation files, one of the source folders or one of the vault       *)
(* (part); their product has nothing to add.  What the first two start is  *)
(* a run of a headless RunService (services/background.py); here it is a   *)
(* trigger that returns or a thread that ends.                             *)
(***************************************************************************)
EXTENDS Scheduler, TaskQueue, ConversationFiles, Sources, Vault

CONSTANT MaxCrashes     \* bound: deaths of the process

VARIABLES part,         \* the part in use: "background", "conversations", "sources" or "vault"
          crashes       \* history

backgroundVars == <<schedVars, queueVars>>
vars == <<backgroundVars, convVars, sourceVars, vaultVars, part, crashes>>

Init ==
    /\ SchedInit /\ QueueInit /\ ConvInit /\ SourcesInit /\ VaultInit
    /\ part \in {"background", "conversations", "sources", "vault"} /\ crashes = 0

\* What a step of one part leaves alone.
Others ==
    /\ part # "background" => UNCHANGED backgroundVars
    /\ part # "conversations" => UNCHANGED convVars
    /\ part # "sources" => UNCHANGED sourceVars
    /\ part # "vault" => UNCHANGED vaultVars
    /\ UNCHANGED part

Crash ==
    /\ crashes < MaxCrashes /\ crashes' = crashes + 1 /\ Others
    /\ \/ part = "background" /\ SchedRestart /\ QueueRestart
       \/ part = "conversations" /\ ConvRestart
       \/ part = "sources" /\ SourcesRestart
       \/ part = "vault" /\ VaultRestart

Next ==
    \/ Crash
    \/ /\ Others /\ UNCHANGED crashes
       /\ \/ part = "background" /\ SchedNext /\ UNCHANGED queueVars
          \/ part = "background" /\ QueueNext /\ UNCHANGED schedVars
          \/ part = "conversations" /\ ConvNext
          \/ part = "sources" /\ SourcesNext
          \/ part = "vault" /\ VaultNext

Spec == Init /\ [][Next]_vars

\* The polling thread goes on.
Polling == part = "background" /\ LoopStep /\ UNCHANGED <<queueVars, crashes>> /\ Others

FairSpec == Spec /\ WF_vars(Polling)

-----------------------------------------------------------------------------
\* A one-shot is triggered once, once more for each time a user enables it again,
\* and once more if the process dies between its trigger and its mark.
OneShotBounded ==
    \A s \in OneShots : fires[s] <= 1 + rearmed[s] + crashes

\* A schedule that is enabled and due is triggered unless a user takes it back,
\* whatever is added, removed, switched or crashes meanwhile.
DueFires ==
    \A s \in Schedules : (stored[s] = "on" /\ next_run[s] = "due")
        ~> (firing = s \/ stored[s] # "on")

\* A task has one thread, and one more for each cancellation or deletion that
\* made it look idle while a thread was still at work.
ThreadsBounded == \A t \in Tasks : threads[t] <= 1 + cancels[t]
=============================================================================
