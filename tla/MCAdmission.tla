----------------------------- MODULE MCAdmission -----------------------------
(***************************************************************************)
(* What lets a run and its calls in: the inference coordinator, before the *)
(* model is used, and the permission service, before a tool is.  They      *)
(* share nothing, so a behaviour is one of the first or of the second      *)
(* (part); RunService and AgentLoop compose the second with the runs.      *)
(***************************************************************************)
EXTENDS InferenceCoordinator, PermissionService

VARIABLE part   \* the part in use: "inference" or "permissions"

\* Manual mode, bypass mode, and a rule that denies the first tool.
MCPolicies ==
    {[t \in Tools |-> "ask"], [t \in Tools |-> "allow"],
     [t \in Tools |-> IF t = CHOOSE d \in Tools : TRUE THEN "deny" ELSE "ask"]}

MCInit == Init /\ PermInit /\ part \in {"inference", "permissions"}

MCNext ==
    \/ part = "inference" /\ Next /\ UNCHANGED <<permVars, part>>
    \/ part = "permissions" /\ PermNext /\ UNCHANGED <<vars, part>>

\* Only the coordinator needs fairness; its callers wait in its own part alone.
MCSpec == MCInit /\ [][MCNext]_<<vars, permVars, part>> /\ Fairness
=============================================================================
