----------------------------- MODULE MCAgentLoop -----------------------------
(* The agent loop of one run on small transcripts.                          *)
EXTENDS AgentLoop

\* Every tool is asked for.
AskAll == {[t \in Tools |-> "ask"]}

\* Bypass mode, or manual mode with the knowledge search allowed, denied or asked
\* for as well: fixed for the run.
AnyMode ==
    {[t \in Tools |-> "allow"]} \cup
    {[t \in Tools |-> IF t = SearchTool THEN a ELSE "ask"] : a \in {"allow", "deny", "ask"}}
=============================================================================
