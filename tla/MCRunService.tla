---------------------------- MODULE MCRunService ----------------------------
EXTENDS RunService, TLC

MCPolicies == {[t \in Tools |-> "ask"]}
Symmetry == Permutations(Threads) \cup Permutations(Runs) \cup Permutations(CallIds)

\* Two runs of one call that follow each other, patient clients, one crash.
Succession ==
    [clients |-> "patient", decisions |-> {"allow_once"}, runs |-> 2, calls |-> 1, crashes |-> 1]

\* One run with two calls; clients answer and cancel at any moment.
Race ==
    [clients |-> "eager", decisions |-> {"allow_run_scope"}, runs |-> 1, calls |-> 2, crashes |-> 0]

\* The smallest instance in which a cancel meets the write of _persist.
Overwrite ==
    [clients |-> "eager", decisions |-> {"allow_once"}, runs |-> 1, calls |-> 1, crashes |-> 0]

\* One run with two calls and patient clients.
Calm ==
    [clients |-> "patient", decisions |-> {"allow_once"}, runs |-> 1, calls |-> 2, crashes |-> 0]

SafetyEnvironments == {Succession, Race}
RaceEnvironments == {Overwrite}
LiveEnvironments == {Calm}
=============================================================================
