----------------------- MODULE PermissionServiceProofs -----------------------
(***************************************************************************)
(* The permission service for any number of runs, calls, tools, arguments  *)
(* and policies.  The state invariants form an inductive one as they are:  *)
(* an answer is only taken while there is none, a request is only written  *)
(* while there is none, and a decision that lets a call through marks its  *)
(* request as consumed in the same step.                                   *)
(***************************************************************************)
EXTENDS PermissionService, TLAPS

PermInv == PermTypeOK /\ ApprovalPassesOnce /\ GrantsJustified

\* The verdicts of authorize.
Verdicts == {"allowed", "denied", "pending", "blocked"}

\* The key of a call is a request's key, its scope a grant's scope.
LEMMA KeysAndScopes ==
    ASSUME NEW r \in Runs, NEW c \in Calls
    PROVE  /\ KeyOf(r, c) \in Keys
           /\ c.tool \in Tools /\ c.args \in Args
           /\ [tool |-> c.tool, args |-> c.args] \in [tool : Tools, args : Args]
  BY DEF KeyOf, Keys, Calls

\* The service starts without requests, decisions or grants.
LEMMA PermInitInv == PermInit => PermInv
  BY PermissionAssumption
  DEF PermInit, PermInv, PermTypeOK, ApprovalPassesOnce, GrantsJustified, Rules,
      Keys, Scopes, Decisions

\* consume keeps the invariant: a consumed request lets nothing through, and
\* one that was not consumed has let nothing through yet.
LEMMA ConsumeInv ==
    ASSUME PermInv, NEW r \in Runs, NEW c \in Calls, NEW verdict \in Verdicts,
           decision[KeyOf(r, c)] # "none", Consume(r, c, verdict)
    PROVE  PermInv'
<1> DEFINE k == KeyOf(r, c)
<1>1. k \in Keys
  BY KeysAndScopes
<1>2. CASE UNCHANGED permVars
  BY <1>2 DEF PermInv, PermTypeOK, ApprovalPassesOnce, GrantsJustified, permVars
<1>3. CASE /\ k \notin consumed
           /\ consumed' = consumed \cup {k}
           /\ \/ decision[k] \in AllowKinds /\ passes' = [passes EXCEPT ![k] = @ + 1]
              \/ UNCHANGED passes
           /\ UNCHANGED <<rule, asked, decision, grants, overdue>>
  <2>1. passes \in [Keys -> Nat] /\ passes[k] = 0
    BY <1>1, <1>3 DEF PermInv, PermTypeOK, ApprovalPassesOnce
  <2>2. PermTypeOK'
    BY <1>1, <1>3, <2>1 DEF PermInv, PermTypeOK
  <2>3. ApprovalPassesOnce'
    <3> SUFFICES ASSUME NEW j \in Keys
                 PROVE  /\ passes'[j] <= 1
                        /\ passes'[j] = 1 => decision'[j] \in AllowKinds /\ j \in consumed'
      BY DEF ApprovalPassesOnce
    <3>1. CASE j = k
      BY <1>3, <2>1, <3>1
    <3>2. CASE j # k
      <4>1. passes'[j] = passes[j] /\ decision'[j] = decision[j]
        BY <1>3, <2>1, <3>2
      <4> QED
        BY <1>3, <4>1 DEF PermInv, ApprovalPassesOnce
    <3> QED
      BY <3>1, <3>2
  <2>4. GrantsJustified'
    BY <1>3 DEF PermInv, GrantsJustified
  <2> QED
    BY <2>2, <2>3, <2>4 DEF PermInv
<1> QED
  BY <1>2, <1>3 DEF Consume

\* authorize keeps the invariant: it opens a request only where there is none,
\* and no grant rests on a request that is not there.
LEMMA AuthorizeInv ==
    ASSUME PermInv, NEW r \in Runs, NEW c \in Calls, NEW verdict \in Verdicts,
           Authorize(r, c, verdict)
    PROVE  PermInv'
<1> DEFINE k == KeyOf(r, c)
<1>1. k \in Keys
  BY KeysAndScopes
<1>2. CASE UNCHANGED permVars
  BY <1>2 DEF PermInv, PermTypeOK, ApprovalPassesOnce, GrantsJustified, permVars
<1>3. CASE decision[k] # "none" /\ Consume(r, c, verdict)
  BY <1>3, ConsumeInv
<1>4. CASE /\ ~Requested(k)
           /\ asked' = [asked EXCEPT ![k] = [tool |-> c.tool, args |-> c.args]]
           /\ UNCHANGED <<rule, decision, consumed, grants, overdue, passes>>
  <2>1. PermTypeOK'
    BY <1>1, <1>4, KeysAndScopes DEF PermInv, PermTypeOK
  <2>2. ApprovalPassesOnce'
    BY <1>4 DEF PermInv, ApprovalPassesOnce
  <2>3. GrantsJustified'
    <3> SUFFICES ASSUME NEW g \in grants
                 PROVE  \E i \in CallIds :
                          /\ asked'[<<g[1], i>>] = [tool |-> g[2], args |-> g[3]]
                          /\ decision[<<g[1], i>>] = "allow_run_scope"
      BY <1>4 DEF GrantsJustified
    <3>1. g \in Scopes
      BY DEF PermInv, PermTypeOK
    <3>2. PICK i \in CallIds : /\ asked[<<g[1], i>>] = [tool |-> g[2], args |-> g[3]]
                               /\ decision[<<g[1], i>>] = "allow_run_scope"
      BY DEF PermInv, GrantsJustified
    <3>3. [tool |-> g[2], args |-> g[3]] # NoCall
      BY <3>1, PermissionAssumption DEF Scopes
    <3>4. <<g[1], i>> # k
      BY <1>4, <3>2, <3>3 DEF Requested
    <3>5. asked'[<<g[1], i>>] = asked[<<g[1], i>>]
      BY <1>1, <1>4, <3>1, <3>4 DEF PermInv, PermTypeOK, Keys, Scopes
    <3> QED
      BY <3>2, <3>5
  <2> QED
    BY <2>1, <2>2, <2>3 DEF PermInv
<1> QED
  BY <1>2, <1>3, <1>4 DEF Authorize, FirstAsk, AskedBefore

\* An answer keeps the invariant: the request it decides has let nothing
\* through, and the grant it may add is the request's own.
LEMMA ResolveInv ==
    ASSUME PermInv, NEW k \in Keys, NEW kind \in Decisions, Resolve(k, kind)
    PROVE  PermInv'
<1> DEFINE final == IF k \in overdue THEN "expired" ELSE kind
           scope == <<k[1], asked[k].tool, asked[k].args>>
<1>1. /\ decision[k] = "none" /\ asked[k] # NoCall
      /\ decision' = [decision EXCEPT ![k] = final]
      /\ grants' = IF final = "allow_run_scope" THEN grants \cup {scope} ELSE grants
      /\ UNCHANGED <<rule, asked, consumed, overdue, passes>>
  BY DEF Resolve, Requested
<1>2. final \in Decisions
  BY DEF Decisions
<1>3. asked[k] \in [tool : Tools, args : Args] /\ k[1] \in Runs /\ k[2] \in CallIds
  BY <1>1 DEF PermInv, PermTypeOK, Keys
<1>4. scope \in Scopes
  BY <1>3 DEF Scopes
<1>5. PermTypeOK'
  BY <1>1, <1>2, <1>4 DEF PermInv, PermTypeOK
<1>6. ApprovalPassesOnce'
  <2> SUFFICES ASSUME NEW j \in Keys
               PROVE  /\ passes[j] <= 1
                      /\ passes[j] = 1 => decision'[j] \in AllowKinds /\ j \in consumed
    BY <1>1 DEF ApprovalPassesOnce
  <2>1. j = k => passes[j] # 1
    BY <1>1 DEF PermInv, ApprovalPassesOnce, AllowKinds
  <2>2. j # k => decision'[j] = decision[j]
    BY <1>1 DEF PermInv, PermTypeOK
  <2> QED
    BY <2>1, <2>2 DEF PermInv, ApprovalPassesOnce
<1>7. GrantsJustified'
  <2> SUFFICES ASSUME NEW g \in grants'
               PROVE  \E i \in CallIds :
                        /\ asked[<<g[1], i>>] = [tool |-> g[2], args |-> g[3]]
                        /\ decision'[<<g[1], i>>] = "allow_run_scope"
    BY <1>1 DEF GrantsJustified
  <2>1. CASE g \in grants
    <3>1. PICK i \in CallIds : /\ asked[<<g[1], i>>] = [tool |-> g[2], args |-> g[3]]
                               /\ decision[<<g[1], i>>] = "allow_run_scope"
      BY <2>1 DEF PermInv, GrantsJustified
    <3>2. <<g[1], i>> \in Keys
      BY <2>1 DEF PermInv, PermTypeOK, Scopes, Keys
    <3>3. decision'[<<g[1], i>>] = "allow_run_scope"
      BY <1>1, <3>1, <3>2 DEF PermInv, PermTypeOK
    <3> QED
      BY <3>1, <3>3
  <2>2. CASE g \notin grants
    <3>1. final = "allow_run_scope" /\ g = scope
      BY <1>1, <2>2
    <3>2. k = <<k[1], k[2]>> /\ g[1] = k[1] /\ g[2] = asked[k].tool /\ g[3] = asked[k].args
      BY <3>1 DEF Keys
    <3>3. asked[k] = [tool |-> g[2], args |-> g[3]]
      BY <1>3, <3>2
    <3>4. decision'[k] = "allow_run_scope"
      BY <1>1, <3>1 DEF PermInv, PermTypeOK
    <3> QED
      BY <1>3, <3>2, <3>3, <3>4
  <2> QED
    BY <2>1, <2>2
<1> QED
  BY <1>5, <1>6, <1>7 DEF PermInv

\* The sweep decides open requests only, so nothing passed and nothing granted
\* rests on a decision it changes.
LEMMA ExpireInv ==
    ASSUME PermInv, Expire
    PROVE  PermInv'
<1>1. /\ decision' = [k \in Keys |-> IF k \in Lapsed THEN "expired" ELSE decision[k]]
      /\ UNCHANGED <<rule, asked, consumed, grants, overdue, passes>>
  BY DEF Expire
<1>2. \A k \in Keys : decision[k] # "none" => decision'[k] = decision[k]
  BY <1>1 DEF Lapsed
<1>3. PermTypeOK'
  BY <1>1 DEF PermInv, PermTypeOK, Decisions
<1>4. ApprovalPassesOnce'
  BY <1>1, <1>2 DEF PermInv, ApprovalPassesOnce, AllowKinds
<1>5. GrantsJustified'
  <2> SUFFICES ASSUME NEW g \in grants
               PROVE  \E i \in CallIds :
                        /\ asked[<<g[1], i>>] = [tool |-> g[2], args |-> g[3]]
                        /\ decision'[<<g[1], i>>] = "allow_run_scope"
    BY <1>1 DEF GrantsJustified
  <2>1. PICK i \in CallIds : /\ asked[<<g[1], i>>] = [tool |-> g[2], args |-> g[3]]
                             /\ decision[<<g[1], i>>] = "allow_run_scope"
    BY DEF PermInv, GrantsJustified
  <2>2. <<g[1], i>> \in Keys
    BY DEF PermInv, PermTypeOK, Scopes, Keys
  <2> QED
    BY <1>2, <2>1, <2>2
<1> QED
  BY <1>3, <1>4, <1>5 DEF PermInv

\* Every step of the service keeps the invariant.
LEMMA PermStepInv == PermInv /\ [PermNext]_permVars => PermInv'
<1> SUFFICES ASSUME PermInv, [PermNext]_permVars PROVE PermInv'
  OBVIOUS
<1>1. CASE UNCHANGED permVars
  BY <1>1 DEF PermInv, PermTypeOK, ApprovalPassesOnce, GrantsJustified, permVars
<1>2. ASSUME NEW r \in Runs, NEW c \in Calls, NEW verdict \in Verdicts,
             Authorize(r, c, verdict)
      PROVE  PermInv'
  BY <1>2, AuthorizeInv
<1>3. ASSUME NEW k \in Keys, NEW kind \in Decisions, Resolve(k, kind)
      PROVE  PermInv'
  BY <1>3, ResolveInv
<1>4. CASE Expire
  BY <1>4, ExpireInv
<1>5. ASSUME NEW p \in Policies, UpdatePolicy(p)
      PROVE  PermInv'
  BY <1>5, PermissionAssumption
  DEF UpdatePolicy, PermInv, PermTypeOK, ApprovalPassesOnce, GrantsJustified
<1>6. ASSUME NEW k \in Keys, DeadlinePasses(k)
      PROVE  PermInv'
  BY <1>6
  DEF DeadlinePasses, PermInv, PermTypeOK, ApprovalPassesOnce, GrantsJustified
<1> QED
  BY <1>1, <1>2, <1>3, <1>4, <1>5, <1>6 DEF PermNext, Verdicts

\* The invariant holds in every reachable state.
THEOREM PermissionInvariant == PermSpec => []PermInv
  BY PermInitInv, PermStepInv, PTL DEF PermSpec

\* Type correctness of the permission service.
THEOREM PermTypeCorrect == PermSpec => []PermTypeOK
<1>1. PermInv => PermTypeOK
  BY DEF PermInv
<1> QED
  BY <1>1, PermissionInvariant, PTL

\* One approval lets at most one call through (consume is one-shot).
THEOREM OneApprovalOneCall == PermSpec => []ApprovalPassesOnce
<1>1. PermInv => ApprovalPassesOnce
  BY DEF PermInv
<1> QED
  BY <1>1, PermissionInvariant, PTL

\* Every run-wide grant is exactly what a user answered for, in time.
THEOREM GrantsAreJustified == PermSpec => []GrantsJustified
<1>1. PermInv => GrantsJustified
  BY DEF PermInv
<1> QED
  BY <1>1, PermissionInvariant, PTL

\* No operation of the service replaces a decision.
LEMMA DecisionStays ==
    ASSUME PermInv, [PermNext]_permVars, NEW k \in Keys, decision[k] # "none"
    PROVE  decision'[k] = decision[k]
<1>1. ASSUME NEW r \in Runs, NEW c \in Calls, NEW verdict \in Verdicts,
             Authorize(r, c, verdict)
      PROVE  decision'[k] = decision[k]
  BY <1>1 DEF Authorize, FirstAsk, AskedBefore, Consume, permVars
<1>2. ASSUME NEW j \in Keys, NEW kind \in Decisions, Resolve(j, kind)
      PROVE  decision'[k] = decision[k]
  BY <1>2 DEF Resolve, PermInv, PermTypeOK
<1>3. CASE Expire
  BY <1>3 DEF Expire, Lapsed
<1>4. ASSUME NEW p \in Policies, UpdatePolicy(p)
      PROVE  decision'[k] = decision[k]
  BY <1>4 DEF UpdatePolicy
<1>5. ASSUME NEW j \in Keys, DeadlinePasses(j)
      PROVE  decision'[k] = decision[k]
  BY <1>5 DEF DeadlinePasses
<1>6. CASE UNCHANGED permVars
  BY <1>6 DEF permVars
<1> QED
  BY <1>1, <1>2, <1>3, <1>4, <1>5, <1>6 DEF PermNext, Verdicts

\* No operation gives an open request whose deadline has passed another decision
\* than that it has expired.
LEMMA LateExpires ==
    ASSUME PermInv, [PermNext]_permVars, NEW k \in overdue, decision[k] = "none"
    PROVE  decision'[k] \in {"none", "expired"}
<1>0. k \in Keys
  BY DEF PermInv, PermTypeOK
<1>1. ASSUME NEW r \in Runs, NEW c \in Calls, NEW verdict \in Verdicts,
             Authorize(r, c, verdict)
      PROVE  decision'[k] = decision[k]
  BY <1>1 DEF Authorize, FirstAsk, AskedBefore, Consume, permVars
<1>2. ASSUME NEW j \in Keys, NEW kind \in Decisions, Resolve(j, kind)
      PROVE  decision'[k] \in {"none", "expired"}
  BY <1>0, <1>2 DEF Resolve, PermInv, PermTypeOK
<1>3. CASE Expire
  BY <1>0, <1>3 DEF Expire, Lapsed
<1>4. ASSUME NEW p \in Policies, UpdatePolicy(p)
      PROVE  decision'[k] = decision[k]
  BY <1>4 DEF UpdatePolicy
<1>5. ASSUME NEW j \in Keys, DeadlinePasses(j)
      PROVE  decision'[k] = decision[k]
  BY <1>5 DEF DeadlinePasses
<1>6. CASE UNCHANGED permVars
  BY <1>6 DEF permVars
<1> QED
  BY <1>1, <1>2, <1>3, <1>4, <1>5, <1>6 DEF PermNext, Verdicts

\* What every step of the service does to a decision: it stays, and a request that
\* is late can only expire.
DecisionsHold ==
    /\ \A k \in Keys : decision[k] # "none" => decision'[k] = decision[k]
    /\ \A k \in overdue : decision[k] = "none" => decision'[k] \in {"none", "expired"}

\* Both halves of DecisionsHold.
LEMMA DecisionsHoldStep == PermInv /\ [PermNext]_permVars => DecisionsHold
  BY DecisionStays, LateExpires DEF DecisionsHold

\* A decision, once there, is never replaced: an answer, the timer and the
\* sweep may race, the first one counts.
THEOREM FirstDecisionStays == PermSpec => DecisionFinal
<1>1. DecisionsHold => [\A k \in Keys : decision[k] # "none" => decision'[k] = decision[k]]_permVars
  BY DEF DecisionsHold
<1> QED
  BY <1>1, DecisionsHoldStep, PermissionInvariant, PTL DEF PermSpec, DecisionFinal

\* Once its deadline has passed, an open request can only expire: a late
\* approval never allows anything.
THEOREM LateAnswersExpire == PermSpec => LateMeansExpired
<1>1. DecisionsHold => [\A k \in overdue : decision[k] = "none" => decision'[k] \in {"none", "expired"}]_permVars
  BY DEF DecisionsHold
<1> QED
  BY <1>1, DecisionsHoldStep, PermissionInvariant, PTL DEF PermSpec, LateMeansExpired
=============================================================================
