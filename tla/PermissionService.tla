-------------------------- MODULE PermissionService --------------------------
(***************************************************************************)
(* Tool permission (services/permission_service.py): policy rules, the     *)
(* requests a run's calls open, the answers to them, run-wide grants and   *)
(* expiry.  Every method runs under one lock and is one step.              *)
(*                                                                         *)
(* A request is found by its run and call id (_request_by_call), which     *)
(* name it here too: the map is written once per pair.  The arguments of a *)
(* call stand for their canonical digest, and tool and arguments together  *)
(* for the scope key.  A rule is the effective one: "deny" if any rule set *)
(* denies the tool (explicit_deny), else what action_for returns.          *)
(***************************************************************************)
EXTENDS RunContracts

CONSTANTS
    Tools,          \* registered tools
    Args,           \* digests of canonical arguments
    Exposed,        \* the tools the dispatchers expose
    Headless,       \* the runs whose dispatcher has nobody to ask
    Policies,       \* the rules (Tools -> Rules) the policy may have
    NoCall          \* the tool and arguments of a request that does not exist

Calls == [id : CallIds, tool : Tools, args : Args]
Keys  == Runs \X CallIds
Rules == {"allow", "ask", "deny"}
AllowKinds == {"allow_once", "allow_run_scope"}
Decisions  == AllowKinds \cup {"deny", "cancel", "expired"}
Scopes == Runs \X Tools \X Args

ASSUME PermissionAssumption ==
    /\ Exposed \subseteq Tools
    /\ Headless \subseteq Runs
    /\ Policies \subseteq [Tools -> Rules]
    /\ NoCall \notin [tool : Tools, args : Args]

VARIABLES
    rule,       \* rule[tool]: the effective action of _policy
    asked,      \* asked[k]: tool and arguments of request k
    decision,   \* decision[k]: its decision, "none" while there is none
    consumed,   \* the requests whose decision has been consumed
    grants,     \* _run_grants
    overdue,    \* the requests whose expires_at has passed
    passes      \* how often a request's own decision let a call through (history)

permVars == <<rule, asked, decision, consumed, grants, overdue, passes>>

PermInit ==
    /\ rule \in Policies
    /\ asked = [k \in Keys |-> NoCall]
    /\ decision = [k \in Keys |-> "none"]
    /\ consumed = {}
    /\ grants = {}
    /\ overdue = {}
    /\ passes = [k \in Keys |-> 0]

(***************************************************************************)
(* authorize: the first case that applies, in the order of the code        *)
(***************************************************************************)

KeyOf(r, c) == <<r, c.id>>

\* Not exposed, or denied by a rule: this is looked at before everything else.
Refused(r, c) == c.tool \notin Exposed \/ rule[c.tool] = "deny"

\* The run holds a grant for exactly this tool and these arguments, or the
\* policy asks nobody.
FreePass(r, c) ==
    /\ ~Refused(r, c)
    /\ <<r, c.tool, c.args>> \in grants \/ rule[c.tool] = "allow"

\* Only an "ask" rule is left: the request of this run and call id decides.
MustAsk(r, c) == ~Refused(r, c) /\ ~FreePass(r, c)

Requested(k) == asked[k] # NoCall

\* Mutant: the consumed flag is not kept.
ConsumeForgets(r, c, verdict) ==
    LET k == KeyOf(r, c) IN
    /\ verdict = IF decision[k] \in AllowKinds THEN "allowed" ELSE "denied"
    /\ passes' = IF decision[k] \in AllowKinds
                   THEN [passes EXCEPT ![k] = @ + 1] ELSE passes
    /\ UNCHANGED <<rule, asked, decision, consumed, grants, overdue>>

\* consume: the request is spent by the first look at its decision.
Consume(r, c, verdict) ==
    LET k == KeyOf(r, c) IN
    \/ /\ k \in consumed \/ asked[k].tool # c.tool
       /\ verdict = "denied" /\ UNCHANGED permVars
    \/ /\ k \notin consumed /\ asked[k].tool = c.tool
       /\ consumed' = consumed \cup {k}
       /\ \/ /\ decision[k] \in AllowKinds
             /\ verdict = "allowed"
             /\ passes' = [passes EXCEPT ![k] = @ + 1]
          \/ /\ decision[k] \notin AllowKinds
             /\ verdict = "denied"
             /\ UNCHANGED passes
       /\ UNCHANGED <<rule, asked, decision, grants, overdue>>

\* The request of this call exists: changed arguments are refused, an open
\* request stays open, a decided one is consumed.
AskedBefore(r, c, verdict) ==
    LET k == KeyOf(r, c) IN
    \/ /\ asked[k].args # c.args
       /\ verdict = "denied" /\ UNCHANGED permVars
    \/ /\ asked[k].args = c.args /\ decision[k] = "none"
       /\ verdict = "pending" /\ UNCHANGED permVars
    \/ /\ asked[k].args = c.args /\ decision[k] # "none"
       /\ Consume(r, c, verdict)

\* The first request of this call id, if anybody is there to answer it.
FirstAsk(r, c, verdict) ==
    \/ /\ r \in Headless
       /\ verdict = "blocked" /\ UNCHANGED permVars
    \/ /\ r \notin Headless
       /\ verdict = "pending"
       /\ asked' = [asked EXCEPT ![KeyOf(r, c)] = [tool |-> c.tool, args |-> c.args]]
       /\ UNCHANGED <<rule, decision, consumed, grants, overdue, passes>>

Authorize(r, c, verdict) ==
    \/ Refused(r, c) /\ verdict = "denied" /\ UNCHANGED permVars
    \/ FreePass(r, c) /\ verdict = "allowed" /\ UNCHANGED permVars
    \/ MustAsk(r, c) /\ ~Requested(KeyOf(r, c)) /\ FirstAsk(r, c, verdict)
    \/ MustAsk(r, c) /\ Requested(KeyOf(r, c)) /\ AskedBefore(r, c, verdict)

(***************************************************************************)
(* resolve, expire, update_policy and the clock                            *)
(***************************************************************************)

\* Mutants: an answer is taken although one is there; the deadline is only
\* looked at by the sweep.
ResolveAgain(k, kind) ==
    /\ Requested(k)
    /\ decision' = [decision EXCEPT ![k] = IF k \in overdue THEN "expired" ELSE kind]
    /\ UNCHANGED <<rule, asked, consumed, grants, overdue, passes>>

ResolveLate(k, kind) ==
    /\ Requested(k) /\ decision[k] = "none"
    /\ decision' = [decision EXCEPT ![k] = kind]
    /\ UNCHANGED <<rule, asked, consumed, grants, overdue, passes>>

\* Mutant: the grant is added before the deadline is looked at.
ResolveGrantsFirst(k, kind) ==
    /\ Requested(k) /\ decision[k] = "none"
    /\ decision' = [decision EXCEPT ![k] = IF k \in overdue THEN "expired" ELSE kind]
    /\ grants' = IF kind = "allow_run_scope"
                   THEN grants \cup {<<k[1], asked[k].tool, asked[k].args>>} ELSE grants
    /\ UNCHANGED <<rule, asked, consumed, overdue, passes>>

\* Mutant: a grant covers the tool whatever its arguments are.
ResolveGrantsTool(k, kind) ==
    /\ Requested(k) /\ decision[k] = "none" /\ k \notin overdue
    /\ decision' = [decision EXCEPT ![k] = kind]
    /\ grants' = IF kind = "allow_run_scope"
                   THEN grants \cup {<<k[1], asked[k].tool>>} ELSE grants
    /\ UNCHANGED <<rule, asked, consumed, overdue, passes>>

\* An answer to an open request; after the deadline any answer means expired.
\* An unknown or decided request raises ValueError and changes nothing.
Resolve(k, kind) ==
    /\ Requested(k) /\ decision[k] = "none"
    /\ LET final == IF k \in overdue THEN "expired" ELSE kind IN
       /\ decision' = [decision EXCEPT ![k] = final]
       /\ grants' = IF final = "allow_run_scope"
                      THEN grants \cup {<<k[1], asked[k].tool, asked[k].args>>}
                      ELSE grants
    /\ UNCHANGED <<rule, asked, consumed, overdue, passes>>

\* expire: the sweep over every open request whose deadline has passed.
Lapsed == {k \in overdue : Requested(k) /\ decision[k] = "none"}

Expire ==
    /\ Lapsed # {}
    /\ decision' = [k \in Keys |-> IF k \in Lapsed THEN "expired" ELSE decision[k]]
    /\ UNCHANGED <<rule, asked, consumed, grants, overdue, passes>>

UpdatePolicy(p) ==
    /\ rule' = p
    /\ UNCHANGED <<asked, decision, consumed, grants, overdue, passes>>

\* The time to live of a request runs out.
DeadlinePasses(k) ==
    /\ Requested(k) /\ k \notin overdue
    /\ overdue' = overdue \cup {k}
    /\ UNCHANGED <<rule, asked, decision, consumed, grants, passes>>

PermNext ==
    \/ \E r \in Runs, c \in Calls :
          \E verdict \in {"allowed", "denied", "pending", "blocked"} : Authorize(r, c, verdict)
    \/ \E k \in Keys, kind \in Decisions : Resolve(k, kind)
    \/ Expire
    \/ \E p \in Policies : UpdatePolicy(p)
    \/ \E k \in Keys : DeadlinePasses(k)

PermSpec == PermInit /\ [][PermNext]_permVars

(***************************************************************************)
(* Properties                                                              *)
(***************************************************************************)

\* Every variable holds a value of its type.
PermTypeOK ==
    /\ rule \in [Tools -> Rules]
    /\ asked \in [Keys -> [tool : Tools, args : Args] \cup {NoCall}]
    /\ decision \in [Keys -> Decisions \cup {"none"}]
    /\ consumed \in SUBSET Keys
    /\ grants \in SUBSET Scopes
    /\ overdue \in SUBSET Keys
    /\ passes \in [Keys -> Nat]

\* One approval lets one call through, however often the run authorizes the
\* call id again and whatever other answers race with it.
ApprovalPassesOnce ==
    \A k \in Keys :
        /\ passes[k] <= 1
        /\ passes[k] = 1 => decision[k] \in AllowKinds /\ k \in consumed

\* A run-wide grant covers exactly the tool and arguments of a request of the
\* same run that was answered with allow_run_scope in time.
GrantsJustified ==
    \A g \in grants : \E i \in CallIds :
        /\ asked[<<g[1], i>>] = [tool |-> g[2], args |-> g[3]]
        /\ decision[<<g[1], i>>] = "allow_run_scope"

\* Answers, the timer and the sweep race: the first decision stays.
DecisionFinal ==
    [][\A k \in Keys : decision[k] # "none" => decision'[k] = decision[k]]_permVars

\* An answer that comes after the deadline never allows anything.
LateMeansExpired ==
    [][\A k \in overdue : decision[k] = "none" => decision'[k] \in {"none", "expired"}]_permVars
=============================================================================
