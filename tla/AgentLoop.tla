------------------------------ MODULE AgentLoop ------------------------------
(***************************************************************************)
(* The provider/tool loop of one run (runtime/agent_loop.py) with the      *)
(* permission service its dispatcher asks: provider turns, the calls of a  *)
(* turn, the two budgets, the permission wait and its resumption.          *)
(*                                                                         *)
(* The transcript holds what the provider is owed an answer for: calls and *)
(* results.  Texts, events and token counts are left out; a context that   *)
(* does not fit is one of the reasons for which the loop ends blocked, and *)
(* compaction is not modelled.  The service around the loop resolves a     *)
(* request before it resumes the loop and sets the cancel signal at any    *)
(* time (RunService.tla has both).                                         *)
(***************************************************************************)
EXTENDS PermissionService, SequencesExt

CONSTANTS
    SearchTool,     \* search_knowledge
    ControlTools,   \* report_progress and activate_skill, run by the loop
    UserDecisions,  \* the answers a client or the timer gives
    MaxBatch,       \* bound: calls in one provider turn
    MaxTurns,       \* max_model_turns
    MaxToolCalls,   \* max_tool_calls
    SearchLimit     \* knowledge searches before the redirect

ASSUME AgentLoopAssumption ==
    /\ CallIds \subseteq Nat
    /\ SearchTool \in Tools /\ ControlTools \subseteq Tools \ {SearchTool}
    /\ UserDecisions \subseteq Decisions
    /\ {MaxBatch, MaxTurns, MaxToolCalls, SearchLimit} \subseteq Nat \ {0}

VARIABLES
    run,        \* the run that is executed
    at,         \* where the loop is
    outcome,    \* the status it returned with, "none" before
    signal,     \* the cancel signal: "clear" or "set"
    turns,      \* model_turns
    used,       \* tool_calls
    searches,   \* knowledge_search_count
    retries,    \* empty_turn_retries
    transcript, \* the calls and results, in order
    queue,      \* the calls of the turn (or the resumption) still to be handled
    stopping,   \* cancelled_after_effect: "no" or "yes"
    parked,     \* pending_call_ids: a call id, or NoCallId
    effects     \* effects[c]: how often call c was executed (history)

loopVars == <<at, outcome, signal, turns, used, searches, retries, transcript, queue,
              stopping, parked, effects>>
vars == <<permVars, run, loopVars>>

Places == {"provider", "calls", "executing", "parked", "resuming", "ended"}
ResultStatuses == {"succeeded", "silent", "failed", "denied", "cancelled"}
Asks(c) == [kind |-> "call", call |-> c, turn |-> turns + 1]
Result(c, s) == [kind |-> "result", id |-> c.id, status |-> s]

CallAt == {i \in DOMAIN transcript : transcript[i].kind = "call"}
ResultAt == {i \in DOMAIN transcript : transcript[i].kind = "result"}

\* The calls with the id of this one, and the results for that id.
Namesakes(i) == {j \in CallAt : transcript[j].call.id = transcript[i].call.id}
AnswersTo(i) == {j \in ResultAt : transcript[j].id = transcript[i].call.id}
Recurring(i) == Namesakes(i) # {i}

\* _gathered_tool_output: some tool succeeded and had something to say.
Gathered == \E i \in ResultAt : transcript[i].status = "succeeded"

Init ==
    /\ PermInit /\ run \in Runs
    /\ at = "provider" /\ outcome = "none" /\ signal = "clear"
    /\ turns = 0 /\ used = 0 /\ searches = 0 /\ retries = 0
    /\ transcript = << >> /\ queue = << >>
    /\ stopping = "no" /\ parked = NoCallId
    /\ effects = [c \in Calls |-> 0]

\* terminal: the loop returns; its budgets and its queue are of no use any more.
Terminate(s) ==
    /\ at' = "ended" /\ outcome' = s
    /\ queue' = << >> /\ stopping' = "no"

(***************************************************************************)
(* The head of the while loop and the provider turn                        *)
(***************************************************************************)

\* The turn budget is looked at first, then the signal (again with every chunk
\* of the stream); the context may not fit; the stream may fail, time out, end
\* without a complete turn or name one call id twice.
LeaveBeforeCalls(s) ==
    /\ at = "provider"
    /\ \/ s = "blocked" /\ turns = MaxTurns
       \/ s = "cancelled" /\ turns < MaxTurns /\ signal = "set"
       \/ s \in {"blocked", "failed"} /\ turns < MaxTurns
    /\ Terminate(s)
    /\ UNCHANGED <<permVars, signal, turns, used, searches, retries, transcript, parked,
                   effects>>

\* Neither text nor calls: the provider is asked once more; after a second
\* silence the gathered output is the answer, if there is any.
EmptyTurn ==
    /\ at = "provider" /\ turns < MaxTurns
    /\ turns' = turns + 1
    /\ \/ /\ retries = 0 /\ retries' = 1
          /\ UNCHANGED <<at, outcome, queue, stopping>>
       \/ /\ retries = 1
          /\ Terminate(IF Gathered THEN "completed" ELSE "failed")
          /\ UNCHANGED retries
    /\ UNCHANGED <<permVars, signal, used, searches, transcript, parked, effects>>

\* Text without calls is the natural completion.
AnswerTurn ==
    /\ at = "provider" /\ turns < MaxTurns
    /\ turns' = turns + 1 /\ retries' = 0
    /\ Terminate("completed")
    /\ UNCHANGED <<permVars, signal, used, searches, transcript, parked, effects>>

\* _valid_calls: the ids of a turn are distinct.  An adapter that numbers the
\* calls of each turn repeats them in the next one.  Ids are only compared, so
\* new ones are taken in their order.
Batches ==
    LET known == {transcript[i].call.id : i \in CallAt} IN
    {b \in UNION {[1..n -> Calls] : n \in 1..MaxBatch} :
        /\ IsInjective([i \in DOMAIN b |-> b[i].id])
        /\ \A i \in DOMAIN b : \A k \in CallIds :
              k < b[i].id => k \in known \cup {b[j].id : j \in 1..i}}

CallTurn ==
    /\ at = "provider" /\ turns < MaxTurns
    /\ turns' = turns + 1 /\ retries' = 0
    /\ \E batch \in Batches :
          /\ transcript' = transcript \o [i \in DOMAIN batch |-> Asks(batch[i])]
          /\ queue' = batch
    /\ stopping' = "no"
    /\ at' = "calls"
    /\ UNCHANGED <<permVars, outcome, signal, used, searches, parked, effects>>

(***************************************************************************)
(* The calls of a turn, in order                                           *)
(***************************************************************************)

\* The next call gets result s and the loop goes on to the one after it.
Conclude(s) ==
    /\ transcript' = Append(transcript, Result(Head(queue), s))
    /\ queue' = Tail(queue)
    /\ at' = "calls"

Handling(c) == at = "calls" /\ queue # << >> /\ c = Head(queue)
Dispatching(c) == Handling(c) /\ stopping = "no" /\ signal = "clear" /\ c.tool \notin ControlTools

\* A call after the signal was seen is answered without being executed.
SkipCall(c) ==
    /\ Handling(c) /\ (stopping = "yes" \/ signal = "set")
    /\ stopping' = "yes"
    /\ Conclude("cancelled")
    /\ UNCHANGED <<permVars, outcome, signal, turns, used, searches, retries, parked,
                   effects>>

\* report_progress and activate_skill need no permission and no budget.
ControlCall(c, s) ==
    /\ Handling(c) /\ stopping = "no" /\ signal = "clear" /\ c.tool \in ControlTools
    /\ s \in {"succeeded", "failed"}
    /\ Conclude(s)
    /\ UNCHANGED <<permVars, outcome, signal, turns, used, searches, retries, stopping, parked,
                   effects>>

\* Mutant: off by one.
BudgetSpentLate(c) == used > MaxToolCalls

SearchSpent(c) == c.tool = SearchTool /\ searches >= SearchLimit
BudgetSpent(c) == ~SearchSpent(c) /\ used >= MaxToolCalls

\* Too many knowledge searches, or no tool call left.
RedirectCall(c) ==
    /\ Dispatching(c)
    /\ \/ SearchSpent(c) /\ Conclude("failed")
       \/ BudgetSpent(c) /\ Conclude("cancelled")
    /\ UNCHANGED <<permVars, outcome, signal, turns, used, searches, retries, stopping, parked,
                   effects>>

MayAuthorize(c) == Dispatching(c) /\ ~SearchSpent(c) /\ ~BudgetSpent(c)

\* Mutant: the calls behind a parked one are handled before the user answers.
ParkCallGoesOn(c) ==
    /\ MayAuthorize(c) /\ Authorize(run, c, "pending")
    /\ parked' = c.id
    /\ at' = "calls" /\ queue' = Tail(queue)
    /\ UNCHANGED <<outcome, signal, turns, used, searches, retries, transcript, stopping,
                   effects>>

\* Pending: the loop returns to its caller; the calls behind this one are not
\* kept anywhere.
ParkCall(c) ==
    /\ MayAuthorize(c) /\ Authorize(run, c, "pending")
    /\ parked' = c.id
    /\ at' = "parked" /\ queue' = << >>
    /\ UNCHANGED <<outcome, signal, turns, used, searches, retries, transcript, stopping,
                   effects>>

RefuseCall(c) ==
    /\ MayAuthorize(c) /\ Authorize(run, c, "denied")
    /\ Conclude("denied")
    /\ UNCHANGED <<outcome, signal, turns, used, searches, retries, stopping, parked,
                   effects>>

\* Nobody is there to ask: the call is answered and the run ends blocked.
BlockCall(c) ==
    /\ MayAuthorize(c) /\ Authorize(run, c, "blocked")
    /\ transcript' = Append(transcript, Result(c, "denied"))
    /\ Terminate("blocked")
    /\ UNCHANGED <<signal, turns, used, searches, retries, parked, effects>>

Execute(c) == effects' = [effects EXCEPT ![c] = @ + 1]

DispatchCall(c) ==
    /\ MayAuthorize(c) /\ Authorize(run, c, "allowed")
    /\ Execute(c)
    /\ searches' = IF c.tool = SearchTool THEN searches + 1 ELSE searches
    /\ at' = "executing"
    /\ UNCHANGED <<outcome, signal, turns, used, retries, transcript, queue, stopping, parked>>

\* Mutant: a call that failed is tried once more before it is answered.
FinishCallRetries(s) ==
    /\ at = "executing" /\ s \in {"succeeded", "silent", "failed"}
    /\ used' = used + 1
    /\ stopping' = IF signal = "set" THEN "yes" ELSE stopping
    /\ \/ s # "failed" /\ Conclude(s)
       \/ s = "failed" /\ at' = "calls" /\ UNCHANGED <<transcript, queue>>
    /\ UNCHANGED <<permVars, outcome, signal, turns, searches, retries, parked, effects>>

\* The dispatcher returns or raises; either way the call counts, and the signal
\* is looked at.
FinishCall(s) ==
    /\ at = "executing" /\ s \in {"succeeded", "silent", "failed"}
    /\ used' = used + 1
    /\ stopping' = IF signal = "set" THEN "yes" ELSE stopping
    /\ Conclude(s)
    /\ UNCHANGED <<permVars, outcome, signal, turns, searches, retries, parked, effects>>

EndOfTurn ==
    /\ at = "calls" /\ queue = << >>
    /\ \/ stopping = "yes" /\ Terminate("cancelled")
       \/ /\ stopping = "no" /\ at' = "provider"
          /\ UNCHANGED <<outcome, queue, stopping>>
    /\ UNCHANGED <<permVars, signal, turns, used, searches, retries, transcript, parked,
                   effects>>

(***************************************************************************)
(* resume_permission                                                       *)
(***************************************************************************)

\* _pending_calls: every call of the transcript that has the parked id, in order.
ParkedAt == {i \in CallAt : transcript[i].call.id = parked}

TakePendingCalls ==
    \E place \in [1..Cardinality(ParkedAt) -> ParkedAt] :
        /\ \A m, n \in DOMAIN place : m < n => place[m] < place[n]
        /\ queue' = [n \in DOMAIN place |-> transcript[place[n]].call]

\* Mutant: only an approval resumes the run.
BeginResumeApproved ==
    /\ at = "parked" /\ decision[<<run, parked>>] \in AllowKinds
    /\ TakePendingCalls
    /\ at' = "resuming"
    /\ UNCHANGED <<permVars, outcome, signal, turns, used, searches, retries, transcript,
                   stopping, parked, effects>>

BeginResume ==
    /\ at = "parked" /\ decision[<<run, parked>>] # "none"
    /\ TakePendingCalls
    /\ at' = "resuming"
    /\ UNCHANGED <<permVars, outcome, signal, turns, used, searches, retries, transcript,
                   stopping, parked, effects>>

\* Mutant: the answer is there, so the call is executed without authorize.
ResumeTrusting(c, s) ==
    /\ at = "resuming" /\ queue # << >> /\ c = Head(queue)
    /\ s \in {"succeeded", "failed"}
    /\ transcript' = Append(transcript, Result(c, s))
    /\ queue' = Tail(queue)
    /\ Execute(c) /\ used' = used + 1
    /\ UNCHANGED <<permVars, at, outcome, signal, turns, searches, retries, stopping, parked>>

\* Neither the budget nor the search count is looked at.  The id of these calls
\* is the parked one, whose request is decided: authorize is never pending.
ResumeCall(c, s) ==
    /\ at = "resuming" /\ queue # << >> /\ c = Head(queue)
    /\ transcript' = Append(transcript, Result(c, s))
    /\ queue' = Tail(queue)
    /\ \/ /\ Authorize(run, c, "allowed") /\ s \in {"succeeded", "silent", "failed"}
          /\ Execute(c) /\ used' = used + 1
       \/ /\ Authorize(run, c, "denied") /\ s = "denied"
          /\ UNCHANGED <<effects, used>>
    /\ UNCHANGED <<at, outcome, signal, turns, searches, retries, stopping, parked>>

\* run is called again with the state; its local counters start from zero.
RunAgain ==
    /\ at = "resuming" /\ queue = << >>
    /\ parked' = NoCallId
    /\ searches' = 0 /\ retries' = 0
    /\ at' = "provider"
    /\ UNCHANGED <<permVars, outcome, signal, turns, used, transcript, queue, stopping,
                   effects>>

(***************************************************************************)
(* The loop, its user and the clock                                        *)
(***************************************************************************)

LoopStep ==
  /\ UNCHANGED run
  /\ \/ \E s \in {"blocked", "cancelled", "failed"} : LeaveBeforeCalls(s)
     \/ EmptyTurn \/ AnswerTurn \/ CallTurn \/ EndOfTurn \/ BeginResume \/ RunAgain
     \/ \E c \in ToSet(queue) :
           \/ SkipCall(c) \/ RedirectCall(c) \/ ParkCall(c) \/ RefuseCall(c) \/ BlockCall(c)
           \/ DispatchCall(c)
           \/ \E s \in ResultStatuses : ControlCall(c, s) \/ ResumeCall(c, s)
     \/ \E s \in ResultStatuses : FinishCall(s)

\* A client or the expiry timer answers the request the run is parked on.
AnswerRequest(kind) ==
    /\ at = "parked"
    /\ Resolve(<<run, parked>>, kind)
    /\ UNCHANGED <<run, loopVars>>

SignalCancel ==
    /\ signal = "clear" /\ at \notin {"parked", "ended"}
    /\ signal' = "set"
    /\ UNCHANGED <<permVars, run, at, outcome, turns, used, searches, retries, transcript,
                   queue, stopping, parked, effects>>

Next ==
    \/ LoopStep
    \/ \E kind \in UserDecisions : AnswerRequest(kind)
    \/ SignalCancel

\* The loop's thread runs, and the expiry timer answers if no client does.
FairSpec ==
    /\ Init /\ [][Next]_vars
    /\ WF_vars(LoopStep)
    /\ WF_vars(AnswerRequest("expired"))

Spec == Init /\ [][Next]_vars

(***************************************************************************)
(* Properties                                                              *)
(***************************************************************************)

\* No call id was used twice (resume_permission takes every call that has the
\* id of the parked one, an answered one too).
IdsDistinct == \A i \in CallAt : ~Recurring(i)

\* Every variable holds a value of its type.
TypeOK ==
    /\ PermTypeOK
    /\ at \in Places
    /\ outcome \in TerminalStatuses \cup {"none"}
    /\ signal \in {"clear", "set"} /\ stopping \in {"no", "yes"}
    /\ turns \in 0..MaxTurns /\ used \in Nat /\ searches \in Nat /\ retries \in 0..1
    /\ \A i \in DOMAIN transcript : transcript[i].kind \in {"call", "result"}
    /\ queue \in Seq(Calls)
    /\ parked \in PendingCalls
    /\ effects \in [Calls -> Nat]

\* Before each provider turn every call of the transcript has one result: there
\* are as many results for an id as calls with it.
EveryCallAnswered ==
    at = "provider" =>
        \A i \in CallAt : Cardinality(AnswersTo(i)) = Cardinality(Namesakes(i))

\* No result comes before its call; a call whose id does not recur gets at most
\* one, and if it has none at a provider turn it stood behind one of its turn
\* that was asked for.
Paired ==
    /\ \A j \in ResultAt : \E i \in CallAt : i < j /\ transcript[i].call.id = transcript[j].id
    /\ \A i \in CallAt : Recurring(i) \/ Cardinality(AnswersTo(i)) <= 1
    /\ at = "provider" =>
         \A i \in CallAt : AnswersTo(i) = {} =>
            \E h \in CallAt :
                /\ h < i /\ transcript[h].turn = transcript[i].turn
                /\ Requested(<<run, transcript[h].call.id>>) /\ AnswersTo(h) # {}

\* However ids recur and calls are resumed, a call that has to be asked for is
\* executed once per approval, and never after a denial or an expiry.
OneEffectPerApproval ==
    \A c \in Calls : effects[c] > 0 /\ MustAsk(run, c) =>
        /\ effects[c] = 1
        /\ decision[<<run, c.id>>] \in AllowKinds
        /\ \A d \in Calls : d.id = c.id /\ effects[d] > 0 /\ MustAsk(run, d) => d = c

\* While no id recurs, no call is executed more often than the model made it.
ExecutedAsCalled ==
    IdsDistinct => \A c \in Calls : effects[c] <= Cardinality({i \in CallAt : transcript[i].call = c})

\* While no id recurs, the budget of tool calls holds across permission waits.
BudgetKept == IdsDistinct => used <= MaxToolCalls

\* The loop of a run ends, whatever the provider and the user do.
LoopEnds == <>(at = "ended")
=============================================================================
