# Novi: a formal model of the run system and of what is kept beside it

Novi is a local assistant: a Python backend that executes *runs* (a user turn
that a language model answers with the help of tools), and everything around
them: permission prompts, durable journals, background memory curation, a
scheduler and a task queue, conversation files, source folders, and several user
interfaces. These modules model the parts in which the order of events decides
about correctness: who may use the model, what a run may do without asking, what
is durably known of a run and what the page shows of it, what the memory worker
writes into the user's notes, what the brain makes of those notes, and what the web
server keeps on disk, whatever
clients, timers, threads, connections and crashes do.

Contents: 1 inventory, 2 modules and their correspondence to the code,
3 runs and bounds, 4 fairness, 5 proofs, 6 where code and documents differ,
7 what is not modelled, 8 plan.

## 1. Inventory

| Component (source under `src/novi`) | State | Operations | What is hard | What makes it correct |
|---|---|---|---|---|
| Inference admission (`services/inference_coordinator.py`) | `_foreground`, `_waiting`, `_memory` (lease token), `_closed`, `_last_foreground` | `acquire_foreground`, `try_acquire_memory`, `pause_memory`, `close` | four ways out of a wait, a lease whose holder never lets go, close during a handoff | foreground and memory inference never overlap; counters exact on every exit; the holder is told; nobody enters after close; waits end |
| Tool permission (`services/permission_service.py`) | requests by run and call id, decisions, consumed flags, run-wide grants, policy | `authorize`, `resolve`, `expire`, `update_policy` | two clients, the timer and the sweep answer one request; answers after the deadline; call ids that recur | one approval, one execution; grants cover only what was approved; the first decision stays; a late answer never allows |
| Run store (`services/run_store.py`) | one snapshot row and one event journal per run (SQLite) | `create`, `append`, `transition`, `update_snapshot`, `interrupt_active_runs` | `append` guards terminal rows, `update_snapshot` does not | status and journal agree |
| Run service (`services/run_service.py`) | `_active_run_id`, `_loops`, `_cancel_signals`, expiry timers; threads that execute loops | `prepare`, `execute`, `respond_permission`, `cancel`, `_expire_permission`, `close` | sections without the lock; resume on another thread; cancel in the middle of anything; process death | one unfinished run; one terminal event; terminal status is final; nothing executed twice or without consent; every run ends |
| Agent loop (`runtime/agent_loop.py`) | transcript, budgets, pending call | `run`, `resume_permission` | leaving a turn in the middle; counters that live in locals; repeated call ids | every call answered; budgets hold across waits; the loop ends |
| Run contracts (`runtime/run_contracts.py`) | none | statuses, event kinds | | shared vocabulary |
| Run composition (`services/run_composition.py`) | wiring | builds the services, sweeps interrupted runs at start | restart | the sweep precedes the first request |
| Run transport and the page (`services/run_transport.py`, `ws_chat` in `webui_server.py`, `webui/src/services/novi.ts`, `hooks/useNoviChat.ts`, `state/runReducer.ts`) | listeners; the bridge's run; the client's run and cursor; a projection per conversation; the owner of the page | notify, start, stop, replay, subscribe, reduce, reconnect | delivery outside the lock; sockets that break with events and requests under way | a conversation shows a prefix of the journal of one run, in order, and comes to show its end |
| Run memory (`services/run_memory.py`) | turns of the long-term memory | `ingest_run` | the cancelling and the working thread both ingest a run | one turn for each run |
| Memory curation (`brain/curation/`) | jobs with leases and attempts, operations, progress (SQLite); switches; the notes themselves | `claim`, `stage`, `finish`, `run_once`, `apply_verified`, `pause` | leases that lapse under a living worker; deaths between approved, applying and applied; user edits between look and write | user edits survive; each operation leaves its section once; applied means whole; progress skips nothing unsettled; attempts are bounded |
| Notes (`brain/vault.py`, `brain/brain.py`, `brain/storage/markdown_store.py`, `memory/knowledge_index.py`) | the files of the vault, which belong to the user; knowledge rows, search chunks and a manifest of what was projected | `learn`, `correct_memory`, `reflect`, `reconcile_markdown`, `record`, `index_all` at the start | the user edits, renames, copies and deletes files between any two steps; row, note, chunks and manifest are written one after the other; a file is acknowledged as it is by then | the brain changes no text of the user; after a reconciliation rows and chunks are the projection of the notes |
| Scheduler (`scheduler.py`) | schedules in memory and on file, the polling thread | `add`, `remove`, `toggle`, poll, trigger | lock released around triggers; death between trigger and save | a one-shot fires once for each time it is enabled; what is due fires |
| Task queue (`task_queue.py`) | tasks on file, worker threads | `add`, `cancel`, `run_task`, delete, load | cancel against completion; deletion outside the lock | no second thread for a task |
| Conversations and attachments (`webui_server.py`, `services/attachment_gc.py`, page) | index, a file per conversation, attachment files; on the page messages, composer, `dirtyIdRef`, `pendingTitleIds` | save, title, delete, upload, discard, sweep | whole-conversation saves that overtake each other; a title made from old messages; deletion half outside the lock; references collected before the listing | the index lists only what exists; the disk has what the page shows; no attachment is left over |
| Source folders (`webui_server.py`, `workspace/service.py`) | the entry of the owner in an index, `sources.json` of the service | attach, detach, create, delete for projects and conversations | two places, one lock that one handler does not take, lists read before a long indexing and written after | both places agree with what was asked for |
| Provider adapter (`runtime/provider_adapter.py`) | stream buffers | `stream` | ids made up per turn (`call-0`, ...) | complete turns only |
| Context builder, compactor (`runtime/context_*.py`) | none | build, compact | splitting a call from its result | pairs stay together |
| Job manager, lifecycle (`jobs/`, `services/job_lifecycle.py`, `recovery.py`, `continuation.py`) | job states, persisted | submit, pause, resume, cancel, complete, fail, recover | no terminal guard on complete and fail | dormant, see section 7 |
| MCP connections (`runtime/mcp/lifecycle.py`) | connections and configuration | connect, close | | serialized, see section 7 |
| Configuration, event bus, models, planner, orchestrator, retrieval, skills, tools, Telegram, CLI, desktop shell, evaluation | mostly data | | | see section 7 |

How they interact: a client calls `RunService.prepare` and then `execute` on a
thread of its own. `execute` holds foreground admission of the
`InferenceCoordinator` for as long as the loop runs. The loop reports events
through `_persist_live` into the `RunStore`, asks the `PermissionService` before
each tool call, and *returns* when a call has to wait for a user. A client's
answer or the expiry timer comes in on another thread, resolves the request and
resumes the loop there. `cancel` comes in on any thread. Listeners hear of every
event outside the lock; the socket bridge is one, and the page behind it projects
each conversation and saves it. A finished run becomes a turn of the long-term
memory, which the memory worker curates into notes while it holds the one memory
lease of the coordinator and no foreground work is inside. The scheduler and the
task queue start headless runs of the same kind.

The hazards of `PROJECT.json` list the lines at which this can go wrong.

## 2. Modules

```
InferenceCoordinator -> InferenceCoordinatorProofs
PermissionService ---> PermissionServiceProofs
both ----------------> MCAdmission
PermissionService ---> AgentLoop -> MCAgentLoop
                  '--> RunService -> MCRunService
RunContracts -> RunStore -> RunService
                        '-> RunTransport, which implements RunFeed
MemoryJobs -> MemoryWorker -> MCMemoryWorker
Scheduler, TaskQueue, ConversationFiles, Sources, Vault -> WebServer
RunMemory
```

**InferenceCoordinator.** A method body between two waits runs under the
Condition's lock and is one action. `acquire_foreground` is `AdmitAtOnce`, or
`AskForHandoff` followed by one of `Handoff`, `Interrupt` (cancelled or closed)
and `Timeout`, then `ReleaseForeground`. Tokens are `threading.Event`s: `told` is
the set of workers whose lease token is set. Time is two abstract steps:
`Timeout` (enabled while the lease is out) and `IdleElapsed`. `Inside` and
`holding` are what the threads really do, `foreground`, `waiting` and `memory`
what the object believes; the properties relate the two.

**RunContracts, RunStore.** Vocabulary and the durable half. An event's
sequence is its index in `journal[r]`. `StoreAppend` has the terminal guard of
`append`, `StoreUpdate` has none, as `update_snapshot`.

**PermissionService.** The order of cases in `_authorize` is kept: refused by
exposure or a deny rule, free by grant or an allow rule, else the request of this
run and call id. A request is keyed by run and call id, the canonical argument
digest is a model value, the effective policy is one rule for each tool.
`Authorize(r, c, verdict)` is a relation, so that callers can write what they do
for each verdict. `passes` counts for each request how often its decision let a
call through.

**RunService.** Sections under `_lock` are one step; what a thread does outside is
split where another thread may come in between: `PersistLook` and `PersistWrite`
are the two unlocked halves of `_persist`, `PersistAppend` and `PersistEnds` the
loop that appends missing events one transaction at a time (each may raise: a
terminal run, a sequence number that no longer fits, an event id that is already
stored), `Settle` and `Release` the rest of `_finish_execution`. Each thread has a
program counter, the `RunState` it holds (`vstatus`, `vcall`) and the length of
the result it builds. The agent loop appears as what it does to its run.
`Crash` keeps the store and clears everything else; `Sweep` and `Restart` are the
next start. `effects` and `late` are history.

The constant `Environments` lists what a behaviour may live in: the clients, the
decisions they send, and how many runs, calls of a run and crashes there are; the
variable `env` picks one at the start. *Eager* clients cancel and answer at any
moment. *Patient* clients do not call in the moments in which the worker of their
run is storing its wait or its result. The difference is exactly the defect 1 of
section 6: with eager clients, what fails is shown and what holds nevertheless is
checked (`ExecutedOnce`, `OneLateCallAtMost`); for patient clients the rest is.

**AgentLoop.** The inside of one run: provider turns, the calls of a turn in
order, the redirects of the two budgets, the permission wait (`ParkCall` returns
and drops `queue`, as the code does), `resume_permission` (`BeginResume`,
`ResumeCall`, `RunAgain`), and every terminal outcome. The transcript holds only
calls and results. `PendingOf` is `_pending_calls`, which looks the parked id up
in the whole transcript; provider turns may repeat ids of earlier turns, since
`provider_adapter.py` numbers calls within a turn if the provider names none.

**RunFeed, RunTransport.** `RunFeed` is the promise: a log for each run that grows
until its end, and conversations that show a prefix of one log, moving on only to
a later run. `RunTransport` is how it is kept: `PersistLive` journals under the
lock, `Look` takes the listeners of a later moment, `Deliver` calls them, so that
a cancel's event may overtake the worker's; the bridge of a connection passes on
the events of its run; `Handle` is the reading loop of the socket (start, stop,
subscribe with replay); `Receive` is the page, which moves its cursor
(`MoveCursor`), reduces (`Reduced`) and asks for what it missed (`Project`).
`Disconnect` loses what is under way in both directions, `Crash` also the threads
and interrupts their runs, `Reconnect` subscribes from the cursor. The refinement
maps `log` to the journal and `view` to the projections.

**MemoryJobs, MemoryWorker.** `MemoryJobs` has the tables; every method is one
SQLite transaction and one operator. `claim` is `Swept` (exhausted jobs parked,
lapsed leases taken back), then nothing, a waiting job, or a new batch cut into
segments. `MemoryWorker` has a program counter for each process's thread:
`Claim`, `Prepare`, `Lease` or `Review`, `Curate`, `Decide`, `OpenApply`, then for
each operation `Look` (journal record or preparation), `Record`, `Compare`,
`Write`, `Confirm`, and `Finish`. Each is a point at which the process may die, the
lease may lapse, another process may take the job over, a foreground call or a
switch may come in, or the user may edit a note. A note is a sequence of sections
and edits; a section carries job, operation and attempt, so that a repeated
preparation is a different section, as its time stamp makes it in the code.

**Scheduler, TaskQueue.** The polling thread's list is what was due at its look;
`Trigger` happens outside the lock, `Mark` inside. The queue's `RunTask` starts a
thread, `FinishTask` stores what that thread ends with; `DeleteMark`, `DeleteRead`
and `DeleteWrite` are the unlocked deletion of the web server. Both reload their
files after a death.

**ConversationFiles.** The page and the server. A request is an element of a set
and is worked on in any order and in steps: `SaveFile` then `SaveIndex` under the
lock; `TitleRead`, `TitleWrite`, `TitleAnswer`; `DeleteIndex`, `DeleteFile` and
then, as after `DiscardFile`, `Scan` and `Sweep`. On the page `MarkDirty` and
`Persist` are `dirtyIdRef` and the effect that saves. `page` holds what is shown,
`md` what is on disk; `written`, `excused`, `revived` and `leaked` are history.

**Sources.** Attaching and detaching walk through the service (`LoadToAttach`,
`CheckLimit`, `Keep`; `LoadToDetach`, `Forget`), which reads its list at the first
step and writes it at the last. Project requests do so inside `_PROJECTS_LOCK`
(`ProjectEnter`, `ProjectLeave`), those of conversations outside of theirs
(`ChatAttach`, `ChatAttached`, `ChatDetach`), a project's deletion without any
(`ProjectDelete`). `wanted` is what the answered requests come to.

**Vault.** The notes, the rows and chunks that are their projection, and the
manifest. `op` is what the holder of the brain's lock is at, with the note it has
indexed there (`seen`): a reconciliation reads
all files (`StartSync`), then names (`NameNote`), passes over (`PassOver`) or projects
(`Project`, `RecordProjected`) each, then retires what it has not seen (`Retire`);
learning is `Learn`, `Mirror`, `Check`, `Record`; a correction or a promotion is
`Correct`, `Restate`, `RecordStatus` and, for a correction with a statement,
`Replace`. Between any two of these steps, and at any other moment, the user
overwrites, rewrites, retracts, deletes, copies and renames files (`UserStep`).
`VaultRestart` is a death and the next start, which indexes all files. A text stands
for all that `semantic_normalize` takes for the same, the key of a note for its
`identity`. `Moments` says before which steps the user may edit. `adrift` and
`blurred` are history: the ids and paths whose state no reconciliation will repair,
because an operation ended without an acknowledgement, something was acknowledged
that nobody had projected, or chunks were removed by path (section 6).

**WebServer.** Puts these five together and lets the process die. They share
nothing but the process, so a behaviour uses one part (`part`): scheduler and
queue together, the conversations, the source folders, or the notes. **MCAdmission**
does the same for the coordinator and the permission service.

**RunMemory.** `Check` and `Observe` are the two steps of `ingest_run`, taken by
the worker (`Finish`) and the canceller (`Cancel`, inside the service's lock).
`Turns` is what `ConversationStore.turns` hands out: the oldest ones.

## 3. Runs

| Run | Question | Result |
|---|---|---|
| `admission` | *Inference*: 3 callers, 2 workers: overlap, counters, told holder, closing, waits. *Permissions*: attended and headless run, 2 call ids, 3 tools (one not exposed), 2 argument digests, 3 policies that change at any time: one approval one call, justified grants, final decisions, late answers | holds |
| `run_service` | *Succession*: 2 runs of one call, one death, patient clients: one terminal event, status and journal agree, single flight, terminal is final, the stored result is complete. *Race*: 1 run of 2 calls, eager clients: nothing executed twice or without consent, at most one execution begins after the end of a run | holds |
| `run_live` | every run ends while the process is up | holds |
| `run_cancel_overwritten` | eager clients: terminal is final | **violated** |
| `loop` | attended or headless run, four permission modes, turns of 1 or 2 calls, recurring ids, waits, expiry, cancel: pairing, budget, one effect per approval, calls executed as they were made, the loop ends | holds |
| `loop_unanswered` | attended: every call answered before the next turn | **violated** |
| `memory` | 2 processes on one journal, deaths, lapsed leases, user edits, interruptions: edits kept, sections once, applied whole, progress justified, attempts bounded, at most one late write | holds |
| `transport` | 2 runs in 2 conversations, 2 broken connections or deaths: the cursor covers, the page implements `RunFeed`, the end is reached | holds |
| `feed_goes_back` | a conversation with two runs never goes back to the first | **violated** |
| `background` | the five parts of the web server with one death: one-shots, threads, due schedules; index and files, saved as shown, no leftovers; folders as asked; user texts kept, rows and chunks projected | holds |
| `replaced_note_not_found` | what the notes say is found by a search | **violated** |
| `ingested_twice` | a run whose turn is stored is not ingested again | **violated** |

Each property has a mutant in `PROJECT.json`: a plausible bug of the code under
which TLC finds the property violated in the same run.

### Bounds, and why they are enough

* *Admission*: no counters; the instances are small sets, and the
  proofs of section 5 do away with them.
* *RunService*: `MaxEvents` bounds progress reports only (other events are bounded
  by calls and by the end of the run). One crash: a second one starts from the
  states the first one leads to, the database and nothing else. Two threads: a
  wait involves the thread that asked and the one that resumes; a third finds the
  request decided. Two runs: the busy check and the release concern the active run
  and the next one. *Race* uses the answer `allow_run_scope`, after which the
  second call is executed directly; *Succession* uses `allow_once`. Other answers
  are covered by `admission` and `loop`.
* *AgentLoop*: two turns of two calls over three ids give both distinct and
  recurring ids; `SearchLimit` is 1 in place of the code's 3 and `MaxToolCalls` 2:
  only reaching the limit matters, not its value. The modes are everything allowed,
  or everything asked for with the search allowed, denied or asked for as well.
* *RunTransport*: four events of a run are its start, two reports and its end,
  enough for one to be overtaken by two; two breaks let a replay of the first
  reconnection be cut off by the second. In `transport` no conversation has a
  second run (`Resumed` is empty); `feed_goes_back` is about one that has. A page
  waits a second at least before it reconnects: it is assumed that no thread needs
  longer than that between journaling an event and announcing it.
* *MemoryWorker*: two processes are the worker that holds a lease and the one that
  takes the job over. Two operations of one result are one that is done and one
  that is not. `MaxAttempts` is 2 in place of 3; `MaxSize` bounds jobs, edits,
  interruptions, deaths and lapsed leases together, so that any three of them may
  meet. One conversation: conversations share nothing but the worker.
* *WebServer*: each schedule is switched up to twice, the task cancelled or deleted
  once; two conversations, a text and an attachment between them, and three
  requests in flight (a save overtaken by a save while something is deleted); two projects, one of them migrated from the legacy workspace, and a
  conversation, two folders and three requests. `MaxSources` is 1 in place of 3; a
  folder that is too large is refused the same way as one too many.
  Two identical requests in flight are one: carrying them out twice writes the
  same twice. Numbers of conversations, attachments and texts are used in
  order. The page is not reloaded, and nothing stays unsent for a week (the age at
  which the sweep at the start takes a file).
* *Vault*: two paths and texts, so that a note can be copied, swapped, renamed onto
  the path another text would get, and learned again; three ids, the third for what
  is named or corrected while two exist; two edits at any two moments and two writes
  of the brain (a learning and a correction of it, or of what it left). One edit
  disturbs a step, the second one what was to repair it. Three paths with three edits
  and one write, and two paths with three edits and two writes, were checked apart,
  without the death, and hold as well. `Statuses` holds `candidate` besides the
  superseded status of a correction: which status is set makes no difference to the
  steps. In `replaced_note_not_found` the user edits at rest only: no race is needed.
* *RunMemory*: four runs with a limit of two for eight.
* Symmetry is used in safety runs only, over interchangeable model values.
* Deadlock is not checked where the system stops rightly (all runs ended) or where
  only a bound stops it. The coordinator and the permission service never stop
  and are checked for it.

### What the statements leave out, and why

* `OneTerminal`, `StatusMatchesJournal`, `SingleFlight`, `LiveSinkCovers` and
  `TerminalStays` are about patient clients: eager ones break them through
  defect 1 of section 6.
* `BudgetKept`, `ExecutedAsCalled` and one part of `Paired` are about transcripts
  in which no id recurs: with recurring ids `resume_permission` takes an answered
  call of an earlier turn for a pending one and, if it needs no permission,
  executes it again. `OneEffectPerApproval` holds regardless: permission is
  consumed once whatever ids do.
* `EndReached` is about runs the page has heard of: a run that is unknown to the
  page when its socket breaks is never subscribed to.
* `EditsKept` excepts an edit between a worker's comparison and its replacement of
  the file, which `apply.py` says it cannot exclude; `AttemptsBounded` admits one
  more attempt for each death or lapsed lease, since the sweep parks exhausted jobs
  before it takes lapsed ones back; `ProgressJustified` and the second half of
  `AppliedWhole` are about executions in which no lease lapses under a living worker.
* `OneShotBounded` admits one more trigger for each death, `ThreadsBounded` one more
  thread for each cancellation or deletion: see section 6.
* `SavedAsShown` leaves out conversations in `excused` (a save that was overtaken, a
  second mark before the first was seen, requests that died), `ListedHasFile` those
  in `revived` (saved in the middle of their deletion), `NoLeftovers` the attachments
  in `leaked` (left by a death, or carried by a save or a title written after the
  deletion had unlinked the file), `SourcesAsAsked` owners in `raced` (overlapping requests for one
  conversation, an overlapping deletion of a project, a death, or inherited folders
  that could not be attached), `Projected` the ids in `adrift` and the paths in
  `blurred`, `UserTextKept` a note without identity that changes while it is being
  given one. Each of them is a way the code really goes wrong, listed in
  section 6; the properties say that there is no other.

## 4. Fairness

* Coordinator: weak fairness for each waiting caller of leaving the wait. A waiting
  thread wakes every 50 ms and looks at its deadline. Nothing is assumed of memory
  workers.
* RunService: weak fairness of each thread's steps (the operating system schedules
  it; provider streams have time-outs), of `Lapse` (the clock) and of the expiry
  timer once it is due (`threading.Timer`). No client has to answer or to cancel.
  `RunsEnd` is about a process that stays up: a closing process cancels its
  timers, and the next start ends what is left.
* AgentLoop: weak fairness of the loop, and of the request being answered with
  "expired" if by nobody else, which RunService's timer does.
* RunTransport: weak fairness of the threads, of the two reading loops and of the
  reconnection, which the page tries again and again. Breaks stop at their bound.
* WebServer: weak fairness of the polling thread. Nothing is asked of the rest.
* Nowhere is anything asked of a user, a crash, a broken connection or a memory
  worker.

## 5. Proofs

Seven components have a module of proofs each, the run service a second one
(`RunServicePatientProofs`) that goes on from its first. What they state holds for every
value of the constants that satisfies the modules' named assumptions: any sets of
callers, workers, runs, threads, call ids, tools, policies, conversations, attachments,
notes, folders and schedules, any limits, any number of deaths and broken connections.
Of the forty properties the passing runs check, thirty-five are theorems; further
theorems, named in the paragraphs below, state what no passing run checks. Each proof
has an inductive invariant of its own, since next to none of the properties is
inductive; the paragraphs say what had to be added and why. `[]Inv` is then always the
same three facts: `Init => Inv`, `Inv /\ [Next]_vars => Inv'` with a step for each
action, and `Inv => Property`.

*Coordinator* (`InferenceCoordinatorProofs`). The inductive invariant is type
correctness, `CountersExact`, `Exclusive` and `HolderTold` together. Mutual exclusion
is not inductive alone: `AcquireMemory` looks at the counter `_foreground`, so it needs
that the counter is the number of threads inside; and the counters need facts on
cardinalities of `Inside` and `Parked` when one caller moves, which are lemmas (hence
the assumption that the callers are finitely many). `NoEntryAfterClose` is an action
property of the same invariant.

*Permission service* (`PermissionServiceProofs`). Types, `ApprovalPassesOnce` and
`GrantsJustified` are inductive together: a grant is justified by a request that is
never replaced (`FirstAsk` needs that there is none) and a decision that is never
replaced. A pass is counted only with the consumed flag raised in the same step, which
is why the invariant ties `passes` to `consumed`. `DecisionFinal` and
`LateMeansExpired` are action properties (together `DecisionsHold`). The module is
written as a component with a specification of its own, `PermSpec`, and its two callers
are shown to keep to it, so that it is proved once and used twice: the loop implements
it (`LoopImplementsPermissions`, which gives `LoopDecisionsHold` at once), and the run
service does between two crashes (`ServiceKeepsPermissions`, `DecisionsInTheService`);
a crash forgets the requests, which the specification of the service alone has no step
for.

*Run service* (`RunServiceProofs`), with eager clients as well. What makes
`ExecutedOnce` and `OneLateCallAtMost` hold is who may act for a run. A run has one
thread inside the loop or one open request, never both (`OneActor`): answering moves
it from the second to the first, asking moves it back. Hence nobody else touches the
call a thread has authorized, and no grant is added while a decided request waits to
be authorized again (`CallsOK`). Whoever may still act for a run that was finished
from outside finds its cancel signal set (`SignalsOK`), so that only a call whose
thread had looked before can still begin (`LateOK`). A thread's program counter tells
what it holds (`ThreadsOK`). Types, permissions and the words of the waits complete
the invariant `ServiceInv`. From it also `JournalsOnlyGrow`: whatever the clients do,
a step adds at most one event to one journal, and only of a run that is not over.

*Patient clients* (`RunServicePatientProofs`). If clients keep out of the moments in
which a result is being stored, a run has at most one engaged thread (`OneEngaged`):
an answer that comes after the stored wait finds its asker gone, and the timer is not
due earlier, which needs that only requests that exist are decided (`DecidedAsked`).
So the run a thread writes is the run it looked at (`HolderOK`), status and journal
change together (`JournalOK`), and a run leaves `_active_run_id` only when it is over.
`OneTerminal`, `StatusMatchesJournal`, `SingleFlight`, `LiveSinkCovers` and
`TerminalStays` follow. Without the hypothesis they are false (defect 1 of section 6);
the hypothesis is part of the properties themselves, as in the run. `JournalsAreLogs`
then says that the journals are the logs of `RunFeed` (`Logs`, with nobody reading
them): they grow event by event, and not after their end. RunTransport does not contain
the run service; this is what it takes for granted of it, so the theorem links the two
modules.

*Agent loop* (`AgentLoopProofs`). The properties speak of a transcript of any length;
the invariant says where each of its calls stands. An executed call that has to be
asked for has a consumed approval for exactly its tool and arguments (`EffectsOK`, with
recurring ids as well); a call whose id does not recur is answered, or queued, or
parked, and no two of these (`OnceOK`); the queue is a piece of the last turn in its
order, so that what a parked call leaves behind stands behind it in its turn
(`OrderOK`); a call begins or waits only while the budget has room for it
(`BudgetOK`). Lemmas say what appending a result or a turn of calls does to
`CallAt`, `ResultAt`, `AnswersTo` and `Recurring`.

*Transport* (`RunTransportProofs`). Every event under way, on the wire or in a notice,
is one of a journal under its own number (`WireOK`), and journals only grow
(`Extended`), so that a conversation always shows a beginning of the journal of one
of its runs (`ProjOK`, stated by `BeginningsAreShown`); the cursor is moved by the
same events as the projection (`CursorOK`), which gives `CursorCovered`. For the
refinement of `RunFeed`, each step is shown to append to one log, to show the next of
one conversation, or to change neither. It has one hypothesis, `Resumed = {}`: no
conversation is sent to a second time. It is the one of the run `transport` too, and it
is needed: `feed_goes_back` shows what happens otherwise (defect 3 of section 6).
`OwnerOK` is what the hypothesis buys, one run for each conversation, and with it
`NeverBackUnresumed`: no conversation ever goes back to an earlier run. Without the
hypothesis still hold: a conversation that shows the end of a run shows all of it, and
the run is over in the store (`EndShownIsTheEnd`); a run that is over stays as it ended
(`FinishedRunsStay`); and nothing that is shown of a run is taken back while it is that
run which is shown (`ShownStays`, the action property that `BeginningsAreShown` does not
say).

*Memory curation* (`MemoryWorkerProofs`). Every step is first sorted by what it does
(`StepKinds`): work on a job, the end of `run_once`, a claim, a death, the user, time,
anything else. Besides the types and what a thread knows at its place, the invariant has a
part for each property. A worker told to stop is past its write or on its way out
(`LateOK`); a job nobody will finish has an attempt to spare (`AttemptsOK`); a note has
sections only of journaled operations, and a record adds one section to what it saw
(`SectionsOK`); an edit is in its note and in what a writer compared it with
(`EditsOK`); until a lease lapses under a living worker one worker is busy, under a
live lease (`SerialOK`); progress is the start of the unsettled batch, whose last
segment alone carries its end (`BatchesOK`); the operations a worker has passed are in
the journal (`WholeOK`). `MemoryTypeCorrect` adds to this what each process knows of the
switches (`SwitchesOK`, an invariant of its own that no other part needs).

*Web server* (`WebServerProofs`). A step of the server is a step or a restart of one
part (`StepOfAPart`), so that the invariant `ServerInv` is that of the parts, each kept
by its own steps.
* *Scheduler and queue.* A one-shot that may still be triggered has not used up what
  its creation, its re-enablings and the deaths allow (`SchedInv`); a task that does not
  look running has fewer threads than it may have (`QueueInv`).
* *Conversations.* A conversation that is listed while its deletion is between its
  halves was saved in the middle of it (`FilesInv`, with what the holder of the lock has
  written). For `SavedAsShown`: what an open conversation shows is in its listed file,
  or in the only save of it under way, or the conversation is marked, or the answer to a
  title is about to mark it (`SavedOK`). For `NoLeftovers`: an attachment that nothing
  shows has a sweep or an upload of it to come, or is in a file that nothing under way
  takes it out of (`LeftOK`), and what is in the file of a conversation the page has let
  go of stays there unless its deletion is still to come (`HeldOK`). That last part
  could not be proved of an earlier model, which counted only late saves as a leak: with
  a fourth request in flight a title writes a deleted conversation's file back, which
  three requests are too few to show. `leaked` counts that now (`Abandoned`).
* *Source folders.* Requests that disturb one another have put their owners in `raced`
  (`OverlapsOK`), so that of an owner outside it at most one is midway (`OneMidway`), and
  what was read of the index still holds where it is written back (`ReadOK`). `OwnersOK`
  then says that index and service agree with what was asked for, but for what the one
  request that is midway has changed.
* *Notes.* `VaultInv` is the types together with what an operation of the brain is about
  at its step: a row that exists, a path, a text (`OpOK`); and that what is still `todo`
  in a reconciliation was a file when it looked. That `First` chooses one of a set
  needs the least element of a set of numbers (`FirstIsIn`). `BrainKeepsVault` shows both
  the invariant and the texts, one step of the brain after the other. For `Projected`,
  `MindInv` says what holds at every step: the row of an id outside `adrift` is what its
  entry of the manifest acknowledges (`RowsOK`); the chunks of a path outside `blurred`
  are those of the one entry that is about it, and there are none if no entry is
  (`ChunksOK`); what an operation has made so far of the row and the file it is at
  (`MidwayOK`); and that in a reconciliation nobody disturbs, the files are as they were
  read and all that are not in `todo` any more are acknowledged as they are (`SnapOK`,
  `SyncedOK`). An earlier model counted too few paths as blurred, and `Projected` held
  of it by its bounds only: with three paths and six edits, two notes are acknowledged
  at one path, one moves away, its chunks are removed by path, the reconciliation is
  interrupted, and the other note, back at the path, is passed over as settled. `blurred`
  has such a path now, and in exchange the property excepts the chunks of no note in
  `adrift` any more.

*What the assumptions ask.* They are what the code has: identifiers are no
placeholders (`NoRun`, `NoCallId`, `NoResult`, `NoSchedule`, and `SourcesAssumption` and
`VaultAssumption` for entries, jobs, notes, rows and texts), the search tool is no
control tool, limits are numbers, positive where the code could not run otherwise,
a proposal is one to `MaxOperations` operations (`validate` in `contracts.py` refuses an
empty one), a migrated project is a project and no conversation. Ids are natural
numbers where the code hands them out in order; paths and texts of notes are numbers
as names of files are ordered, and the path a text is first written to is the text's.

*Only model-checked.*
* Liveness: `WaitEnds`, `RunsEnd`, `LoopEnds`, `EndReached`, `DueFires` (liveness under
  fairness and ENABLED are beyond the proof system's reach), and the five runs that
  expect a violation.

## 6. Where code and documents differ

With a run that shows it:

1. **A cancel is overwritten** (`run_cancel_overwritten`). `_persist` looks at the
   run without the lock and then calls `update_snapshot`, which does not look. A
   cancel in between is durably replaced by "awaiting permission": nobody owns the
   run any more and only the next start ends it. The comment above the look
   (`run_service.py:236`) says the durable terminal transition is authoritative.
   A second cancel then appends a second terminal event.
2. **Calls left unanswered** (`loop_unanswered`). Calls behind one that waits for
   permission are dropped; the next provider turn sees calls without results. A
   test names the contrary for turns without a wait
   (`tests/test_agent_loop_protocol.py:113`).
3. **A conversation goes back** (`feed_goes_back`). A repeated first event of an
   earlier run starts the projection over, and the client follows the run of
   whatever event it reads. `runReducer.test.ts:39` says foreign runs are ignored.
4. **A run is ingested twice** (`ingested_twice`). `ingest_run` looks for its run in
   the first eight turns of the conversation, not the last; in a longer one a
   cancelled run is stored by the canceller and by its worker. `run_memory.py:15`
   says the second ingest is a no-op.
5. **A replaced note is not found** (`replaced_note_not_found`). Reconciliation
   indexes what is there and then removes, by path, the chunks of what is not: also
   those of a note that has taken the place of a vanished one (`vault.py:140`, and
   125 for renamed ones). Its manifest entry is in order, so nothing repairs it
   before its next edit or the next start.
   `docs/architecture/unified-brain-lifecycle.md:52` says note edits refresh the
   chunks.

Met while modelling, and kept in the models as the code has it; a condition or a
history variable of a property accounts for each where one is affected:

* *Loop.* The knowledge-search limit is a local of the loop and starts again with
  each resumption (`agent_loop.py:123`), while the message to the model speaks of
  the run (320). A policy set to allow between a user's denial and the resumption
  lets the denied call through (`permission_service.py:172`).
* *Transport.* A run that fails admission has no `run_state` event: a conversation
  already showing a run ignores it and stays the owner of the page, so nothing more
  can be sent. Errors of a refused start carry no run id; the server says they are
  reported (`webui_server.py:2662`), the client drops them. A stop sent after a
  reconnection and before the subscription has no run to stop.
* *Run memory.* Looking and appending are separate steps, so two threads may both
  find nothing. A run that fails admission is never ingested, though
  `run_memory.py:10` says failed runs keep user facts.
* *Curation.* An approved batch that was interrupted as often as there are
  attempts is parked and progress moves past it
  (`docs/architecture/main-model-memory-direction.md:71` says otherwise); a death in
  the last attempt gives one more; a note that was added and that the user deleted is
  created again on a replay (`apply.py:97`); `finish` does not look at who holds
  the job.
* *Scheduler and queue.* A one-shot "runs once at next check"
  (`tools/scheduler_task.py:28`) and once more after a death between trigger and
  save. An exception of `_save` ends the polling thread. Stopping a background run
  sets its label only (`webui_server.py:354`), the flag that `background.py:54`
  speaks of is never set; COMPLETED overwrites CANCELLED; a task that was cancelled
  and run again has two threads; requeued tasks wait for a user after a restart;
  `cleanup` takes a lock it holds, but has no caller.
* *Conversations.* A title request reads the messages before it asks the model and
  writes them back after, over what was saved meanwhile, until the page saves again
  (`docs/BETA_CHECKLIST.md:45`). A save in the middle of a deletion leaves an index
  entry without a file (against the comment at `webui_server.py:918`), a late one
  brings the conversation back, a late title its file alone, whose attachments no
  sweep takes any more. Saves overtake each other; `dirtyIdRef` remembers one
  conversation; a new name or pin is not saved by itself. The sweep after any
  deletion, that of another attachment included, has no grace and takes uploads
  that are not sent yet (`docs/desktop.md:133` promises a week).
* *Source folders.* `delete_project` reads and writes the index outside
  `_PROJECTS_LOCK` (1846, against the comment at 140): projects created meanwhile are
  lost, deleted ones come back. A folder of a project that was never migrated
  cannot be detached: `create_project` stores `"workspace": None`, on which line 2027
  fails. Overlapping requests for one conversation lose folders, bring detached
  ones back and exceed `MAX_SOURCES`. Inherited folders that cannot be attached are
  listed anyway (910). `get_project_workspace` calls a method that does not exist.
* *Notes.* `record` reads the file again: an edit that arrives between the projection
  or a change of status and its acknowledgement is acknowledged unread, and no
  reconciliation projects it, though `markdown_store.py:266` relies on that. A status
  that was stored before a death does not reach its note, and the row keeps it. A
  text whose note the user has changed meanwhile may be learned as a row without a
  note. Chunks are removed by path for one of two notes that were acknowledged there;
  if the reconciliation is then interrupted and the other note returns as it was, it is
  passed over and not found. A correction whose statement is a note already takes over the identity of
  that note; the next reconciliation retires the old id and removes the chunks of the
  file. Naming a note writes what was parsed over what the user wrote since, or
  brings back a file deleted since. Archiving or demoting revives a superseded row.
  A death between `sync` and `sync_wikilinks` leaves links as they were, and
  `reflect` decides about decay from what it read before it promoted.
* *Configuration.* `set` takes no lock, though `configuration/state.py:37` claims
  thread safety; the file is written in place, so a death in the middle loses all
  settings.

## 7. Not modelled

* *Context builder and compactor.* The compactor is not wired into the application
  (only tests pass one to the loop). As written its `is_goal` keeps the first user
  message only. The builder is a pure function over text.
* *Job manager, lifecycle, recovery, continuation.* Dormant: nothing in the
  application emits the plan events they listen to. Its missing terminal guard and
  the guards of its lifecycle are read, not modelled.
* *MCP.* Connections are made and dropped one after the other under a lock;
  `reconnect` and `refresh` have no caller. Discovery does not remove old tools
  first, as its docstring says (`discovery.py:48`), and a disconnection that times
  out leaves its server marked.
* *Telegram, desktop launcher, CLI.* Starts and stops are serialized by a lock, or
  sequential; what these clients may call and when is the environment of
  RunService.
* *Configuration.* One writer in ordinary use; see section 6 for what it may lose.
* *Event bus.* Synchronous fan-out with isolated handlers.
* *Brain retrieval, search, evidence, timeline, planner, orchestrator,
  models, providers, skills, tools, evaluation.* Ranking, text, classification of
  static data, input and output. Of a provider only what the loop sees is modelled:
  fresh or repeated ids, empty, failing and partial turns.
* Within modelled parts: event payloads, texts, token counts; shadow mode of curation
  (a script's); the fork of a conversation into another project
  (`useNoviChat.ts:714`); permission answers over the socket; the migration of old
  layouts; the search indexes of folders, which a search makes anew; of the notes,
  links between them, episodes and their summaries, the path of the brain without a
  vault, failing input and output, the cache of parsed files and time stamps.
* A tool that is interrupted in the middle by a crash: `Dispatch` is the begin of
  the execution, and a tool's own partial effects are outside the journal.

## 8. Plan

Next theorems: ConversationFiles, when an attachment that is shown can be swept (the grace
of the sweep is nought, so a file in the composer can be; one in a conversation file only
if the scan came before the save), as an action property from `LeftOK`.

Next models, if there is room: the settings object and its file; RunService with the
coordinator's admission in place of the nondeterministic `Admit`/`AdmissionFails`;
AgentLoop as an implementation of RunService's loop steps.
