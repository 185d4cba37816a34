---------------------------- MODULE RunTransport ----------------------------
(***************************************************************************)
(* From the journal to the screen: the worker thread of a run appends an   *)
(* event under the service's lock and notifies outside of it               *)
(* (run_service.py _persist_live, _notify), a RunSocketBridge per          *)
(* connection filters and queues (run_transport.py), the browser's client  *)
(* keeps a cursor over reconnects (webui/src/services/novi.ts), and a      *)
(* reducer projects each conversation and asks for what it missed          *)
(* (webui/src/state/runReducer.ts, useNoviChat.ts).  One page, one socket  *)
(* at a time; the connection breaks and the server dies at any moment.     *)
(***************************************************************************)
EXTENDS RunStore

CONSTANTS Convs,        \* conversations of the page
          Nobody,       \* no conversation
          Resumed,      \* those the user may send to more than once
          MaxEvents,    \* bound: events of a run
          MaxDrops      \* bound: broken connections and server deaths

ASSUME TransportAssumption ==
    /\ Runs \subseteq Nat \ {0} /\ Nobody \notin Convs /\ Resumed \subseteq Convs
    /\ MaxEvents \in Nat \ {0, 1} /\ MaxDrops \in Nat

NoRun == 0              \* run ids count up in the order of the requests
NoGap == -1             \* recoveryAfter: null

VARIABLES
    conv,       \* conv[r]: the conversation of a run
    thread,     \* thread[r]: the thread that executes the run
    notice,     \* notice[r]: <<>>, or <<n>>: event n is journaled and not yet
                \* announced, or <<n, s>>: it goes to the listener of socket s
    socket,     \* the number of the newest connection
    link,       \* whether it stands
    bridge,     \* its RunSocketBridge: [run, worker]
    outbox,     \* what the server sent and the page has not read
    requests,   \* what the page sent and the server has not read
    active, cursor,     \* NoviClient: activeRunId, lastRunSequence
    proj,       \* proj[c]: [run, last, recovery, shown], the projection of c
    owner       \* the conversation that waits for its run: no other may send

serverVars == <<storeVars, conv, thread, notice>>
wireVars   == <<socket, link, bridge, outbox, requests>>
clientVars == <<active, cursor, proj, owner>>
vars       == <<serverVars, wireVars, clientVars>>

NewBridge == [run |-> NoRun, worker |-> NoRun]
NewProjection == [run |-> NoRun, last |-> 0, recovery |-> NoGap, shown |-> <<>>]

Init ==
    /\ StoreInit
    /\ conv = [r \in Runs |-> Nobody]
    /\ thread = [r \in Runs |-> "none"]
    /\ notice = [r \in Runs |-> <<>>]
    /\ socket = 1 /\ link = "up" /\ bridge = NewBridge
    /\ outbox = <<>> /\ requests = <<>>
    /\ active = NoRun /\ cursor = 0
    /\ proj = [c \in Convs |-> NewProjection]
    /\ owner = Nobody

-----------------------------------------------------------------------------
(* The thread of a run. *)

Event(r, n) == [run |-> r, seq |-> n, kind |-> journal[r][n]]

Terminal(kind) == kind \in TerminalEvents

\* The next event: the loop reports its start first, unless admission fails.
NextKinds(r) ==
    IF journal[r] = <<>> THEN {"started", "failed"}
    ELSE {"completed"} \cup (IF Len(journal[r]) < MaxEvents - 1 THEN {"progress"} ELSE {})

\* _persist_live: journal under the lock; the announcement comes later.
PersistLive(r) ==
    /\ thread[r] = "alive" /\ notice[r] = <<>>
    /\ \E kind \in NextKinds(r) :
           StoreAppend(r, kind, IF Terminal(kind) THEN kind ELSE "running", pending[r])
    /\ notice' = [notice EXCEPT ![r] = <<Len(journal[r]) + 1>>]
    /\ UNCHANGED <<conv, thread, wireVars, clientVars>>

\* _notify, first half: the listeners of this moment.
Look(r) ==
    /\ Len(notice[r]) = 1
    /\ notice' = [notice EXCEPT ![r] = Append(@, IF link = "up" THEN socket ELSE 0)]
    /\ UNCHANGED <<storeVars, conv, thread, wireVars, clientVars>>

\* RunSocketBridge._on_event: other runs than the one attached are left out.
Passes(r) == bridge.run \in {NoRun, r}

\* _notify, second half: a listener that was detached meanwhile queues for a
\* socket nobody reads.
Deliver(r) ==
    /\ Len(notice[r]) = 2
    /\ notice' = [notice EXCEPT ![r] = <<>>]
    /\ outbox' = IF link = "up" /\ notice[r][2] = socket /\ Passes(r)
                 THEN Append(outbox, Event(r, notice[r][1])) ELSE outbox
    /\ UNCHANGED <<storeVars, conv, thread, socket, link, bridge, requests, clientVars>>

\* The loop sees that its run has ended (cancelled under it, or its own end).
Retire(r) ==
    /\ thread[r] = "alive" /\ notice[r] = <<>> /\ Finished(r)
    /\ thread' = [thread EXCEPT ![r] = "over"]
    /\ UNCHANGED <<storeVars, conv, notice, wireVars, clientVars>>

-----------------------------------------------------------------------------
(* The server reads a request of the page (webui_server.py ws_chat). *)

\* RunSocketBridge.busy, and RunService.prepare's refusal.
Busy == \/ bridge.worker # NoRun /\ thread[bridge.worker] = "alive"
        \/ \E r \in Runs : Live(r)

\* Runs are numbered in order.
Fresh(r) == ~Created(r) /\ \A q \in Runs : q < r => Created(q)

StartRun(c) == \E r \in Runs :
    /\ Fresh(r) /\ ~Busy
    /\ StoreCreate(r)
    /\ conv' = [conv EXCEPT ![r] = c]
    /\ thread' = [thread EXCEPT ![r] = "alive"]
    /\ bridge' = [run |-> r, worker |-> r]
    /\ UNCHANGED <<notice, outbox>>

\* A start that fails, or comes while a run is under way, is answered by an
\* error that names no run.
RefuseRun ==
    /\ outbox' = Append(outbox, [run |-> NoRun, seq |-> 0, kind |-> "error"])
    /\ UNCHANGED <<serverVars, bridge>>

\* cancel: journaled and announced under the lock, ahead of an event that its
\* thread has journaled and not yet announced.
Stop ==
    IF bridge.run # NoRun /\ Live(bridge.run)
    THEN /\ StoreAppend(bridge.run, "cancelled", "cancelled", pending[bridge.run])
         /\ outbox' = Append(outbox, [run |-> bridge.run, kind |-> "cancelled",
                                      seq |-> Len(journal[bridge.run]) + 1])
         /\ UNCHANGED <<conv, thread, notice, bridge>>
    ELSE UNCHANGED <<serverVars, outbox, bridge>>

\* replay: attach to the run and send what the journal has after the cursor.
Replay(r, after) ==
    /\ bridge' = [bridge EXCEPT !.run = r]
    /\ outbox' = outbox \o [i \in 1 .. Len(journal[r]) - after |-> Event(r, after + i)]
    /\ UNCHANGED serverVars

Handle ==
    /\ link = "up" /\ requests # <<>>
    /\ requests' = Tail(requests)
    /\ LET m == Head(requests) IN
       \/ m.type = "chat" /\ (StartRun(m.conv) \/ RefuseRun)
       \/ m.type = "stop" /\ Stop
       \/ m.type = "run_subscribe" /\ Replay(m.run, m.after)
    /\ UNCHANGED <<socket, link, clientVars>>

-----------------------------------------------------------------------------
(* The page. *)

Subscribe(r, after) == [type |-> "run_subscribe", run |-> r, after |-> after]

\* sendMessage and sendChat: refused while a conversation owns the page; the
\* client forgets its run even if the socket is closed.
SendChat(c) ==
    /\ owner = Nobody
    /\ \E r \in Runs : ~Created(r)
    /\ c \in Resumed \/ \A r \in Runs : conv[r] # c
    /\ active' = NoRun /\ cursor' = 0
    /\ IF link = "up"
       THEN /\ owner' = c
            /\ requests' = Append(requests, [type |-> "chat", conv |-> c])
       ELSE UNCHANGED <<owner, requests>>
    /\ UNCHANGED <<serverVars, socket, link, bridge, outbox, proj>>

\* The stop button; once per request under way, which bounds the queue.
SendStop ==
    /\ owner # Nobody /\ link = "up"
    /\ \A i \in DOMAIN requests : requests[i].type # "stop"
    /\ requests' = Append(requests, [type |-> "stop"])
    /\ UNCHANGED <<serverVars, socket, link, bridge, outbox, clientVars>>

\* MUTANT of MoveCursor: the cursor takes any later number.
MoveCursorLoosely(e) ==
    LET from == IF active = e.run THEN cursor ELSE 0 IN
    /\ active' = e.run
    /\ cursor' = IF e.seq > from THEN e.seq ELSE from

\* NoviClient.onmessage: the cursor follows the run it heard of last.
MoveCursor(e) ==
    LET from == IF active = e.run THEN cursor ELSE 0 IN
    /\ active' = e.run
    /\ cursor' = IF e.seq = from + 1 THEN e.seq ELSE from

\* reduceRunEvent: what an event that is next in line does to a projection.
Applied(p, e) == [run |-> e.run, last |-> e.seq, recovery |-> NoGap,
                  shown |-> Append(p.shown, e.kind)]

\* MUTANT of Reduced: events are counted and their numbers not looked at.
ReducedCounts(p, e) ==
    LET other == p.run # NoRun /\ p.run # e.run
        q == IF other /\ e.kind = "started" /\ e.seq = 1 THEN NewProjection ELSE p
    IN CASE q.run \notin {NoRun, e.run} -> p
         [] q.run \in {NoRun, e.run} /\ e.seq <= q.last -> p
         [] OTHER -> [Applied(q, e) EXCEPT !.last = q.last + 1]

\* reduceRunEvent: another run's first event begins a new projection, foreign
\* and repeated events are ignored, the next one is applied, a gap is noted.
Reduced(p, e) ==
    LET other == p.run # NoRun /\ p.run # e.run
        q == IF other /\ e.kind = "started" /\ e.seq = 1 THEN NewProjection ELSE p
    IN CASE q.run \notin {NoRun, e.run} -> p
         [] q.run \in {NoRun, e.run} /\ e.seq <= q.last -> p
         [] q.run \in {NoRun, e.run} /\ e.seq = q.last + 1 -> Applied(q, e)
         [] OTHER -> [q EXCEPT !.recovery = q.last]

\* handleEvent: project the event, ask for a replay at a new gap, and let the
\* next message be sent once the run has ended.
Project(e) ==
    LET c == conv[e.run] next == Reduced(proj[c], e)
        gap == next.recovery # NoGap
    IN /\ proj' = [proj EXCEPT ![c] = next]
       /\ requests' = IF gap /\ proj[c].recovery # next.recovery
                      THEN Append(requests, Subscribe(e.run, next.recovery)) ELSE requests
       /\ owner' = CASE next = proj[c] \/ gap -> owner
                     [] next # proj[c] /\ ~gap /\ e.kind = "started" -> c
                     [] next # proj[c] /\ ~gap /\ Terminal(e.kind) /\ owner = c -> Nobody
                     [] OTHER -> owner

Receive ==
    /\ link = "up" /\ outbox # <<>>
    /\ outbox' = Tail(outbox)
    /\ LET e == Head(outbox) IN
       IF e.run = NoRun THEN UNCHANGED <<requests, clientVars>>
       ELSE MoveCursor(e) /\ Project(e)
    /\ UNCHANGED <<serverVars, socket, link, bridge>>

-----------------------------------------------------------------------------
(* The connection. *)

Broken == /\ link' = "down" /\ bridge' = NewBridge
          /\ outbox' = <<>> /\ requests' = <<>>
          /\ UNCHANGED <<socket, clientVars>>

\* The socket breaks: what is under way is lost, the bridge is detached.  The
\* number of the socket counts the breaks.
Disconnect ==
    /\ link = "up" /\ socket <= MaxDrops
    /\ Broken
    /\ UNCHANGED serverVars

\* The server dies and starts again: threads are gone, and the runs they left
\* are interrupted in the journal before the first connection.
Crash ==
    /\ link = "up" /\ socket <= MaxDrops
    /\ Broken
    /\ thread' = [r \in Runs |-> IF thread[r] = "alive" THEN "over" ELSE thread[r]]
    /\ notice' = [r \in Runs |-> <<>>]
    /\ IF \E r \in Runs : Live(r) THEN \E r \in Runs : StoreInterrupt(r)
       ELSE UNCHANGED storeVars
    /\ UNCHANGED conv

\* MUTANT of Reconnect: the page forgets to subscribe.
ReconnectSilently ==
    /\ link = "down" /\ \A r \in Runs : notice[r] = <<>>
    /\ link' = "up" /\ socket' = socket + 1
    /\ requests' = <<>>
    /\ UNCHANGED <<serverVars, bridge, outbox, clientVars>>

\* onclose's timer (a second at least: no thread is taken to need that long to
\* announce what it has journaled) and onopen: a known run is subscribed to.
Reconnect ==
    /\ link = "down" /\ \A r \in Runs : notice[r] = <<>>
    /\ link' = "up" /\ socket' = socket + 1
    /\ requests' = IF active = NoRun THEN <<>> ELSE <<Subscribe(active, cursor)>>
    /\ UNCHANGED <<serverVars, bridge, outbox, clientVars>>

-----------------------------------------------------------------------------
ThreadStep(r) == PersistLive(r) \/ Look(r) \/ Deliver(r) \/ Retire(r)

Next ==
    \/ \E r \in Runs : ThreadStep(r)
    \/ Handle \/ Receive \/ Reconnect
    \/ \E c \in Convs : SendChat(c)
    \/ SendStop \/ Disconnect \/ Crash

Spec == Init /\ [][Next]_vars

\* The threads run, the socket is pumped and read, and the page reconnects.
\* Nothing is asked of the user, and the connection may break up to the bound.
FairSpec ==
    /\ Spec
    /\ \A r \in Runs : WF_vars(ThreadStep(r))
    /\ WF_vars(Handle) /\ WF_vars(Receive) /\ WF_vars(Reconnect)

-----------------------------------------------------------------------------
TransportTypeOK ==
    /\ \A r \in Runs : status[r] \in RunStatuses \cup {"none"} /\ pending[r] = NoCallId
    /\ conv \in [Runs -> Convs \cup {Nobody}]
    /\ thread \in [Runs -> {"none", "alive", "over"}]
    /\ \A r \in Runs : Len(notice[r]) <= 2
    /\ socket \in 1 .. MaxDrops + 1 /\ link \in {"up", "down"}
    /\ active \in Runs \cup {NoRun} /\ cursor \in 0 .. MaxEvents
    /\ owner \in Convs \cup {Nobody}
    /\ \A c \in Convs : proj[c].last = Len(proj[c].shown)

\* The cursor a reconnecting page subscribes from is never ahead of what the page
\* shows of that run: what it asks for leaves nothing out.
CursorCovered ==
    \A c \in Convs : active # NoRun /\ proj[c].run = active => cursor <= proj[c].last

\* The page implements the promise of RunFeed.
View == [c \in Convs |-> [run |-> proj[c].run, shown |-> proj[c].shown]]
Feed == INSTANCE RunFeed WITH Kinds <- EventKinds, Ends <- TerminalEvents,
                              log <- journal, view <- View
ImplementsFeed == Feed!Spec

EndShown(r) == \E c \in Convs : /\ proj[c].run = r
                               /\ \E i \in DOMAIN proj[c].shown : Terminal(proj[c].shown[i])

\* Once the page is attached to a run and has heard of it, it comes to show the
\* end of that run, whatever is lost, repeated or out of order on the way, unless
\* a late message of another run takes its attention away.
EndReached ==
    \A r \in Runs : (bridge.run = r /\ active = r) ~> (EndShown(r) \/ active # r)

\* A conversation that shows a run never goes back to an earlier one.
NeverBack == [][\A c \in Convs : proj[c].run <= proj'[c].run]_proj
=============================================================================
