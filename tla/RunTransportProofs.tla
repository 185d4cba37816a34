------------------------- MODULE RunTransportProofs -------------------------
(***************************************************************************)
(* The way of a run from its journal to the screen, for any number of      *)
(* runs, conversations, events and broken connections:                     *)
(*                                                                         *)
(*   - every event under way is one of a journal, under its own number     *)
(*     (WireOK), so a conversation always shows a beginning of the journal *)
(*     of its run (ProjOK);                                                *)
(*   - the cursor of the client is never ahead of what is shown of the     *)
(*     active run, because both are moved by the same events (CursorOK);   *)
(*   - if no conversation is sent to twice, each has one run, and what the *)
(*     page does to it is a step of RunFeed (OwnerOK).                     *)
(***************************************************************************)
EXTENDS RunTransport, SequenceTheorems, TLAPS

EventSet == [run : Runs, seq : Nat \ {0}, kind : EventKinds]
Projections == [run : Runs \cup {NoRun}, last : Nat, recovery : Int, shown : Seq(EventKinds)]

\* e is an event of a journal, under its own number.
Journaled(e) ==
    /\ e \in EventSet
    /\ e.seq <= Len(journal[e.run]) /\ e.kind = journal[e.run][e.seq]

\* A run exists with its conversation, and nothing is journaled after its end.
JournalOK ==
    /\ status \in [Runs -> RunStatuses \cup {"none"}]
    /\ journal \in [Runs -> Seq(EventKinds)]
    /\ conv \in [Runs -> Convs \cup {Nobody}]
    /\ \A r \in Runs : IF Created(r) THEN conv[r] \in Convs
                       ELSE conv[r] = Nobody /\ journal[r] = <<>>
    /\ \A r \in Runs : \A i \in 1 .. Len(journal[r]) :
           Terminal(journal[r][i]) => i = Len(journal[r]) /\ Finished(r)

\* What the server sends, and what the page may ask.
Messages == [run : Runs \cup {NoRun}, seq : Nat, kind : EventKinds \cup {"error"}]
Requests == {[type |-> "stop"]} \cup {[type |-> "chat", conv |-> c] : c \in Convs}
                \cup {Subscribe(r, n) : r \in Runs, n \in Nat}

Sent(e) == e.run # NoRun => Journaled(e)
Asked(m) == m.type = "run_subscribe" => m.after <= Len(journal[m.run])

WireOK ==
    /\ notice \in [Runs -> Seq(Nat)]
    /\ \A r \in Runs : notice[r] # <<>> => notice[r][1] \in 1 .. Len(journal[r])
    /\ bridge \in [run : Runs \cup {NoRun}, worker : Runs \cup {NoRun}] /\ socket \in Nat
    /\ outbox \in Seq(Messages) /\ \A i \in 1 .. Len(outbox) : Sent(outbox[i])
    /\ requests \in Seq(Requests) /\ \A i \in 1 .. Len(requests) : Asked(requests[i])

\* A conversation shows the beginning of the journal of one of its runs.
ProjOK ==
    /\ proj \in [Convs -> Projections]
    /\ \A c \in Convs : LET p == proj[c] IN
        /\ p.run = NoRun => p.last = 0
        /\ p.run # NoRun => conv[p.run] = c /\ p.last <= Len(journal[p.run])
        /\ Len(p.shown) = p.last
        /\ \A i \in 1 .. p.last : p.shown[i] = journal[p.run][i]

\* What moved the cursor was shown as well, unless the conversation shows another
\* run and the active one never began.
CursorOK ==
    /\ active \in Runs \cup {NoRun} /\ cursor \in Nat
    /\ active # NoRun => cursor <= Len(journal[active])
    /\ active # NoRun /\ cursor # 0 =>
           LET p == proj[conv[active]] IN
           \/ p.run = active /\ cursor <= p.last
           \/ p.run \notin {NoRun, active} /\ journal[active][1] # "started"

TransportInv == JournalOK /\ WireOK /\ ProjOK /\ CursorOK

\* The run r has ended and its conversation shows all of it.
Over(r) == proj[conv[r]].run = r /\ proj[conv[r]].last = Len(journal[r]) /\ Finished(r)

\* Where no conversation is sent to twice: the page waits for the one run that is
\* not over, or for the one that it has asked for.
ChatsOK ==
    \A i \in 1 .. Len(requests) : requests[i].type = "chat" =>
        /\ requests[i].conv = owner /\ \A r \in Runs : conv[r] # owner
        /\ \A k \in 1 .. Len(requests) : requests[k].type = "chat" => k = i

RunsOK ==
    /\ \A r \in Runs : Created(r) => owner = conv[r] \/ Over(r)
    /\ \A r, q \in Runs : Created(r) /\ Created(q) /\ conv[r] = conv[q] => r = q

OwnerOK == owner \in Convs \cup {Nobody} /\ ChatsOK /\ RunsOK

(***************************************************************************)
(* The journal                                                             *)
(***************************************************************************)

Appends(r, kind) ==
    /\ Live(r) /\ journal' = [journal EXCEPT ![r] = Append(@, kind)] /\ conv' = conv
    /\ \E s \in RunStatuses : /\ status' = [status EXCEPT ![r] = s]
                              /\ Terminal(kind) => s \in TerminalStatuses

Begins(r, c) ==
    /\ ~ Created(r) /\ status' = [status EXCEPT ![r] = "queued"]
    /\ conv' = [conv EXCEPT ![r] = c] /\ UNCHANGED journal

\* What was in a journal stays where it is, and a finished one stays as it is.
Extended ==
    \A r \in Runs :
        /\ Len(journal[r]) <= Len(journal'[r])
        /\ \A i \in 1 .. Len(journal[r]) : journal'[r][i] = journal[r][i]
        /\ Created(r) => Created(r)' /\ conv'[r] = conv[r]
        /\ Finished(r) => Finished(r)' /\ Len(journal'[r]) = Len(journal[r])

\* A store append is an event and a status that fit together.
LEMMA StoreAppends ==
    ASSUME NEW r \in Runs, NEW kind \in EventKinds, NEW s \in RunStatuses, NEW p,
           StoreAppend(r, kind, s, p), UNCHANGED conv, Terminal(kind) => s = kind
    PROVE  Appends(r, kind)
  BY DEF StoreAppend, Appends, Terminal, TerminalEvents

\* A request is one of three.
LEMMA RequestKinds ==
    ASSUME NEW m \in Requests
    PROVE  \/ m = [type |-> "stop"]
           \/ \E c \in Convs : m = [type |-> "chat", conv |-> c]
           \/ \E r \in Runs, n \in Nat : m = Subscribe(r, n)
  BY DEF Requests

\* Reading a queue: its head and what stays.
LEMMA ReadHead ==
    ASSUME NEW S, NEW q \in Seq(S), q # <<>>
    PROVE  /\ Len(q) \in Nat \ {0} /\ Head(q) = q[1] /\ Head(q) \in S
           /\ Tail(q) \in Seq(S) /\ Len(Tail(q)) = Len(q) - 1
           /\ \A i \in 1 .. Len(Tail(q)) : Tail(q)[i] = q[i + 1]
  BY HeadTailProperties, LenProperties, EmptySeq

\* The head of the requests is one the page may ask.
LEMMA HeadAsked ==
    ASSUME WireOK, requests # <<>>
    PROVE  Head(requests) \in Requests /\ Asked(Head(requests))
<1>1. Head(requests) \in Requests /\ Head(requests) = requests[1] /\ Len(requests) \in Nat \ {0}
  BY ReadHead DEF WireOK
<1> QED
  BY <1>1 DEF WireOK

Quiet == UNCHANGED <<status, journal, conv>>

\* A thread journals its own run.
LEMMA ThreadJournals ==
    ASSUME JournalOK, NEW r \in Runs, ThreadStep(r)
    PROVE  Quiet \/ \E q \in Runs, kind \in EventKinds : Appends(q, kind)
<1>1. CASE PersistLive(r)
  <2>1. PICK kind \in NextKinds(r) :
            StoreAppend(r, kind, IF Terminal(kind) THEN kind ELSE "running", pending[r])
    BY <1>1 DEF PersistLive
  <2>2. kind \in {"started", "failed", "completed", "progress"}
    BY <2>1 DEF NextKinds
  <2>3. kind \in EventKinds /\ (IF Terminal(kind) THEN kind ELSE "running") \in RunStatuses
    BY <2>2 DEF EventKinds, RunStatuses, Terminal, TerminalEvents, TerminalStatuses
  <2>4. UNCHANGED conv
    BY <1>1 DEF PersistLive
  <2> QED
    BY <2>1, <2>3, <2>4, StoreAppends
<1>2. CASE Look(r) \/ Deliver(r) \/ Retire(r)
  BY <1>2 DEF Look, Deliver, Retire, storeVars, Quiet
<1> QED
  BY <1>1, <1>2 DEF ThreadStep

\* What the server does with a request appends the end of a run, or creates one
\* for the conversation that asked for it.
LEMMA HandleJournals ==
    ASSUME JournalOK, WireOK, Handle
    PROVE  \/ Quiet
           \/ \E q \in Runs, kind \in EventKinds : Appends(q, kind)
           \/ \E q \in Runs, c \in Convs :
                  Head(requests) = [type |-> "chat", conv |-> c] /\ Begins(q, c)
<1>1. PICK m \in Requests : m = Head(requests)
  BY HeadAsked DEF Handle
<1>2. CASE m.type = "chat" /\ StartRun(m.conv)
  <2>1. PICK c \in Convs : m = [type |-> "chat", conv |-> c]
    BY <1>2, RequestKinds DEF Subscribe
  <2>2. PICK q \in Runs : ~ Created(q) /\ StoreCreate(q) /\ conv' = [conv EXCEPT ![q] = c]
    BY <1>2, <2>1 DEF StartRun, Fresh
  <2> QED
    BY <1>1, <2>1, <2>2 DEF StoreCreate, Begins
<1>3. CASE m.type = "stop" /\ Stop
  <2>1. CASE bridge.run # NoRun /\ Live(bridge.run)
    <3>1. StoreAppend(bridge.run, "cancelled", "cancelled", pending[bridge.run]) /\ UNCHANGED conv
      BY <1>3, <2>1 DEF Stop
    <3>2. "cancelled" \in EventKinds /\ "cancelled" \in RunStatuses /\ bridge.run \in Runs
      BY <2>1 DEF EventKinds, RunStatuses, TerminalEvents, TerminalStatuses, WireOK
    <3> QED
      BY <3>1, <3>2, StoreAppends
  <2>2. CASE ~ (bridge.run # NoRun /\ Live(bridge.run))
    BY <1>3, <2>2 DEF Stop, serverVars, storeVars, Quiet
  <2> QED
    BY <2>1, <2>2
<1>4. CASE RefuseRun \/ Replay(m.run, m.after)
  BY <1>4 DEF RefuseRun, Replay, serverVars, storeVars, Quiet
<1> QED
  BY <1>1, <1>2, <1>3, <1>4 DEF Handle

\* A death of the server appends the end of a run that was alive.
LEMMA CrashJournals ==
    ASSUME Crash PROVE Quiet \/ \E q \in Runs, kind \in EventKinds : Appends(q, kind)
<1>1. CASE \E r \in Runs : Live(r)
  <2>1. PICK r \in Runs : StoreAppend(r, "interrupted", "interrupted", pending[r])
    BY <1>1 DEF Crash, StoreInterrupt
  <2>2. "interrupted" \in EventKinds /\ "interrupted" \in RunStatuses
    BY DEF EventKinds, RunStatuses, TerminalEvents, TerminalStatuses
  <2>3. UNCHANGED conv
    BY DEF Crash
  <2> QED
    BY <2>1, <2>2, <2>3, StoreAppends
<1>2. CASE ~ \E r \in Runs : Live(r)
  BY <1>2 DEF Crash, storeVars, Quiet
<1> QED
  BY <1>1, <1>2

\* What a step may do to the journals: append one event, begin one run, or nothing.
LEMMA JournalChange ==
    ASSUME JournalOK, WireOK, [Next]_vars
    PROVE  \/ Quiet
           \/ \E q \in Runs, kind \in EventKinds : Appends(q, kind)
           \/ \E q \in Runs, c \in Convs : Begins(q, c)
<1>1. CASE Receive \/ Reconnect \/ SendStop \/ Disconnect \/ UNCHANGED vars
  BY <1>1 DEF Receive, Reconnect, SendStop, Disconnect, vars, serverVars, storeVars, Quiet
<1>2. ASSUME NEW c \in Convs, SendChat(c) PROVE Quiet
  BY <1>2 DEF SendChat, serverVars, storeVars, Quiet
<1> QED
  BY <1>1, <1>2, ThreadJournals, HandleJournals, CrashJournals DEF Next

\* Such a step keeps the invariant of the journals and all they have said.
LEMMA JournalStep ==
    ASSUME JournalOK,
           \/ Quiet
           \/ \E q \in Runs, kind \in EventKinds : Appends(q, kind)
           \/ \E q \in Runs, c \in Convs : Begins(q, c)
    PROVE  JournalOK' /\ Extended
<1>1. CASE Quiet
  BY <1>1 DEF Quiet, JournalOK, Extended, Created, Finished
<1>2. ASSUME NEW q \in Runs, NEW kind \in EventKinds, Appends(q, kind) PROVE JournalOK' /\ Extended
  <2>1. PICK s \in RunStatuses : /\ status' = [status EXCEPT ![q] = s]
                                 /\ Terminal(kind) => s \in TerminalStatuses
    BY <1>2 DEF Appends
  <2>2. /\ journal[q] \in Seq(EventKinds) /\ Len(journal[q]) \in Nat
        /\ Append(journal[q], kind) \in Seq(EventKinds)
        /\ Len(Append(journal[q], kind)) = Len(journal[q]) + 1
        /\ Append(journal[q], kind)[Len(journal[q]) + 1] = kind
        /\ \A i \in 1 .. Len(journal[q]) : Append(journal[q], kind)[i] = journal[q][i]
    BY AppendProperties, LenProperties DEF JournalOK
  <2>3. /\ journal' = [journal EXCEPT ![q] = Append(@, kind)] /\ conv' = conv
        /\ status[q] # "none" /\ status[q] \notin TerminalStatuses
    BY <1>2 DEF Appends, Live, Created, Finished
  <2>4. /\ \A r \in Runs \ {q} : journal'[r] = journal[r] /\ status'[r] = status[r]
        /\ journal'[q] = Append(journal[q], kind) /\ status'[q] = s
        /\ journal' \in [Runs -> Seq(EventKinds)] /\ status' \in [Runs -> RunStatuses \cup {"none"}]
    BY <2>1, <2>2, <2>3 DEF JournalOK
  <2>5. s # "none"
    BY DEF RunStatuses, TerminalStatuses
  <2>6. \A r \in Runs : \A i \in 1 .. Len(journal'[r]) :
            Terminal(journal'[r][i]) => i = Len(journal'[r]) /\ status'[r] \in TerminalStatuses
    <3> SUFFICES ASSUME NEW r \in Runs, NEW i \in 1 .. Len(journal'[r]), Terminal(journal'[r][i])
                 PROVE  i = Len(journal'[r]) /\ status'[r] \in TerminalStatuses
      OBVIOUS
    <3>1. CASE r # q
      BY <3>1, <2>4 DEF JournalOK, Finished
    <3>2. CASE r = q /\ i = Len(journal[q]) + 1
      BY <3>2, <2>1, <2>2, <2>4
    <3>3. CASE r = q /\ i \in 1 .. Len(journal[q])
      BY <3>3, <2>2, <2>3, <2>4 DEF JournalOK, Finished
    <3> QED
      BY <3>1, <3>2, <3>3, <2>2, <2>4
  <2>7. JournalOK'
    BY <2>3, <2>4, <2>5, <2>6 DEF JournalOK, Created, Finished
  <2>8. Extended
    BY <2>2, <2>3, <2>4, <2>5, LenProperties DEF Extended, Created, Finished, JournalOK
  <2> QED
    BY <2>7, <2>8
<1>3. ASSUME NEW q \in Runs, NEW c \in Convs, Begins(q, c) PROVE JournalOK' /\ Extended
  <2>1. /\ status' = [status EXCEPT ![q] = "queued"] /\ status[q] = "none"
        /\ conv' = [conv EXCEPT ![q] = c] /\ journal' = journal /\ journal[q] = <<>>
    BY <1>3 DEF Begins, Created, JournalOK
  <2>2. "queued" \in RunStatuses /\ "none" \notin TerminalStatuses /\ "queued" \notin TerminalStatuses
    BY DEF RunStatuses, TerminalStatuses
  <2>3. JournalOK'
    BY <2>1, <2>2, EmptySeq DEF JournalOK, Created, Finished
  <2>4. Extended
    BY <2>1, <2>2, LenProperties DEF Extended, Created, Finished, JournalOK
  <2> QED
    BY <2>3, <2>4
<1> QED
  BY <1>1, <1>2, <1>3

(***************************************************************************)
(* The projection                                                          *)
(***************************************************************************)

\* An event is old or foreign and changes nothing, is the next one and is shown,
\* begins another run, or leaves a gap that is noted.
Foreign(p, e) == p.run # NoRun /\ p.run # e.run
Passed(p, e) ==
    /\ Foreign(p, e) => ~ (e.kind = "started" /\ e.seq = 1)
    /\ ~ Foreign(p, e) => e.seq <= p.last
Follows(p, e) == ~ Foreign(p, e) /\ e.seq = p.last + 1
Opens(p, e) == Foreign(p, e) /\ e.kind = "started" /\ e.seq = 1
Skips(p, e) == ~ Foreign(p, e) /\ e.seq > p.last + 1

\* The reducer takes one of those four ways.
LEMMA ReducedCases ==
    ASSUME NEW p \in Projections, NEW e \in EventSet
    PROVE  \/ Passed(p, e) /\ Reduced(p, e) = p
           \/ Follows(p, e) /\ Reduced(p, e) = Applied(p, e)
           \/ Opens(p, e) /\ Reduced(p, e) = Applied(NewProjection, e)
           \/ Skips(p, e) /\ Reduced(p, e) = [p EXCEPT !.recovery = p.last]
<1>t. /\ p.run \in Runs \cup {NoRun} /\ p.last \in Nat /\ e.run \in Runs /\ e.seq \in Nat \ {0}
      /\ NewProjection.run = NoRun /\ NewProjection.last = 0 /\ e.run # NoRun
  BY TransportAssumption DEF Projections, EventSet, NewProjection, NoRun
<1>1. CASE Opens(p, e)
  <2>1. Reduced(p, e) = Applied(NewProjection, e)
    BY <1>t, <1>1 DEF Reduced, Opens, Foreign
  <2> QED
    BY <1>1, <2>1
<1>2. CASE Foreign(p, e) /\ ~ Opens(p, e)
  <2>1. Reduced(p, e) = p
    BY <1>t, <1>2 DEF Reduced, Opens, Foreign
  <2> QED
    BY <1>2, <2>1 DEF Passed, Opens
<1>3. CASE ~ Foreign(p, e) /\ e.seq <= p.last
  <2>1. Reduced(p, e) = p
    BY <1>t, <1>3 DEF Reduced, Foreign
  <2> QED
    BY <1>3, <2>1 DEF Passed
<1>4. CASE ~ Foreign(p, e) /\ e.seq = p.last + 1
  <2>1. Reduced(p, e) = Applied(p, e)
    BY <1>t, <1>4 DEF Reduced, Foreign
  <2> QED
    BY <1>4, <2>1 DEF Follows
<1>5. CASE ~ Foreign(p, e) /\ e.seq > p.last + 1
  <2>1. Reduced(p, e) = [p EXCEPT !.recovery = p.last]
    BY <1>t, <1>5 DEF Reduced, Foreign
  <2> QED
    BY <1>5, <2>1 DEF Skips
<1> QED
  BY <1>t, <1>1, <1>2, <1>3, <1>4, <1>5

\* What an event that is shown makes of a projection.
LEMMA AppliedEffect ==
    ASSUME NEW p \in Projections, NEW e \in EventSet
    PROVE  /\ Applied(p, e) \in Projections
           /\ Applied(p, e).run = e.run /\ Applied(p, e).last = e.seq
           /\ Applied(p, e).recovery = NoGap /\ Applied(p, e).shown = Append(p.shown, e.kind)
           /\ Len(Applied(p, e).shown) = Len(p.shown) + 1
           /\ Applied(p, e).shown[Len(p.shown) + 1] = e.kind
           /\ \A i \in 1 .. Len(p.shown) : Applied(p, e).shown[i] = p.shown[i]
<1>1. p.shown \in Seq(EventKinds) /\ e.kind \in EventKinds /\ e.run \in Runs /\ e.seq \in Nat
  BY DEF Projections, EventSet
<1>2. /\ Append(p.shown, e.kind) \in Seq(EventKinds)
      /\ Len(Append(p.shown, e.kind)) = Len(p.shown) + 1
      /\ Append(p.shown, e.kind)[Len(p.shown) + 1] = e.kind
      /\ \A i \in 1 .. Len(p.shown) : Append(p.shown, e.kind)[i] = p.shown[i]
  BY <1>1, AppendProperties
<1> QED
  BY <1>1, <1>2 DEF Applied, Projections, NoGap

\* A projection that shows nothing yet.
LEMMA EmptyProjection == NewProjection \in Projections
  BY EmptySeq DEF NewProjection, Projections, NoGap, NoRun

\* What the page reads, unless it is an error that names no run, is an event of
\* the journal of a run with a conversation.
LEMMA EventIsRead ==
    ASSUME JournalOK, WireOK, Receive, Head(outbox).run # NoRun
    PROVE  \E e \in EventSet : /\ e = Head(outbox) /\ Journaled(e) /\ conv[e.run] \in Convs
                               /\ MoveCursor(e) /\ Project(e)
<1> DEFINE e == Head(outbox)
<1>1. e = outbox[1] /\ Len(outbox) \in Nat \ {0}
  BY ReadHead DEF WireOK, Receive
<1>2. Journaled(e)
  BY <1>1 DEF WireOK, Sent
<1>3. e \in EventSet /\ journal[e.run] # <<>> /\ e.run \in Runs
  BY <1>2, EmptySeq DEF Journaled, EventSet
<1>4. conv[e.run] \in Convs
  BY <1>3 DEF JournalOK
<1>5. MoveCursor(e) /\ Project(e)
  BY DEF Receive
<1> QED
  BY <1>2, <1>3, <1>4, <1>5

(***************************************************************************)
(* The wire                                                                *)
(***************************************************************************)

SentAfter(e) ==
    e.run # NoRun => /\ e \in EventSet /\ e.seq <= Len(journal'[e.run])
                     /\ e.kind = journal'[e.run][e.seq]
AskedAfter(m) == m.type = "run_subscribe" => m.after <= Len(journal'[m.run])

OutboxAfter == outbox' \in Seq(Messages) /\ \A i \in 1 .. Len(outbox') : SentAfter(outbox'[i])
RequestsAfter ==
    requests' \in Seq(Requests) /\ \A i \in 1 .. Len(requests') : AskedAfter(requests'[i])

\* What was sent or asked stays right while the journals grow.
LEMMA SentStays ==
    ASSUME JournalOK, JournalOK', Extended
    PROVE  /\ \A e \in Messages : Sent(e) => SentAfter(e)
           /\ \A m \in Requests : Asked(m) => AskedAfter(m)
<1>l. \A r \in Runs : Len(journal[r]) \in Nat /\ Len(journal'[r]) \in Nat
  BY LenProperties DEF JournalOK
<1>1. ASSUME NEW e \in Messages, Sent(e), e.run # NoRun PROVE SentAfter(e)
  <2>1. /\ e \in EventSet /\ e.run \in Runs /\ e.seq \in 1 .. Len(journal[e.run])
        /\ e.kind = journal[e.run][e.seq]
    BY <1>1, <1>l DEF Sent, Journaled, EventSet
  <2> QED
    BY <2>1, <1>l DEF SentAfter, Extended
<1>2. ASSUME NEW m \in Requests, Asked(m), m.type = "run_subscribe" PROVE AskedAfter(m)
  <2>1. PICK r \in Runs, n \in Nat : m = Subscribe(r, n)
    BY <1>2, RequestKinds
  <2>2. m.run = r /\ m.after = n /\ n <= Len(journal[r])
    BY <2>1, <1>2 DEF Subscribe, Asked
  <2> QED
    BY <2>2, <1>l DEF AskedAfter, Extended
<1> QED
  BY <1>1, <1>2 DEF SentAfter, AskedAfter

\* A queue that is emptied, kept, read or appended to stays right.
LEMMA OutboxStays ==
    ASSUME JournalOK, JournalOK', Extended, WireOK,
           \/ outbox' = <<>> \/ outbox' = outbox
           \/ outbox # <<>> /\ outbox' = Tail(outbox)
           \/ \E e \in Messages : outbox' = Append(outbox, e) /\ SentAfter(e)
    PROVE  OutboxAfter
<1> USE DEF OutboxAfter, WireOK
<1>0. \A i \in 1 .. Len(outbox) : outbox[i] \in Messages /\ SentAfter(outbox[i])
  BY SentStays, ElementOfSeq
<1>1. CASE outbox' = <<>>
  BY <1>1, EmptySeq
<1>2. CASE outbox' = outbox
  BY <1>0, <1>2
<1>3. CASE outbox # <<>> /\ outbox' = Tail(outbox)
  <2>1. /\ Len(outbox) \in Nat \ {0} /\ Tail(outbox) \in Seq(Messages)
        /\ Len(Tail(outbox)) = Len(outbox) - 1
        /\ \A i \in 1 .. Len(Tail(outbox)) : Tail(outbox)[i] = outbox[i + 1]
    BY <1>3, ReadHead
  <2>2. \A i \in 1 .. Len(Tail(outbox)) : i + 1 \in 1 .. Len(outbox)
    BY <2>1
  <2> QED
    BY <1>0, <1>3, <2>1, <2>2
<1>4. ASSUME NEW e \in Messages, outbox' = Append(outbox, e), SentAfter(e) PROVE OutboxAfter
  <2>1. /\ Append(outbox, e) \in Seq(Messages) /\ Len(Append(outbox, e)) = Len(outbox) + 1
        /\ Append(outbox, e)[Len(outbox) + 1] = e /\ Len(outbox) \in Nat
        /\ \A i \in 1 .. Len(outbox) : Append(outbox, e)[i] = outbox[i]
    BY AppendProperties, LenProperties
  <2>2. \A i \in 1 .. Len(outbox) + 1 : i = Len(outbox) + 1 \/ i \in 1 .. Len(outbox)
    BY <2>1
  <2> QED
    BY <1>0, <1>4, <2>1, <2>2
<1> QED
  BY <1>1, <1>2, <1>3, <1>4

\* The same of the requests.
LEMMA RequestsStay ==
    ASSUME JournalOK, JournalOK', Extended, WireOK,
           \/ requests' = <<>> \/ requests' = requests
           \/ requests # <<>> /\ requests' = Tail(requests)
           \/ \E m \in Requests : requests' = Append(requests, m) /\ AskedAfter(m)
    PROVE  RequestsAfter
<1> USE DEF RequestsAfter, WireOK
<1>0. \A i \in 1 .. Len(requests) : requests[i] \in Requests /\ AskedAfter(requests[i])
  BY SentStays, ElementOfSeq
<1>1. CASE requests' = <<>>
  BY <1>1, EmptySeq
<1>2. CASE requests' = requests
  BY <1>0, <1>2
<1>3. CASE requests # <<>> /\ requests' = Tail(requests)
  <2>1. /\ Len(requests) \in Nat \ {0} /\ Tail(requests) \in Seq(Requests)
        /\ Len(Tail(requests)) = Len(requests) - 1
        /\ \A i \in 1 .. Len(Tail(requests)) : Tail(requests)[i] = requests[i + 1]
    BY <1>3, ReadHead
  <2>2. \A i \in 1 .. Len(Tail(requests)) : i + 1 \in 1 .. Len(requests)
    BY <2>1
  <2> QED
    BY <1>0, <1>3, <2>1, <2>2
<1>4. ASSUME NEW m \in Requests, requests' = Append(requests, m), AskedAfter(m) PROVE RequestsAfter
  <2>1. /\ Append(requests, m) \in Seq(Requests) /\ Len(Append(requests, m)) = Len(requests) + 1
        /\ Append(requests, m)[Len(requests) + 1] = m /\ Len(requests) \in Nat
        /\ \A i \in 1 .. Len(requests) : Append(requests, m)[i] = requests[i]
    BY AppendProperties, LenProperties
  <2>2. \A i \in 1 .. Len(requests) + 1 : i = Len(requests) + 1 \/ i \in 1 .. Len(requests)
    BY <2>1
  <2> QED
    BY <1>0, <1>4, <2>1, <2>2
<1> QED
  BY <1>1, <1>2, <1>3, <1>4

\* The event of a journal is a message.
LEMMA EventIsMessage ==
    ASSUME JournalOK, NEW r \in Runs, NEW n \in 1 .. Len(journal[r])
    PROVE  Event(r, n) \in Messages /\ Journaled(Event(r, n))
<1>1. journal[r][n] \in EventKinds /\ n \in Nat \ {0} /\ n <= Len(journal[r])
  BY ElementOfSeq, LenProperties DEF JournalOK
<1>2. Event(r, n) = [run |-> r, seq |-> n, kind |-> journal[r][n]]
  BY DEF Event
<1>3. Event(r, n) \in Messages /\ Event(r, n) \in EventSet
  BY <1>1, <1>2 DEF Messages, EventSet
<1> QED
  BY <1>1, <1>2, <1>3 DEF Journaled

\* A replay sends what the journal has after the cursor.
LEMMA ReplayIsSent ==
    ASSUME JournalOK, JournalOK', Extended, WireOK, NEW r \in Runs, NEW n \in Nat,
           n <= Len(journal[r]), Replay(r, n)
    PROVE  OutboxAfter
<1>1. PICK k \in Nat : k = Len(journal[r]) - n
  <2>1. Len(journal[r]) \in Nat
    BY LenProperties DEF JournalOK
  <2>2. Len(journal[r]) - n \in Nat
    BY <2>1
  <2> QED
    BY <2>2
<1> DEFINE f == [i \in 1 .. k |-> Event(r, n + i)]
<1>2. outbox' = outbox \o f
  BY <1>1 DEF Replay
<1>3. \A i \in 1 .. k : Event(r, n + i) \in Messages /\ SentAfter(Event(r, n + i))
  <2> SUFFICES ASSUME NEW i \in 1 .. k
               PROVE  Event(r, n + i) \in Messages /\ SentAfter(Event(r, n + i))
    OBVIOUS
  <2>1. PICK j \in 1 .. Len(journal[r]) : j = n + i
    BY <1>1, LenProperties DEF JournalOK
  <2>2. PICK e \in Messages : e = Event(r, j) /\ Sent(e)
    BY EventIsMessage DEF Sent
  <2> QED
    BY <2>1, <2>2, SentStays
<1>4. f \in Seq(Messages) /\ Len(f) = k /\ \A i \in 1 .. k : f[i] = Event(r, n + i)
  <2>1. f \in [1 .. k -> Messages]
    BY <1>3
  <2>2. f \in Seq(Messages)
    BY <2>1, SeqDef
  <2>3. DOMAIN f = 1 .. k /\ DOMAIN f = 1 .. Len(f) /\ Len(f) \in Nat
    BY <2>1, <2>2, LenProperties
  <2>4. Len(f) = k
    BY <2>3
  <2> QED
    BY <2>2, <2>4
<1> HIDE DEF f
<1>5. /\ outbox \o f \in Seq(Messages) /\ Len(outbox \o f) = Len(outbox) + k /\ Len(outbox) \in Nat
      /\ \A i \in 1 .. Len(outbox) + k :
             (outbox \o f)[i] = IF i <= Len(outbox) THEN outbox[i] ELSE f[i - Len(outbox)]
  <2>1. outbox \in Seq(Messages)
    BY DEF WireOK
  <2>2. Len(outbox) \in Nat
    BY <2>1, LenProperties
  <2>3. /\ outbox \o f \in Seq(Messages) /\ Len(outbox \o f) = Len(outbox) + Len(f)
        /\ \A i \in 1 .. Len(outbox) + Len(f) :
               (outbox \o f)[i] = IF i <= Len(outbox) THEN outbox[i] ELSE f[i - Len(outbox)]
    BY ONLY <1>4, <2>1, ConcatProperties
  <2> QED
    BY <1>4, <2>2, <2>3
<1>6. \A i \in 1 .. Len(outbox) : SentAfter(outbox[i])
  BY SentStays, ElementOfSeq DEF WireOK
<1>7. \A i \in 1 .. Len(outbox) + k : SentAfter((outbox \o f)[i])
  <2> SUFFICES ASSUME NEW i \in 1 .. Len(outbox) + k PROVE SentAfter((outbox \o f)[i])
    OBVIOUS
  <2>1. CASE i <= Len(outbox)
    BY <2>1, <1>5, <1>6
  <2>2. CASE i > Len(outbox)
    <3>0. i - Len(outbox) \in 1 .. k
      BY <2>2, <1>5
    <3>1. PICK j \in 1 .. k : j = i - Len(outbox)
      BY <3>0
    <3>2. (outbox \o f)[i] = f[i - Len(outbox)]
      BY <2>2, <1>5
    <3>3. (outbox \o f)[i] = Event(r, n + j)
      BY <3>1, <3>2, <1>4
    <3> QED
      BY <3>3, <1>3
  <2> QED
    BY <2>1, <2>2, <1>5
<1> QED
  BY <1>2, <1>5, <1>7 DEF OutboxAfter

NoticesAfter ==
    /\ notice' \in [Runs -> Seq(Nat)]
    /\ \A r \in Runs : notice'[r] # <<>> => notice'[r][1] \in 1 .. Len(journal'[r])

\* Notices name events that are in the journal.
LEMMA NoticesStay ==
    ASSUME JournalOK, JournalOK', Extended, WireOK,
           \/ notice' = notice
           \/ \E r \in Runs : \/ notice' = [notice EXCEPT ![r] = <<>>]
                              \/ Len(notice[r]) = 1 /\ \E x \in Nat : notice' = [notice EXCEPT ![r] = Append(@, x)]
                              \/ /\ notice' = [notice EXCEPT ![r] = <<Len(journal[r]) + 1>>]
                                 /\ Len(journal'[r]) = Len(journal[r]) + 1
           \/ notice' = [r \in Runs |-> <<>>]
    PROVE  NoticesAfter
<1> USE DEF NoticesAfter, WireOK
<1>0. /\ \A r \in Runs : Len(journal[r]) \in Nat /\ Len(journal'[r]) \in Nat
      /\ \A r \in Runs : notice[r] # <<>> => notice[r][1] \in 1 .. Len(journal'[r])
  BY LenProperties DEF JournalOK, Extended
<1>e. <<>> \in Seq(Nat)
  BY EmptySeq
<1>1. CASE notice' = notice \/ notice' = [r \in Runs |-> <<>>]
  BY <1>1, <1>0, <1>e
<1>2. ASSUME NEW r \in Runs, notice' = [notice EXCEPT ![r] = <<>>] PROVE NoticesAfter
  BY <1>2, <1>0, <1>e
<1>3. ASSUME NEW r \in Runs, Len(notice[r]) = 1, NEW x \in Nat,
             notice' = [notice EXCEPT ![r] = Append(@, x)]
      PROVE  NoticesAfter
  <2>1. /\ Append(notice[r], x) \in Seq(Nat) /\ Append(notice[r], x)[1] = notice[r][1]
        /\ notice[r] # <<>>
    BY <1>3, AppendProperties, LenProperties, EmptySeq
  <2> QED
    BY <1>0, <1>3, <2>1
<1>4. ASSUME NEW r \in Runs, notice' = [notice EXCEPT ![r] = <<Len(journal[r]) + 1>>],
             Len(journal'[r]) = Len(journal[r]) + 1
      PROVE  NoticesAfter
  <2>0. Len(journal[r]) + 1 \in Nat
    BY <1>0
  <2>1. PICK n \in Nat : n = Len(journal[r]) + 1
    BY <2>0
  <2>2. <<n>> \in Seq(Nat) /\ <<n>>[1] = n /\ n \in 1 .. Len(journal'[r])
    BY <2>1, <1>0, <1>4
  <2> QED
    BY <1>0, <1>4, <2>1, <2>2
<1> QED
  BY <1>1, <1>2, <1>3, <1>4

\* A thread keeps the wire.
LEMMA ThreadWire ==
    ASSUME JournalOK, JournalOK', Extended, WireOK, NEW r \in Runs, ThreadStep(r)
    PROVE  WireOK'
<1>w. ASSUME NoticesAfter, OutboxAfter, RequestsAfter, UNCHANGED <<bridge, socket>> PROVE WireOK'
  <2>1. bridge' = bridge /\ socket' = socket
    BY <1>w
  <2> QED
    BY <1>w, <2>1 DEF WireOK, NoticesAfter, OutboxAfter, RequestsAfter, Sent, SentAfter, Journaled,
                      Asked, AskedAfter
<1>1. CASE PersistLive(r)
  <2>1. /\ journal' = [journal EXCEPT ![r] = Append(@, journal'[r][Len(journal[r]) + 1])]
        /\ notice' = [notice EXCEPT ![r] = <<Len(journal[r]) + 1>>]
        /\ UNCHANGED <<bridge, socket, outbox, requests>>
    <3>1. PICK kind \in NextKinds(r) : journal' = [journal EXCEPT ![r] = Append(@, kind)]
      BY <1>1 DEF PersistLive, StoreAppend
    <3>2. kind \in EventKinds
      BY <3>1 DEF NextKinds, EventKinds, TerminalEvents, TerminalStatuses
    <3>3. journal'[r] = Append(journal[r], kind) /\ journal'[r][Len(journal[r]) + 1] = kind
      BY <3>1, <3>2, AppendProperties DEF JournalOK
    <3> QED
      BY <1>1, <3>1, <3>3 DEF PersistLive, wireVars
  <2>2. Len(journal'[r]) = Len(journal[r]) + 1
    <3>1. PICK kind \in NextKinds(r) : journal' = [journal EXCEPT ![r] = Append(@, kind)]
      BY <1>1 DEF PersistLive, StoreAppend
    <3>2. kind \in EventKinds
      BY <3>1 DEF NextKinds, EventKinds, TerminalEvents, TerminalStatuses
    <3> QED
      BY <3>1, <3>2, AppendProperties DEF JournalOK
  <2>a. NoticesAfter
    BY <2>1, <2>2, NoticesStay
  <2>b. OutboxAfter
    BY <2>1, <2>2, OutboxStays
  <2>c. RequestsAfter
    BY <2>1, <2>2, RequestsStay
  <2> QED
    BY <2>1, <2>a, <2>b, <2>c, <1>w
<1>2. CASE Look(r)
  <2>1. /\ Len(notice[r]) = 1 /\ UNCHANGED <<bridge, socket, outbox, requests>>
        /\ notice' = [notice EXCEPT ![r] = Append(@, IF link = "up" THEN socket ELSE 0)]
    BY <1>2 DEF Look, wireVars
  <2>2. (IF link = "up" THEN socket ELSE 0) \in Nat
    BY DEF WireOK
  <2>a. NoticesAfter
    BY <2>1, <2>2, NoticesStay
  <2>b. OutboxAfter
    BY <2>1, <2>2, OutboxStays
  <2>c. RequestsAfter
    BY <2>1, <2>2, RequestsStay
  <2> QED
    BY <2>1, <2>a, <2>b, <2>c, <1>w
<1>3. CASE Deliver(r)
  <2>1. /\ notice' = [notice EXCEPT ![r] = <<>>] /\ UNCHANGED <<bridge, socket, requests, journal>>
        /\ outbox' = outbox \/ outbox' = Append(outbox, Event(r, notice[r][1]))
    BY <1>3 DEF Deliver, storeVars
  <2>2. notice[r] # <<>>
    BY <1>3, EmptySeq DEF Deliver
  <2>3. PICK n \in 1 .. Len(journal[r]) : n = notice[r][1]
    BY <2>2 DEF WireOK
  <2>4. PICK e \in Messages : e = Event(r, n) /\ Sent(e)
    BY EventIsMessage DEF Sent
  <2>5. SentAfter(e)
    BY <2>4, SentStays
  <2>a. NoticesAfter
    BY <2>1, <2>3, <2>4, <2>5, NoticesStay
  <2>b. OutboxAfter
    BY <2>1, <2>3, <2>4, <2>5, OutboxStays
  <2>c. RequestsAfter
    BY <2>1, <2>3, <2>4, <2>5, RequestsStay
  <2> QED
    BY <2>1, <2>a, <2>b, <2>c, <1>w
<1>4. CASE Retire(r)
  <2>1. UNCHANGED <<bridge, socket, outbox, requests, notice>>
    BY <1>4 DEF Retire, wireVars
  <2>a. NoticesAfter
    BY <2>1, NoticesStay
  <2>b. OutboxAfter
    BY <2>1, OutboxStays
  <2>c. RequestsAfter
    BY <2>1, RequestsStay
  <2> QED
    BY <2>1, <2>a, <2>b, <2>c, <1>w
<1> QED
  BY <1>1, <1>2, <1>3, <1>4 DEF ThreadStep

\* So does the server when it answers a request.
LEMMA HandleWire ==
    ASSUME JournalOK, JournalOK', Extended, WireOK, Handle
    PROVE  WireOK'
<1>w. ASSUME OutboxAfter, bridge' \in [run : Runs \cup {NoRun}, worker : Runs \cup {NoRun}] PROVE WireOK'
  <2>1. requests # <<>> /\ requests' = Tail(requests) /\ UNCHANGED <<notice, socket>>
    BY DEF Handle, StartRun, RefuseRun, Stop, Replay, serverVars
  <2>2. NoticesAfter /\ RequestsAfter
    BY <2>1, NoticesStay, RequestsStay
  <2> QED
    BY <1>w, <2>1, <2>2 DEF WireOK, NoticesAfter, OutboxAfter, RequestsAfter, Sent, SentAfter,
                            Journaled, Asked, AskedAfter
<1>1. PICK m \in Requests : m = Head(requests) /\ Asked(m)
  BY HeadAsked DEF Handle
<1>2. CASE m.type = "chat" /\ StartRun(m.conv)
  <2>1. PICK q \in Runs : bridge' = [run |-> q, worker |-> q] /\ UNCHANGED outbox
    BY <1>2 DEF StartRun
  <2>2. OutboxAfter
    BY <2>1, OutboxStays
  <2>3. bridge' \in [run : Runs \cup {NoRun}, worker : Runs \cup {NoRun}]
    BY <2>1
  <2> QED
    BY <2>2, <2>3, <1>w
<1>3. CASE RefuseRun
  <2> DEFINE e == [run |-> NoRun, seq |-> 0, kind |-> "error"]
  <2>1. outbox' = Append(outbox, e) /\ UNCHANGED bridge /\ e \in Messages /\ e.run = NoRun
    BY <1>3 DEF RefuseRun, Messages
  <2>2. SentAfter(e)
    BY <2>1 DEF SentAfter
  <2> HIDE DEF e
  <2>3. bridge' \in [run : Runs \cup {NoRun}, worker : Runs \cup {NoRun}]
    BY <2>1 DEF WireOK
  <2> QED
    BY <2>1, <2>2, <2>3, <1>w, OutboxStays
<1>4. CASE m.type = "stop" /\ Stop
  <2>b. bridge' = bridge /\ bridge' \in [run : Runs \cup {NoRun}, worker : Runs \cup {NoRun}]
    BY <1>4 DEF Stop, WireOK
  <2>1. CASE bridge.run # NoRun /\ Live(bridge.run)
    <3>1. PICK r \in Runs : r = bridge.run
      BY <2>1 DEF WireOK
    <3>2. PICK n \in Nat : n = Len(journal[r])
      BY LenProperties DEF JournalOK
    <3> DEFINE e == [run |-> r, kind |-> "cancelled", seq |-> n + 1]
    <3>3. /\ outbox' = Append(outbox, e)
          /\ journal' = [journal EXCEPT ![r] = Append(@, "cancelled")]
      BY <1>4, <2>1, <3>1, <3>2 DEF Stop, StoreAppend
    <3>4. "cancelled" \in EventKinds
      BY DEF EventKinds, TerminalEvents, TerminalStatuses
    <3>5. Len(journal'[r]) = n + 1 /\ journal'[r][n + 1] = "cancelled"
      BY <3>2, <3>3, <3>4, AppendProperties DEF JournalOK
    <3>6. e \in Messages /\ SentAfter(e)
      BY <3>2, <3>4, <3>5 DEF Messages, SentAfter, EventSet
    <3> HIDE DEF e
    <3> QED
      BY <3>3, <3>6, <2>b, <1>w, OutboxStays
  <2>2. CASE ~ (bridge.run # NoRun /\ Live(bridge.run))
    <3>1. outbox' = outbox
      BY <1>4, <2>2 DEF Stop
    <3>2. OutboxAfter
      BY <3>1, OutboxStays
    <3> QED
      BY <3>2, <2>b, <1>w
  <2> QED
    BY <2>1, <2>2
<1>5. CASE m.type = "run_subscribe" /\ Replay(m.run, m.after)
  <2>1. PICK r \in Runs, n \in Nat : m.run = r /\ m.after = n
    BY <1>5, RequestKinds DEF Subscribe
  <2>2. n <= Len(journal[r]) /\ Replay(r, n)
    BY <1>1, <1>5, <2>1 DEF Asked
  <2>3. bridge' \in [run : Runs \cup {NoRun}, worker : Runs \cup {NoRun}]
    BY <2>2 DEF Replay, WireOK
  <2> QED
    BY <2>2, <2>3, <1>w, ReplayIsSent
<1> QED
  BY <1>1, <1>2, <1>3, <1>4, <1>5 DEF Handle

(***************************************************************************)
(* The page                                                                *)
(***************************************************************************)

\* An event that is shown gives the page to its conversation, or takes it back.
OwnerMoves(e, c) ==
    owner' = IF e.kind = "started" THEN c
             ELSE IF Terminal(e.kind) /\ owner = c THEN Nobody ELSE owner

Ignores(e, c) == Passed(proj[c], e) /\ UNCHANGED <<proj, requests, owner>>
Shows(e, c) ==
    /\ \/ Follows(proj[c], e) /\ proj' = [proj EXCEPT ![c] = Applied(proj[c], e)]
       \/ Opens(proj[c], e) /\ proj' = [proj EXCEPT ![c] = Applied(NewProjection, e)]
    /\ requests' = requests /\ OwnerMoves(e, c)
Misses(e, c) ==
    /\ Skips(proj[c], e) /\ proj' = [proj EXCEPT ![c] = [proj[c] EXCEPT !.recovery = proj[c].last]]
    /\ requests' \in {requests, Append(requests, Subscribe(e.run, proj[c].last))} /\ owner' = owner

\* What reading an event does to the page.
LEMMA ReceiveEffect ==
    ASSUME JournalOK, WireOK, ProjOK, Receive, Head(outbox).run # NoRun
    PROVE  \E e \in EventSet, c \in Convs :
               /\ conv[e.run] = c /\ Journaled(e) /\ MoveCursor(e)
               /\ Ignores(e, c) \/ Shows(e, c) \/ Misses(e, c)
<1>1. PICK e \in EventSet : Journaled(e) /\ conv[e.run] \in Convs /\ MoveCursor(e) /\ Project(e)
  BY EventIsRead
<1>2. PICK c \in Convs : c = conv[e.run]
  BY <1>1
<1>3. PICK p \in Projections : p = proj[c]
  BY DEF ProjOK
<1>4. PICK next : next = Reduced(p, e)
  OBVIOUS
<1>5. /\ proj' = [proj EXCEPT ![c] = next]
      /\ requests' = IF next.recovery # NoGap /\ p.recovery # next.recovery
                     THEN Append(requests, Subscribe(e.run, next.recovery)) ELSE requests
      /\ owner' = CASE next = p \/ next.recovery # NoGap -> owner
                    [] next # p /\ ~(next.recovery # NoGap) /\ e.kind = "started" -> c
                    [] next # p /\ ~(next.recovery # NoGap) /\ Terminal(e.kind) /\ owner = c -> Nobody
                    [] OTHER -> owner
  BY <1>1, <1>2, <1>3, <1>4 DEF Project
<1>6. CASE Passed(p, e) /\ next = p
  BY <1>1, <1>2, <1>3, <1>5, <1>6 DEF Ignores, ProjOK
<1>7. ASSUME next.recovery = NoGap, next # p PROVE requests' = requests /\ OwnerMoves(e, c)
  <2>1. requests' = requests
    BY <1>5, <1>7
  <2>2. CASE e.kind = "started"
    BY <1>5, <1>7, <2>2 DEF OwnerMoves, Terminal, TerminalEvents, TerminalStatuses
  <2>3. CASE e.kind # "started" /\ Terminal(e.kind) /\ owner = c
    BY <1>5, <1>7, <2>3 DEF OwnerMoves
  <2>4. CASE e.kind # "started" /\ ~ (Terminal(e.kind) /\ owner = c)
    BY <1>5, <1>7, <2>4 DEF OwnerMoves
  <2> QED
    BY <2>1, <2>2, <2>3, <2>4
<1>8. CASE Follows(p, e) /\ next = Applied(p, e)
  <2>1. next.recovery = NoGap /\ next.last = e.seq /\ e.seq # p.last
    BY <1>8, AppliedEffect DEF Follows, Projections
  <2> QED
    BY <1>1, <1>2, <1>3, <1>5, <1>7, <1>8, <2>1 DEF Shows
<1>9. CASE Opens(p, e) /\ next = Applied(NewProjection, e)
  <2>1. next.recovery = NoGap /\ next.run = e.run /\ e.run # p.run
    BY <1>9, AppliedEffect, EmptyProjection DEF Opens, Foreign
  <2> QED
    BY <1>1, <1>2, <1>3, <1>5, <1>7, <1>9, <2>1 DEF Shows
<1>10. CASE Skips(p, e) /\ next = [p EXCEPT !.recovery = p.last]
  <2>1. next.recovery = p.last /\ next.recovery # NoGap
    BY <1>10 DEF Projections, NoGap
  <2>2. owner' = owner /\ requests' \in {requests, Append(requests, Subscribe(e.run, p.last))}
    BY <1>5, <2>1
  <2> QED
    BY <1>1, <1>2, <1>3, <1>5, <1>10, <2>2 DEF Misses
<1> QED
  BY <1>4, <1>6, <1>8, <1>9, <1>10, ReducedCases

\* What the page asks for a gap, or when it reconnects, starts within the journal.
LEMMA SubscribeIsAsked ==
    ASSUME JournalOK, JournalOK', Extended, NEW r \in Runs, NEW n \in Nat, n <= Len(journal[r])
    PROVE  Subscribe(r, n) \in Requests /\ AskedAfter(Subscribe(r, n))
<1>1. PICK m \in Requests : m = Subscribe(r, n)
  BY DEF Requests
<1>2. Asked(m)
  BY <1>1 DEF Asked, Subscribe
<1> QED
  BY <1>1, <1>2, SentStays

\* The page and the connection keep the wire.
LEMMA PageWire ==
    ASSUME JournalOK, JournalOK', Extended, WireOK, ProjOK, CursorOK,
           \/ Receive \/ Reconnect \/ SendStop \/ Disconnect \/ Crash
           \/ \E c \in Convs : SendChat(c)
    PROVE  WireOK'
<1>w. ASSUME NoticesAfter, OutboxAfter, RequestsAfter, socket' \in Nat,
             bridge' \in [run : Runs \cup {NoRun}, worker : Runs \cup {NoRun}]
      PROVE  WireOK'
  BY <1>w DEF WireOK, NoticesAfter, OutboxAfter, RequestsAfter, Sent, SentAfter, Journaled,
              Asked, AskedAfter
<1>b. NewBridge \in [run : Runs \cup {NoRun}, worker : Runs \cup {NoRun}]
  BY DEF NewBridge
<1>o. /\ notice' = notice => NoticesAfter
      /\ outbox' = outbox => OutboxAfter
      /\ requests' = requests => RequestsAfter
      /\ socket' = socket => socket' \in Nat
      /\ bridge' \in {bridge, NewBridge} =>
             bridge' \in [run : Runs \cup {NoRun}, worker : Runs \cup {NoRun}]
  <2>1. notice' = notice => NoticesAfter
    BY NoticesStay
  <2>2. outbox' = outbox => OutboxAfter
    BY OutboxStays
  <2>3. requests' = requests => RequestsAfter
    BY RequestsStay
  <2> QED
    BY <1>b, <2>1, <2>2, <2>3 DEF WireOK
<1>1. CASE Receive
  <2>1. /\ UNCHANGED <<notice, socket, bridge>> /\ outbox # <<>> /\ outbox' = Tail(outbox)
    BY <1>1 DEF Receive, serverVars
  <2>2. OutboxAfter
    BY <2>1, OutboxStays
  <2>3. RequestsAfter
    <3>1. CASE requests' = requests
      BY <3>1, <1>o
    <3>2. CASE requests' # requests
      <4>1. Head(outbox).run # NoRun
        BY <1>1, <3>2 DEF Receive
      <4>2. PICK e \in EventSet, c \in Convs :
                conv[e.run] = c /\ Journaled(e) /\ (Ignores(e, c) \/ Shows(e, c) \/ Misses(e, c))
        BY <1>1, <4>1, ReceiveEffect
      <4>3. /\ requests' = Append(requests, Subscribe(e.run, proj[c].last))
            /\ Skips(proj[c], e)
        BY <4>2, <3>2 DEF Ignores, Shows, Misses
      <4>4. e.run \in Runs /\ proj[c].last \in Nat /\ proj[c].last <= Len(journal[e.run])
        BY <4>3, LenProperties DEF Skips, Foreign, ProjOK, Projections, EventSet, JournalOK
      <4>5. PICK m \in Requests : m = Subscribe(e.run, proj[c].last) /\ AskedAfter(m)
        BY <4>4, SubscribeIsAsked
      <4> QED
        BY <4>3, <4>5, RequestsStay
    <3> QED
      BY <3>1, <3>2
  <2> QED
    BY <2>1, <2>2, <2>3, <1>o, <1>w
<1>2. CASE Reconnect
  <2>1. /\ UNCHANGED <<notice, bridge, outbox>> /\ socket' = socket + 1
        /\ requests' = IF active = NoRun THEN <<>> ELSE <<Subscribe(active, cursor)>>
    BY <1>2 DEF Reconnect, serverVars
  <2>2. RequestsAfter
    <3>1. CASE active = NoRun
      BY <2>1, <3>1, RequestsStay
    <3>2. CASE active # NoRun
      <4>1. PICK m \in Requests : m = Subscribe(active, cursor) /\ AskedAfter(m)
        BY <3>2, SubscribeIsAsked DEF CursorOK
      <4>2. requests' = <<m>>
        BY <2>1, <3>2, <4>1
      <4>3. <<m>> \in Seq(Requests) /\ Len(<<m>>) = 1 /\ <<m>>[1] = m
        OBVIOUS
      <4> QED
        BY <4>1, <4>2, <4>3 DEF RequestsAfter
    <3> QED
      BY <3>1, <3>2
  <2>3. socket' \in Nat
    BY <2>1 DEF WireOK
  <2> QED
    BY <2>1, <2>2, <2>3, <1>o, <1>w
<1>3. CASE SendStop
  <2>1. UNCHANGED <<notice, socket, bridge, outbox>> /\ requests' = Append(requests, [type |-> "stop"])
    BY <1>3 DEF SendStop, serverVars
  <2>2. [type |-> "stop"] \in Requests /\ AskedAfter([type |-> "stop"])
    BY DEF Requests, AskedAfter
  <2>3. RequestsAfter
    BY <2>1, <2>2, RequestsStay
  <2> QED
    BY <2>1, <2>3, <1>o, <1>w
<1>4. CASE Disconnect \/ Crash
  <2>1. /\ UNCHANGED socket /\ bridge' = NewBridge /\ outbox' = <<>> /\ requests' = <<>>
        /\ notice' = notice \/ notice' = [r \in Runs |-> <<>>]
    BY <1>4 DEF Disconnect, Crash, Broken, serverVars
  <2>2. NoticesAfter
    BY <2>1, NoticesStay
  <2>3. OutboxAfter
    BY <2>1, OutboxStays
  <2>4. RequestsAfter
    BY <2>1, RequestsStay
  <2> QED
    BY <2>1, <2>2, <2>3, <2>4, <1>o, <1>w
<1>5. ASSUME NEW c \in Convs, SendChat(c) PROVE WireOK'
  <2>1. /\ UNCHANGED <<notice, socket, bridge, outbox>>
        /\ requests' = requests \/ requests' = Append(requests, [type |-> "chat", conv |-> c])
    BY <1>5 DEF SendChat, serverVars
  <2>2. [type |-> "chat", conv |-> c] \in Requests /\ AskedAfter([type |-> "chat", conv |-> c])
    BY DEF Requests, AskedAfter
  <2>3. RequestsAfter
    BY <2>1, <2>2, RequestsStay
  <2> QED
    BY <2>1, <2>3, <1>o, <1>w
<1> QED
  BY <1>1, <1>2, <1>3, <1>4, <1>5

(***************************************************************************)
(* What is shown, and the cursor                                           *)
(***************************************************************************)

\* The projections stay as they are, and the client does or forgets its run.
LEMMA PageUntouched ==
    ASSUME JournalOK, JournalOK', Extended, ProjOK, CursorOK, proj' = proj,
           UNCHANGED <<active, cursor>> \/ (active' = NoRun /\ cursor' = 0)
    PROVE  ProjOK' /\ CursorOK'
<1>1. \A r \in Runs : Len(journal[r]) \in Nat /\ Len(journal'[r]) \in Nat
  BY LenProperties DEF JournalOK
<1>2. \A c \in Convs : /\ proj[c].run \in Runs \cup {NoRun} /\ proj[c].last \in Nat
                       /\ proj[c].run # NoRun => Created(proj[c].run)
  <2>1. NoRun \notin Runs /\ Nobody \notin Convs
    BY TransportAssumption DEF NoRun
  <2> QED
    BY <2>1 DEF ProjOK, Projections, JournalOK
<1>3. ASSUME NEW c \in Convs, NEW p, p = proj[c]
      PROVE  /\ p.run # NoRun => conv'[p.run] = c /\ p.last <= Len(journal'[p.run])
             /\ \A i \in 1 .. p.last : p.shown[i] = journal'[p.run][i]
  <2>1. CASE p.run = NoRun
    BY <1>3, <2>1, <1>2 DEF ProjOK
  <2>2. CASE p.run # NoRun
    <3>1. /\ p.run \in Runs /\ p.last \in Nat /\ Created(p.run) /\ conv[p.run] = c
          /\ p.last <= Len(journal[p.run]) /\ \A i \in 1 .. p.last : p.shown[i] = journal[p.run][i]
      BY <1>3, <2>2, <1>2 DEF ProjOK
    <3> QED
      BY <3>1, <1>1 DEF Extended
  <2> QED
    BY <2>1, <2>2
<1>4. ProjOK'
  BY <1>3 DEF ProjOK
<1>5. CursorOK'
  <2>0. CASE active' = NoRun /\ cursor' = 0
    BY <2>0 DEF CursorOK
  <2>a. SUFFICES ASSUME active' = active, cursor' = cursor PROVE CursorOK'
    BY <2>0
  <2>1. CASE active = NoRun
    BY <2>1, <2>a DEF CursorOK
  <2>2. CASE active # NoRun
    <3>1. cursor <= Len(journal'[active]) /\ active \in Runs /\ cursor \in Nat
      BY <2>2, <1>1 DEF CursorOK, Extended
    <3>2. cursor # 0 => journal'[active][1] = journal[active][1] /\ conv'[active] = conv[active]
      <4> SUFFICES ASSUME cursor # 0
                   PROVE  journal'[active][1] = journal[active][1] /\ conv'[active] = conv[active]
        OBVIOUS
      <4>1. 1 \in 1 .. Len(journal[active]) /\ journal[active] # <<>>
        BY <2>2, <1>1, EmptySeq DEF CursorOK
      <4>2. Created(active)
        BY <3>1, <4>1 DEF JournalOK
      <4> QED
        BY <3>1, <4>1, <4>2 DEF Extended
    <3> QED
      BY <3>1, <3>2, <2>a DEF CursorOK
  <2> QED
    BY <2>1, <2>2
<1> QED
  BY <1>4, <1>5

\* An event of a journal that is shown leaves the beginning of that journal.
LEMMA ShownIsBeginning ==
    ASSUME JournalOK, ProjOK, NEW e \in EventSet, Journaled(e), NEW c \in Convs, conv[e.run] = c,
           Shows(e, c)
    PROVE  /\ proj' = [proj EXCEPT ![c] = proj'[c]] /\ proj'[c] \in Projections
           /\ proj'[c].run = e.run /\ proj'[c].last = e.seq /\ Len(proj'[c].shown) = e.seq
           /\ \A i \in 1 .. e.seq : proj'[c].shown[i] = journal[e.run][i]
<1>e. e.run \in Runs /\ e.seq \in Nat \ {0} /\ e.run # NoRun /\ e.kind = journal[e.run][e.seq]
  BY TransportAssumption DEF EventSet, NoRun, Journaled
<1>1. PICK p \in Projections : p = proj[c]
  BY DEF ProjOK
<1>2. CASE Follows(p, e) /\ proj' = [proj EXCEPT ![c] = Applied(p, e)]
  <2>1. /\ e.seq = p.last + 1 /\ p.last \in Nat /\ Len(p.shown) = p.last
        /\ \A i \in 1 .. p.last : p.shown[i] = journal[e.run][i]
    <3>1. p.run = NoRun => p.last = 0
      BY <1>1 DEF ProjOK
    <3>2. p.run # NoRun => p.run = e.run
      BY <1>2 DEF Follows, Foreign
    <3> QED
      BY <1>1, <1>2, <3>1, <3>2 DEF Follows, ProjOK, Projections
  <2>2. proj'[c] = Applied(p, e)
    BY <1>2 DEF ProjOK
  <2>3. /\ proj'[c] \in Projections /\ proj'[c].run = e.run /\ proj'[c].last = e.seq
        /\ Len(proj'[c].shown) = p.last + 1 /\ proj'[c].shown[p.last + 1] = e.kind
        /\ \A i \in 1 .. p.last : proj'[c].shown[i] = p.shown[i]
    BY <2>1, <2>2, AppliedEffect
  <2>4. \A i \in 1 .. e.seq : i = p.last + 1 \/ i \in 1 .. p.last
    BY <2>1, <1>e
  <2> QED
    BY <1>2, <1>e, <2>1, <2>2, <2>3, <2>4
<1>3. CASE Opens(p, e) /\ proj' = [proj EXCEPT ![c] = Applied(NewProjection, e)]
  <2>0. Len(NewProjection.shown) = 0
    BY EmptySeq DEF NewProjection
  <2>1. PICK q \in Projections : q = NewProjection /\ e.seq = 1 /\ Len(q.shown) = 0
    BY <1>3, <2>0, EmptyProjection DEF Opens
  <2>2. proj'[c] = Applied(q, e)
    BY <1>3, <2>1 DEF ProjOK
  <2>n. PICK n : n = Len(q.shown) + 1
    OBVIOUS
  <2>a. /\ proj'[c] \in Projections /\ proj'[c].run = e.run /\ proj'[c].last = e.seq
        /\ Len(proj'[c].shown) = n /\ proj'[c].shown[n] = e.kind
    BY <2>2, <2>n, AppliedEffect
  <2>3. /\ proj'[c] \in Projections /\ proj'[c].run = e.run /\ proj'[c].last = e.seq
        /\ Len(proj'[c].shown) = 1 /\ proj'[c].shown[1] = e.kind
    BY <2>1, <2>a, <2>n
  <2>4. \A i \in 1 .. e.seq : i = 1
    BY <2>1
  <2> QED
    BY <1>3, <1>e, <2>1, <2>2, <2>3, <2>4
<1> QED
  BY <1>1, <1>2, <1>3 DEF Shows

\* A conversation whose projection changes to such a beginning keeps the invariant.
LEMMA ProjectionMoves ==
    ASSUME ProjOK, journal' = journal, conv' = conv, NEW c \in Convs, NEW q \in Projections,
           proj' = [proj EXCEPT ![c] = q],
           q.run = NoRun => q.last = 0,
           q.run # NoRun => conv[q.run] = c /\ q.last <= Len(journal[q.run]),
           Len(q.shown) = q.last, \A i \in 1 .. q.last : q.shown[i] = journal[q.run][i]
    PROVE  ProjOK'
<1>1. proj' \in [Convs -> Projections] /\ journal' = journal /\ conv' = conv
  BY DEF ProjOK
<1>2. ASSUME NEW d \in Convs, NEW p, p = proj'[d]
      PROVE  /\ p.run = NoRun => p.last = 0
             /\ p.run # NoRun => conv'[p.run] = d /\ p.last <= Len(journal'[p.run])
             /\ Len(p.shown) = p.last
             /\ \A i \in 1 .. p.last : p.shown[i] = journal'[p.run][i]
  <2>1. CASE d = c
    <3>1. p = q
      BY <1>2, <2>1 DEF ProjOK
    <3> QED
      BY <3>1, <1>1, <2>1
  <2>2. CASE d # c
    <3>1. p = proj[d]
      BY <1>2, <2>2 DEF ProjOK
    <3> QED
      BY <3>1, <1>1 DEF ProjOK
  <2> QED
    BY <2>1, <2>2
<1> QED
  BY <1>1, <1>2 DEF ProjOK

\* Reading an event keeps what is shown right, and the cursor behind it.
LEMMA ReceivePage ==
    ASSUME JournalOK, WireOK, ProjOK, CursorOK, Receive
    PROVE  ProjOK' /\ CursorOK'
<1>u. UNCHANGED <<journal, conv, status>>
  BY DEF Receive, serverVars, storeVars
<1>x. Extended /\ JournalOK'
  BY <1>u, JournalStep DEF Quiet
<1>v. journal' = journal /\ conv' = conv
  BY <1>u
<1>1. CASE Head(outbox).run = NoRun
  <2>1. UNCHANGED <<proj, active, cursor>>
    BY <1>1 DEF Receive, clientVars
  <2> QED
    BY <2>1, <1>x, PageUntouched
<1>2. CASE Head(outbox).run # NoRun
  <2>1. PICK e \in EventSet, c \in Convs :
            /\ conv[e.run] = c /\ Journaled(e) /\ MoveCursor(e)
            /\ Ignores(e, c) \/ Shows(e, c) \/ Misses(e, c)
    BY <1>2, ReceiveEffect
  <2>e. /\ e.run \in Runs /\ e.seq \in Nat \ {0} /\ e.run # NoRun
        /\ e.kind = journal[e.run][e.seq] /\ e.seq <= Len(journal[e.run])
    BY <2>1, TransportAssumption DEF EventSet, NoRun, Journaled
  <2>p. PICK p \in Projections : p = proj[c]
    BY DEF ProjOK
  <2>q. /\ p.run = NoRun => p.last = 0
        /\ p.run # NoRun => conv[p.run] = c /\ p.last <= Len(journal[p.run])
        /\ Len(p.shown) = p.last /\ \A i \in 1 .. p.last : p.shown[i] = journal[p.run][i]
    BY <2>p DEF ProjOK
  <2>2. ASSUME Shows(e, c) PROVE ProjOK'
    <3>1. /\ proj' = [proj EXCEPT ![c] = proj'[c]] /\ proj'[c] \in Projections
          /\ proj'[c].run = e.run /\ proj'[c].last = e.seq /\ Len(proj'[c].shown) = e.seq
          /\ \A i \in 1 .. e.seq : proj'[c].shown[i] = journal[e.run][i]
      BY <2>1, <2>2, ShownIsBeginning
    <3>2. PICK q : q = proj'[c]
      OBVIOUS
    <3>3. /\ proj' = [proj EXCEPT ![c] = q] /\ q \in Projections /\ q.run = e.run /\ q.last = e.seq
          /\ Len(q.shown) = e.seq /\ \A i \in 1 .. e.seq : q.shown[i] = journal[e.run][i]
      BY <3>1, <3>2
    <3>4. /\ q.run = NoRun => q.last = 0
          /\ q.run # NoRun => conv[q.run] = c /\ q.last <= Len(journal[q.run])
          /\ Len(q.shown) = q.last
      BY <3>3, <2>1, <2>e
    <3>5. \A i \in 1 .. q.last : q.shown[i] = journal[q.run][i]
      BY <3>3, <2>1, <2>e
    <3> QED
      BY <3>3, <3>4, <3>5, <1>v, ProjectionMoves
  <2>3. ASSUME Misses(e, c) PROVE ProjOK'
    <3>1. /\ proj' = [proj EXCEPT ![c] = [p EXCEPT !.recovery = p.last]]
      BY <2>3, <2>p DEF Misses
    <3>2. PICK q : q = [p EXCEPT !.recovery = p.last]
      OBVIOUS
    <3>3. q \in Projections /\ q.run = p.run /\ q.last = p.last /\ q.shown = p.shown
      BY <3>2 DEF Projections
    <3>4. /\ q.run = NoRun => q.last = 0
          /\ q.run # NoRun => conv[q.run] = c /\ q.last <= Len(journal[q.run])
          /\ Len(q.shown) = q.last
      BY <3>3, <2>q
    <3>5. \A i \in 1 .. q.last : q.shown[i] = journal[q.run][i]
      BY <3>3, <2>q
    <3>6. proj' = [proj EXCEPT ![c] = q] /\ q \in Projections
      BY <3>1, <3>2, <3>3
    <3> QED
      BY <3>4, <3>5, <3>6, <1>v, ProjectionMoves
  <2>4. ASSUME Ignores(e, c) PROVE ProjOK'
    <3>1. proj' = [proj EXCEPT ![c] = p]
      BY <2>4, <2>p DEF Ignores, ProjOK
    <3> QED
      BY <3>1, <2>q, <1>v, ProjectionMoves
  <2>5. ProjOK'
    BY <2>1, <2>2, <2>3, <2>4
  <2>6. active' = e.run /\ cursor' = IF e.seq = (IF active = e.run THEN cursor ELSE 0) + 1
                                     THEN e.seq ELSE (IF active = e.run THEN cursor ELSE 0)
    BY <2>1 DEF MoveCursor
  <2>7. PICK from \in Nat : from = IF active = e.run THEN cursor ELSE 0
    BY DEF CursorOK
  <2>8. cursor' = (IF e.seq = from + 1 THEN e.seq ELSE from) /\ from <= Len(journal[e.run])
    BY <2>6, <2>7, <2>e, LenProperties DEF CursorOK, JournalOK
  <2>9. from # 0 => \/ p.run = e.run /\ from <= p.last
                    \/ p.run \notin {NoRun, e.run} /\ journal[e.run][1] # "started"
    BY <2>7, <2>1, <2>p, <2>e DEF CursorOK
  <2>10. cursor' # 0 => \/ proj'[c].run = e.run /\ cursor' <= proj'[c].last
                        \/ proj'[c].run \notin {NoRun, e.run} /\ journal[e.run][1] # "started"
    <3> SUFFICES ASSUME cursor' # 0
                 PROVE  \/ proj'[c].run = e.run /\ cursor' <= proj'[c].last
                        \/ proj'[c].run \notin {NoRun, e.run} /\ journal[e.run][1] # "started"
      OBVIOUS
    <3>p. /\ p.run \in Runs \cup {NoRun} /\ p.last \in Nat
          /\ p.run = NoRun => p.last = 0
      BY <2>p DEF ProjOK, Projections
    <3>1. CASE Shows(e, c)
      <4>1. proj'[c].run = e.run /\ proj'[c].last = e.seq
        BY <2>1, <3>1, ShownIsBeginning
      <4>2. CASE Opens(p, e)
        <5>1. e.seq = 1 /\ journal[e.run][1] = "started" /\ p.run # e.run
          BY <4>2, <2>e DEF Opens, Foreign
        <5>2. from = 0
          BY <5>1, <2>9
        <5> QED
          BY <4>1, <5>1, <5>2, <2>8, <2>e
      <4>3. CASE Follows(p, e)
        <5>1. e.seq = p.last + 1 /\ (p.run # NoRun => p.run = e.run)
          BY <4>3 DEF Follows, Foreign
        <5>2. from <= p.last \/ from = 0
          BY <5>1, <2>9
        <5> QED
          BY <4>1, <5>1, <5>2, <2>7, <2>8, <2>e, <3>p
      <4> QED
        BY <3>1, <2>p, <4>2, <4>3 DEF Shows
    <3>2. CASE Ignores(e, c)
      <4>1. proj'[c] = p /\ Passed(p, e)
        BY <3>2, <2>p DEF Ignores
      <4>2. CASE Foreign(p, e)
        <5>1. p.run \notin {NoRun, e.run} /\ ~ (e.kind = "started" /\ e.seq = 1)
          BY <4>1, <4>2 DEF Passed, Foreign
        <5>2. CASE from # 0
          BY <5>1, <5>2, <4>1, <2>9
        <5>3. CASE from = 0
          <6>1. e.seq = 1
            BY <5>3, <2>8
          <6> QED
            BY <5>1, <6>1, <4>1, <2>e
        <5> QED
          BY <5>2, <5>3
      <4>3. CASE ~ Foreign(p, e)
        <5>1. e.seq <= p.last /\ (p.run # NoRun => p.run = e.run)
          BY <4>1, <4>3 DEF Passed, Foreign
        <5>2. p.run = e.run
          BY <5>1, <3>p, <2>e
        <5>3. from <= p.last
          BY <5>2, <2>9, <2>7, <3>p
        <5> QED
          BY <4>1, <5>1, <5>2, <5>3, <2>7, <2>8, <2>e, <3>p
      <4> QED
        BY <4>2, <4>3
    <3>3. CASE Misses(e, c)
      <4>1. proj'[c].run = p.run /\ proj'[c].last = p.last /\ Skips(p, e)
        <5>1. PICK q : q = [p EXCEPT !.recovery = p.last]
          OBVIOUS
        <5>2. q.run = p.run /\ q.last = p.last
          BY <5>1 DEF Projections
        <5>3. proj'[c] = q /\ Skips(p, e)
          BY <3>3, <2>p, <5>1 DEF Misses, ProjOK
        <5> QED
          BY <5>2, <5>3
      <4>2. e.seq > p.last + 1 /\ (p.run # NoRun => p.run = e.run)
        BY <4>1 DEF Skips, Foreign
      <4>3. from # 0
        BY <4>2, <2>8, <2>7, <2>e, <3>p
      <4>4. p.run = e.run /\ from <= p.last
        BY <4>2, <4>3, <2>9
      <4> QED
        BY <4>1, <4>2, <4>4, <2>7, <2>8, <2>e, <3>p
    <3> QED
      BY <2>1, <3>1, <3>2, <3>3
  <2>11. CursorOK'
    <3>1. active' \in Runs /\ cursor' \in Nat /\ cursor' <= Len(journal'[active'])
      BY <2>6, <2>7, <2>8, <2>e, <1>u
    <3> QED
      BY <3>1, <2>6, <2>10, <2>1, <1>u DEF CursorOK
  <2> QED
    BY <2>5, <2>11
<1> QED
  BY <1>1, <1>2

\* The invariant holds at the start.
LEMMA TransportStarts == Init => TransportInv
<1> SUFFICES ASSUME Init PROVE TransportInv
  OBVIOUS
<1> USE DEF Init, StoreInit
<1>1. JournalOK
  BY EmptySeq DEF JournalOK, Created
<1>2. WireOK
  BY EmptySeq DEF WireOK, NewBridge
<1>3. ProjOK
  <2>1. Len(<<>>) = 0 /\ NewProjection.run = NoRun /\ NewProjection.last = 0
        /\ NewProjection.shown = <<>>
    BY EmptySeq DEF NewProjection
  <2> QED
    BY <2>1, EmptyProjection DEF ProjOK
<1>4. CursorOK
  BY DEF CursorOK
<1> QED
  BY <1>1, <1>2, <1>3, <1>4 DEF TransportInv

\* Every step keeps it, and takes nothing back from a journal.
LEMMA TransportStep == TransportInv /\ [Next]_vars => TransportInv' /\ Extended
<1> SUFFICES ASSUME TransportInv, [Next]_vars PROVE TransportInv' /\ Extended
  OBVIOUS
<1> USE DEF TransportInv
<1>1. JournalOK' /\ Extended
  BY JournalChange, JournalStep
<1>2. WireOK'
  <2>1. CASE UNCHANGED vars
    <3>1. UNCHANGED <<notice, bridge, socket, outbox, requests>>
      BY <2>1 DEF vars, serverVars, wireVars
    <3>2. NoticesAfter
      BY <3>1, <1>1, NoticesStay
    <3>3. OutboxAfter
      BY <3>1, <1>1, OutboxStays
    <3>4. RequestsAfter
      BY <3>1, <1>1, RequestsStay
    <3> QED
      BY <3>1, <3>2, <3>3, <3>4 DEF WireOK, NoticesAfter, OutboxAfter, RequestsAfter, Sent,
                                    SentAfter, Journaled, Asked, AskedAfter
  <2> QED
    BY <1>1, <2>1, ThreadWire, HandleWire, PageWire DEF Next
<1>3. ProjOK' /\ CursorOK'
  <2>1. CASE Receive
    BY <2>1, ReceivePage
  <2>2. ASSUME NEW c \in Convs, SendChat(c) PROVE ProjOK' /\ CursorOK'
    <3>1. proj' = proj /\ active' = NoRun /\ cursor' = 0
      BY <2>2 DEF SendChat
    <3> QED
      BY <3>1, <1>1, PageUntouched
  <2>3. ASSUME NEW r \in Runs, ThreadStep(r) PROVE UNCHANGED <<proj, active, cursor>>
    BY <2>3 DEF ThreadStep, PersistLive, Look, Deliver, Retire, clientVars
  <2>4. CASE UNCHANGED <<proj, active, cursor>>
    <3>1. proj' = proj /\ UNCHANGED <<active, cursor>>
      BY <2>4
    <3> QED
      BY <3>1, <1>1, PageUntouched
  <2>5. CASE Handle \/ Reconnect \/ SendStop \/ Disconnect \/ Crash \/ UNCHANGED vars
    <3>1. UNCHANGED <<proj, active, cursor>>
      BY <2>5 DEF Handle, Reconnect, SendStop, Disconnect, Crash, Broken, vars, clientVars
    <3> QED
      BY <3>1, <2>4
  <2> QED
    BY <2>1, <2>2, <2>3, <2>4, <2>5 DEF Next
<1> QED
  BY <1>1, <1>2, <1>3

\* Every event under way is one of a journal, every conversation shows the
\* beginning of the journal of its run, and the cursor stays behind it.
THEOREM TransportInvariant == Spec => []TransportInv
<1>1. TransportInv /\ [Next]_vars => TransportInv'
  BY TransportStep
<1> QED
  BY <1>1, TransportStarts, PTL DEF Spec

\* What a reconnecting page asks for leaves nothing out of what it shows.
THEOREM CursorIsCovered == Spec => []CursorCovered
<1>1. TransportInv => CursorCovered
  <2> SUFFICES ASSUME TransportInv, NEW c \in Convs, active # NoRun, proj[c].run = active
               PROVE  cursor <= proj[c].last
    BY DEF CursorCovered
  <2>1. /\ active \in Runs /\ cursor \in Nat /\ proj[c].last \in Nat /\ conv[active] = c
    BY DEF TransportInv, CursorOK, ProjOK, Projections
  <2> QED
    BY <2>1 DEF TransportInv, CursorOK
<1> QED
  BY <1>1, TransportInvariant, PTL

\* Whatever is lost, repeated or out of order on the way, and however often a
\* conversation is sent to, it shows a beginning of the journal of its run.
ShowsABeginning ==
    \A c \in Convs : proj[c].run # NoRun =>
        /\ Len(proj[c].shown) <= Len(journal[proj[c].run])
        /\ \A i \in 1 .. Len(proj[c].shown) : proj[c].shown[i] = journal[proj[c].run][i]

\* The promise of ShowsABeginning is kept.
THEOREM BeginningsAreShown == Spec => []ShowsABeginning
<1>1. TransportInv => ShowsABeginning
  BY DEF TransportInv, ProjOK, ShowsABeginning
<1> QED
  BY <1>1, TransportInvariant, PTL

\* A conversation that shows the end of a run shows all of it: nothing is left out
\* before the end, nothing comes after it, and the run is over in the store.
EndIsTheEnd ==
    \A c \in Convs : \A i \in 1 .. Len(proj[c].shown) : Terminal(proj[c].shown[i]) =>
        /\ i = Len(proj[c].shown) /\ proj[c].shown = journal[proj[c].run]
        /\ Finished(proj[c].run)

\* The promise of EndIsTheEnd is kept.
THEOREM EndShownIsTheEnd == Spec => []EndIsTheEnd
<1>1. TransportInv => EndIsTheEnd
  <2> SUFFICES ASSUME TransportInv, NEW c \in Convs, NEW i \in 1 .. Len(proj[c].shown),
                      Terminal(proj[c].shown[i])
               PROVE  /\ i = Len(proj[c].shown) /\ proj[c].shown = journal[proj[c].run]
                      /\ Finished(proj[c].run)
    BY DEF EndIsTheEnd
  <2>1. /\ proj[c].shown \in Seq(EventKinds) /\ proj[c].last \in Nat
        /\ proj[c].run \in Runs \cup {NoRun} /\ Len(proj[c].shown) = proj[c].last
        /\ proj[c].run = NoRun => proj[c].last = 0
        /\ \A k \in 1 .. proj[c].last : proj[c].shown[k] = journal[proj[c].run][k]
    BY DEF TransportInv, ProjOK, Projections
  <2>2. proj[c].run \in Runs /\ proj[c].last <= Len(journal[proj[c].run])
    BY <2>1 DEF TransportInv, ProjOK
  <2>3. journal[proj[c].run] \in Seq(EventKinds) /\ Len(journal[proj[c].run]) \in Nat
    BY <2>2, LenProperties DEF TransportInv, JournalOK
  <2>4. i = Len(journal[proj[c].run]) /\ Finished(proj[c].run)
    <3>1. i \in 1 .. Len(journal[proj[c].run]) /\ Terminal(journal[proj[c].run][i])
      BY <2>1, <2>2, <2>3
    <3> QED
      BY <2>2, <3>1 DEF TransportInv, JournalOK
  <2>5. Len(proj[c].shown) = Len(journal[proj[c].run]) /\ i = Len(proj[c].shown)
    BY <2>1, <2>2, <2>3, <2>4
  <2>6. proj[c].shown = journal[proj[c].run]
    BY <2>1, <2>3, <2>5, SeqEqual
  <2> QED
    BY <2>4, <2>5, <2>6
<1> QED
  BY <1>1, TransportInvariant, PTL

\* The journal and the status of a run that is over stay as they are.
FinishedStays ==
    \A r \in Runs : Finished(r) => journal'[r] = journal[r] /\ status'[r] = status[r]

\* No step of a thread, the server, the page or the connection, and no crash, adds
\* to a run that is over or changes how it ended.
THEOREM FinishedRunsStay == Spec => [][FinishedStays]_vars
<1>1. ASSUME TransportInv, [Next]_vars PROVE FinishedStays
  <2>1. CASE Quiet
    BY <2>1 DEF Quiet, FinishedStays
  <2>2. ASSUME NEW q \in Runs, NEW kind \in EventKinds, Appends(q, kind) PROVE FinishedStays
    <3>1. PICK s \in RunStatuses : status' = [status EXCEPT ![q] = s]
      BY <2>2 DEF Appends
    <3>2. journal' = [journal EXCEPT ![q] = Append(@, kind)] /\ ~ Finished(q)
      BY <2>2 DEF Appends, Live
    <3> QED
      BY <1>1, <3>1, <3>2 DEF FinishedStays, TransportInv, JournalOK
  <2>3. ASSUME NEW q \in Runs, NEW c \in Convs, Begins(q, c) PROVE FinishedStays
    <3>1. journal' = journal /\ status' = [status EXCEPT ![q] = "queued"] /\ ~ Finished(q)
      BY <2>3 DEF Begins, Created, Finished, TerminalStatuses
    <3> QED
      BY <1>1, <3>1 DEF FinishedStays, TransportInv, JournalOK
  <2> QED
    BY <1>1, <2>1, <2>2, <2>3, JournalChange DEF TransportInv
<1> QED
  BY <1>1, TransportInvariant, PTL DEF Spec

\* What a conversation shows of a run is only added to.
NothingTakenBack ==
    \A c \in Convs : proj'[c].run = proj[c].run =>
        /\ Len(proj[c].shown) <= Len(proj'[c].shown)
        /\ \A i \in 1 .. Len(proj[c].shown) : proj'[c].shown[i] = proj[c].shown[i]

\* Reading an event takes nothing back of what is shown.
LEMMA ReceiveAdds ==
    ASSUME TransportInv, Receive PROVE NothingTakenBack
<1> USE DEF TransportInv
<1>1. CASE Head(outbox).run = NoRun
  <2>1. proj' = proj
    BY <1>1 DEF Receive, clientVars
  <2> QED
    BY <2>1 DEF NothingTakenBack, ProjOK, Projections
<1>2. CASE Head(outbox).run # NoRun
  <2>1. PICK e \in EventSet, d \in Convs :
            /\ conv[e.run] = d /\ Journaled(e)
            /\ Ignores(e, d) \/ Shows(e, d) \/ Misses(e, d)
    BY <1>2, ReceiveEffect
  <2>2. CASE Ignores(e, d)
    <3>1. proj' = proj
      BY <2>2 DEF Ignores
    <3> QED
      BY <3>1 DEF NothingTakenBack, ProjOK, Projections
  <2>3. CASE Misses(e, d)
    <3>1. \A c \in Convs : proj'[c].shown = proj[c].shown
      BY <2>3 DEF Misses, ProjOK, Projections
    <3> QED
      BY <3>1 DEF NothingTakenBack, ProjOK, Projections
  <2>4. CASE Shows(e, d)
    <3>1. /\ proj' = [proj EXCEPT ![d] = proj'[d]]
          /\ proj'[d].run = e.run /\ Len(proj'[d].shown) = e.seq
          /\ \A i \in 1 .. e.seq : proj'[d].shown[i] = journal[e.run][i]
      BY <2>1, <2>4, ShownIsBeginning
    <3> SUFFICES ASSUME NEW c \in Convs, proj'[c].run = proj[c].run
                 PROVE  /\ Len(proj[c].shown) <= Len(proj'[c].shown)
                        /\ \A i \in 1 .. Len(proj[c].shown) : proj'[c].shown[i] = proj[c].shown[i]
      BY DEF NothingTakenBack
    <3>2. /\ Len(proj[c].shown) = proj[c].last /\ proj[c].last \in Nat
          /\ \A i \in 1 .. proj[c].last : proj[c].shown[i] = journal[proj[c].run][i]
      BY DEF ProjOK, Projections
    <3>3. CASE c # d
      <4>1. proj'[c] = proj[c]
        BY <3>1, <3>3 DEF ProjOK
      <4> QED
        BY <3>2, <4>1
    <3>4. CASE c = d
      <4>1. e.run = proj[c].run /\ ~ Foreign(proj[c], e)
        BY <3>1, <3>4 DEF Foreign
      <4>2. Follows(proj[c], e)
        BY <2>4, <3>4, <4>1 DEF Shows, Opens
      <4>3. e.seq = proj[c].last + 1
        BY <4>2 DEF Follows
      <4> QED
        BY <3>1, <3>2, <3>4, <4>1, <4>3
    <3> QED
      BY <3>3, <3>4
  <2> QED
    BY <2>1, <2>2, <2>3, <2>4
<1> QED
  BY <1>1, <1>2

\* Only reading an event changes what is shown.
LEMMA OnlyReceiveShows ==
    ASSUME [Next]_vars, ~ Receive PROVE proj' = proj
<1>1. ASSUME NEW r \in Runs, ThreadStep(r) PROVE proj' = proj
  BY <1>1 DEF ThreadStep, PersistLive, Look, Deliver, Retire, clientVars
<1>2. ASSUME NEW c \in Convs, SendChat(c) PROVE proj' = proj
  BY <1>2 DEF SendChat
<1>3. CASE Handle \/ Reconnect \/ SendStop \/ Disconnect \/ Crash \/ UNCHANGED vars
  BY <1>3 DEF Handle, Reconnect, SendStop, Disconnect, Crash, Broken, vars, clientVars
<1> QED
  BY <1>1, <1>2, <1>3 DEF Next

\* However a conversation is sent to, and whatever the connection does, what it
\* shows of a run is never taken back while it shows that run.
THEOREM ShownStays == Spec => [][NothingTakenBack]_vars
<1>1. ASSUME TransportInv, [Next]_vars PROVE NothingTakenBack
  <2>1. CASE Receive
    BY <1>1, <2>1, ReceiveAdds
  <2>2. CASE ~ Receive
    <3>1. proj' = proj
      BY <1>1, <2>2, OnlyReceiveShows
    <3> QED
      BY <1>1, <3>1 DEF NothingTakenBack, TransportInv, ProjOK, Projections
  <2> QED
    BY <2>1, <2>2
<1> QED
  BY <1>1, TransportInvariant, PTL DEF Spec

(***************************************************************************)
(* Where no conversation is sent to twice                                  *)
(***************************************************************************)

\* No chat was asked for while the others stay as they were.
ChatsStay ==
    \/ \A i \in 1 .. Len(requests') : requests'[i].type # "chat"
    \/ requests' = requests
    \/ requests # <<>> /\ requests' = Tail(requests)
    \/ \E m \in Requests : m.type # "chat" /\ requests' = Append(requests, m)

\* While the page waits for the same conversation, no run begins and the chats
\* stay, nothing changes about who waits for what.
LEMMA OwnerStays ==
    ASSUME TransportInv, JournalOK', Extended, OwnerOK, owner' = owner, conv' = conv, ChatsStay,
           \A c \in Convs : proj'[c].run = proj[c].run /\ proj'[c].last = proj[c].last
    PROVE  OwnerOK'
<1> USE DEF TransportInv
<1>n. Nobody \notin Convs
  BY TransportAssumption
<1>1. RunsOK'
  <2>1. \A r \in Runs : Created(r)' = Created(r) /\ (Created(r) => conv[r] \in Convs)
    BY <1>n DEF JournalOK, Created
  <2>2. \A r \in Runs : Created(r) /\ Over(r) =>
            /\ proj'[conv'[r]].run = r /\ Finished(r)'
            /\ proj'[conv'[r]].last = Len(journal'[r])
    BY <2>1 DEF Over, Extended
  <2> QED
    BY <2>1, <2>2 DEF OwnerOK, RunsOK, Over
<1>2. ChatsOK'
  <2>0. requests \in Seq(Requests) /\ Len(requests) \in Nat
    BY LenProperties DEF WireOK
  <2>1. CASE \A i \in 1 .. Len(requests') : requests'[i].type # "chat"
    BY <2>1 DEF ChatsOK
  <2>2. CASE requests' = requests
    BY <2>2 DEF OwnerOK, ChatsOK
  <2>3. CASE requests # <<>> /\ requests' = Tail(requests)
    <3>1. /\ Len(requests') = Len(requests) - 1
          /\ \A i \in 1 .. Len(requests') : requests'[i] = requests[i + 1]
      BY <2>0, <2>3, ReadHead
    <3>2. \A i \in 1 .. Len(requests') : i + 1 \in 1 .. Len(requests)
      BY <2>0, <3>1
    <3>3. ASSUME NEW i \in 1 .. Len(requests'), requests'[i].type = "chat"
          PROVE  /\ requests'[i].conv = owner /\ \A r \in Runs : conv[r] # owner
                 /\ \A k \in 1 .. Len(requests') : requests'[k].type = "chat" => k = i
      <4>1. requests'[i] = requests[i + 1] /\ i + 1 \in 1 .. Len(requests)
        BY <3>1, <3>2
      <4>2. ASSUME NEW k \in 1 .. Len(requests'), requests'[k].type = "chat" PROVE k = i
        <5>1. requests'[k] = requests[k + 1] /\ k + 1 \in 1 .. Len(requests)
          BY <3>1, <3>2
        <5>2. k + 1 = i + 1
          BY <3>3, <4>1, <4>2, <5>1 DEF OwnerOK, ChatsOK
        <5> QED
          BY <5>2
      <4> QED
        BY <3>3, <4>1, <4>2 DEF OwnerOK, ChatsOK
    <3> QED
      BY <3>3 DEF ChatsOK
  <2>4. ASSUME NEW m \in Requests, m.type # "chat", requests' = Append(requests, m) PROVE ChatsOK'
    <3>1. /\ Len(requests') = Len(requests) + 1 /\ requests'[Len(requests) + 1] = m
          /\ \A i \in 1 .. Len(requests) : requests'[i] = requests[i]
      BY <2>0, <2>4, AppendProperties
    <3>2. \A i \in 1 .. Len(requests') : requests'[i].type = "chat" => i \in 1 .. Len(requests)
      BY <2>0, <2>4, <3>1
    <3> QED
      BY <3>1, <3>2 DEF OwnerOK, ChatsOK
  <2> QED
    BY <2>1, <2>2, <2>3, <2>4 DEF ChatsStay
<1> QED
  BY <1>1, <1>2 DEF OwnerOK

\* The run that a chat begins is the first of its conversation, and the page
\* waits for it.
LEMMA RunBegins ==
    ASSUME TransportInv, JournalOK', Extended, OwnerOK, owner' = owner, proj' = proj,
           requests # <<>>, requests' = Tail(requests), NEW q \in Runs, NEW c \in Convs,
           Head(requests) = [type |-> "chat", conv |-> c], Begins(q, c)
    PROVE  OwnerOK'
<1> USE DEF TransportInv
<1>0. /\ Len(requests) \in Nat \ {0} /\ Head(requests) = requests[1] /\ 1 \in 1 .. Len(requests)
      /\ Len(requests') = Len(requests) - 1
      /\ \A i \in 1 .. Len(requests') : requests'[i] = requests[i + 1] /\ i + 1 \in 1 .. Len(requests)
  BY ReadHead DEF WireOK
<1>1. /\ requests[1].type = "chat" /\ owner = c /\ \A r \in Runs : conv[r] # c
      /\ \A k \in 1 .. Len(requests) : requests[k].type = "chat" => k = 1
  BY <1>0 DEF OwnerOK, ChatsOK
<1>2. ChatsOK'
  <2>1. \A i \in 1 .. Len(requests') : requests'[i].type # "chat"
    BY <1>0, <1>1
  <2> QED
    BY <2>1 DEF ChatsOK
<1>3. /\ conv' = [conv EXCEPT ![q] = c] /\ journal' = journal /\ ~ Created(q)
      /\ status' = [status EXCEPT ![q] = "queued"]
  BY DEF Begins
<1>4. /\ conv'[q] = c /\ \A r \in Runs : r # q => conv'[r] = conv[r] /\ status'[r] = status[r]
  BY <1>3 DEF JournalOK
<1>5. ASSUME NEW r \in Runs, Created(r)' PROVE owner' = conv'[r] \/ Over(r)'
  <2>1. CASE r = q
    BY <2>1, <1>1, <1>4
  <2>2. CASE r # q
    <3>1. Created(r) /\ conv'[r] = conv[r] /\ status'[r] = status[r]
      BY <2>2, <1>4, <1>5 DEF Created
    <3>2. Over(r)
      BY <3>1, <1>1 DEF OwnerOK, RunsOK
    <3> QED
      BY <3>1, <3>2, <1>3 DEF Over, Finished
  <2> QED
    BY <2>1, <2>2
<1>6. ASSUME NEW r \in Runs, NEW t \in Runs, Created(r)', Created(t)', conv'[r] = conv'[t]
      PROVE  r = t
  <2>1. CASE r = q \/ t = q
    BY <2>1, <1>1, <1>4, <1>6
  <2>2. CASE r # q /\ t # q
    BY <2>2, <1>4, <1>6 DEF Created, OwnerOK, RunsOK
  <2> QED
    BY <2>1, <2>2
<1> QED
  BY <1>2, <1>5, <1>6 DEF OwnerOK, RunsOK

\* The server keeps the page's book.
LEMMA HandleOwner ==
    ASSUME TransportInv, JournalOK', Extended, OwnerOK, Handle
    PROVE  OwnerOK'
<1>1. owner' = owner /\ proj' = proj /\ requests # <<>> /\ requests' = Tail(requests)
  BY DEF Handle, clientVars
<1>2. CASE \E q \in Runs, c \in Convs : Head(requests) = [type |-> "chat", conv |-> c] /\ Begins(q, c)
  BY <1>1, <1>2, RunBegins
<1>3. CASE Quiet \/ \E q \in Runs, kind \in EventKinds : Appends(q, kind)
  <2>1. conv' = conv
    BY <1>3 DEF Quiet, Appends
  <2>2. \A c \in Convs : proj'[c].run = proj[c].run /\ proj'[c].last = proj[c].last
    BY <1>1
  <2> QED
    BY <1>1, <2>1, <2>2, OwnerStays DEF ChatsStay
<1> QED
  BY <1>2, <1>3, HandleJournals DEF TransportInv

\* Where it has shown a conversation's one run, the page never opens another there.
LEMMA OneRunShown ==
    ASSUME TransportInv, OwnerOK, NEW e \in EventSet, Journaled(e), NEW c \in Convs, conv[e.run] = c
    PROVE  ~ Foreign(proj[c], e) /\ Created(e.run) /\ e.run \in Runs
<1>0. e.run \in Runs /\ journal[e.run] # <<>> /\ NoRun \notin Runs /\ Nobody \notin Convs
  BY EmptySeq, TransportAssumption DEF Journaled, EventSet, NoRun
<1>1. Created(e.run)
  BY <1>0 DEF TransportInv, JournalOK
<1>2. ASSUME proj[c].run # NoRun PROVE proj[c].run = e.run
  <2>1. proj[c].run \in Runs /\ conv[proj[c].run] = c
    BY <1>2 DEF TransportInv, ProjOK, Projections
  <2>2. Created(proj[c].run)
    BY <2>1, <1>0 DEF TransportInv, JournalOK
  <2> QED
    BY <1>0, <1>1, <2>1, <2>2 DEF OwnerOK, RunsOK
<1> QED
  BY <1>0, <1>1, <1>2 DEF Foreign

\* An event that is shown belongs to the conversation the page waits for; if it is
\* the end, the run is over.
LEMMA ReceiveOwner ==
    ASSUME TransportInv, TransportInv', Extended, OwnerOK, Receive
    PROVE  OwnerOK'
<1> USE DEF TransportInv
<1>u. journal' = journal /\ conv' = conv /\ status' = status
  BY DEF Receive, serverVars, storeVars
<1>1. CASE Head(outbox).run = NoRun
  <2>1. proj' = proj /\ owner' = owner /\ requests' = requests
    BY <1>1 DEF Receive, clientVars
  <2>2. \A c \in Convs : proj'[c].run = proj[c].run /\ proj'[c].last = proj[c].last
    BY <2>1
  <2> QED
    BY <1>u, <2>1, <2>2, OwnerStays DEF ChatsStay
<1>2. CASE Head(outbox).run # NoRun
  <2>1. PICK e \in EventSet, c \in Convs :
            /\ conv[e.run] = c /\ Journaled(e)
            /\ Ignores(e, c) \/ Shows(e, c) \/ Misses(e, c)
    BY <1>2, ReceiveEffect
  <2>2. ~ Foreign(proj[c], e) /\ Created(e.run) /\ e.run \in Runs
    BY <2>1, OneRunShown
  <2>3. CASE Ignores(e, c)
    <3>1. proj' = proj /\ owner' = owner /\ requests' = requests
      BY <2>3 DEF Ignores
    <3>2. \A d \in Convs : proj'[d].run = proj[d].run /\ proj'[d].last = proj[d].last
      BY <3>1
    <3> QED
      BY <1>u, <3>1, <3>2, OwnerStays DEF ChatsStay
  <2>4. CASE Misses(e, c)
    <3>1. owner' = owner /\ proj' = [proj EXCEPT ![c] = [proj[c] EXCEPT !.recovery = proj[c].last]]
      BY <2>4 DEF Misses
    <3>2. \A d \in Convs : proj'[d].run = proj[d].run /\ proj'[d].last = proj[d].last
      <4>1. proj[c] \in Projections
        BY DEF ProjOK
      <4>2. PICK q : q = [proj[c] EXCEPT !.recovery = proj[c].last]
        OBVIOUS
      <4>3. q.run = proj[c].run /\ q.last = proj[c].last
        BY <4>1, <4>2 DEF Projections
      <4> QED
        BY <3>1, <4>2, <4>3 DEF ProjOK
    <3>3. ChatsStay
      <4>1. CASE requests' = requests
        BY <4>1 DEF ChatsStay
      <4>2. CASE requests' = Append(requests, Subscribe(e.run, proj[c].last))
        <5>1. proj[c].last \in Nat
          BY DEF ProjOK, Projections
        <5>2. Subscribe(e.run, proj[c].last) \in Requests
          BY <5>1, <2>2 DEF Requests
        <5>3. Subscribe(e.run, proj[c].last).type # "chat"
          BY DEF Subscribe
        <5> QED
          BY <4>2, <5>2, <5>3 DEF ChatsStay
      <4> QED
        BY <2>4, <4>1, <4>2 DEF Misses
    <3> QED
      BY <1>u, <3>1, <3>2, <3>3, OwnerStays
  <2>5. CASE Shows(e, c)
    <3>1. /\ Follows(proj[c], e) /\ e.seq = proj[c].last + 1 /\ proj[c].last \in Nat
          /\ e.seq <= Len(journal[e.run]) /\ e.kind = journal[e.run][e.seq]
      BY <2>1, <2>2, <2>5 DEF Shows, Opens, Follows, Journaled, ProjOK, Projections
    <3>2. owner = c
      <4>1. ~ Over(e.run)
        BY <3>1, <2>1 DEF Over
      <4> QED
        BY <4>1, <2>1, <2>2 DEF OwnerOK, RunsOK
    <3>3. \A i \in 1 .. Len(requests') : requests'[i].type # "chat"
      BY <3>2, <2>1, <2>2, <2>5 DEF Shows, OwnerOK, ChatsOK
    <3>4. /\ proj' = [proj EXCEPT ![c] = proj'[c]]
          /\ proj'[c].run = e.run /\ proj'[c].last = e.seq
      BY <2>1, <2>5, ShownIsBeginning
    <3>5. owner' = c \/ (owner' = Nobody /\ Terminal(e.kind))
      BY <2>5, <3>2 DEF Shows, OwnerMoves
    <3>6. owner' = Nobody => e.seq = Len(journal[e.run]) /\ Finished(e.run)
      <4>1. Nobody # c /\ e.seq \in 1 .. Len(journal[e.run])
        BY <3>1, TransportAssumption, LenProperties DEF JournalOK, EventSet
      <4> QED
        BY <4>1, <3>1, <3>5, <2>2 DEF JournalOK
    <3>7. ASSUME NEW r \in Runs, Created(r)' PROVE owner' = conv'[r] \/ Over(r)'
      <4>0. Created(r)
        BY <3>7, <1>u DEF Created
      <4>1. CASE r = e.run
        BY <4>1, <1>u, <2>1, <3>4, <3>5, <3>6 DEF Over, Finished
      <4>2. CASE r # e.run
        <5>1. conv[r] # c /\ conv[r] \in Convs
          BY <4>0, <4>2, <2>1, <2>2 DEF OwnerOK, RunsOK, JournalOK
        <5>2. Over(r)
          BY <4>0, <5>1, <3>2 DEF OwnerOK, RunsOK
        <5>3. proj'[conv[r]] = proj[conv[r]]
          BY <5>1, <3>4 DEF ProjOK
        <5> QED
          BY <5>2, <5>3, <1>u DEF Over, Finished
      <4> QED
        BY <4>1, <4>2
    <3>8. \A r, q \in Runs : Created(r)' /\ Created(q)' /\ conv'[r] = conv'[q] => r = q
      BY <1>u DEF OwnerOK, RunsOK, Created
    <3> QED
      BY <3>3, <3>5, <3>7, <3>8 DEF OwnerOK, ChatsOK, RunsOK
  <2> QED
    BY <2>1, <2>3, <2>4, <2>5
<1> QED
  BY <1>1, <1>2

\* The user sends only when every run is over, and to a conversation without one.
LEMMA SendChatOwner ==
    ASSUME Resumed = {}, TransportInv, JournalOK', Extended, OwnerOK, NEW c \in Convs, SendChat(c)
    PROVE  OwnerOK'
<1> USE DEF TransportInv
<1>1. /\ journal' = journal /\ conv' = conv /\ status' = status /\ proj' = proj
      /\ owner = Nobody /\ \A r \in Runs : conv[r] # c
  BY DEF SendChat, serverVars, storeVars
<1>2. CASE link # "up"
  <2>1. owner' = owner /\ requests' = requests
    BY <1>2 DEF SendChat
  <2>2. \A d \in Convs : proj'[d].run = proj[d].run /\ proj'[d].last = proj[d].last
    BY <1>1
  <2> QED
    BY <1>1, <2>1, <2>2, OwnerStays DEF ChatsStay
<1>3. CASE link = "up"
  <2>1. owner' = c /\ requests' = Append(requests, [type |-> "chat", conv |-> c])
    BY <1>3 DEF SendChat
  <2>2. [type |-> "chat", conv |-> c] \in Requests /\ requests \in Seq(Requests)
    BY DEF Requests, WireOK
  <2>3. /\ Len(requests') = Len(requests) + 1 /\ Len(requests) \in Nat
        /\ requests'[Len(requests) + 1] = [type |-> "chat", conv |-> c]
        /\ \A i \in 1 .. Len(requests) : requests'[i] = requests[i]
    BY <2>1, <2>2, AppendProperties, LenProperties
  <2>4. \A i \in 1 .. Len(requests) : requests[i].type # "chat"
    <3> SUFFICES ASSUME NEW i \in 1 .. Len(requests), requests[i].type = "chat" PROVE FALSE
      OBVIOUS
    <3>1. PICK m \in Requests : m = requests[i]
      BY <2>2, ElementOfSeq
    <3>2. PICK d \in Convs : m = [type |-> "chat", conv |-> d]
      BY <3>1, RequestKinds DEF Subscribe
    <3>3. requests[i].conv = d /\ requests[i].conv = owner
      <4>1. m.conv = d
        BY <3>2
      <4> QED
        BY <4>1, <3>1 DEF OwnerOK, ChatsOK
    <3> QED
      BY <3>3, <1>1, TransportAssumption
  <2>5. ChatsOK'
    <3>1. \A i \in 1 .. Len(requests') : requests'[i].type = "chat" => i = Len(requests) + 1
      BY <2>3, <2>4
    <3> QED
      BY <3>1, <2>1, <2>3, <1>1 DEF ChatsOK
  <2>6. \A r \in Runs : Created(r) => Over(r)
    BY <1>1, TransportAssumption DEF OwnerOK, RunsOK, JournalOK
  <2>7. RunsOK'
    BY <1>1, <2>6 DEF OwnerOK, RunsOK, Over, Created, Finished
  <2> QED
    BY <2>1, <2>5, <2>7 DEF OwnerOK
<1> QED
  BY <1>2, <1>3

\* The end of a connection takes what was asked for with it, and at most ends a run.
LEMMA BrokenOwner ==
    ASSUME TransportInv, JournalOK', Extended, OwnerOK, Disconnect \/ Crash
    PROVE  OwnerOK'
<1>1. proj' = proj /\ owner' = owner /\ requests' = <<>> /\ conv' = conv
  BY DEF Disconnect, Crash, Broken, clientVars, serverVars
<1>2. \A c \in Convs : proj'[c].run = proj[c].run /\ proj'[c].last = proj[c].last
  BY <1>1
<1>3. ChatsStay
  BY <1>1, EmptySeq DEF ChatsStay
<1> QED
  BY <1>1, <1>2, <1>3, OwnerStays

\* A page that connects again asks for a run it knows, if for anything.
LEMMA ReconnectOwner ==
    ASSUME TransportInv, JournalOK', Extended, OwnerOK, Reconnect
    PROVE  OwnerOK'
<1>1. proj' = proj /\ owner' = owner /\ conv' = conv
  BY DEF Reconnect, clientVars, serverVars
<1>2. \A c \in Convs : proj'[c].run = proj[c].run /\ proj'[c].last = proj[c].last
  BY <1>1
<1>3. ChatsStay
  <2>1. CASE requests' = <<>>
    BY <2>1, EmptySeq DEF ChatsStay
  <2>2. CASE requests' = <<Subscribe(active, cursor)>>
    <3>1. Len(requests') = 1 /\ requests'[1] = Subscribe(active, cursor)
      BY <2>2
    <3>2. Subscribe(active, cursor).type # "chat"
      BY DEF Subscribe
    <3> QED
      BY <3>1, <3>2 DEF ChatsStay
  <2> QED
    BY <2>1, <2>2 DEF Reconnect
<1> QED
  BY <1>1, <1>2, <1>3, OwnerStays

\* The threads, and a page that asks for a stop, leave the page's book alone.
LEMMA QuietOwner ==
    ASSUME TransportInv, JournalOK', Extended, OwnerOK,
           SendStop \/ UNCHANGED vars \/ \E r \in Runs : ThreadStep(r)
    PROVE  OwnerOK'
<1>1. proj' = proj /\ owner' = owner /\ conv' = conv
  <2>1. CASE SendStop \/ UNCHANGED vars
    BY <2>1 DEF SendStop, vars, serverVars, clientVars
  <2>2. ASSUME NEW r \in Runs, ThreadStep(r) PROVE proj' = proj /\ owner' = owner /\ conv' = conv
    BY <2>2 DEF ThreadStep, PersistLive, Look, Deliver, Retire, clientVars
  <2> QED
    BY <2>1, <2>2
<1>2. \A c \in Convs : proj'[c].run = proj[c].run /\ proj'[c].last = proj[c].last
  BY <1>1
<1>3. ChatsStay
  <2>1. CASE SendStop
    <3>1. PICK m : m = [type |-> "stop"]
      OBVIOUS
    <3>2. m \in Requests /\ m.type # "chat" /\ requests' = Append(requests, m)
      BY <2>1, <3>1 DEF SendStop, Requests
    <3> QED
      BY <3>2 DEF ChatsStay
  <2>2. CASE UNCHANGED vars
    BY <2>2 DEF vars, wireVars, ChatsStay
  <2>3. ASSUME NEW r \in Runs, ThreadStep(r) PROVE requests' = requests
    BY <2>3 DEF ThreadStep, PersistLive, Look, Deliver, Retire, wireVars
  <2> QED
    BY <2>1, <2>2, <2>3 DEF ChatsStay
<1> QED
  BY <1>1, <1>2, <1>3, OwnerStays

\* Where no conversation is sent to twice, every step keeps the page's book.
LEMMA OwnerStep ==
    ASSUME Resumed = {}, TransportInv, TransportInv', Extended, OwnerOK, [Next]_vars
    PROVE  OwnerOK'
<1>1. JournalOK'
  BY DEF TransportInv
<1> QED
  BY <1>1, HandleOwner, ReceiveOwner, SendChatOwner, BrokenOwner, ReconnectOwner, QuietOwner DEF Next

\* A page without runs waits for none.
LEMMA OwnerStarts == Init => OwnerOK
<1> SUFFICES ASSUME Init PROVE OwnerOK
  OBVIOUS
<1>1. ChatsOK
  BY EmptySeq DEF Init, ChatsOK
<1>2. RunsOK
  BY DEF Init, StoreInit, RunsOK, Created
<1> QED
  BY <1>1, <1>2 DEF OwnerOK, Init

(***************************************************************************)
(* The page implements RunFeed                                             *)
(***************************************************************************)

\* The view changes with what is shown, and with nothing else.
LEMMA ViewStays ==
    ASSUME \A c \in Convs : proj'[c].run = proj[c].run /\ proj'[c].shown = proj[c].shown
    PROVE  View' = View
  BY DEF View

\* A view that gets one event more.
LEMMA ShownLonger ==
    ASSUME NEW v, NEW a, NEW b, NEW x, v = [run |-> a, shown |-> b]
    PROVE  [v EXCEPT !.shown = Append(@, x)] = [run |-> a, shown |-> Append(b, x)]
  OBVIOUS

\* A projection that changes alone changes its conversation's view.
LEMMA ViewMoves ==
    ASSUME proj \in [Convs -> Projections], NEW c \in Convs, NEW q, proj' = [proj EXCEPT ![c] = q]
    PROVE  View' = [View EXCEPT ![c] = [run |-> q.run, shown |-> q.shown]]
  BY DEF View

\* A journal that has an end is the journal of a run that has ended.
LEMMA EndedIsFinished ==
    ASSUME JournalOK, NEW r \in Runs, Live(r)
    PROVE  ~ Feed!Ended(r)
<1>1. DOMAIN journal[r] = 1 .. Len(journal[r])
  BY LenProperties DEF JournalOK
<1> QED
  BY <1>1 DEF Feed!Ended, JournalOK, Live, Terminal

\* What is journaled grows the log of a run that has not ended.
LEMMA AppendGrows ==
    ASSUME JournalOK, NEW r \in Runs, NEW kind \in EventKinds, Appends(r, kind), View' = View
    PROVE  Feed!Next
<1>1. Feed!Grow(r, kind)
  BY EndedIsFinished DEF Feed!Grow, Appends
<1> QED
  BY <1>1 DEF Feed!Next

\* Reading an event shows the next of the run on display, begins the conversation's
\* run, or shows nothing.
LEMMA ReceiveShows ==
    ASSUME TransportInv, OwnerOK, Receive
    PROVE  Feed!Next \/ (View' = View /\ journal' = journal)
<1> USE DEF TransportInv
<1>u. journal' = journal
  BY DEF Receive, serverVars, storeVars
<1>1. CASE Head(outbox).run = NoRun
  <2>1. proj' = proj
    BY <1>1 DEF Receive, clientVars
  <2> QED
    BY <2>1, <1>u, ViewStays
<1>2. CASE Head(outbox).run # NoRun
  <2>1. PICK e \in EventSet, c \in Convs :
            /\ conv[e.run] = c /\ Journaled(e)
            /\ Ignores(e, c) \/ Shows(e, c) \/ Misses(e, c)
    BY <1>2, ReceiveEffect
  <2>2. ~ Foreign(proj[c], e) /\ e.run \in Runs
    BY <2>1, OneRunShown
  <2>3. PICK p \in Projections : p = proj[c]
    BY DEF ProjOK
  <2>4. CASE Ignores(e, c)
    <3>1. proj' = proj
      BY <2>4 DEF Ignores
    <3> QED
      BY <3>1, <1>u, ViewStays
  <2>5. CASE Misses(e, c)
    <3>1. PICK q : q = [p EXCEPT !.recovery = p.last]
      OBVIOUS
    <3>2. q.run = p.run /\ q.shown = p.shown
      BY <3>1 DEF Projections
    <3>3. proj' = [proj EXCEPT ![c] = q]
      BY <2>3, <2>5, <3>1 DEF Misses
    <3>4. \A d \in Convs : proj'[d].run = proj[d].run /\ proj'[d].shown = proj[d].shown
      BY <2>3, <3>2, <3>3 DEF ProjOK
    <3> QED
      BY <3>4, <1>u, ViewStays
  <2>6. CASE Shows(e, c)
    <3>1. PICK q \in Projections : q = Applied(p, e)
      BY AppliedEffect
    <3>2. /\ Follows(p, e) /\ proj' = [proj EXCEPT ![c] = q]
          /\ q.run = e.run /\ q.shown = Append(p.shown, e.kind)
      BY <2>2, <2>3, <2>6, <3>1, AppliedEffect DEF Shows, Opens
    <3>3. View' = [View EXCEPT ![c] = [run |-> e.run, shown |-> Append(p.shown, e.kind)]]
      <4>1. View' = [View EXCEPT ![c] = [run |-> q.run, shown |-> q.shown]]
        BY <3>2, ViewMoves DEF ProjOK
      <4> QED
        BY <4>1, <3>2
    <3>4. View[c] = [run |-> p.run, shown |-> p.shown] /\ View[c].run = p.run /\ View[c].shown = p.shown
      BY <2>3 DEF View
    <3>5. /\ e.seq = Len(p.shown) + 1 /\ e.seq <= Len(journal[e.run])
          /\ e.kind = journal[e.run][e.seq] /\ e.seq \in Nat /\ p.last = Len(p.shown)
          /\ p.run \in Runs \cup {NoRun} /\ (p.run = NoRun => p.last = 0)
      BY <2>1, <2>3, <3>2 DEF Follows, Journaled, EventSet, ProjOK, Projections
    <3>6. CASE p.run = e.run
      <4>1. [View[c] EXCEPT !.shown = Append(@, e.kind)] = [run |-> e.run, shown |-> Append(p.shown, e.kind)]
        BY <3>4, <3>6, ShownLonger
      <4>2. View' = [View EXCEPT ![c].shown = Append(@, e.kind)]
        BY <3>3, <3>4, <4>1
      <4>3. Feed!ShowNext(c)
        BY <1>u, <2>2, <3>4, <3>5, <3>6, <4>2 DEF Feed!ShowNext
      <4> QED
        BY <4>3 DEF Feed!Next
    <3>7. CASE p.run = NoRun
      <4>1. e.seq = 1 /\ p.shown = <<>>
        BY <3>5, <3>7, EmptySeq DEF Projections
      <4>2. Append(p.shown, e.kind) = <<journal[e.run][1]>>
        BY <4>1, <3>5
      <4>3. journal[e.run] # <<>> /\ View[c].run < e.run
        <5>1. Len(journal[e.run]) # 0
          BY <3>5, <4>1
        <5>2. e.run \in Nat \ {0} /\ View[c].run = 0
          BY <2>2, <3>4, <3>7, TransportAssumption DEF NoRun
        <5> QED
          BY <5>1, <5>2
      <4>4. Feed!ShowRun(c, e.run)
        BY <1>u, <3>3, <4>2, <4>3 DEF Feed!ShowRun
      <4> QED
        BY <4>4, <2>2 DEF Feed!Next
    <3> QED
      BY <2>2, <2>3, <3>5, <3>6, <3>7 DEF Foreign
  <2> QED
    BY <2>1, <2>4, <2>5, <2>6
<1> QED
  BY <1>1, <1>2

\* Every other step of the transport journals an event, or is not seen by a reader.
LEMMA FeedStep ==
    ASSUME TransportInv, OwnerOK, [Next]_vars
    PROVE  [Feed!Next]_<<journal, View>>
<1>1. CASE Receive
  BY <1>1, ReceiveShows
<1>2. CASE ~ Receive
  <2>1. proj' = proj
    BY <1>2, OnlyReceiveShows
  <2>2. View' = View
    BY <2>1, ViewStays
  <2>3. CASE Quiet \/ \E q \in Runs, c \in Convs : Begins(q, c)
    BY <2>2, <2>3 DEF Quiet, Begins
  <2>4. ASSUME NEW q \in Runs, NEW kind \in EventKinds, Appends(q, kind) PROVE Feed!Next
    BY <2>2, <2>4, AppendGrows DEF TransportInv
  <2> QED
    BY <2>3, <2>4, JournalChange DEF TransportInv
<1> QED
  BY <1>1, <1>2

\* Before anything is asked for nothing is journaled or shown.
LEMMA FeedStarts == Init => Feed!Init
  BY DEF Init, StoreInit, Feed!Init, View, NewProjection, NoRun

\* Where no conversation is sent to twice, the page keeps the promise of RunFeed:
\* whatever is lost, repeated, reordered or cut off by a crash, what it shows is
\* the log of each conversation's run, event by event from the first.
THEOREM PageImplementsFeed ==
    ASSUME Resumed = {}
    PROVE  Spec => ImplementsFeed
<1>1. TransportInv /\ OwnerOK /\ [Next]_vars => (TransportInv /\ OwnerOK)'
  BY TransportStep, OwnerStep
<1>2. TransportInv /\ OwnerOK /\ [Next]_vars => [Feed!Next]_<<journal, View>>
  BY FeedStep
<1> QED
  BY <1>1, <1>2, TransportStarts, OwnerStarts, FeedStarts, PTL DEF Spec, ImplementsFeed, Feed!Spec

\* Where no conversation is sent to twice, one that shows a run shows it for good.
LEMMA ShownRunStays ==
    ASSUME TransportInv, OwnerOK, [Next]_vars, NEW c \in Convs
    PROVE  proj'[c].run = proj[c].run \/ (proj[c].run = NoRun /\ proj'[c].run \in Runs)
<1> USE DEF TransportInv
<1>1. CASE ~ Receive \/ Head(outbox).run = NoRun
  <2>1. proj' = proj
    BY <1>1, OnlyReceiveShows DEF Receive, clientVars
  <2> QED
    BY <2>1
<1>2. CASE Receive /\ Head(outbox).run # NoRun
  <2>1. PICK e \in EventSet, d \in Convs :
            /\ conv[e.run] = d /\ Journaled(e)
            /\ Ignores(e, d) \/ Shows(e, d) \/ Misses(e, d)
    BY <1>2, ReceiveEffect
  <2>2. CASE Ignores(e, d)
    BY <2>2 DEF Ignores
  <2>3. CASE Misses(e, d)
    BY <2>3 DEF Misses, ProjOK, Projections
  <2>4. CASE Shows(e, d)
    <3>1. proj' = [proj EXCEPT ![d] = proj'[d]] /\ proj'[d].run = e.run
      BY <2>1, <2>4, ShownIsBeginning
    <3>2. (proj[d].run = NoRun \/ proj[d].run = e.run) /\ e.run \in Runs
      BY <2>1, OneRunShown DEF Foreign
    <3>3. c # d => proj'[c] = proj[c]
      BY <3>1 DEF ProjOK
    <3> QED
      BY <3>1, <3>2, <3>3
  <2> QED
    BY <2>1, <2>2, <2>3, <2>4
<1> QED
  BY <1>1, <1>2

\* Where no conversation is sent to twice, none goes back to an earlier run: the
\* property that the code loses as soon as one of them is.
THEOREM NeverBackUnresumed ==
    ASSUME Resumed = {}
    PROVE  Spec => NeverBack
<1>1. TransportInv /\ OwnerOK /\ [Next]_vars => (TransportInv /\ OwnerOK)'
  BY TransportStep, OwnerStep
<1>2. TransportInv /\ OwnerOK /\ [Next]_vars => [\A c \in Convs : proj[c].run <= proj'[c].run]_proj
  <2> SUFFICES ASSUME TransportInv, OwnerOK, [Next]_vars, NEW c \in Convs
               PROVE  proj[c].run <= proj'[c].run
    OBVIOUS
  <2>1. NoRun = 0 /\ \A r \in Runs : r \in Nat /\ 0 <= r
    BY TransportAssumption DEF NoRun
  <2>2. proj[c].run \in Runs \cup {NoRun}
    BY DEF TransportInv, ProjOK, Projections
  <2>3. proj'[c].run = proj[c].run \/ (proj[c].run = NoRun /\ proj'[c].run \in Runs)
    BY ShownRunStays
  <2>4. proj[c].run \in Nat
    BY <2>1, <2>2
  <2> QED
    BY <2>1, <2>3, <2>4
<1> QED
  BY <1>1, <1>2, TransportStarts, OwnerStarts, PTL DEF Spec, NeverBack
=============================================================================
