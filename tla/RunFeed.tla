------------------------------ MODULE RunFeed ------------------------------
(***************************************************************************)
(* What a reader of a run is promised (README.md "One ordered RunEvent     *)
(* contract", run_transport.py:55): every run has a log that only grows    *)
(* and grows no more after its end, and each conversation shows a prefix   *)
(* of the log of one of its runs, event by event, moving on to a later run *)
(* only at that run's first event.  Sockets, threads, replays and crashes  *)
(* are not mentioned: RunTransport implements this.                        *)
(***************************************************************************)
EXTENDS Naturals, Sequences

CONSTANTS Runs,     \* naturals from 1, in the order the runs were asked for
          Convs,    \* conversations
          Kinds,    \* kinds of events
          Ends      \* the kinds that end a run

VARIABLES log,      \* log[r]: the events of run r
          view      \* view[c]: the run conversation c shows (0: none), and what of it

Ended(r) == \E i \in DOMAIN log[r] : log[r][i] \in Ends

Init ==
    /\ log = [r \in Runs |-> <<>>]
    /\ view = [c \in Convs |-> [run |-> 0, shown |-> <<>>]]

Grow(r, kind) ==
    /\ ~Ended(r)
    /\ log' = [log EXCEPT ![r] = Append(@, kind)]
    /\ UNCHANGED view

\* Show the next event of the run that is on display.
ShowNext(c) ==
    LET r == view[c].run n == Len(view[c].shown) + 1 IN
    /\ r \in Runs
    /\ n <= Len(log[r])
    /\ view' = [view EXCEPT ![c].shown = Append(@, log[r][n])]
    /\ UNCHANGED log

\* Begin to show a later run, from its first event.
ShowRun(c, r) ==
    /\ view[c].run < r
    /\ log[r] # <<>>
    /\ view' = [view EXCEPT ![c] = [run |-> r, shown |-> <<log[r][1]>>]]
    /\ UNCHANGED log

Next ==
    \/ \E r \in Runs, kind \in Kinds : Grow(r, kind)
    \/ \E c \in Convs : ShowNext(c) \/ \E r \in Runs : ShowRun(c, r)

Spec == Init /\ [][Next]_<<log, view>>
=============================================================================
